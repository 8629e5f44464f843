--------------------------- MODULE FramingProofs ----------------------------
(***************************************************************************)
(* Proofs that SocketAdapter delivers whole frames in order, leaves none   *)
(* behind and drops a connection for cause only, for any buffer size,      *)
(* header size and frame lengths.                                          *)
(***************************************************************************)
EXTENDS SocketAdapter, SequenceTheorems, TLAPS

\* The frames lie in the stream one after the other.
Laid ==
  /\ frames = <<>> => written = 0
  /\ frames # <<>> =>
       /\ frames[1].start = 0
       /\ frames[Len(frames)].start + frames[Len(frames)].size = written
  /\ \A k \in 1..Len(frames) - 1 :
       frames[k + 1].start = frames[k].start + frames[k].size
  /\ \A j, k \in 1..Len(frames) :
       j < k => frames[j].start + frames[j].size <= frames[k].start

\* The first byte that has not been delivered begins the next frame.
Placed ==
  IF Len(delivered) < Len(frames)
  THEN frames[Len(delivered) + 1].start = taken - sz
  ELSE written = taken - sz

\* The buffer holds the last bytes taken, in their order.
Content ==
  \A i \in 0..buf_size - 1 :
    frame_begin <= i /\ i < cur_size => buffer[i] = taken - cur_size + i

\* Between two calls of do_read the buffer has room and starts with a frame.
Waiting == pc = "select" => frame_begin = 0 /\ cur_size < buf_size

\* The end of the stream is found after the client has closed its end, and a
\* reason is given when the adapter is deleted.
Ended ==
  /\ why \in {"remote", "reset"} => ended # "no"
  /\ why # "none" => pc = "deleted"

\* What is delivered is a sequence of data of the lengths clients write.
Listed == delivered \in Seq(UNION {[0..n - 1 -> Nat] : n \in Length})

FramingInv ==
  /\ TypeOK /\ Listed /\ Laid /\ Placed /\ Content /\ Waiting /\ Ended
  /\ DeliveredIntact /\ NothingStranded /\ DroppedForCause

\* Facts about the sizes and the frames that hold in every reachable state.
LEMMA Sizes ==
  ASSUME SizesAssumption, TypeOK, Listed
  PROVE  /\ cur_size \in 0..buf_size /\ frame_begin \in 0..cur_size
         /\ taken \in 0..written /\ written \in Nat /\ HEADER_SIZE \in Nat \ {0}
         /\ Len(delivered) \in Nat /\ Len(frames) \in Nat /\ buf_size \in Nat
         /\ Len(delivered) <= Len(frames)
         /\ \A k \in 1..Len(frames) :
              /\ frames[k] \in Frame
              /\ frames[k].start \in Nat /\ frames[k].size \in Nat
              /\ frames[k].size >= HEADER_SIZE
<1>1. \A k \in 1..Len(frames) : frames[k] \in Frame
  BY DEF TypeOK
<1>2. \A f \in Frame : f.start \in Nat /\ f.size \in Nat /\ f.size >= HEADER_SIZE
  BY DEF Frame, SizesAssumption
<1>3. Len(delivered) \in Nat /\ Len(frames) \in Nat
  BY DEF TypeOK, Listed
<1> QED BY <1>1, <1>2, <1>3 DEF TypeOK, SizesAssumption

\* In the loop of do_read a header is always found where next_frame looks for
\* one, and it is the header of the next frame.
LEMMA HeaderFound ==
  ASSUME SizesAssumption, FramingInv, sz >= HEADER_SIZE
  PROVE  /\ Len(delivered) < Len(frames)
         /\ Len(delivered) + 1 \in 1..Len(frames)
         /\ Announced = {Len(delivered) + 1}
         /\ Current = frames[Len(delivered) + 1]
         /\ Current \in Frame
<1> DEFINE d == Len(delivered) + 1
<1>1. /\ cur_size \in 0..buf_size /\ frame_begin \in 0..cur_size
      /\ taken \in 0..written /\ written \in Nat /\ HEADER_SIZE \in Nat \ {0}
      /\ Len(delivered) \in Nat /\ Len(frames) \in Nat /\ buf_size \in Nat
      /\ Len(delivered) <= Len(frames)
      /\ \A k \in 1..Len(frames) :
           /\ frames[k] \in Frame
           /\ frames[k].start \in Nat /\ frames[k].size \in Nat
           /\ frames[k].size >= HEADER_SIZE
  BY Sizes DEF FramingInv
<1>2. Len(delivered) < Len(frames) /\ d \in 1..Len(frames)
  BY <1>1 DEF FramingInv, Placed, sz
<1>3. frames[d].start = taken - sz
  BY <1>2 DEF FramingInv, Placed
<1>4. \A j \in 0..HEADER_SIZE - 1 : buffer[frame_begin + j] = frames[d].start + j
  BY <1>1, <1>3 DEF FramingInv, Content, sz
<1>5. ASSUME NEW k \in Announced
      PROVE  k = d
  <2>1. k \in 1..Len(frames) /\ buffer[frame_begin + 0] = frames[k].start + 0
    BY <1>1, <1>5 DEF Announced
  <2>2. frames[k].start = frames[d].start
    BY <1>1, <1>2, <1>4, <2>1
  <2>3. /\ k < d => frames[k].start + frames[k].size <= frames[d].start
        /\ d < k => frames[d].start + frames[d].size <= frames[k].start
    BY <1>2, <2>1 DEF FramingInv, Laid
  <2> QED BY <1>1, <1>2, <2>1, <2>2, <2>3
<1>6. Announced = {d}
  BY <1>2, <1>4, <1>5 DEF Announced
<1>7. Current = frames[d]
  BY <1>6 DEF Current
<1> QED BY <1>1, <1>2, <1>6, <1>7

\* The empty stream.
LEMMA FramingInit ==
  ASSUME SizesAssumption, Init
  PROVE  FramingInv
<1>1. TypeOK /\ Listed
  <2>1. buffer \in [0..buf_size - 1 -> Nat \cup {NoByte}]
    BY DEF Init
  <2>2. delivered \in Seq(UNION {[0..n - 1 -> Nat] : n \in Length})
    BY DEF Init
  <2>3. frames \in Seq(Frame) /\ Len(frames) = 0 /\ Len(delivered) = 0
    BY DEF Init
  <2>4. MaxFrames >= 0 /\ buf_size >= 0 /\ 0 \in 0..buf_size
    BY DEF SizesAssumption
  <2>5. /\ written \in Nat /\ taken \in 0..written
        /\ cur_size \in 0..buf_size /\ frame_begin \in 0..cur_size
        /\ Len(frames) <= MaxFrames /\ Len(delivered) <= Len(frames)
    BY <2>3, <2>4 DEF Init
  <2> QED BY <2>1, <2>2, <2>3, <2>5, Zenon DEF Init, TypeOK, Listed
<1>2. Laid /\ Placed
  BY DEF Init, Laid, Placed, sz
<1>4. Content /\ Waiting /\ Ended
  BY DEF Init, SizesAssumption, Content, Waiting, Ended
<1>3. DeliveredIntact /\ NothingStranded /\ DroppedForCause
  BY DEF Init, DeliveredIntact, NothingStranded, DroppedForCause
<1> QED BY <1>1, <1>2, <1>3, <1>4 DEF FramingInv

\* A frame is added at the end of the stream.
LEMMA FramingWrite ==
  ASSUME SizesAssumption, FramingInv, NEW n \in Length, Write(n)
  PROVE  FramingInv'
<1> DEFINE f == [start |-> written, size |-> n]
<1>1. /\ cur_size \in 0..buf_size /\ frame_begin \in 0..cur_size
      /\ taken \in 0..written /\ written \in Nat /\ HEADER_SIZE \in Nat \ {0}
      /\ Len(delivered) \in Nat /\ Len(frames) \in Nat /\ buf_size \in Nat
      /\ Len(delivered) <= Len(frames)
      /\ \A k \in 1..Len(frames) :
           /\ frames[k] \in Frame
           /\ frames[k].start \in Nat /\ frames[k].size \in Nat
           /\ frames[k].size >= HEADER_SIZE
  BY Sizes DEF FramingInv
<1>2. n \in Nat /\ n >= HEADER_SIZE /\ f \in Frame /\ f.start = written /\ f.size = n
  BY <1>1 DEF Frame, SizesAssumption
<1>3. /\ frames' = Append(frames, f) /\ written' = written + n
      /\ UNCHANGED <<ended, bufferVars, mapped, pc, why, delivered>>
      /\ Len(frames) < MaxFrames
  BY DEF Write
<1>4. frames \in Seq(Frame)
  BY DEF FramingInv, TypeOK, Listed
<1>5. /\ frames' \in Seq(Frame) /\ Len(frames') = Len(frames) + 1
      /\ \A k \in 1..Len(frames) : frames'[k] = frames[k]
      /\ frames'[Len(frames) + 1] = f
  BY <1>2, <1>3, <1>4
<1>6. TypeOK' /\ Listed'
  BY <1>1, <1>2, <1>3, <1>5 DEF FramingInv, TypeOK, Listed, bufferVars, SizesAssumption
<1>7. Laid'
  <2>1. /\ Len(frames) > 0 => /\ frames[1].start = 0
                             /\ frames[Len(frames)].start + frames[Len(frames)].size = written
        /\ Len(frames) = 0 => written = 0
        /\ \A k \in 1..Len(frames) - 1 :
             frames[k + 1].start = frames[k].start + frames[k].size
        /\ \A j, k \in 1..Len(frames) :
             j < k => frames[j].start + frames[j].size <= frames[k].start
    BY <1>4 DEF FramingInv, Laid
  <2>2. \A k \in 1..Len(frames) : frames[k].start + frames[k].size <= written
    <3> SUFFICES ASSUME NEW k \in 1..Len(frames)
                 PROVE  frames[k].start + frames[k].size <= written
      OBVIOUS
    <3>1. CASE k = Len(frames)
      BY <1>1, <2>1, <3>1
    <3>2. CASE k < Len(frames)
      <4>1. Len(frames) \in 1..Len(frames) /\ Len(frames) > 0
        BY <1>1, <3>2
      <4>2. frames[k].start + frames[k].size <= frames[Len(frames)].start
        BY <2>1, <3>2, <4>1
      <4>3. /\ frames[Len(frames)].start + frames[Len(frames)].size = written
            /\ frames[Len(frames)].start \in Nat /\ frames[Len(frames)].size \in Nat
            /\ frames[k].start \in Nat /\ frames[k].size \in Nat
        BY <1>1, <2>1, <4>1
      <4> QED BY <4>2, <4>3
    <3> QED BY <1>1, <3>1, <3>2
  <2>3. ASSUME NEW k \in 1..Len(frames') - 1
        PROVE  frames'[k + 1].start = frames'[k].start + frames'[k].size
    <3>1. CASE k = Len(frames)
      BY <1>1, <1>2, <1>5, <2>1, <3>1
    <3>2. CASE k < Len(frames)
      <4>1. k \in 1..Len(frames) - 1 /\ k + 1 \in 1..Len(frames) /\ k \in 1..Len(frames)
        BY <1>1, <3>2
      <4> QED BY <1>5, <2>1, <4>1
    <3> QED BY <1>1, <1>5, <3>1, <3>2
  <2>4. ASSUME NEW j \in 1..Len(frames'), NEW k \in 1..Len(frames'), j < k
        PROVE  frames'[j].start + frames'[j].size <= frames'[k].start
    <3>1. j \in 1..Len(frames) /\ frames'[j] = frames[j]
      BY <1>1, <1>5, <2>4
    <3>2. CASE k = Len(frames) + 1
      BY <1>2, <1>5, <2>2, <3>1, <3>2
    <3>3. CASE k \in 1..Len(frames)
      BY <1>5, <2>1, <2>4, <3>1, <3>3
    <3> QED BY <1>1, <1>5, <3>2, <3>3
  <2>5. frames'[1].start = 0
    BY <1>1, <1>2, <1>5, <2>1
  <2>6. frames'[Len(frames')].start + frames'[Len(frames')].size = written'
    BY <1>1, <1>2, <1>3, <1>5
  <2>7. frames' # <<>>
    BY <1>1, <1>5
  <2> QED BY <2>3, <2>4, <2>5, <2>6, <2>7, Zenon DEF Laid
<1>8. Placed'
  BY <1>1, <1>2, <1>3, <1>5 DEF FramingInv, Placed, sz, bufferVars
<1>9. Content' /\ Waiting' /\ Ended'
  BY <1>3 DEF FramingInv, Content, Waiting, Ended, bufferVars
<1>10. DeliveredIntact'
  BY <1>1, <1>3, <1>5 DEF FramingInv, DeliveredIntact, Bytes
<1>11. NothingStranded'
  <2>1. CASE Len(delivered) = Len(frames)
    BY <1>1, <1>2, <1>3, <1>5, <2>1 DEF NothingStranded, bufferVars
  <2>2. CASE Len(delivered) < Len(frames)
    <3>1. Len(delivered) + 1 \in 1..Len(frames)
      BY <1>1, <2>2
    <3>2. frames'[Len(delivered) + 1] = frames[Len(delivered) + 1]
      BY <1>5, <3>1
    <3> QED BY <1>3, <2>2, <3>2 DEF FramingInv, NothingStranded, bufferVars
  <2> QED BY <1>1, <2>1, <2>2
<1>12. DroppedForCause'
  BY <1>1, <1>3, <1>5 DEF FramingInv, DroppedForCause, Ended, Write
<1> QED BY <1>6, <1>7, <1>8, <1>9, <1>10, <1>11, <1>12 DEF FramingInv

\* Closing, and finding an adapter closed or a stream ended, leaves the frames and
\* the buffer alone.
LEMMA FramingClosed ==
  ASSUME SizesAssumption, FramingInv, End \/ Reset \/ Close \/ ReadFails
  PROVE  FramingInv'
<1>1. /\ UNCHANGED <<frames, written, bufferVars, delivered>>
      /\ ended' \in {"no", "closed", "reset"} /\ mapped' \in BOOLEAN
      /\ ended # "no" => ended' # "no"
      /\ ended = "reset" => ended' = "reset"
      /\ \/ pc' = pc /\ why' = why
         \/ pc' = "deleted" /\ ReadFails
  BY DEF End, Reset, Close, ReadFails, Delete, peerVars, bufferVars, FramingInv, TypeOK
<1>2. /\ cur_size \in 0..buf_size /\ buf_size \in Nat /\ taken \in 0..written
      /\ written \in Nat /\ frame_begin \in 0..cur_size
      /\ Len(delivered) \in Nat /\ Len(frames) \in Nat
      /\ Len(delivered) <= Len(frames)
      /\ \A k \in 1..Len(frames) : frames[k].start \in Nat /\ frames[k].size \in Nat
                                   /\ frames[k].size >= HEADER_SIZE
      /\ HEADER_SIZE \in Nat \ {0}
  BY Sizes DEF FramingInv
<1>3. ASSUME ReadFails
      PROVE  \/ why' = "closed"
             \/ why' = "reset" /\ ended' = "reset"
             \/ why' = "remote" /\ ended' = "closed" /\ taken = written
  <2>1. pc = "select" /\ Room # 0
    BY <1>2, <1>3 DEF ReadFails, Room, FramingInv, Waiting
  <2> QED BY <1>1, <1>3, <2>1 DEF ReadFails, Delete, peerVars
<1>4. ASSUME ReadFails, taken = written
      PROVE  Len(delivered) = Len(frames)
  <2> SUFFICES ASSUME Len(delivered) < Len(frames)
               PROVE  FALSE
    BY <1>2
  <2> DEFINE d == Len(delivered) + 1
  <2>1. d \in 1..Len(frames) /\ Len(frames) \in 1..Len(frames)
    BY <1>2
  <2>2. taken < frames[d].start + frames[d].size
    BY <1>4 DEF ReadFails, FramingInv, NothingStranded
  <2>3. frames[Len(frames)].start + frames[Len(frames)].size = written
    BY <1>2, <2>1 DEF FramingInv, Laid
  <2>4. d < Len(frames) => frames[d].start + frames[d].size <= frames[Len(frames)].start
    BY <2>1 DEF FramingInv, Laid
  <2>5. /\ frames[d].start \in Nat /\ frames[d].size \in Nat /\ written \in Nat
        /\ frames[Len(frames)].start \in Nat /\ frames[Len(frames)].size \in Nat
    BY <1>2, <2>1
  <2>6. d < Len(frames) \/ d = Len(frames)
    BY <1>2, <2>1
  <2>7. CASE d < Len(frames)
    <3> HIDE DEF d
    <3> QED BY <1>4, <2>2, <2>3, <2>4, <2>5, <2>7
  <2>8. CASE d = Len(frames)
    <3>1. taken < written
      BY <2>2, <2>3, <2>8
    <3> QED BY <1>4, <2>5, <3>1
  <2> QED BY <2>6, <2>7, <2>8
<1>5. TypeOK' /\ Listed'
  BY <1>1, <1>3 DEF FramingInv, TypeOK, Listed, bufferVars
<1>6. Laid' /\ Placed' /\ Content' /\ DeliveredIntact'
  BY <1>1 DEF FramingInv, Laid, Placed, Content, DeliveredIntact, sz, bufferVars
<1>7. Waiting' /\ NothingStranded'
  BY <1>1 DEF FramingInv, Waiting, NothingStranded, bufferVars
<1>8. Ended'
  BY <1>1, <1>3 DEF FramingInv, Ended
<1>9. DroppedForCause'
  BY <1>1, <1>3, <1>4 DEF FramingInv, DroppedForCause
<1> QED BY <1>5, <1>6, <1>7, <1>8, <1>9 DEF FramingInv

\* A read appends the next bytes of the stream.
LEMMA FramingRead ==
  ASSUME SizesAssumption, FramingInv, NEW c \in 1..written - taken, ReadSome(c)
  PROVE  FramingInv'
<1>1. /\ cur_size \in 0..buf_size /\ buf_size \in Nat /\ taken \in 0..written
      /\ written \in Nat /\ frame_begin \in 0..cur_size
      /\ Len(delivered) \in Nat /\ Len(frames) \in Nat
  BY Sizes DEF FramingInv
<1>2. /\ pc = "select" /\ c <= buf_size - cur_size
      /\ buffer' = [i \in 0..buf_size - 1 |->
                      IF i \in cur_size..cur_size + c - 1
                      THEN taken + (i - cur_size) ELSE buffer[i]]
      /\ cur_size' = cur_size + c /\ taken' = taken + c /\ pc' = "frames"
      /\ UNCHANGED <<frames, written, ended, frame_begin, mapped, why, delivered>>
  BY DEF ReadSome, Room, peerVars
<1>3. /\ c \in Nat \ {0} /\ cur_size' \in 0..buf_size /\ taken' \in 0..written
      /\ frame_begin \in 0..cur_size'
  BY <1>1, <1>2
<1>4. buffer' \in [0..buf_size - 1 -> Nat \cup {NoByte}]
  <2>1. \A i \in 0..buf_size - 1 : buffer[i] \in Nat \cup {NoByte}
    BY DEF FramingInv, TypeOK, Listed
  <2>2. \A i \in cur_size..cur_size + c - 1 : taken + (i - cur_size) \in Nat
    BY <1>1, <1>3
  <2> QED BY <1>2, <2>1, <2>2
<1>5. TypeOK' /\ Listed'
  BY <1>2, <1>3, <1>4 DEF FramingInv, TypeOK, Listed
<1>6. Laid' /\ DeliveredIntact' /\ DroppedForCause' /\ Ended'
  BY <1>2 DEF FramingInv, Laid, DeliveredIntact, DroppedForCause, Ended
<1>7. Placed'
  BY <1>1, <1>2, <1>3 DEF FramingInv, Placed, sz
<1>8. Content'
  <2> SUFFICES ASSUME NEW i \in 0..buf_size - 1, frame_begin <= i, i < cur_size'
               PROVE  buffer'[i] = taken' - cur_size' + i
    BY <1>2 DEF Content
  <2>1. CASE i < cur_size
    BY <1>1, <1>2, <1>3, <2>1 DEF FramingInv, Content
  <2>2. CASE i >= cur_size
    BY <1>1, <1>2, <1>3, <2>2
  <2> QED BY <1>1, <2>1, <2>2
<1>9. Waiting' /\ NothingStranded'
  BY <1>2 DEF Waiting, NothingStranded
<1> QED BY <1>5, <1>6, <1>7, <1>8, <1>9 DEF FramingInv

\* next_frame returns a frame: it is the next one, and the buffer holds all of it.
LEMMA FramingSuccess ==
  ASSUME SizesAssumption, FramingInv, Success
  PROVE  FramingInv'
<1> DEFINE d == Len(delivered) + 1
<1>1. /\ cur_size \in 0..buf_size /\ buf_size \in Nat /\ taken \in 0..written
      /\ written \in Nat /\ frame_begin \in 0..cur_size
      /\ Len(delivered) \in Nat /\ Len(frames) \in Nat
      /\ HEADER_SIZE \in Nat \ {0}
      /\ \A k \in 1..Len(frames) :
           /\ frames[k] \in Frame
           /\ frames[k].start \in Nat /\ frames[k].size \in Nat
           /\ frames[k].size >= HEADER_SIZE
  BY Sizes DEF FramingInv
<1>2. /\ pc = "frames" /\ next_frame = "success"
      /\ delivered' = Append(delivered, Data)
      /\ frame_begin' = frame_begin + Current.size /\ pc' = "frames"
      /\ UNCHANGED <<frames, written, ended, taken, buffer, cur_size, mapped, why>>
  BY DEF Success, AfterPut, peerVars
<1>3. sz >= HEADER_SIZE /\ Current.size <= sz /\ Data = Bytes(Current)
  <2>1. ~(sz < HEADER_SIZE) /\ ~Incomplete(Current.size)
    BY <1>2, Zenon DEF next_frame
  <2>2. sz \in Nat
    BY <1>1 DEF sz
  <2>3. sz >= HEADER_SIZE
    BY <1>1, <2>1, <2>2
  <2>4. Current.size \in Nat
    BY <1>1, <2>3, HeaderFound
  <2>5. Current.size <= sz
    BY <2>1, <2>2, <2>4 DEF Incomplete
  <2>6. Current = frames[d] /\ frames[d].start = taken - sz
    BY <1>1, <2>3, HeaderFound DEF FramingInv, Placed
  <2>7. \A j \in 0..frames[d].size - 1 :
          buffer[frame_begin + j] = frames[d].start + j
    <3> SUFFICES ASSUME NEW j \in 0..frames[d].size - 1
                 PROVE  buffer[frame_begin + j] = frames[d].start + j
      OBVIOUS
    <3> DEFINE i == frame_begin + j
    <3>1. j \in Nat /\ j < sz
      <4>1. frames[d].size \in Nat /\ frames[d].size <= sz
        BY <2>4, <2>5, <2>6
      <4> QED BY <2>2, <4>1
    <3>2. /\ frame_begin \in Nat /\ cur_size \in 0..buf_size /\ buf_size \in Nat
          /\ taken \in Nat /\ sz = cur_size - frame_begin
      BY <1>1 DEF sz
    <3>3. /\ i \in 0..buf_size - 1 /\ frame_begin <= i /\ i < cur_size
          /\ taken - cur_size + i = frames[d].start + j
      <4>1. i \in 0..buf_size - 1 /\ frame_begin <= i /\ i < cur_size
        BY <3>1, <3>2
      <4>2. frames[d].start = taken - cur_size + frame_begin
        BY <2>6, <3>2
      <4> QED BY <3>1, <3>2, <4>1, <4>2
    <3> HIDE DEF i
    <3>4. buffer[i] = taken - cur_size + i
      BY <3>3 DEF FramingInv, Content
    <3> QED BY <3>3, <3>4 DEF i
  <2>8. Data = Bytes(Current)
    BY <2>6, <2>7 DEF Data, Bytes
  <2> QED BY <2>3, <2>5, <2>8
<1>4. d \in 1..Len(frames) /\ Current = frames[d] /\ Len(delivered) < Len(frames)
  BY <1>3, HeaderFound
<1>5. /\ frame_begin' \in 0..cur_size
      /\ frames[d].start = taken - sz
  BY <1>1, <1>2, <1>3, <1>4 DEF FramingInv, Placed, sz
<1>6. Data \in UNION {[0..n - 1 -> Nat] : n \in Length}
  <2>1. frames[d].size \in Length
    BY <1>1, <1>4 DEF Frame
  <2>2. Data \in [0..frames[d].size - 1 -> Nat]
    BY <1>1, <1>3, <1>4 DEF Bytes
  <2> QED BY <2>1, <2>2
<1>7. /\ delivered' \in Seq(UNION {[0..n - 1 -> Nat] : n \in Length})
      /\ Len(delivered') = d /\ delivered'[d] = Data
      /\ \A k \in 1..Len(delivered) : delivered'[k] = delivered[k]
  <2> DEFINE S == UNION {[0..n - 1 -> Nat] : n \in Length}
             e == Data
  <2>1. delivered \in Seq(S) /\ e \in S /\ delivered' = Append(delivered, e)
    BY <1>2, <1>6 DEF FramingInv, TypeOK, Listed
  <2> HIDE DEF S, e
  <2>2. /\ delivered' \in Seq(S) /\ Len(delivered') = d /\ delivered'[d] = e
        /\ \A k \in 1..Len(delivered) : delivered'[k] = delivered[k]
    BY <2>1
  <2> QED BY <2>2, Zenon DEF S, e
<1>8. TypeOK' /\ Listed'
  <2>1. Len(delivered') <= Len(frames')
    BY <1>1, <1>2, <1>4, <1>7
  <2> QED BY <1>2, <1>5, <1>7, <2>1, Zenon DEF FramingInv, TypeOK, Listed
<1>9. Laid' /\ Ended'
  BY <1>2 DEF FramingInv, Laid, Ended
<1>10. Placed'
  <2>1. taken' - sz' = frames[d].start + frames[d].size
    <3>1. frames[d].size \in Nat /\ frame_begin' = frame_begin + frames[d].size
      BY <1>1, <1>2, <1>4
    <3>2. /\ taken' = taken /\ cur_size' = cur_size
          /\ frames[d].start = taken - (cur_size - frame_begin)
      BY <1>2, <1>5, Zenon DEF sz
    <3>3. frames[d].start \in Nat /\ taken \in Nat /\ cur_size \in Nat /\ frame_begin \in Nat
      BY <1>1, <1>4
    <3> DEFINE size == frames[d].size
               start == frames[d].start
    <3> HIDE DEF d, size, start
    <3>4. taken - (cur_size - (frame_begin + size)) = start + size
      BY <3>1, <3>2, <3>3 DEF size, start
    <3> QED BY <3>1, <3>2, <3>4, Zenon DEF sz, size, start
  <2>2. CASE d < Len(frames)
    <3>1. frames[d + 1].start = frames[d].start + frames[d].size
      BY <1>1, <1>4, <2>2 DEF FramingInv, Laid
    <3> QED BY <1>2, <1>7, <2>1, <2>2, <3>1 DEF Placed
  <2>3. CASE d = Len(frames)
    <3>1. frames[d].start + frames[d].size = written
      BY <1>1, <1>4, <2>3 DEF FramingInv, Laid
    <3> QED BY <1>1, <1>2, <1>7, <2>1, <2>3, <3>1 DEF Placed
  <2> QED BY <1>1, <1>4, <2>2, <2>3
<1>11. Content'
  BY <1>1, <1>2, <1>4 DEF FramingInv, Content
<1>12. Waiting' /\ NothingStranded'
  BY <1>2 DEF Waiting, NothingStranded
<1>13. DeliveredIntact'
  <2>1. delivered'[d] = Bytes(frames'[d])
    BY <1>2, <1>3, <1>4, <1>7
  <2>2. \A k \in 1..Len(delivered) : delivered'[k] = Bytes(frames'[k])
    BY <1>2, <1>7, Zenon DEF FramingInv, DeliveredIntact
  <2>3. \A k \in 1..d : k = d \/ k \in 1..Len(delivered)
    BY <1>1
  <2> QED BY <1>7, <2>1, <2>2, <2>3, Zenon DEF DeliveredIntact
<1>14. DroppedForCause'
  BY <1>2 DEF FramingInv, DroppedForCause, Ended
<1> QED BY <1>8, <1>9, <1>10, <1>11, <1>12, <1>13, <1>14 DEF FramingInv

\* next_frame wants more: what is left of the next frame moves to the front.
LEMMA FramingNoMore ==
  ASSUME SizesAssumption, FramingInv, NoMore
  PROVE  FramingInv'
<1>1. /\ cur_size \in 0..buf_size /\ buf_size \in Nat /\ taken \in 0..written
      /\ written \in Nat /\ frame_begin \in 0..cur_size
      /\ Len(delivered) \in Nat /\ Len(frames) \in Nat
      /\ HEADER_SIZE \in Nat \ {0} /\ HEADER_SIZE <= buf_size
      /\ \A k \in 1..Len(frames) :
           /\ frames[k].start \in Nat /\ frames[k].size \in Nat
           /\ frames[k].size >= HEADER_SIZE
  BY Sizes DEF FramingInv, SizesAssumption
<1>2. /\ pc = "frames" /\ next_frame = "enomore" /\ buffer' = Moved
      /\ frame_begin' = 0 /\ cur_size' = sz /\ pc' = "select"
      /\ UNCHANGED <<frames, written, ended, taken, mapped, why, delivered>>
  BY DEF NoMore, peerVars
<1>3. sz \in 0..buf_size /\ sz = cur_size - frame_begin
  BY <1>1 DEF sz
<1>4. \/ sz < HEADER_SIZE
      \/ ~(sz < HEADER_SIZE) /\ ~TooLong(Current.size) /\ Incomplete(Current.size)
  BY <1>2, Zenon DEF next_frame
<1>5. /\ sz < buf_size
      /\ Len(delivered) < Len(frames) => sz < frames[Len(delivered) + 1].size
  <2>1. CASE sz < HEADER_SIZE
    BY <1>1, <1>3, <2>1
  <2>2. CASE ~(sz < HEADER_SIZE)
    <3>1. /\ Len(delivered) + 1 \in 1..Len(frames)
          /\ Current = frames[Len(delivered) + 1]
      BY <1>1, <1>3, <2>2, HeaderFound
    <3>2. Current.size \in Nat
      BY <1>1, <3>1
    <3> QED BY <1>1, <1>3, <1>4, <2>2, <3>1, <3>2 DEF TooLong, Incomplete
  <2> QED BY <2>1, <2>2
<1>6. buffer' \in [0..buf_size - 1 -> Nat \cup {NoByte}]
  <2>1. \A i \in 0..buf_size - 1 : buffer[i] \in Nat \cup {NoByte}
    BY DEF FramingInv, TypeOK, Listed
  <2>2. \A i \in 0..buf_size - 1 : i < sz => frame_begin + i \in 0..buf_size - 1
    BY <1>1, <1>3
  <2> QED BY <1>2, <2>1, <2>2 DEF Moved
<1>7. TypeOK' /\ Listed'
  <2>1. cur_size' \in 0..buf_size /\ frame_begin' \in 0..cur_size'
    BY <1>2, <1>3
  <2> QED BY <1>2, <1>6, <2>1, Zenon DEF FramingInv, TypeOK, Listed
<1>8. Laid' /\ DeliveredIntact' /\ DroppedForCause' /\ Ended'
  BY <1>2 DEF FramingInv, Laid, DeliveredIntact, DroppedForCause, Ended
<1>9. sz' = sz
  BY <1>2, <1>3 DEF sz
<1>10. Placed'
  BY <1>2, <1>9, Zenon DEF FramingInv, Placed
<1>11. Content'
  <2> SUFFICES ASSUME NEW i \in 0..buf_size - 1, i < sz
               PROVE  buffer'[i] = taken - sz + i
    BY <1>2 DEF Content
  <2> DEFINE g == frame_begin + i
  <2>1. g \in 0..buf_size - 1 /\ frame_begin <= g /\ g < cur_size
    BY <1>1, <1>3
  <2>2. taken - cur_size + g = taken - sz + i
    BY <1>1, <1>3
  <2>3. buffer'[i] = buffer[g]
    BY <1>2 DEF Moved
  <2> HIDE DEF g
  <2>4. buffer[g] = taken - cur_size + g
    BY <2>1 DEF FramingInv, Content
  <2> QED BY <2>2, <2>3, <2>4
<1>12. Waiting'
  BY <1>2, <1>5 DEF Waiting
<1>13. NothingStranded'
  <2> SUFFICES ASSUME Len(delivered) < Len(frames)
               PROVE  LET f == frames[Len(delivered) + 1] IN taken < f.start + f.size
    BY <1>2 DEF NothingStranded
  <2>1. frames[Len(delivered) + 1].start = taken - sz
    BY DEF FramingInv, Placed
  <2>2. frames[Len(delivered) + 1].size \in Nat
    BY <1>1
  <2> QED BY <1>1, <1>3, <1>5, <2>1, <2>2
<1> QED BY <1>7, <1>8, <1>10, <1>11, <1>12, <1>13 DEF FramingInv

\* next_frame fails on a closed adapter or on a frame that does not fit: the
\* header of the next frame is always found.
LEMMA FramingFails ==
  ASSUME SizesAssumption, FramingInv, FrameFails
  PROVE  FramingInv'
<1> DEFINE d == Len(delivered) + 1
<1>1. /\ cur_size \in 0..buf_size /\ buf_size \in Nat /\ taken \in 0..written
      /\ written \in Nat /\ frame_begin \in 0..cur_size
      /\ Len(delivered) \in Nat /\ Len(frames) \in Nat
      /\ HEADER_SIZE \in Nat \ {0}
      /\ \A k \in 1..Len(frames) :
           frames[k].start \in Nat /\ frames[k].size \in Nat
  BY Sizes DEF FramingInv
<1>2. /\ pc = "frames" /\ next_frame \notin {"success", "enomore"}
      /\ pc' = "deleted" /\ why' = next_frame /\ mapped' = FALSE
      /\ UNCHANGED <<frames, written, ended, taken, buffer, cur_size, frame_begin, delivered>>
  BY DEF FrameFails, Delete, peerVars, bufferVars
<1>3. sz \in Nat /\ sz = cur_size - frame_begin
  BY <1>1 DEF sz
<1>4. \/ next_frame = "closed"
      \/ /\ next_frame = "enobuf" /\ Len(delivered) < Len(frames)
         /\ frames[d].size > buf_size
  <2> SUFFICES ASSUME mapped
               PROVE  /\ next_frame = "enobuf" /\ Len(delivered) < Len(frames)
                      /\ frames[d].size > buf_size
    BY DEF next_frame
  <2>1. ~(sz < HEADER_SIZE)
    BY <1>2, Zenon DEF next_frame
  <2>2. sz >= HEADER_SIZE
    BY <1>1, <1>3, <2>1
  <2>3. /\ Len(delivered) < Len(frames) /\ d \in 1..Len(frames)
        /\ Announced = {d} /\ Current = frames[d]
    BY <2>2, HeaderFound
  <2>4. CASE TooLong(Current.size)
    <3>1. next_frame = "enobuf"
      BY <2>1, <2>3, <2>4 DEF next_frame
    <3> QED BY <2>3, <2>4, <3>1 DEF TooLong
  <2>5. CASE ~TooLong(Current.size)
    <3>1. ~Incomplete(Current.size)
      BY <1>2, <2>1, <2>3, <2>5 DEF next_frame
    <3>2. next_frame = "success"
      BY <2>1, <2>3, <2>5, <3>1 DEF next_frame
    <3> QED BY <1>2, <3>2
  <2> QED BY <2>4, <2>5
<1>5. TypeOK' /\ Listed'
  BY <1>2, <1>4, Zenon DEF FramingInv, TypeOK, Listed
<1>6. Laid' /\ Placed' /\ Content' /\ DeliveredIntact'
  BY <1>2 DEF FramingInv, Laid, Placed, Content, DeliveredIntact, sz
<1>7. Waiting' /\ NothingStranded'
  BY <1>2 DEF Waiting, NothingStranded
<1>8. Ended' /\ DroppedForCause'
  BY <1>2, <1>4 DEF Ended, DroppedForCause
<1> QED BY <1>5, <1>6, <1>7, <1>8 DEF FramingInv

LEMMA FramingStep ==
  ASSUME SizesAssumption, FramingInv, [Next]_vars
  PROVE  FramingInv'
<1>1. CASE \E n \in Length : Write(n)
  BY <1>1, FramingWrite
<1>2. CASE End \/ Reset \/ Close \/ ReadFails
  BY <1>2, FramingClosed
<1>3. CASE \E c \in 1..written - taken : ReadSome(c)
  BY <1>3, FramingRead
<1>4. CASE Success
  BY <1>4, FramingSuccess
<1>5. CASE NoMore
  BY <1>5, FramingNoMore
<1>6. CASE FrameFails
  BY <1>6, FramingFails
<1>7. CASE UNCHANGED vars
  <2>1. UNCHANGED <<frames, written, ended, taken, buffer, cur_size, frame_begin,
                    mapped, pc, why, delivered>>
    BY <1>7 DEF vars, peerVars, bufferVars
  <2>2. TypeOK' = TypeOK /\ Listed' = Listed /\ Laid' = Laid
    BY <2>1, Zenon DEF TypeOK, Listed, Laid, sz
  <2>3. Placed' = Placed /\ Content' = Content
    BY <2>1, Zenon DEF Placed, Content, sz
  <2>4. Waiting' = Waiting /\ Ended' = Ended
    BY <2>1, Zenon DEF Waiting, Ended, sz
  <2>5. DeliveredIntact' = DeliveredIntact /\ NothingStranded' = NothingStranded
    BY <2>1, Zenon DEF DeliveredIntact, NothingStranded, sz
  <2>6. DroppedForCause' = DroppedForCause
    BY <2>1, Zenon DEF DroppedForCause
  <2> QED BY <2>2, <2>3, <2>4, <2>5, <2>6, Zenon DEF FramingInv
<1> QED BY <1>1, <1>2, <1>3, <1>4, <1>5, <1>6, <1>7 DEF Next, PollStep

LEMMA FramingInvariant == Spec => []FramingInv
<1>1. Init => FramingInv
  BY SizesAssumption, FramingInit
<1>2. FramingInv /\ [Next]_vars => FramingInv'
  BY SizesAssumption, FramingStep
<1> QED BY <1>1, <1>2, PTL DEF Spec

\* The counts of SocketAdapter stay within the buffer: what has been read and not
\* handled fits between frame_begin and cur_size.
THEOREM FramingTypes == Spec => []TypeOK
<1>1. FramingInv => TypeOK
  BY DEF FramingInv
<1> QED BY <1>1, FramingInvariant, PTL

\* Whatever the buffer size, the frame lengths and the pieces in which the bytes
\* arrive, put is given the frames the client wrote, whole and in order.
THEOREM FramesIntact == Spec => []DeliveredIntact
<1>1. FramingInv => DeliveredIntact
  BY DEF FramingInv
<1> QED BY <1>1, FramingInvariant, PTL

\* do_read never goes back to select with a whole frame in the buffer.
THEOREM NoneStranded == Spec => []NothingStranded
<1>1. FramingInv => NothingStranded
  BY DEF FramingInv
<1> QED BY <1>1, FramingInvariant, PTL

\* The poll thread drops a connection only when it has ended, was closed by the
\* dispatcher or announced a frame longer than the buffer.
THEOREM DropsJustified == Spec => []DroppedForCause
<1>1. FramingInv => DroppedForCause
  BY DEF FramingInv
<1> QED BY <1>1, FramingInvariant, PTL
=============================================================================
