--------------------------- MODULE SocketAdapter ----------------------------
(***************************************************************************)
(* The server end of a connection as a reader of frames:                   *)
(* SocketAdapter::read and next_frame (src/src/sock-adap.cc), driven by    *)
(* SocketPoll::do_read (src/src/sock-poll.cc).                             *)
(*                                                                         *)
(* A byte is known by its place in the stream the client has written, so   *)
(* that a byte that is lost, repeated or moved to a wrong place shows.     *)
(***************************************************************************)
EXTENDS Integers, Sequences

CONSTANTS
  buf_size,     \* SocketAdapter::buf_size
  HEADER_SIZE,  \* the bytes of a frame that tell its length
  Length,       \* the lengths of frames clients write
  MaxFrames     \* bound: frames a client writes

ASSUME SizesAssumption ==
  /\ HEADER_SIZE \in Nat \ {0}
  /\ buf_size \in Nat /\ HEADER_SIZE <= buf_size
  /\ Length \subseteq Nat /\ \A n \in Length : HEADER_SIZE <= n
  /\ MaxFrames \in Nat

VARIABLES
  frames,      \* the frames the client has written, as intervals of the stream
  written,     \* bytes the client has written
  ended,       \* how the client has ended the stream, if it has
  taken,       \* bytes read from the socket
  buffer,      \* SocketAdapter::buffer
  cur_size,    \* SocketAdapter::cur_size
  frame_begin, \* SocketAdapter::frame_begin
  mapped,      \* buffer # nullptr
  pc,          \* the poll thread: in select, in the loop of do_read, or done
  why,         \* what made it delete the adapter
  delivered    \* the data given to Dispatcher::put

peerVars   == <<frames, written, ended>>
bufferVars == <<taken, buffer, cur_size, frame_begin>>
vars       == <<peerVars, bufferVars, mapped, pc, why, delivered>>

NoByte == -1

Frame == [start : Nat, size : Length]

Bytes(f) == [j \in 0..f.size - 1 |-> f.start + j]

TypeOK ==
  /\ frames \in Seq(Frame) /\ Len(frames) <= MaxFrames
  /\ written \in Nat /\ taken \in 0..written
  /\ ended \in {"no", "closed", "reset"} /\ mapped \in BOOLEAN
  /\ buffer \in [0..buf_size - 1 -> Nat \cup {NoByte}]
  /\ cur_size \in 0..buf_size /\ frame_begin \in 0..cur_size
  /\ pc \in {"select", "frames", "deleted"}
  /\ why \in {"none", "closed", "remote", "reset", "full", "eproto", "enobuf"}
  /\ Len(delivered) <= Len(frames)

Init ==
  /\ frames = <<>> /\ written = 0 /\ ended = "no"
  /\ taken = 0 /\ buffer = [i \in 0..buf_size - 1 |-> NoByte]
  /\ cur_size = 0 /\ frame_begin = 0
  /\ mapped = TRUE /\ pc = "select" /\ why = "none" /\ delivered = <<>>
-----------------------------------------------------------------------------
(***************************************************************************)
(* The client, and the dispatcher thread.                                  *)
(***************************************************************************)

\* SocketConn::send.  What it writes may arrive in any pieces.
Write(n) ==
  /\ ended = "no" /\ Len(frames) < MaxFrames
  /\ frames' = Append(frames, [start |-> written, size |-> n])
  /\ written' = written + n
  /\ UNCHANGED <<ended, bufferVars, mapped, pc, why, delivered>>

End ==
  /\ ended = "no"
  /\ ended' = "closed"
  /\ UNCHANGED <<frames, written, bufferVars, mapped, pc, why, delivered>>

\* A TCP connection breaks: what the adapter has not read is lost.
Reset ==
  /\ ended # "reset"
  /\ ended' = "reset"
  /\ UNCHANGED <<frames, written, bufferVars, mapped, pc, why, delivered>>

\* The dispatcher closes the adapter, because of a request it rejects or a
\* write that fails.
Close ==
  /\ mapped
  /\ mapped' = FALSE
  /\ UNCHANGED <<peerVars, bufferVars, pc, why, delivered>>
-----------------------------------------------------------------------------
(***************************************************************************)
(* do_read: one read, then next_frame until it wants more.                 *)
(***************************************************************************)

Room_whole == buf_size

Room == buf_size - cur_size

\* do_read returns false: run closes and erases the adapter.
Delete(reason) ==
  /\ pc' = "deleted" /\ why' = reason /\ mapped' = FALSE
  /\ UNCHANGED <<peerVars, bufferVars, delivered>>

\* A read into no room returns 0 as the end of the stream does.
ReadFails ==
  /\ pc = "select"
  /\ \/ ~mapped \/ ended = "reset"
     \/ taken = written /\ ended = "closed"
     \/ taken < written /\ Room = 0
  /\ Delete(IF ~mapped THEN "closed" ELSE IF ended = "reset" THEN "reset"
            ELSE IF taken = written THEN "remote" ELSE "full")

ReadSome(c) ==
  /\ pc = "select" /\ mapped /\ ended # "reset"
  /\ c <= Room
  /\ buffer' = [i \in 0..buf_size - 1 |->
                  IF i \in cur_size..cur_size + c - 1 THEN taken + (i - cur_size)
                  ELSE buffer[i]]
  /\ cur_size' = cur_size + c
  /\ taken' = taken + c
  /\ pc' = "frames"
  /\ UNCHANGED <<peerVars, frame_begin, mapped, why, delivered>>

sz == cur_size - frame_begin

\* Caps::binary_info finds the header of a frame at frame_begin.
Announced ==
  {k \in 1..Len(frames) : \A j \in 0..HEADER_SIZE - 1 :
     buffer[frame_begin + j] = frames[k].start + j}

TooLong_or_equal(length) == length >= buf_size

TooLong(length) == length > buf_size

Incomplete_or_whole(length) == length >= sz

Incomplete(length) == length > sz

Moved_not == buffer

Moved == [i \in 0..buf_size - 1 |->
            IF i < sz THEN buffer[frame_begin + i] ELSE buffer[i]]

\* The frame whose header is at frame_begin, and the data returned for it.
Current == frames[CHOOSE k \in Announced : TRUE]

Data == [j \in 0..Current.size - 1 |-> buffer[frame_begin + j]]

\* What next_frame returns.  put then fails only on data that does not parse, which
\* DeliveredIntact rules out.
next_frame ==
  IF ~mapped THEN "closed"
  ELSE IF sz < HEADER_SIZE THEN "enomore"
  ELSE IF Announced = {} THEN "eproto"
  ELSE IF TooLong(Current.size) THEN "enobuf"
  ELSE IF Incomplete(Current.size) THEN "enomore"
  ELSE "success"

AfterPut_returns == "select"

AfterPut == "frames"

Success ==
  /\ pc = "frames" /\ next_frame = "success"
  /\ delivered' = Append(delivered, Data)
  /\ frame_begin' = frame_begin + Current.size
  /\ pc' = AfterPut
  /\ UNCHANGED <<peerVars, taken, buffer, cur_size, mapped, why>>

\* The label nomore of next_frame: what is left moves to the front.
NoMore ==
  /\ pc = "frames" /\ next_frame = "enomore"
  /\ buffer' = Moved
  /\ frame_begin' = 0
  /\ cur_size' = sz
  /\ pc' = "select"
  /\ UNCHANGED <<peerVars, taken, mapped, why, delivered>>

FrameFails ==
  /\ pc = "frames" /\ next_frame \notin {"success", "enomore"}
  /\ Delete(next_frame)
-----------------------------------------------------------------------------
PollStep ==
  \/ ReadFails
  \/ \E c \in 1..written - taken : ReadSome(c)
  \/ Success \/ NoMore \/ FrameFails

Next == (\E n \in Length : Write(n)) \/ End \/ Reset \/ Close \/ PollStep

Spec == Init /\ [][Next]_vars

\* The poll thread keeps running; neither client nor dispatcher has to act.
FairSpec == Spec /\ WF_vars(PollStep)
-----------------------------------------------------------------------------
\* What put is given is the frames the client wrote, each whole, unmixed and in
\* order, however the bytes were split over reads and moved in the buffer.
DeliveredIntact ==
  \A k \in 1..Len(delivered) : delivered[k] = Bytes(frames[k])

\* When the poll thread goes back to select, which may never return, no frame
\* that has been read completely is left in the buffer.
NothingStranded ==
  pc = "select" /\ Len(delivered) < Len(frames) =>
    LET f == frames[Len(delivered) + 1] IN taken < f.start + f.size

\* The poll thread deletes the adapter because the dispatcher closed it, because
\* the connection broke, because a frame does not fit in the buffer, or after it
\* has delivered everything the client wrote.  It never takes a full buffer for the end of the stream, and
\* never reads a length at a wrong place.
DroppedForCause ==
  /\ why \in {"none", "closed", "reset", "remote", "enobuf"}
  /\ why = "reset" => ended = "reset"
  /\ why = "remote" => Len(delivered) = Len(frames)
  /\ why = "enobuf" => /\ Len(delivered) < Len(frames)
                       /\ frames[Len(delivered) + 1].size > buf_size

\* Every frame is delivered, unless the adapter is deleted.
FrameArrives ==
  \A k \in 1..MaxFrames :
    Len(frames) >= k ~> (Len(delivered) >= k \/ pc = "deleted")
=============================================================================
