--------------------------- MODULE ReceiveProofs ----------------------------
(***************************************************************************)
(* Proofs about Wire and ClientReceive: every message is read as it was    *)
(* written, wherever the reads of the stream end.                          *)
(***************************************************************************)
EXTENDS ClientReceive, FiniteSetTheorems, SequenceTheorems, TLAPS

\* The place in the stream of what is at off.
Pos == taken - Rest

\* The messages lie in the stream one after the other.
Laid ==
  /\ frames = <<>> => written = 0
  /\ frames # <<>> =>
       /\ frames[1].start = 0
       /\ frames[Len(frames)].start + frames[Len(frames)].size = written
  /\ \A k \in 1..Len(frames) - 1 :
       frames[k + 1].start = frames[k].start + frames[k].size
  /\ \A j, k \in 1..Len(frames) :
       j < k => frames[j].start + frames[j].size <= frames[k].start

\* What the service may send, and when.
Kinds ==
  \A k \in 1..Len(frames) :
    /\ frames[k].msg.kind \notin Unimplemented
    /\ frames[k].msg.kind = "auth" <=> k = 1
    /\ frames[k].msg.kind \in {"post", "call", "reply"} => cli_callback

\* The buffer holds the last bytes taken, in their order.
Content ==
  /\ \A i \in 1..Len(rbuffer) : rbuffer[i] = taken - Len(rbuffer) + i - 1
  /\ pc = "recv" => off = 0

\* The first h messages have been handled.
Handled(h) ==
  /\ IF h < Len(frames) THEN frames[h + 1].start = Pos ELSE written = Pos
  /\ authorized <=> h > 0
  /\ Len(given) = UpTo(h)

Progress == \E h \in 0..Len(frames) : Handled(h)

\* No message is refused.
Accepted == err # "message"

ReceiveInv ==
  TypeOK /\ Laid /\ Kinds /\ Content /\ Progress /\ Accepted /\ GivenIntact /\ RequestIntact
-----------------------------------------------------------------------------
(***************************************************************************)
(* Wire: a parser that reads the fields a serializer has written.          *)
(***************************************************************************)

\* Field by field, after the first skip.
Holds(caps, skip, layout, m) ==
  \A i \in DOMAIN layout :
    /\ skip + i \in DOMAIN caps
    /\ caps[skip + i][1] = layout[i][1] /\ caps[skip + i][2] = m[layout[i][2]]

\* Caps: what was written is read.
LEMMA ReadsBack ==
  ASSUME NEW layout, NEW optional, NEW skip, NEW caps, NEW m,
         Holds(caps, skip, layout, m)
  PROVE  Read(layout, optional, skip, caps) = [n \in Fields(layout) |-> m[n]]
<1> DEFINE Name(i)     == layout[i][2]
           Readable(i) == skip + i \in DOMAIN caps /\ caps[skip + i][1] = layout[i][1]
           Place(n)    == CHOOSE i \in DOMAIN layout : Name(i) = n
           Value(n)    == IF Readable(Place(n)) THEN caps[skip + Place(n)][2] ELSE 0
<1>1. \A i \in DOMAIN layout : Readable(i)
  BY Zenon DEF Holds
<1>2. Read(layout, optional, skip, caps) = [n \in {Name(i) : i \in DOMAIN layout} |-> Value(n)]
  <2>1. ~\E i \in DOMAIN layout : ~Readable(i) /\ Name(i) \notin optional
    BY <1>1, Zenon
  <2> QED BY <2>1, Zenon DEF Read
<1>3. ASSUME NEW n \in Fields(layout)
      PROVE  Value(n) = m[n]
  <2>1. PICK i \in DOMAIN layout : Name(i) = n
    BY <1>3, Zenon DEF Fields
  <2>2. Place(n) \in DOMAIN layout /\ Name(Place(n)) = n
    BY <2>1, Zenon
  <2> HIDE DEF Place
  <2>3. caps[skip + Place(n)][2] = m[n]
    BY <2>2, Zenon DEF Holds
  <2> QED BY <1>1, <2>2, <2>3, Zenon
<1>4. Fields(layout) = {Name(i) : i \in DOMAIN layout}
  BY Zenon DEF Fields
<1> HIDE DEF Name, Value
<1> QED BY <1>2, <1>3, <1>4, Zenon

LEMMA Joined ==
  ASSUME NEW A, NEW head \in Seq(A), NEW B, NEW tail \in Seq(B)
  PROVE  /\ Len(head) \in Nat /\ Len(tail) \in Nat
         /\ Len(head \o tail) = Len(head) + Len(tail)
         /\ DOMAIN (head \o tail) = 1..Len(head) + Len(tail)
         /\ \A i \in 1..Len(head) : (head \o tail)[i] = head[i]
         /\ \A i \in 1..Len(tail) : (head \o tail)[Len(head) + i] = tail[i]
         /\ head \o tail \in Seq(A \cup B)
<1>1. head \in Seq(A \cup B) /\ tail \in Seq(A \cup B)
  BY SMT
<1> QED BY <1>1, SMT

IsLayout(layout) == Len(layout) \in Nat /\ DOMAIN layout = 1..Len(layout)

\* A serializer writes one field for each of its layout.
LEMMA WriteIs ==
  ASSUME NEW layout, IsLayout(layout), NEW m
  PROVE  /\ Write(layout, m) \in Seq({<<layout[i][1], m[layout[i][2]]>> : i \in DOMAIN layout})
         /\ Len(Write(layout, m)) = Len(layout) /\ DOMAIN layout = 1..Len(layout)
         /\ \A i \in 1..Len(layout) : Write(layout, m)[i] = <<layout[i][1], m[layout[i][2]]>>
<1>1. DOMAIN layout = 1..Len(layout) /\ Len(layout) \in Nat
  BY Zenon DEF IsLayout
<1>2. Write(layout, m) = [i \in 1..Len(layout) |-> <<layout[i][1], m[layout[i][2]]>>]
  BY <1>1, Zenon DEF Write
<1> DEFINE R == {<<layout[i][1], m[layout[i][2]]>> : i \in DOMAIN layout}
           e(i) == <<layout[i][1], m[layout[i][2]]>>
<1>3. \A i \in 1..Len(layout) : e(i) \in R
  BY <1>1, Zenon
<1> HIDE DEF R, e
<1>4. [i \in 1..Len(layout) |-> e(i)] \in Seq(R) /\ Len([i \in 1..Len(layout) |-> e(i)]) = Len(layout)
  BY <1>1, <1>3, SMT
<1> QED BY <1>1, <1>2, <1>4, Zenon DEF R, e

LEMMA WrittenHolds ==
  ASSUME NEW A, NEW head \in Seq(A), NEW layout, IsLayout(layout), NEW m
  PROVE  /\ Holds(head \o Write(layout, m), Len(head), layout, m)
         /\ \A i \in 1..Len(head) : (head \o Write(layout, m))[i] = head[i]
<1> DEFINE tail == Write(layout, m)
           R    == {<<layout[i][1], m[layout[i][2]]>> : i \in DOMAIN layout}
<1>1. /\ tail \in Seq(R) /\ Len(tail) = Len(layout) /\ DOMAIN layout = 1..Len(layout)
      /\ \A i \in 1..Len(layout) : tail[i] = <<layout[i][1], m[layout[i][2]]>>
  BY WriteIs, Zenon
<1> HIDE DEF tail, R
<1>2. /\ Len(head) \in Nat /\ Len(tail) \in Nat
      /\ DOMAIN (head \o tail) = 1..Len(head) + Len(tail)
      /\ \A i \in 1..Len(head) : (head \o tail)[i] = head[i]
      /\ \A i \in 1..Len(tail) : (head \o tail)[Len(head) + i] = tail[i]
  <2>1. tail \in Seq(R)
    BY <1>1
  <2> QED BY <2>1, Joined
<1>3. ASSUME NEW i \in DOMAIN layout
      PROVE  /\ Len(head) + i \in DOMAIN (head \o tail)
             /\ (head \o tail)[Len(head) + i] = <<layout[i][1], m[layout[i][2]]>>
  BY <1>1, <1>2, SMT
<1>4. ASSUME NEW i \in DOMAIN layout
      PROVE  /\ (head \o tail)[Len(head) + i][1] = layout[i][1]
             /\ (head \o tail)[Len(head) + i][2] = m[layout[i][2]]
  BY <1>3, SMT
<1>5. Holds(head \o tail, Len(head), layout, m)
  BY <1>3, <1>4, Zenon DEF Holds
<1> QED BY <1>2, <1>5, Zenon DEF tail
-----------------------------------------------------------------------------
(***************************************************************************)
(* Requests.                                                               *)
(***************************************************************************)
LEMMA RequestLayout ==
  ASSUME NEW kind \in DOMAIN RequestCmd
  PROVE  IsLayout(RequestWritten(kind))
<1>1. kind \in {"auth", "subscribe", "unsubscribe", "post", "reply", "declare_method",
                "remove_method", "call", "ping"}
  BY SMT DEF RequestCmd
<1>2. CASE kind = "auth"
  <2>1. RequestWritten(kind)
          = <<<<I, "version">>, <<S, "extra">>, <<I, "pid">>, <<I, "flags">>>>
    BY <1>2, SMT DEF RequestWritten, Named
  <2> QED BY <2>1, SMT DEF IsLayout
<1>3. CASE kind \in Named
  <2>1. RequestWritten(kind) = <<<<S, "name">>>>
    BY <1>3, SMT DEF RequestWritten, Named
  <2> QED BY <2>1, SMT DEF IsLayout
<1>4. CASE kind = "post"
  <2>1. RequestWritten(kind) = <<<<I, "msgtype">>, <<S, "name">>, <<O, "args">>>>
    BY <1>4, SMT DEF RequestWritten, Named
  <2> QED BY <2>1, SMT DEF IsLayout
<1>5. CASE kind = "call"
  <2>1. RequestWritten(kind)
          = <<<<S, "name">>, <<S, "target">>, <<I, "id">>, <<I, "timeout">>, <<O, "args">>>>
    BY <1>5, SMT DEF RequestWritten, Named
  <2> QED BY <2>1, SMT DEF IsLayout
<1>6. CASE kind = "reply"
  <2>1. RequestWritten(kind) = <<<<I, "id">>, <<I, "code">>, <<O, "values">>>>
    BY <1>6, SMT DEF RequestWritten, Named
  <2> QED BY <2>1, SMT DEF IsLayout
<1>7. CASE kind = "ping"
  <2>1. RequestWritten(kind) = <<>>
    BY <1>7, SMT DEF RequestWritten, Named
  <2> QED BY <2>1, SMT DEF IsLayout
<1> QED BY <1>1, <1>2, <1>3, <1>4, <1>5, <1>6, <1>7, Zenon DEF Named

\* The command of a request leads to its handler.
LEMMA RequestHandler ==
  ASSUME NEW kind \in DOMAIN RequestCmd
  PROVE  msg_handlers[RequestCmd[kind] + 1] = kind
BY SMT DEF RequestCmd, msg_handlers

\* RequestSerializer, Dispatcher::handle_cmd and RequestParser, for all values of
\* the fields.
THEOREM RequestsReadBack ==
  ASSUME NEW q, IsRequest(q)
  PROVE  RequestGot(Request(q.kind, q.fields)) = [kind |-> q.kind, got |-> q.fields]
<1> DEFINE kind   == q.kind
           m      == q.fields
           layout == RequestWritten(kind)
           head   == <<<<I, RequestCmd[kind]>>>>
           caps   == head \o Write(layout, m)
<1>1. kind \in DOMAIN RequestCmd /\ Has(m, layout)
  BY Zenon DEF IsRequest
<1>2. IsLayout(layout)
  BY <1>1, RequestLayout, Zenon
<1>3. head \in Seq({<<I, RequestCmd[kind]>>}) /\ Len(head) = 1 /\ 1 \in 1..Len(head)
      /\ head[1][2] = RequestCmd[kind]
  BY SMT
<1>4. Request(kind, m) = caps
  BY Zenon DEF Request
<1> HIDE DEF kind, m, layout, head
<1>5. Holds(caps, 1, layout, m) /\ caps[1][2] = RequestCmd[kind]
  <2>1. Holds(caps, Len(head), layout, m) /\ \A i \in 1..Len(head) : caps[i] = head[i]
    BY <1>2, <1>3, WrittenHolds
  <2> QED BY <1>3, <2>1, Zenon
<1> HIDE DEF caps
<1>6. msg_handlers[caps[1][2] + 1] = kind
  BY <1>1, <1>5, RequestHandler, Zenon
<1>7. RequestRead(kind) = layout
  BY Zenon DEF RequestRead, RequestWritten, layout
<1>8. ASSUME NEW optional
      PROVE  Read(layout, optional, 1, caps) = m
  <2>1. Read(layout, optional, 1, caps) = [n \in Fields(layout) |-> m[n]]
    BY <1>5, ReadsBack
  <2> QED BY <1>1, <2>1, Zenon DEF Has
<1>9. RequestGot(caps) = [kind |-> kind, got |-> m]
  BY <1>6, <1>7, <1>8, Zenon DEF RequestGot
<1> QED BY <1>4, <1>9, Zenon DEF kind, m
-----------------------------------------------------------------------------
(***************************************************************************)
(* Responses.                                                              *)
(***************************************************************************)
Direct == {"auth", "post", "call", "reply", "pong"}
Listing == {"list_all", "list_add", "list_remove"}

LEMMA SubtypesAre ==
  /\ DOMAIN MonitorSubtypes = 1..11 /\ Len(MonitorSubtypes) = 11
  /\ MonitorSubtypes[1] = "list_all" /\ MonitorSubtypes[2] = "list_add"
  /\ MonitorSubtypes[3] = "list_remove"
  /\ \A i \in 4..11 : MonitorSubtypes[i] \notin Direct \cup Listing
BY SMT DEF MonitorSubtypes, Direct, Listing

LEMMA MonitoredIs ==
  /\ Unimplemented = {MonitorSubtypes[i] : i \in 4..11}
  /\ Direct \cap Monitored = {} /\ Listing \subseteq Monitored
  /\ (Direct \cup Listing) \cap Unimplemented = {}
  /\ Monitored \subseteq Listing \cup Unimplemented
<1>1. Unimplemented = {MonitorSubtypes[i] : i \in 4..11}
  BY SubtypesAre, Zenon DEF Unimplemented
<1>2. Monitored = {MonitorSubtypes[i] : i \in 1..11}
  BY SubtypesAre, Zenon DEF Monitored
<1>3. \A i \in 1..11 : i \in {1, 2, 3} \/ i \in 4..11
  BY SMT
<1>4. 1 \in 1..11 /\ 2 \in 1..11 /\ 3 \in 1..11
  BY SMT
<1>5. Direct \cap Listing = {}
  BY SMT DEF Direct, Listing
<1>6. (Direct \cup Listing) \cap Unimplemented = {}
  BY <1>1, SubtypesAre, Zenon
<1>7. Listing \subseteq Monitored
  BY <1>2, <1>4, SubtypesAre, Zenon DEF Listing
<1>8. Monitored \subseteq Listing \cup Unimplemented
  BY <1>1, <1>2, <1>3, SubtypesAre, Zenon DEF Listing
<1>9. Direct \cap Monitored = {}
  BY <1>5, <1>6, <1>8, Zenon
<1> QED BY <1>1, <1>6, <1>7, <1>8, <1>9, Zenon

LEMMA SubtypeIs ==
  ASSUME NEW kind \in Listing
  PROVE  Subtype(kind) \in Nat /\ MonitorSubtypes[Subtype(kind) + 1] = kind
<1> DEFINE i == CHOOSE j \in DOMAIN MonitorSubtypes : MonitorSubtypes[j] = kind
<1>1. \E j \in DOMAIN MonitorSubtypes : MonitorSubtypes[j] = kind
  BY MonitoredIs, Zenon DEF Monitored
<1>2. i \in DOMAIN MonitorSubtypes /\ MonitorSubtypes[i] = kind
  BY <1>1, Zenon
<1>3. Subtype(kind) = i - 1
  BY Zenon DEF Subtype
<1> HIDE DEF i
<1>4. i \in 1..11
  BY <1>2, SubtypesAre, Zenon
<1>5. i - 1 \in Nat /\ (i - 1) + 1 = i
  BY <1>4, SMT
<1> QED BY <1>2, <1>3, <1>5, Zenon

\* The command, and the subtype, of a response lead to its handler.
LEMMA DirectKind ==
  ASSUME NEW kind \in Direct, NEW caps, caps[1][2] = ResponseCmd[kind]
  PROVE  ResponseKind(caps) = kind
<1>1. /\ DOMAIN ResponseCmd = Direct \cup {"monitor"}
      /\ \A k \in DOMAIN ResponseCmd : ResponseCmd[k] = ResponseCmd[kind] => k = kind
      /\ ResponseCmd[kind] # ResponseCmd.monitor /\ kind \in DOMAIN ResponseCmd
  BY SMT DEF ResponseCmd, Direct
<1> DEFINE k == CHOOSE k \in DOMAIN ResponseCmd : ResponseCmd[k] = caps[1][2]
<1>2. k \in DOMAIN ResponseCmd /\ ResponseCmd[k] = caps[1][2]
  BY <1>1, Zenon
<1>3. ResponseKind(caps) = k
  BY <1>1, Zenon DEF ResponseKind
<1> HIDE DEF k
<1> QED BY <1>1, <1>2, <1>3, Zenon

LEMMA ListingKind ==
  ASSUME NEW kind \in Listing, NEW caps,
         caps[1][2] = ResponseCmd.monitor, caps[2][2] = Subtype(kind)
  PROVE  ResponseKind(caps) = kind
BY SubtypeIs, Zenon DEF ResponseKind

LEMMA DirectCommand ==
  ASSUME NEW kind \in Direct
  PROVE  Command(kind) = <<<<I, ResponseCmd[kind]>>>>
<1>1. kind \in DOMAIN ResponseCmd
  BY SMT DEF ResponseCmd, Direct
<1> QED BY <1>1, Zenon DEF Command

LEMMA ListingCommand ==
  ASSUME NEW kind \in Listing
  PROVE  Command(kind) = <<<<I, ResponseCmd.monitor>>, <<I, Subtype(kind)>>>>
<1>1. kind \notin DOMAIN ResponseCmd
  BY SMT DEF ResponseCmd, Listing
<1> QED BY <1>1, Zenon DEF Command

\* A parser that has the layout of the serializer.
LEMMA ReadAfter ==
  ASSUME NEW A, NEW head \in Seq(A), NEW layout, IsLayout(layout), NEW m, Has(m, layout),
         NEW optional
  PROVE  Read(layout, optional, Len(head), head \o Write(layout, m)) = m
<1>1. Holds(head \o Write(layout, m), Len(head), layout, m)
  BY WrittenHolds
<1>2. Read(layout, optional, Len(head), head \o Write(layout, m)) = [n \in Fields(layout) |-> m[n]]
  BY <1>1, ReadsBack
<1> QED BY <1>2, Zenon DEF Has

LEMMA ResponseIs ==
  ASSUME NEW kind, kind \notin {"list_all", "list_add"}, NEW m
  PROVE  Response(kind, m) = Command(kind) \o Write(ResponseWritten(kind, m), m)
BY Zenon DEF Response

\* Messages that are read field by field.
LEMMA PlainReadBack ==
  ASSUME NEW kind \in {"auth", "post", "call", "pong"}, NEW m,
         Has(m, ResponseWritten(kind, m))
  PROVE  /\ ResponseKind(Response(kind, m)) = kind
         /\ ResponseGot(Response(kind, m)) = m
<1> DEFINE layout == ResponseWritten(kind, m)
           head   == Command(kind)
           caps   == head \o Write(layout, m)
<1>1. kind \in Direct /\ kind \notin {"list_all", "list_add", "list_remove", "reply"} \cup Unimplemented
  <2>1. kind \in Direct /\ kind \notin {"list_all", "list_add", "list_remove", "reply"}
    BY SMT DEF Direct
  <2> QED BY <2>1, MonitoredIs, Zenon
<1>2. IsLayout(layout) /\ ResponseRead(kind) = layout
  <2>1. CASE kind = "auth"
    <3>1. layout = <<<<I, "result">>, <<I, "version">>>> /\ ResponseRead(kind) = layout
      BY <2>1, SMT DEF ResponseWritten, ResponseRead
    <3> HIDE DEF layout
    <3> QED BY <3>1, SMT DEF IsLayout
  <2>2. CASE kind = "post"
    <3>1. /\ layout = <<<<I, "msgtype">>, <<S, "name">>, <<O, "args">>, <<L, "tag">>, <<S, "cliname">>>>
          /\ ResponseRead(kind) = layout
      BY <2>2, SMT DEF ResponseWritten, ResponseRead
    <3> HIDE DEF layout
    <3> QED BY <3>1, SMT DEF IsLayout
  <2>3. CASE kind = "call"
    <3>1. /\ layout = <<<<I, "id">>, <<S, "name">>, <<O, "args">>, <<L, "tag">>, <<S, "cliname">>>>
          /\ ResponseRead(kind) = layout
      BY <2>3, SMT DEF ResponseWritten, ResponseRead
    <3> HIDE DEF layout
    <3> QED BY <3>1, SMT DEF IsLayout
  <2>4. CASE kind = "pong"
    <3>1. layout = <<>> /\ ResponseRead(kind) = layout
      BY <2>4, SMT DEF ResponseWritten, ResponseRead
    <3> HIDE DEF layout
    <3> QED BY <3>1, SMT DEF IsLayout
  <2> QED BY <2>1, <2>2, <2>3, <2>4, Zenon
<1>3. Response(kind, m) = caps
  BY <1>1, ResponseIs, Zenon
<1>4. /\ head \in Seq({<<I, ResponseCmd[kind]>>}) /\ Len(head) = 1 /\ 1 \in 1..Len(head)
      /\ head[1][2] = ResponseCmd[kind]
  <2>1. head = <<<<I, ResponseCmd[kind]>>>>
    BY <1>1, DirectCommand, Zenon
  <2> HIDE DEF head
  <2> QED BY <2>1, SMT
<1>5. Has(m, layout)
  OBVIOUS
<1> HIDE DEF layout, head
<1>6. Read(layout, {}, 1, caps) = m /\ caps[1] = head[1]
  <2> DEFINE H == {<<I, ResponseCmd[kind]>>}
  <2>a. head \in Seq(H)
    BY <1>4, Zenon
  <2>b. IsLayout(layout)
    BY <1>2, Zenon
  <2> HIDE DEF H
  <2>1. Read(layout, {}, Len(head), caps) = m
    BY <1>5, <2>a, <2>b, ReadAfter
  <2>2. Holds(caps, Len(head), layout, m) /\ \A i \in 1..Len(head) : caps[i] = head[i]
    BY <2>a, <2>b, WrittenHolds
  <2> QED BY <1>4, <2>1, <2>2, Zenon
<1> HIDE DEF caps
<1>7. ResponseKind(caps) = kind
  BY <1>1, <1>4, <1>6, DirectKind, Zenon
<1>8. ResponseGot(caps) = Read(ResponseRead(kind), {}, 1, caps)
  BY <1>1, <1>7, Zenon DEF ResponseGot
<1> QED BY <1>2, <1>3, <1>6, <1>7, <1>8, Zenon

LEMMA ReplyLayout ==
  ASSUME NEW m
  PROVE  LET layout == ResponseWritten("reply", m) IN
         /\ layout = <<<<I, "id">>, <<I, "rescode">>>>
                       \o (IF m.rescode = FLORA_CLI_SUCCESS THEN Result ELSE <<>>)
                       \o <<<<L, "tag">>>>
         /\ IsLayout(layout) /\ 1 \in DOMAIN layout /\ 2 \in DOMAIN layout
         /\ layout[1] = <<I, "id">> /\ layout[2] = <<I, "rescode">>
<1> DEFINE layout == ResponseWritten("reply", m)
<1>1. layout = <<<<I, "id">>, <<I, "rescode">>>>
                  \o (IF m.rescode = FLORA_CLI_SUCCESS THEN Result ELSE <<>>)
                  \o <<<<L, "tag">>>>
  BY SMT DEF ResponseWritten
<1> HIDE DEF layout
<1>2. /\ IsLayout(layout) /\ 1 \in DOMAIN layout /\ 2 \in DOMAIN layout
      /\ layout[1] = <<I, "id">> /\ layout[2] = <<I, "rescode">>
  <2>1. CASE m.rescode = FLORA_CLI_SUCCESS
    <3>1. layout = <<<<I, "id">>, <<I, "rescode">>>> \o Result \o <<<<L, "tag">>>>
      BY <1>1, <2>1, Zenon
    <3> QED BY <3>1, SMT DEF IsLayout, Result
  <2>2. CASE m.rescode # FLORA_CLI_SUCCESS
    <3>1. layout = <<<<I, "id">>, <<I, "rescode">>>> \o <<>> \o <<<<L, "tag">>>>
      BY <1>1, <2>2, Zenon
    <3> QED BY <3>1, SMT DEF IsLayout
  <2> QED BY <2>1, <2>2, Zenon
<1> QED BY <1>1, <1>2, Zenon DEF layout

\* parse_reply finds out from rescode whether there is a result.
LEMMA ReplyReadBack ==
  ASSUME NEW m, Has(m, ResponseWritten("reply", m))
  PROVE  /\ ResponseKind(Response("reply", m)) = "reply"
         /\ ResponseGot(Response("reply", m)) = m
<1> DEFINE layout == ResponseWritten("reply", m)
           begin  == <<<<I, "id">>, <<I, "rescode">>>>
           rest(c) == (IF c = FLORA_CLI_SUCCESS THEN Result ELSE <<>>)
           head   == Command("reply")
           caps   == head \o Write(layout, m)
<1>1. /\ "reply" \in Direct
      /\ "reply" \notin {"list_all", "list_add", "list_remove"} \cup Unimplemented
  <2>1. "reply" \in Direct /\ "reply" \notin {"list_all", "list_add", "list_remove"}
    BY SMT DEF Direct
  <2> QED BY <2>1, MonitoredIs, Zenon
<1>2. layout = begin \o rest(m.rescode) \o <<<<L, "tag">>>>
  BY ReplyLayout, Zenon
<1>3. /\ IsLayout(layout) /\ 1 \in DOMAIN layout /\ 2 \in DOMAIN layout
      /\ layout[1] = begin[1] /\ layout[2] = begin[2]
  <2>1. begin[1] = <<I, "id">> /\ begin[2] = <<I, "rescode">>
    BY SMT
  <2> HIDE DEF begin
  <2> QED BY <2>1, ReplyLayout, Zenon
<1>4. Response("reply", m) = caps
  BY <1>1, ResponseIs, Zenon
<1>5. /\ head \in Seq({<<I, ResponseCmd["reply"]>>}) /\ Len(head) = 1 /\ 1 \in 1..Len(head)
      /\ head[1][2] = ResponseCmd["reply"]
  <2>1. head = <<<<I, ResponseCmd["reply"]>>>>
    BY <1>1, DirectCommand, Zenon
  <2> HIDE DEF head
  <2> QED BY <2>1, SMT
<1>6. Has(m, layout)
  OBVIOUS
<1> HIDE DEF layout, head, begin
<1>7. Holds(caps, 1, layout, m) /\ caps[1] = head[1]
  <2> DEFINE H == {<<I, ResponseCmd["reply"]>>}
  <2>a. head \in Seq(H)
    BY <1>5, Zenon
  <2>b. IsLayout(layout)
    BY <1>3, Zenon
  <2> HIDE DEF H
  <2>1. Holds(caps, Len(head), layout, m) /\ \A i \in 1..Len(head) : caps[i] = head[i]
    BY <2>a, <2>b, WrittenHolds
  <2> QED BY <1>5, <2>1, Zenon
<1>8. Read(layout, {}, 1, caps) = m
  <2>1. Read(layout, {}, 1, caps) = [n \in Fields(layout) |-> m[n]]
    BY <1>7, ReadsBack
  <2> QED BY <1>6, <2>1, Zenon DEF Has
<1> HIDE DEF caps
<1>9. Holds(caps, 1, begin, m)
  <2>1. DOMAIN begin = {1, 2}
    BY SMT DEF begin
  <2>2. \A i \in DOMAIN begin : i \in DOMAIN layout /\ begin[i] = layout[i]
    BY <1>3, <2>1, Zenon
  <2>3. ASSUME NEW i \in DOMAIN begin
        PROVE  /\ 1 + i \in DOMAIN caps
               /\ caps[1 + i][1] = layout[i][1] /\ caps[1 + i][2] = m[layout[i][2]]
    BY <1>7, <2>2, Zenon DEF Holds
  <2>4. ASSUME NEW i \in DOMAIN begin
        PROVE  caps[1 + i][1] = begin[i][1] /\ caps[1 + i][2] = m[begin[i][2]]
    BY <2>2, <2>3
  <2> QED BY <2>3, <2>4, Zenon DEF Holds
<1>10. /\ Read(begin, {}, 1, caps) # Failed
       /\ Read(begin, {}, 1, caps).rescode = m.rescode
  <2>1. Read(begin, {}, 1, caps) = [n \in Fields(begin) |-> m[n]]
    BY <1>9, ReadsBack
  <2>2. "rescode" \in Fields(begin)
    BY SMT DEF begin, Fields
  <2>3. "rescode" \notin DOMAIN Failed
    BY SMT DEF Failed
  <2> QED BY <2>1, <2>2, <2>3, Zenon
<1>11. parse_reply(caps) = m
  <2>1. parse_reply(caps)
          = Read(begin \o rest(Read(begin, {}, 1, caps).rescode) \o <<<<L, "tag">>>>, {}, 1, caps)
    BY <1>10, Zenon DEF parse_reply, begin
  <2> QED BY <1>2, <1>8, <1>10, <2>1, Zenon
<1>12. ResponseKind(caps) = "reply"
  BY <1>1, <1>5, <1>7, DirectKind, Zenon
<1>13. ResponseGot(caps) = parse_reply(caps)
  BY <1>1, <1>12, Zenon DEF ResponseGot
<1> QED BY <1>4, <1>11, <1>12, <1>13, Zenon

\* Messages for monitors: a client that goes, one that comes, and all of them.
LEMMA ListRemoveReadBack ==
  ASSUME NEW m, Has(m, ResponseWritten("list_remove", m))
  PROVE  /\ ResponseKind(Response("list_remove", m)) = "list_remove"
         /\ ResponseGot(Response("list_remove", m)) = m
<1> DEFINE layout == ResponseWritten("list_remove", m)
           head   == Command("list_remove")
           caps   == head \o Write(layout, m)
<1>1. /\ "list_remove" \in Listing
      /\ "list_remove" \notin {"list_all", "list_add", "reply"} \cup Unimplemented
  <2>1. "list_remove" \in Listing /\ "list_remove" \notin {"list_all", "list_add", "reply"}
    BY SMT DEF Listing
  <2> QED BY <2>1, MonitoredIs, Zenon
<1>2. layout = <<<<I, "id">>>> /\ IsLayout(layout)
  <2>1. layout = <<<<I, "id">>>>
    BY SMT DEF ResponseWritten
  <2> HIDE DEF layout
  <2> QED BY <2>1, SMT DEF IsLayout
<1>3. Response("list_remove", m) = caps
  BY <1>1, ResponseIs, Zenon
<1>4. /\ head \in Seq({<<I, ResponseCmd.monitor>>, <<I, Subtype("list_remove")>>})
      /\ Len(head) = 2 /\ 1 \in 1..Len(head) /\ 2 \in 1..Len(head)
      /\ head[1][2] = ResponseCmd.monitor /\ head[2][2] = Subtype("list_remove")
  <2>1. head = <<<<I, ResponseCmd.monitor>>, <<I, Subtype("list_remove")>>>>
    BY <1>1, ListingCommand, Zenon
  <2> HIDE DEF head
  <2> QED BY <2>1, SMT
<1>5. Has(m, layout)
  OBVIOUS
<1> HIDE DEF layout, head
<1>6. Holds(caps, 2, layout, m) /\ caps[1] = head[1] /\ caps[2] = head[2]
  <2> DEFINE A == {<<I, ResponseCmd.monitor>>, <<I, Subtype("list_remove")>>}
  <2>0. head \in Seq(A)
    BY <1>4, Zenon
  <2> HIDE DEF A
  <2>1. Holds(caps, Len(head), layout, m) /\ \A i \in 1..Len(head) : caps[i] = head[i]
    BY <1>2, <2>0, WrittenHolds
  <2> QED BY <1>4, <2>1, Zenon
<1> HIDE DEF caps
<1>7. Read(layout, {}, 2, caps) = m
  <2>1. Read(layout, {}, 2, caps) = [n \in Fields(layout) |-> m[n]]
    BY <1>6, ReadsBack
  <2> QED BY <1>5, <2>1, Zenon DEF Has
<1>8. ResponseKind(caps) = "list_remove"
  BY <1>1, <1>4, <1>6, ListingKind, Zenon
<1>9. ResponseGot(caps) = Read(<<<<I, "id">>>>, {}, 2, caps)
  BY <1>1, <1>8, Zenon DEF ResponseGot
<1> QED BY <1>2, <1>3, <1>7, <1>8, <1>9, Zenon

\* A caps inside of a caps.
LEMMA ItemReadBack ==
  ASSUME NEW m, Has(m, Item)
  PROVE  Read(Item, {}, 0, Write(Item, m)) = m
<1>1. IsLayout(Item)
  BY SMT DEF IsLayout, Item
<1>2. /\ DOMAIN Item = 1..Len(Item) /\ Len(Write(Item, m)) = Len(Item)
      /\ DOMAIN Write(Item, m) = DOMAIN Item
      /\ \A i \in 1..Len(Item) : Write(Item, m)[i] = <<Item[i][1], m[Item[i][2]]>>
  BY <1>1, WriteIs, Zenon DEF Write
<1>3. ASSUME NEW i \in DOMAIN Item
      PROVE  /\ 0 + i \in DOMAIN Write(Item, m)
             /\ Write(Item, m)[0 + i][1] = Item[i][1]
             /\ Write(Item, m)[0 + i][2] = m[Item[i][2]]
  <2>1. 0 + i = i
    BY <1>1, <1>2, SMT DEF IsLayout
  <2>2. Write(Item, m)[i] = <<Item[i][1], m[Item[i][2]]>>
    BY <1>2, Zenon
  <2>3. Write(Item, m)[i][1] = Item[i][1] /\ Write(Item, m)[i][2] = m[Item[i][2]]
    BY <2>2, SMT
  <2> QED BY <1>2, <2>1, <2>3, Zenon
<1>4. Holds(Write(Item, m), 0, Item, m)
  BY <1>3, Zenon DEF Holds
<1>5. Read(Item, {}, 0, Write(Item, m)) = [n \in Fields(Item) |-> m[n]]
  BY <1>4, ReadsBack
<1> QED BY <1>5, Zenon DEF Has

LEMMA ListAddReadBack ==
  ASSUME NEW m, Has(m, Item)
  PROVE  /\ ResponseKind(Response("list_add", m)) = "list_add"
         /\ ResponseGot(Response("list_add", m)) = m
<1> DEFINE sub  == Write(Item, m)
           head == Command("list_add")
           caps == head \o <<<<O, sub>>>>
<1>1. /\ "list_add" \in Listing
      /\ "list_add" \notin {"list_all", "list_remove", "reply"} \cup Unimplemented
  <2>1. "list_add" \in Listing /\ "list_add" \notin {"list_all", "list_remove", "reply"}
    BY SMT DEF Listing
  <2> QED BY <2>1, MonitoredIs, Zenon
<1>2. Response("list_add", m) = caps
  BY <1>1, Zenon DEF Response
<1>3. head = <<<<I, ResponseCmd.monitor>>, <<I, Subtype("list_add")>>>>
  BY <1>1, ListingCommand, Zenon
<1>4. Read(Item, {}, 0, sub) = m
  BY ItemReadBack, Zenon
<1> HIDE DEF sub, head
<1>5. /\ caps[1][2] = ResponseCmd.monitor /\ caps[2][2] = Subtype("list_add")
      /\ 3 \in DOMAIN caps /\ caps[3][1] = O /\ caps[3][2] = sub
  BY <1>3, SMT
<1> HIDE DEF caps
<1>6. ResponseKind(caps) = "list_add"
  BY <1>1, <1>5, ListingKind, Zenon
<1>7. ResponseGot(caps) = parse_monitor_list_add(caps)
  BY <1>1, <1>6, Zenon DEF ResponseGot
<1>8. parse_monitor_list_add(caps) = m
  BY <1>4, <1>5, Zenon DEF parse_monitor_list_add
<1> QED BY <1>2, <1>6, <1>7, <1>8, Zenon

LEMMA ListAllReadBack ==
  ASSUME NEW m, m = [items |-> m.items], IsList(m.items)
  PROVE  /\ ResponseKind(Response("list_all", m)) = "list_all"
         /\ ResponseGot(Response("list_all", m)) = m
<1> DEFINE list == m.items
           n    == Len(list)
           subs == [i \in 1..n |-> <<O, Write(Item, list[i])>>]
           head == Command("list_all")
           caps == head \o (<<<<I, n>>>> \o subs)
<1>1. /\ "list_all" \in Listing
      /\ "list_all" \notin {"list_add", "list_remove", "reply"} \cup Unimplemented
  <2>1. "list_all" \in Listing /\ "list_all" \notin {"list_add", "list_remove", "reply"}
    BY SMT DEF Listing
  <2> QED BY <2>1, MonitoredIs, Zenon
<1>2. n \in Nat /\ list = [i \in 1..n |-> list[i]] /\ DOMAIN list = 1..n
  <2>1. n \in Nat /\ list = [i \in 1..n |-> list[i]]
    BY Zenon DEF IsList
  <2> QED BY <2>1, Zenon
<1>3. \A i \in 1..n : Read(Item, {}, 0, Write(Item, list[i])) = list[i] /\ list[i] # Failed
  <2> SUFFICES ASSUME NEW i \in 1..n
               PROVE  Read(Item, {}, 0, Write(Item, list[i])) = list[i] /\ list[i] # Failed
    OBVIOUS
  <2>1. Has(list[i], Item)
    BY Zenon DEF IsList
  <2>2. "id" \in DOMAIN list[i]
    <3>1. "id" \in Fields(Item)
      BY SMT DEF Fields, Item
    <3> QED BY <2>1, <3>1, Zenon DEF Has
  <2>3. "id" \notin DOMAIN Failed
    BY SMT DEF Failed
  <2> QED BY <2>1, <2>2, <2>3, ItemReadBack, Zenon
<1>4. Response("list_all", m) = caps
  BY <1>1, <1>2, Zenon DEF Response
<1>5. head = <<<<I, ResponseCmd.monitor>>, <<I, Subtype("list_all")>>>>
  BY <1>1, ListingCommand, Zenon
<1> DEFINE sub(i) == Write(Item, list[i])
<1>6. subs = [i \in 1..n |-> <<O, sub(i)>>]
  BY Zenon
<1>7. m = [items |-> list]
  BY Zenon
<1> HIDE DEF list, n, subs, head, sub
<1>8. /\ Len(caps) = n + 3 /\ DOMAIN caps = 1..n + 3
      /\ caps[1][2] = ResponseCmd.monitor /\ caps[2][2] = Subtype("list_all")
      /\ caps[3] = <<I, n>>
      /\ \A i \in 1..n : caps[i + 3] = <<O, sub(i)>>
  <2>1. subs \in Seq({subs[i] : i \in 1..n}) /\ Len(subs) = n
    BY <1>2, <1>6, SMT
  <2> DEFINE A    == {subs[i] : i \in 1..n}
             B    == {<<I, ResponseCmd.monitor>>, <<I, Subtype("list_all")>>}
             C    == {<<I, n>>}
             size == <<<<I, n>>>>
             tail == size \o subs
  <2>2. size \in Seq(C) /\ Len(size) = 1 /\ size[1] = <<I, n>>
    BY SMT
  <2>3. head \in Seq(B) /\ Len(head) = 2 /\ head[1][2] = ResponseCmd.monitor
        /\ head[2][2] = Subtype("list_all")
    BY <1>5, SMT
  <2>4. subs \in Seq(A)
    BY <2>1, Zenon
  <2> HIDE DEF A, B, C, size
  <2>5. /\ tail \in Seq(C \cup A) /\ Len(tail) = Len(size) + Len(subs)
        /\ \A i \in 1..Len(size) : tail[i] = size[i]
        /\ \A i \in 1..Len(subs) : tail[Len(size) + i] = subs[i]
    <3>1. size \in Seq(C)
      BY <2>2, Zenon
    <3> QED BY <2>4, <3>1, Joined
  <2>6. tail[1] = <<I, n>> /\ Len(tail) = n + 1 /\ \A i \in 1..n : tail[1 + i] = <<O, sub(i)>>
    <3>1. /\ n \in Nat /\ Len(size) = 1 /\ size[1] = <<I, n>> /\ Len(subs) = n
          /\ \A i \in 1..n : subs[i] = <<O, sub(i)>>
      BY <1>2, <1>6, <2>1, <2>2, Zenon
    <3>2. 1 \in 1..1 /\ 1 + n = n + 1
      BY <3>1, SMT
    <3> QED BY <2>5, <3>1, <3>2, Zenon
  <2> DEFINE D == C \cup A
  <2>7. tail \in Seq(D)
    BY <2>5, Zenon
  <2>8. caps = head \o tail
    BY Zenon DEF size
  <2> HIDE DEF tail, D, caps
  <2>9. /\ Len(head \o tail) = Len(head) + Len(tail)
        /\ DOMAIN (head \o tail) = 1..Len(head) + Len(tail)
        /\ \A i \in 1..Len(head) : (head \o tail)[i] = head[i]
        /\ \A i \in 1..Len(tail) : (head \o tail)[Len(head) + i] = tail[i]
    <3>1. head \in Seq(B)
      BY <2>3, Zenon
    <3> QED BY <2>7, <3>1, Joined
  <2>10. Len(caps) = n + 3 /\ DOMAIN caps = 1..n + 3 /\ caps[3] = <<I, n>>
    BY <1>2, <2>3, <2>6, <2>8, <2>9, SMT
  <2>11. caps[1][2] = ResponseCmd.monitor /\ caps[2][2] = Subtype("list_all")
    <3>1. 1 \in 1..Len(head) /\ 2 \in 1..Len(head)
      BY <2>3, SMT
    <3> QED BY <2>3, <2>8, <2>9, <3>1, Zenon
  <2>12. ASSUME NEW i \in 1..n PROVE caps[i + 3] = <<O, sub(i)>>
    <3>1. 1 + i \in 1..Len(tail) /\ Len(head) + (1 + i) = i + 3
      BY <1>2, <2>3, <2>6, SMT
    <3> QED BY <2>6, <2>8, <2>9, <3>1, Zenon
  <2> QED BY <2>10, <2>11, <2>12, Zenon
<1> HIDE DEF caps
<1>9. ResponseKind(caps) = "list_all"
  BY <1>1, <1>8, ListingKind, Zenon
<1>10. ResponseGot(caps) = parse_monitor_list_all(caps)
  BY <1>1, <1>9, Zenon DEF ResponseGot
<1>11. parse_monitor_list_all(caps) = [items |-> list]
  <2>1. 3 \in DOMAIN caps /\ caps[3][1] = I /\ caps[3][2] = n
    BY <1>2, <1>8, SMT
  <2>2. {i \in 4..Len(caps) : \A j \in 4..i : caps[j][1] = O} = 4..n + 3
    <3>1. ASSUME NEW j \in 4..n + 3 PROVE caps[j][1] = O
      <4>1. j - 3 \in 1..n /\ (j - 3) + 3 = j
        BY <1>2, SMT
      <4>2. caps[j] = <<O, sub(j - 3)>>
        BY <1>8, <4>1, Zenon
      <4> QED BY <4>2, SMT
    <3>2. \A i \in 4..n + 3 : \A j \in 4..i : j \in 4..n + 3
      BY <1>2, SMT
    <3> QED BY <1>8, <3>1, <3>2, Zenon
  <2>3. [i \in 1..Len(caps) - 3 |-> Read(Item, {}, 0, caps[i + 3][2])] = list
    <3>1. Len(caps) - 3 = n
      BY <1>2, <1>8, SMT
    <3>2. ASSUME NEW i \in 1..n PROVE Read(Item, {}, 0, caps[i + 3][2]) = list[i]
      <4>1. caps[i + 3][2] = sub(i)
        BY <1>8, SMT
      <4> QED BY <1>3, <4>1, Zenon DEF sub
    <3>3. [i \in 1..n |-> Read(Item, {}, 0, caps[i + 3][2])] = [i \in 1..n |-> list[i]]
      BY <3>2, Zenon
    <3> QED BY <1>2, <3>1, <3>3, Zenon
  <2>4. CASE n = 0
    <3>1. list = <<>>
      BY <1>2, <2>4, SMT
    <3>2. parse_monitor_list_all(caps) = [items |-> <<>>]
      BY <2>1, <2>4, Zenon DEF parse_monitor_list_all
    <3> QED BY <3>1, <3>2, Zenon
  <2>5. CASE n # 0
    <3>1. ~\E i \in DOMAIN list : list[i] = Failed
      BY <1>2, <1>3, Zenon
    <3> QED BY <2>1, <2>2, <2>3, <2>5, <3>1, Zenon DEF parse_monitor_list_all
  <2> QED BY <2>4, <2>5, Zenon
<1> QED BY <1>4, <1>7, <1>9, <1>10, <1>11, Zenon

\* ResponseSerializer, the choice of the handler and ResponseParser: what the
\* service writes is read as it was written, for all values of the fields and for
\* lists of any length.
THEOREM ResponsesReadBack ==
  ASSUME NEW r, IsResponse(r), r.kind \notin Unimplemented
  PROVE  /\ ResponseKind(Response(r.kind, r.fields)) = r.kind
         /\ ResponseGot(Response(r.kind, r.fields)) = r.fields
<1>1. CASE r.kind = "list_all" /\ r.fields = [items |-> r.fields.items] /\ IsList(r.fields.items)
  BY <1>1, ListAllReadBack, Zenon
<1>2. CASE r.kind = "list_add" /\ Has(r.fields, Item)
  BY <1>2, ListAddReadBack, Zenon
<1>3. CASE /\ r.kind \in {"auth", "post", "call", "reply", "list_remove", "pong"}
           /\ Has(r.fields, ResponseWritten(r.kind, r.fields))
  <2>1. CASE r.kind = "reply"
    BY <1>3, <2>1, ReplyReadBack, Zenon
  <2>2. CASE r.kind = "list_remove"
    BY <1>3, <2>2, ListRemoveReadBack, Zenon
  <2>3. CASE r.kind \in {"auth", "post", "call", "pong"}
    BY <1>3, <2>3, PlainReadBack, Zenon
  <2> QED BY <1>3, <2>1, <2>2, <2>3, Zenon
<1> QED BY <1>1, <1>2, <1>3, Zenon DEF IsResponse

LEMMA NotFailed ==
  ASSUME NEW r, IsResponse(r), r.kind \notin Unimplemented, r.kind # "pong"
  PROVE  r.fields # Failed
<1>1. DOMAIN Failed = {"failed"}
  BY SMT DEF Failed
<1>2. CASE r.kind = "list_all" /\ r.fields = [items |-> r.fields.items]
  <2>1. "items" \in DOMAIN [items |-> r.fields.items] /\ "items" # "failed"
    BY SMT
  <2> QED BY <1>1, <1>2, <2>1, Zenon
<1>3. ASSUME NEW layout, Has(r.fields, layout), NEW n, n \in Fields(layout), n # "failed"
      PROVE  r.fields # Failed
  BY <1>1, <1>3, Zenon DEF Has
<1>4. CASE r.kind = "list_add" /\ Has(r.fields, Item)
  <2>1. "id" \in Fields(Item) /\ "id" # "failed"
    BY SMT DEF Fields, Item
  <2> QED BY <1>3, <1>4, <2>1, Zenon
<1>5. CASE /\ r.kind \in {"auth", "post", "call", "reply", "list_remove", "pong"}
           /\ Has(r.fields, ResponseWritten(r.kind, r.fields))
  <2> DEFINE layout == ResponseWritten(r.kind, r.fields)
  <2>1. ASSUME r.kind = "auth" PROVE "result" \in Fields(layout)
    <3>1. layout = <<<<I, "result">>, <<I, "version">>>>
      BY <2>1, SMT DEF ResponseWritten
    <3> HIDE DEF layout
    <3> QED BY <3>1, SMT DEF Fields
  <2>2. ASSUME r.kind = "post" PROVE "name" \in Fields(layout)
    <3>1. layout = <<<<I, "msgtype">>, <<S, "name">>, <<O, "args">>, <<L, "tag">>, <<S, "cliname">>>>
      BY <2>2, SMT DEF ResponseWritten
    <3> HIDE DEF layout
    <3> QED BY <3>1, SMT DEF Fields
  <2>3. ASSUME r.kind = "call" PROVE "id" \in Fields(layout)
    <3>1. layout = <<<<I, "id">>, <<S, "name">>, <<O, "args">>, <<L, "tag">>, <<S, "cliname">>>>
      BY <2>3, SMT DEF ResponseWritten
    <3> HIDE DEF layout
    <3> QED BY <3>1, SMT DEF Fields
  <2>4. ASSUME r.kind = "reply" PROVE "id" \in Fields(layout)
    <3>1. 1 \in DOMAIN layout /\ layout[1] = <<I, "id">>
      BY <2>4, ReplyLayout, Zenon
    <3> HIDE DEF layout
    <3>2. layout[1][2] = "id"
      BY <3>1, SMT
    <3> QED BY <3>1, <3>2, Zenon DEF Fields
  <2>5. ASSUME r.kind = "list_remove" PROVE "id" \in Fields(layout)
    <3>1. layout = <<<<I, "id">>>>
      BY <2>5, SMT DEF ResponseWritten
    <3> HIDE DEF layout
    <3> QED BY <3>1, SMT DEF Fields
  <2>6. "result" # "failed" /\ "name" # "failed" /\ "id" # "failed"
    BY SMT
  <2>7. Has(r.fields, layout)
    BY <1>5, Zenon
  <2> HIDE DEF layout
  <2> QED BY <1>3, <1>5, <2>1, <2>2, <2>3, <2>4, <2>5, <2>6, <2>7, Zenon
<1> QED BY <1>2, <1>4, <1>5, Zenon DEF IsResponse

LEMMA UnderstoodIs ==
  ASSUME NEW r \in Responses, r.kind \notin Unimplemented
  PROVE  /\ Understood[r].kind = r.kind /\ Understood[r].got = r.fields
         /\ r = [kind |-> r.kind, fields |-> r.fields]
         /\ r.kind # "pong" => r.fields # Failed
         /\ r.kind \in Direct \cup Listing
<1>1. IsResponse(r)
  BY ReceiveAssumption, Zenon
<1> DEFINE caps == Response(r.kind, r.fields)
<1>2. ResponseKind(caps) = r.kind /\ ResponseGot(caps) = r.fields
  BY <1>1, ResponsesReadBack, Zenon
<1> HIDE DEF caps
<1>3. Understood[r] = [kind |-> ResponseKind(caps), got |-> ResponseGot(caps)]
  BY Zenon DEF Understood, caps
<1>4. Understood[r].kind = r.kind /\ Understood[r].got = r.fields
  BY <1>2, <1>3, SMT
<1>5. r = [kind |-> r.kind, fields |-> r.fields] /\ (r.kind # "pong" => r.fields # Failed)
  BY <1>1, NotFailed, Zenon DEF IsResponse
<1>6. r.kind \in Direct \cup Listing
  BY <1>1, Zenon DEF IsResponse, Direct, Listing
<1> QED BY <1>4, <1>5, <1>6, Zenon
-----------------------------------------------------------------------------
\* The sizes and places of things.
LEMMA Sizes ==
  ASSUME TypeOK
  PROVE  /\ Header \in Nat /\ Header > 0 /\ bufsize \in Nat /\ MaxFrames \in Nat
         /\ Len(frames) \in Nat /\ DOMAIN frames = 1..Len(frames)
         /\ \A k \in 1..Len(frames) :
              /\ frames[k] \in Frame /\ frames[k].start \in Nat /\ frames[k].msg \in Responses
              /\ frames[k].size \in Nat /\ frames[k].size >= Header
         /\ written \in Nat /\ taken \in Nat /\ taken <= written
         /\ Len(rbuffer) \in Nat /\ off \in Nat /\ off <= Len(rbuffer)
         /\ Len(given) \in Nat /\ DOMAIN given = 1..Len(given)
<1>1. Header \in Nat /\ Header > 0 /\ bufsize \in Nat /\ MaxFrames \in Nat
  BY ReceiveAssumption, SMT
<1>2. frames \in Seq(Frame) /\ rbuffer \in Seq(Nat) /\ given \in Seq([msg : Responses, from : Sender])
  BY Zenon DEF TypeOK
<1>3. /\ Len(frames) \in Nat /\ DOMAIN frames = 1..Len(frames) /\ Len(rbuffer) \in Nat
      /\ Len(given) \in Nat /\ DOMAIN given = 1..Len(given)
  BY <1>2, LenProperties, Zenon
<1>4. \A k \in 1..Len(frames) : frames[k] \in Frame
  BY <1>2, ElementOfSeq, Zenon
<1>5. \A f \in Frame : /\ f.start \in Nat /\ f.msg \in Responses
                       /\ f.size \in Nat /\ f.size >= Header
  <2>1. Length \subseteq Nat /\ \A n \in Length : n >= Header
    BY ReceiveAssumption, Zenon
  <2>2. \A f \in Frame : f.start \in Nat /\ f.msg \in Responses /\ f.size \in Length
    BY SMT DEF Frame
  <2> QED BY <2>1, <2>2, Zenon
<1>6. written \in Nat /\ taken \in 0..written /\ off \in 0..Len(rbuffer)
  BY Zenon DEF TypeOK
<1>7. taken \in Nat /\ taken <= written /\ off \in Nat /\ off <= Len(rbuffer)
  BY <1>3, <1>6, SMT
<1> QED BY <1>1, <1>3, <1>4, <1>5, <1>6, <1>7, Zenon

\* Counting the messages that are to be given.
LEMMA Counting ==
  ASSUME TypeOK
  PROVE  /\ UpTo(0) = 0
         /\ \A k \in 0..Len(frames) : UpTo(k) \in Nat /\ UpTo(k) <= k
         /\ \A k \in 1..Len(frames) :
              UpTo(k) = IF k \in Expected THEN UpTo(k - 1) + 1 ELSE UpTo(k - 1)
<1> DEFINE upTo(k) == {j \in Expected : j <= k}
<1>1. Expected \subseteq 1..Len(frames) /\ Len(frames) \in Nat
  BY Sizes, Zenon DEF Expected
<1> HIDE DEF upTo
<1>i. \A j, k : j \in upTo(k) <=> j \in Expected /\ j <= k
  BY Zenon DEF upTo
<1>j. \A j \in Expected : j \in Int /\ 1 <= j /\ j <= Len(frames)
  BY <1>1, SMT
<1>2. upTo(0) = {}
  <2>1. \A j \in Int : ~(1 <= j /\ j <= 0)
    BY SMT
  <2> QED BY <1>i, <1>j, <2>1, Zenon
<1>3. \A k \in 0..Len(frames) : upTo(k) \subseteq 1..k
  <2>1. \A k \in 0..Len(frames), j \in Int : 1 <= j /\ j <= k => j \in 1..k
    BY <1>1, SMT
  <2> QED BY <1>i, <1>j, <2>1, Zenon
<1>4. \A k \in 1..Len(frames) :
        /\ k \in Expected => upTo(k) = upTo(k - 1) \cup {k} /\ k \notin upTo(k - 1)
        /\ k \notin Expected => upTo(k) = upTo(k - 1)
        /\ k - 1 \in 0..Len(frames)
  <2> SUFFICES ASSUME NEW k \in 1..Len(frames)
               PROVE  /\ k \in Expected => upTo(k) = upTo(k - 1) \cup {k} /\ k \notin upTo(k - 1)
                      /\ k \notin Expected => upTo(k) = upTo(k - 1)
                      /\ k - 1 \in 0..Len(frames)
    BY Zenon
  <2>1. /\ k - 1 \in 0..Len(frames) /\ ~(k <= k - 1) /\ k <= k
        /\ \A j \in Int : j <= k <=> j <= k - 1 \/ j = k
    BY <1>1, SMT
  <2>2. \A j : j \in upTo(k) <=> j \in upTo(k - 1) \/ (j = k /\ k \in Expected)
    BY <1>i, <1>j, <2>1, Zenon
  <2>3. k \notin upTo(k - 1)
    BY <1>i, <2>1, Zenon
  <2>4. ASSUME k \in Expected PROVE upTo(k) = upTo(k - 1) \cup {k}
    BY <2>2, <2>4, Zenon
  <2>5. ASSUME k \notin Expected PROVE upTo(k) = upTo(k - 1)
    BY <2>2, <2>5, Zenon
  <2> QED BY <2>1, <2>3, <2>4, <2>5, Zenon
<1>5. \A k : UpTo(k) = Cardinality(upTo(k))
  BY Zenon DEF UpTo, upTo
<1>6. UpTo(0) = 0
  BY <1>2, <1>5, FS_EmptySet, Zenon
<1>7. \A k \in 0..Len(frames) : IsFiniteSet(upTo(k)) /\ UpTo(k) \in Nat /\ UpTo(k) <= k
  <2> SUFFICES ASSUME NEW k \in 0..Len(frames)
               PROVE  IsFiniteSet(upTo(k)) /\ UpTo(k) \in Nat /\ UpTo(k) <= k
    BY Zenon
  <2>1. k \in Int /\ 1 \in Int /\ k \in Nat /\ (1 > k => k = 0)
    BY <1>1, SMT
  <2>2. IsFiniteSet(1..k) /\ Cardinality(1..k) = IF 1 > k THEN 0 ELSE k - 1 + 1
    BY <2>1, FS_Interval, Zenon
  <2>3. Cardinality(1..k) = k
    BY <2>1, <2>2, SMT
  <2>4. IsFiniteSet(upTo(k)) /\ Cardinality(upTo(k)) <= Cardinality(1..k)
    BY <1>3, <2>2, FS_Subset, Zenon
  <2>5. Cardinality(upTo(k)) \in Nat
    BY <2>4, FS_CardinalityType, Zenon
  <2> QED BY <1>5, <2>3, <2>4, <2>5, Zenon
<1>8. ASSUME NEW k \in 1..Len(frames)
      PROVE  UpTo(k) = IF k \in Expected THEN UpTo(k - 1) + 1 ELSE UpTo(k - 1)
  <2>1. CASE k \in Expected
    <3>1. IsFiniteSet(upTo(k - 1)) /\ k \notin upTo(k - 1) /\ upTo(k) = upTo(k - 1) \cup {k}
      BY <1>4, <1>7, <2>1, Zenon
    <3>2. Cardinality(upTo(k - 1) \cup {k}) =
            IF k \in upTo(k - 1) THEN Cardinality(upTo(k - 1)) ELSE Cardinality(upTo(k - 1)) + 1
      BY <3>1, FS_AddElement, Zenon
    <3> QED BY <1>5, <2>1, <3>1, <3>2, Zenon
  <2>2. CASE k \notin Expected
    BY <1>4, <1>5, <2>2, Zenon
  <2> QED BY <2>1, <2>2, Zenon
<1> QED BY <1>6, <1>7, <1>8, Zenon

\* Where a message of a buffer that has been handled up to h begins.
LEMMA HandledPlace ==
  ASSUME TypeOK, Laid, NEW h \in 0..Len(frames), Handled(h)
  PROVE  /\ h < Len(frames) => frames[h + 1].start = Pos
         /\ h = Len(frames) => written = Pos
         /\ (authorized <=> h > 0) /\ Len(given) = UpTo(h)
<1>1. Len(frames) \in Nat
  BY Sizes, Zenon
<1>2. h = Len(frames) => ~(h < Len(frames))
  BY <1>1, SMT
<1> QED BY <1>2, Zenon DEF Handled

\* The beginning.
LEMMA ReceiveInit == ASSUME Init PROVE ReceiveInv
<1>1. /\ frames = <<>> /\ written = 0 /\ taken = 0 /\ rbuffer = <<>> /\ off = 0 /\ pc = "recv"
      /\ err = "none" /\ authorized = FALSE /\ cli_callback = FALSE /\ ended = FALSE
      /\ monitor \in BOOLEAN
      /\ sender_name = Nobody /\ tag = 0 /\ given = <<>> /\ asked = <<>>
  BY Zenon DEF Init
<1>2. TypeOK
  <2>1. bufsize \in Nat /\ MaxFrames \in Nat
    BY ReceiveAssumption, Zenon
  <2>2. /\ frames \in Seq(Frame) /\ Len(frames) = 0 /\ rbuffer \in Seq(Nat) /\ Len(rbuffer) = 0
        /\ given \in Seq([msg : Responses, from : Sender]) /\ Len(given) = 0 /\ Len(asked) = 0
    BY <1>1, SMT
  <2>3. /\ Len(frames) <= MaxFrames /\ written \in Nat /\ taken \in 0..written
        /\ Len(rbuffer) <= bufsize /\ off \in 0..Len(rbuffer) /\ Len(given) <= Len(frames)
        /\ Len(asked) \in 0..1
    BY <1>1, <2>1, <2>2, SMT
  <2>4. sender_name \in Sender /\ tag \in {0} \cup {r.fields.tag : r \in Tagged}
    BY <1>1, Zenon DEF Sender
  <2>5. {monitor, ended, authorized, cli_callback} \subseteq BOOLEAN
    BY <1>1, Zenon
  <2> QED BY <1>1, <2>2, <2>3, <2>4, <2>5, Zenon DEF TypeOK
<1>3. Len(frames) = 0 /\ Len(rbuffer) = 0 /\ Len(given) = 0 /\ DOMAIN given = {}
  BY <1>1, SMT
<1>4. Laid /\ Kinds /\ Content
  BY <1>1, <1>3, SMT DEF Laid, Kinds, Content
<1>5. Progress
  <2>1. UpTo(0) = 0
    BY <1>2, Counting, Zenon
  <2>2. Pos = 0 /\ ~(0 < Len(frames)) /\ ~(0 > 0) /\ 0 \in 0..Len(frames)
    <3>1. taken = 0 /\ off = 0 /\ Len(rbuffer) = 0 /\ Len(frames) = 0
      BY <1>1, <1>3, Zenon
    <3> QED BY <3>1, SMT DEF Pos, Rest
  <2>3. Handled(0)
    BY <1>1, <1>3, <2>1, <2>2, Zenon DEF Handled
  <2> QED BY <2>2, <2>3, Zenon DEF Progress
<1>6. Accepted
  BY <1>1, SMT DEF Accepted
<1>7. GivenIntact /\ RequestIntact
  BY <1>1, <1>3, Zenon DEF GivenIntact, RequestIntact
<1> QED BY <1>2, <1>4, <1>5, <1>6, <1>7, Zenon DEF ReceiveInv

\* What depends on the messages and on the place of off only.
LEMMA SamePlace ==
  ASSUME Progress, GivenIntact, monitor' = monitor, frames' = frames, written' = written,
         authorized' = authorized, given' = given, Pos' = Pos
  PROVE  Progress' /\ GivenIntact'
<1>1. Expected' = Expected
  BY SMT DEF Expected
<1>2. \A k : UpTo(k)' = UpTo(k)
  BY <1>1, SMT DEF UpTo
<1>3. ASSUME NEW h, Handled(h) PROVE Handled(h)'
  <2>1. UpTo(h)' = UpTo(h)
    BY <1>2, Zenon
  <2> QED BY <1>3, <2>1, SMT DEF Handled
<1>4. Progress'
  BY <1>3, Zenon DEF Progress
<1>5. GivenIntact'
  BY <1>1, <1>2, Zenon DEF GivenIntact
<1> QED BY <1>4, <1>5, Zenon

\* Steps that move nothing: what they leave alone, and the little they change.
LEMMA ReceiveQuiet ==
  ASSUME ReceiveInv,
         UNCHANGED <<monitor, frames, written, taken, rbuffer, off, authorized,
                     sender_name, tag, given>>,
         ended' \in BOOLEAN, cli_callback' \in BOOLEAN, cli_callback => cli_callback',
         pc' \in {pc, "done"}, err' \in {err, "full", "eof"},
         Len(asked') \in 0..1, RequestIntact'
  PROVE  ReceiveInv'
<1>1. /\ monitor' = monitor /\ frames' = frames /\ written' = written /\ taken' = taken
      /\ rbuffer' = rbuffer /\ off' = off /\ authorized' = authorized
      /\ sender_name' = sender_name /\ tag' = tag /\ given' = given
  BY Zenon
<1>2. "done" # "recv" /\ "full" # "message" /\ "eof" # "message"
  BY SMT
<1>3. TypeOK'
  BY <1>1, Zenon DEF ReceiveInv, TypeOK
<1>4. Laid' = Laid
  BY <1>1, Zenon DEF Laid
<1>5. Kinds'
  BY <1>1, Zenon DEF ReceiveInv, Kinds
<1>6. Content'
  BY <1>1, <1>2, Zenon DEF ReceiveInv, Content
<1>7. Pos' = Pos
  BY <1>1, Zenon DEF Pos, Rest
<1>8. Progress' /\ GivenIntact'
  <2>1. Progress /\ GivenIntact
    BY Zenon DEF ReceiveInv
  <2> QED BY <1>1, <1>7, <2>1, SamePlace, Zenon
<1>9. Accepted'
  BY <1>2, Zenon DEF ReceiveInv, Accepted
<1> QED BY <1>3, <1>4, <1>5, <1>6, <1>8, <1>9, Zenon DEF ReceiveInv

LEMMA ReceiveSmall ==
  ASSUME ReceiveInv,
         End \/ ConnectReturns \/ BufferFull \/ RecvEnd \/ \E q \in Requests : Ask(q)
  PROVE  ReceiveInv'
<1>1. ended \in BOOLEAN /\ cli_callback \in BOOLEAN /\ Len(asked) \in 0..1
  BY Zenon DEF ReceiveInv, TypeOK
<1>2. CASE End
  <2>1. RequestIntact'
    BY <1>2, Zenon DEF End, ReceiveInv, RequestIntact
  <2> QED BY <1>1, <1>2, <2>1, ReceiveQuiet, Zenon DEF End, recvVars, msgVars
<1>3. CASE ConnectReturns
  <2>1. RequestIntact'
    BY <1>3, Zenon DEF ConnectReturns, ReceiveInv, RequestIntact
  <2> QED BY <1>1, <1>3, <2>1, ReceiveQuiet, Zenon DEF ConnectReturns, svcVars, recvVars, msgVars
<1>4. CASE BufferFull
  <2>1. RequestIntact'
    BY <1>4, Zenon DEF BufferFull, ReceiveInv, RequestIntact
  <2> QED BY <1>1, <1>4, <2>1, ReceiveQuiet, Zenon DEF BufferFull, Finish, svcVars, msgVars
<1>5. CASE RecvEnd
  <2>1. RequestIntact'
    BY <1>5, Zenon DEF RecvEnd, ReceiveInv, RequestIntact
  <2> QED BY <1>1, <1>5, <2>1, ReceiveQuiet, Zenon DEF RecvEnd, Finish, svcVars, msgVars
<1>6. ASSUME NEW q \in Requests, Ask(q) PROVE ReceiveInv'
  <2> DEFINE sent == [kind |-> q.kind, got |-> q.fields]
             got == RequestGot(Request(q.kind, q.fields))
  <2>1. IsRequest(q)
    BY ReceiveAssumption, Zenon
  <2>2. got = sent
    BY <2>1, RequestsReadBack, Zenon
  <2>3. asked' = <<[sent |-> sent, got |-> got]>>
    BY <1>6, Zenon DEF Ask
  <2> HIDE DEF sent, got
  <2>4. Len(asked') \in 0..1 /\ asked'[1].got = asked'[1].sent
    BY <2>2, <2>3, SMT
  <2>5. RequestIntact'
    BY <2>4, Zenon DEF RequestIntact
  <2>6. /\ UNCHANGED <<monitor, frames, written, taken, rbuffer, off, authorized,
                       sender_name, tag, given>>
        /\ ended' = ended /\ cli_callback' = cli_callback /\ pc' = pc /\ err' = err
    BY <1>6, Zenon DEF Ask, svcVars, recvVars, msgVars
  <2> QED BY <1>1, <2>4, <2>5, <2>6, ReceiveQuiet, Zenon
<1> QED BY <1>2, <1>3, <1>4, <1>5, <1>6, Zenon

\* SocketAdapter::write: the message follows those before it.
LEMMA ReceiveSend ==
  ASSUME ReceiveInv, NEW r \in Responses, NEW n \in Length, Send(r, n)
  PROVE  ReceiveInv'
<1> DEFINE f == [start |-> written, size |-> n, msg |-> r]
<1>1. TypeOK /\ Laid /\ Kinds /\ Content /\ Progress /\ Accepted /\ GivenIntact
  BY Zenon DEF ReceiveInv
<1>2. /\ frames' = Append(frames, f) /\ written' = written + n /\ asked' = <<>>
      /\ Len(frames) < MaxFrames /\ MaySend(r.kind)
      /\ monitor' = monitor /\ ended' = ended /\ cli_callback' = cli_callback
      /\ taken' = taken /\ rbuffer' = rbuffer /\ off' = off /\ pc' = pc /\ err' = err
      /\ authorized' = authorized /\ sender_name' = sender_name /\ tag' = tag /\ given' = given
  BY Zenon DEF Send, recvVars, msgVars
<1>3. /\ Header \in Nat /\ Header > 0 /\ MaxFrames \in Nat
      /\ Len(frames) \in Nat /\ DOMAIN frames = 1..Len(frames)
      /\ \A k \in 1..Len(frames) :
           /\ frames[k].start \in Nat
           /\ frames[k].size \in Nat /\ frames[k].size >= Header
      /\ written \in Nat /\ taken \in Nat /\ taken <= written
      /\ Len(given) \in Nat /\ DOMAIN given = 1..Len(given)
  BY <1>1, Sizes, Zenon
<1>4. n \in Nat /\ n >= Header
  BY ReceiveAssumption, Zenon
<1>5. f \in Frame /\ f.start = written /\ f.size = n /\ f.msg = r
  BY <1>3, SMT DEF Frame
<1> HIDE DEF f
<1>6. frames \in Seq(Frame)
  BY <1>1, Zenon DEF TypeOK
<1>7. /\ frames' \in Seq(Frame) /\ Len(frames') = Len(frames) + 1
      /\ \A k \in 1..Len(frames) : frames'[k] = frames[k]
      /\ frames'[Len(frames) + 1] = f
  <2>1. f \in Frame /\ frames' = Append(frames, f)
    BY <1>2, <1>5, Zenon
  <2> QED BY <1>6, <2>1, AppendProperties
<1>8. TypeOK'
  <2>1. Len(given) <= Len(frames) /\ taken \in 0..written
    BY <1>1, Zenon DEF TypeOK
  <2>2. /\ Len(frames') <= MaxFrames /\ written' \in Nat /\ taken' \in 0..written'
        /\ Len(given) <= Len(frames')
    BY <1>2, <1>3, <1>4, <1>7, <2>1, SMT
  <2>3. Len(asked') \in 0..1
    BY <1>2, SMT
  <2> QED BY <1>1, <1>2, <1>7, <2>2, <2>3, Zenon DEF TypeOK
<1>9. frames = <<>> <=> Len(frames) = 0
  BY <1>6, EmptySeq, Zenon
<1>10. frames' # <<>>
  BY <1>3, <1>7, SMT
<1>11. Laid'
  <2>1. /\ Len(frames) > 0 => /\ frames[1].start = 0
                              /\ frames[Len(frames)].start + frames[Len(frames)].size = written
        /\ Len(frames) = 0 => written = 0
        /\ \A k \in 1..Len(frames) - 1 :
             frames[k + 1].start = frames[k].start + frames[k].size
        /\ \A j, k \in 1..Len(frames) :
             j < k => frames[j].start + frames[j].size <= frames[k].start
    <3>1. Len(frames) > 0 => Len(frames) # 0
      BY <1>3, SMT
    <3> QED BY <1>1, <1>9, <3>1, Zenon DEF Laid
  <2>a. Len(frames) \in Nat /\ Len(frames') = Len(frames) + 1
    BY <1>3, <1>7, Zenon
  <2>2. \A k \in 1..Len(frames) : frames[k].start + frames[k].size <= written
    <3> SUFFICES ASSUME NEW k \in 1..Len(frames)
                 PROVE  frames[k].start + frames[k].size <= written
      BY Zenon
    <3>1. CASE k = Len(frames)
      BY <1>3, <2>1, <3>1, SMT
    <3>2. CASE k < Len(frames)
      <4>1. Len(frames) \in 1..Len(frames) /\ Len(frames) > 0
        BY <1>3, <3>2, SMT
      <4>2. frames[k].start + frames[k].size <= frames[Len(frames)].start
        BY <2>1, <3>2, <4>1, Zenon
      <4>3. frames[Len(frames)].start + frames[Len(frames)].size = written
        BY <2>1, <4>1, Zenon
      <4>4. /\ frames[k].start \in Nat /\ frames[k].size \in Nat
            /\ frames[Len(frames)].start \in Nat /\ frames[Len(frames)].size \in Nat
        BY <1>3, <4>1, Zenon
      <4> QED BY <4>2, <4>3, <4>4, SMT
    <3>3. k = Len(frames) \/ k < Len(frames)
      BY <2>a, SMT
    <3> QED BY <3>1, <3>2, <3>3, Zenon
  <2> DEFINE m == Len(frames)
  <2>3. /\ m \in Nat /\ Len(frames') = m + 1 /\ m + 1 - 1 = m
        /\ \A k \in 1..m + 1 : k \in 1..m \/ k = m + 1
        /\ \A k \in 1..m : k \in 1..m - 1 \/ k = m
        /\ \A k \in 1..m : k + 1 \in 1..m \/ k = m
        /\ (m # 0 => m > 0 /\ 1 \in 1..m)
        /\ (m \in 1..m => m > 0)
        /\ \A j, k \in 1..m + 1 : j < k => j \in 1..m
        /\ \A k \in 1..Len(frames') - 1 : k \in 1..m
    BY <2>a, SMT
  <2>4. frames'[1].start = 0
    <3>1. CASE m = 0
      <4>1. m + 1 = 1
        BY <3>1, SMT
      <4> QED BY <1>5, <1>7, <2>1, <3>1, <4>1, Zenon
    <3>2. CASE m # 0
      <4>1. m > 0 /\ 1 \in 1..m
        BY <2>3, <3>2, Zenon
      <4> QED BY <1>7, <2>1, <4>1, Zenon
    <3> QED BY <3>1, <3>2, Zenon
  <2>5. frames'[Len(frames')].start + frames'[Len(frames')].size = written'
    BY <1>2, <1>5, <1>7, <2>3, Zenon
  <2>6. ASSUME NEW k \in 1..m
        PROVE  frames'[k + 1].start = frames'[k].start + frames'[k].size
    <3>1. CASE k = m
      <4>1. m > 0
        BY <2>3, <3>1, Zenon
      <4> QED BY <1>5, <1>7, <2>1, <3>1, <4>1, Zenon
    <3>2. CASE k # m
      <4>1. k \in 1..m - 1 /\ k + 1 \in 1..m
        BY <2>3, <3>2, Zenon
      <4> QED BY <1>7, <2>1, <4>1, Zenon
    <3> QED BY <3>1, <3>2, Zenon
  <2>7. ASSUME NEW j \in 1..m + 1, NEW k \in 1..m + 1, j < k
        PROVE  frames'[j].start + frames'[j].size <= frames'[k].start
    <3>1. j \in 1..m
      BY <2>3, <2>7, Zenon
    <3>2. CASE k = m + 1
      BY <1>5, <1>7, <2>2, <3>1, <3>2, Zenon
    <3>3. CASE k \in 1..m
      BY <1>7, <2>1, <2>7, <3>1, <3>3, Zenon
    <3> QED BY <2>3, <3>2, <3>3, Zenon
  <2>8. \A k \in 1..Len(frames') - 1 : k \in 1..m
    BY <2>3, Zenon
  <2> HIDE DEF m
  <2> QED BY <1>10, <2>3, <2>4, <2>5, <2>6, <2>7, <2>8, Zenon DEF Laid
<1>12. \A k \in 1..Len(frames') : k \in 1..Len(frames) \/ k = Len(frames) + 1
  BY <1>3, <1>7, SMT
<1>13. Kinds'
  <2> SUFFICES ASSUME NEW k \in 1..Len(frames')
               PROVE  /\ frames'[k].msg.kind \notin Unimplemented
                      /\ frames'[k].msg.kind = "auth" <=> k = 1
                      /\ frames'[k].msg.kind \in {"post", "call", "reply"} => cli_callback'
    BY Zenon DEF Kinds
  <2>1. CASE k \in 1..Len(frames)
    BY <1>1, <1>2, <1>7, <2>1, Zenon DEF Kinds
  <2>2. CASE k = Len(frames) + 1
    <3>1. frames'[k].msg.kind = r.kind
      BY <1>5, <1>7, <2>2, Zenon
    <3>2. (k = 1) <=> (frames = <<>>)
      BY <1>3, <1>9, <2>2, SMT
    <3>3. "auth" \notin Unimplemented /\ "auth" \notin {"post", "call", "reply"}
      <4>1. "auth" \in Direct /\ "auth" \notin {"post", "call", "reply"}
        BY SMT DEF Direct
      <4> QED BY <4>1, MonitoredIs, Zenon
    <3>4. CASE frames = <<>>
      BY <1>2, <3>1, <3>2, <3>3, <3>4, Zenon DEF MaySend
    <3>5. CASE frames # <<>>
      BY <1>2, <3>1, <3>2, <3>5, Zenon DEF MaySend
    <3> QED BY <3>4, <3>5, Zenon
  <2> QED BY <1>12, <2>1, <2>2, Zenon
<1>14. Content' /\ Accepted' /\ Pos' = Pos
  BY <1>1, <1>2, Zenon DEF Content, Accepted, Pos, Rest
<1>15. \A k \in 0..Len(frames) : {j \in Expected' : j <= k} = {j \in Expected : j <= k}
  <2> SUFFICES ASSUME NEW k \in 0..Len(frames), NEW j
               PROVE  j \in Expected' /\ j <= k <=> j \in Expected /\ j <= k
    BY Zenon
  <2>1. DOMAIN frames' = 1..Len(frames')
    BY <1>7, LenProperties, Zenon
  <2>2. j \in 1..Len(frames') /\ j <= k => j \in 1..Len(frames)
    BY <1>3, <1>7, SMT
  <2>3. j \in 1..Len(frames) => j \in 1..Len(frames')
    BY <1>3, <1>7, SMT
  <2> QED BY <1>2, <1>3, <1>7, <2>1, <2>2, <2>3, Zenon DEF Expected
<1>16. \A k \in 0..Len(frames) : UpTo(k)' = UpTo(k)
  BY <1>15, Zenon DEF UpTo
<1>17. Progress'
  <2>1. PICK h \in 0..Len(frames) : Handled(h)
    BY <1>1, Zenon DEF Progress
  <2>2. /\ h < Len(frames) => frames[h + 1].start = Pos
        /\ h = Len(frames) => written = Pos
        /\ (authorized <=> h > 0) /\ Len(given) = UpTo(h)
    BY <1>1, <2>1, HandledPlace, Zenon
  <2>3. h \in 0..Len(frames') /\ h < Len(frames')
    BY <1>3, <1>7, SMT
  <2>4. frames'[h + 1].start = Pos'
    <3>1. CASE h < Len(frames)
      <4>1. h + 1 \in 1..Len(frames)
        BY <1>3, <3>1, SMT
      <4> QED BY <1>7, <1>14, <2>2, <3>1, <4>1, Zenon
    <3>2. CASE h = Len(frames)
      BY <1>5, <1>7, <1>14, <2>2, <3>2, Zenon
    <3>3. h < Len(frames) \/ h = Len(frames)
      <4>1. Len(frames) \in Nat
        BY <1>3, Zenon
      <4> QED BY <4>1, SMT
    <3> QED BY <3>1, <3>2, <3>3, Zenon
  <2>5. Handled(h)'
    BY <1>2, <1>16, <2>2, <2>3, <2>4, Zenon DEF Handled
  <2> QED BY <2>3, <2>5, Zenon DEF Progress
<1>18. GivenIntact'
  <2> SUFFICES ASSUME NEW i \in DOMAIN given
               PROVE  \E k \in Expected' :
                        /\ i = UpTo(k)'
                        /\ given[i].msg = frames'[k].msg
                        /\ given[i].msg.kind \in {"post", "call"}
                             => given[i].from = frames'[k].msg.fields.cliname
    BY <1>2, Zenon DEF GivenIntact
  <2>1. PICK k \in Expected : /\ i = UpTo(k)
                              /\ given[i].msg = frames[k].msg
                              /\ given[i].msg.kind \in {"post", "call"}
                                   => given[i].from = frames[k].msg.fields.cliname
    BY <1>1, Zenon DEF GivenIntact
  <2>2. k \in 1..Len(frames)
    BY <1>3, Zenon DEF Expected
  <2>3. k \in 0..Len(frames) /\ k <= k
    BY <1>3, <2>2, SMT
  <2>4. k \in Expected'
    BY <1>15, <2>3, Zenon
  <2> QED BY <1>7, <1>16, <2>1, <2>2, <2>3, <2>4, Zenon
<1>19. RequestIntact'
  BY <1>2, Zenon DEF RequestIntact
<1> QED BY <1>8, <1>11, <1>13, <1>14, <1>17, <1>18, <1>19, Zenon DEF ReceiveInv

\* connection->recv: the bytes read follow those in the buffer.
LEMMA ReceiveRecv ==
  ASSUME ReceiveInv, NEW n \in 1..bufsize, Recv(n)
  PROVE  ReceiveInv'
<1> DEFINE new == [i \in 1..n |-> taken + i - 1]
<1>1. TypeOK /\ Laid /\ Kinds /\ Content /\ Progress /\ Accepted /\ GivenIntact /\ RequestIntact
  BY Zenon DEF ReceiveInv
<1>2. /\ pc = "recv" /\ n \in 1..written - taken /\ n <= Room
      /\ rbuffer' = rbuffer \o new /\ taken' = taken + n /\ off' = 0 /\ pc' = "frames"
      /\ monitor' = monitor /\ frames' = frames /\ written' = written /\ ended' = ended
      /\ err' = err /\ cli_callback' = cli_callback /\ asked' = asked
      /\ authorized' = authorized /\ sender_name' = sender_name /\ tag' = tag /\ given' = given
  BY Zenon DEF Recv, svcVars, msgVars
<1>3. /\ bufsize \in Nat /\ written \in Nat /\ taken \in Nat /\ taken <= written
      /\ Len(rbuffer) \in Nat
  BY <1>1, Sizes, Zenon
<1>4. /\ rbuffer \in Seq(Nat) /\ off = 0
      /\ \A i \in 1..Len(rbuffer) : rbuffer[i] = taken - Len(rbuffer) + i - 1
  BY <1>1, <1>2, Zenon DEF TypeOK, Content
<1>5. new \in Seq(Nat) /\ Len(new) = n /\ \A i \in 1..n : new[i] = taken + i - 1
  BY <1>3, SMT
<1> HIDE DEF new
<1>6. /\ rbuffer' \in Seq(Nat) /\ Len(rbuffer') = Len(rbuffer) + n
      /\ \A i \in 1..Len(rbuffer') :
           rbuffer'[i] = IF i <= Len(rbuffer) THEN rbuffer[i] ELSE new[i - Len(rbuffer)]
  <2> DEFINE b == rbuffer
             t == b \o new
  <2>1. b \in Seq(Nat) /\ new \in Seq(Nat) /\ Len(b) \in Nat /\ Len(new) = n
    BY <1>3, <1>4, <1>5, Zenon
  <2> HIDE DEF b
  <2>2. /\ t \in Seq(Nat) /\ Len(t) = Len(b) + Len(new)
        /\ \A i \in 1..Len(b) + Len(new) : t[i] = IF i <= Len(b) THEN b[i] ELSE new[i - Len(b)]
    BY <2>1, ConcatProperties, Zenon
  <2> HIDE DEF t
  <2>3. /\ t \in Seq(Nat) /\ Len(t) = Len(b) + n
        /\ \A i \in 1..Len(t) : t[i] = IF i <= Len(b) THEN b[i] ELSE new[i - Len(b)]
    BY <2>1, <2>2, Zenon
  <2> QED BY <1>2, <2>3, Zenon DEF b, t
<1>7. Pos' = Pos
  BY <1>2, <1>3, <1>4, <1>6, SMT DEF Pos, Rest
<1>8. TypeOK'
  <2>1. taken' \in 0..written' /\ Len(rbuffer') <= bufsize /\ off' \in 0..Len(rbuffer')
    BY <1>2, <1>3, <1>6, SMT DEF Room
  <2> QED BY <1>1, <1>2, <1>6, <2>1, Zenon DEF TypeOK
<1>9. Laid' /\ Kinds' /\ Accepted' /\ RequestIntact'
  BY <1>1, <1>2, Zenon DEF Laid, Kinds, Accepted, RequestIntact
<1>10. Content'
  <2>1. "frames" # "recv"
    BY SMT
  <2>2. ASSUME NEW i \in 1..Len(rbuffer')
        PROVE  rbuffer'[i] = taken' - Len(rbuffer') + i - 1
    <3>1. CASE i <= Len(rbuffer)
      <4>1. i \in 1..Len(rbuffer)
        BY <1>3, <3>1, SMT
      <4>2. rbuffer'[i] = taken - Len(rbuffer) + i - 1
        BY <1>4, <1>6, <3>1, <4>1, Zenon
      <4> QED BY <1>2, <1>3, <1>6, <4>2, SMT
    <3>2. CASE ~(i <= Len(rbuffer))
      <4>1. i - Len(rbuffer) \in 1..n
        BY <1>3, <1>6, <3>2, SMT
      <4>2. rbuffer'[i] = taken + (i - Len(rbuffer)) - 1
        BY <1>5, <1>6, <3>2, <4>1, Zenon
      <4> QED BY <1>2, <1>3, <1>6, <4>2, SMT
    <3> QED BY <3>1, <3>2, Zenon
  <2> QED BY <1>2, <2>1, <2>2, Zenon DEF Content
<1> QED BY <1>1, <1>2, <1>7, <1>8, <1>9, <1>10, SamePlace, Zenon DEF ReceiveInv

\* The end of the loop in handle_received: what is left keeps its place.
LEMMA ReceiveMoveRest ==
  ASSUME ReceiveInv, MoveRest
  PROVE  ReceiveInv'
<1>1. TypeOK /\ Laid /\ Kinds /\ Content /\ Progress /\ Accepted /\ GivenIntact /\ RequestIntact
  BY Zenon DEF ReceiveInv
<1>2. /\ rbuffer' = SubSeq(rbuffer, off + 1, Len(rbuffer)) /\ off' = 0 /\ pc' = "recv"
      /\ monitor' = monitor /\ frames' = frames /\ written' = written /\ ended' = ended
      /\ taken' = taken /\ err' = err /\ cli_callback' = cli_callback /\ asked' = asked
      /\ authorized' = authorized /\ sender_name' = sender_name /\ tag' = tag /\ given' = given
  BY Zenon DEF MoveRest, Kept, svcVars, msgVars
<1>3. /\ bufsize \in Nat /\ written \in Nat /\ taken \in Nat /\ taken <= written
      /\ Len(rbuffer) \in Nat /\ off \in Nat /\ off <= Len(rbuffer)
  BY <1>1, Sizes, Zenon
<1>4. /\ rbuffer \in Seq(Nat) /\ Len(rbuffer) <= bufsize
      /\ \A i \in 1..Len(rbuffer) : rbuffer[i] = taken - Len(rbuffer) + i - 1
  BY <1>1, Zenon DEF TypeOK, Content
<1>5. /\ rbuffer' \in Seq(Nat) /\ Len(rbuffer') = Len(rbuffer) - off
      /\ \A i \in 1..Len(rbuffer') : rbuffer'[i] = rbuffer[off + i]
  <2> DEFINE r == rbuffer
             s == SubSeq(r, off + 1, Len(r))
  <2>1. r \in Seq(Nat) /\ off \in Nat /\ off <= Len(r) /\ Len(r) \in Nat
    BY <1>3, <1>4, Zenon
  <2> HIDE DEF r
  <2>2. s \in Seq(Nat) /\ Len(s) = Len(r) - off /\ \A i \in 1..Len(s) : s[i] = r[off + i]
    BY <2>1, SMT
  <2> QED BY <1>2, <2>2, Zenon DEF r, s
<1>6. Pos' = Pos
  <2>1. taken' = taken /\ off' = 0 /\ Len(rbuffer') = Len(rbuffer) - off
    BY <1>2, <1>5, Zenon
  <2> QED BY <1>3, <2>1, SMT DEF Pos, Rest
<1>7. TypeOK'
  <2>1. Len(rbuffer') <= bufsize /\ off' \in 0..Len(rbuffer')
    BY <1>2, <1>3, <1>4, <1>5, SMT
  <2> QED BY <1>1, <1>2, <1>5, <2>1, Zenon DEF TypeOK
<1>8. Laid' /\ Kinds' /\ Accepted' /\ RequestIntact'
  BY <1>1, <1>2, Zenon DEF Laid, Kinds, Accepted, RequestIntact
<1>9. Content'
  <2>1. ASSUME NEW i \in 1..Len(rbuffer')
        PROVE  rbuffer'[i] = taken' - Len(rbuffer') + i - 1
    <3>1. off + i \in 1..Len(rbuffer)
      BY <1>3, <1>5, SMT
    <3>2. rbuffer'[i] = taken - Len(rbuffer) + (off + i) - 1
      BY <1>4, <1>5, <3>1, Zenon
    <3>3. taken' = taken /\ Len(rbuffer') = Len(rbuffer) - off
      BY <1>2, <1>5, Zenon
    <3> QED BY <1>3, <3>2, <3>3, SMT
  <2> QED BY <1>2, <2>1, Zenon DEF Content
<1> QED BY <1>1, <1>2, <1>6, <1>7, <1>8, <1>9, SamePlace, Zenon DEF ReceiveInv

\* binary_info and Caps::parse find the next message of the service, and all of it.
LEMMA NextFound ==
  ASSUME TypeOK, Laid, Content, Complete, NEW h \in 0..Len(frames), Handled(h)
  PROVE  /\ h + 1 \in 1..Len(frames) /\ frames[h + 1].start = Pos
         /\ Parsed = {h + 1} /\ off + frames[h + 1].size <= Len(rbuffer)
<1>1. /\ Header \in Nat /\ Header > 0 /\ Len(frames) \in Nat /\ DOMAIN frames = 1..Len(frames)
      /\ written \in Nat /\ taken \in Nat /\ taken <= written
      /\ Len(rbuffer) \in Nat /\ off \in Nat /\ off <= Len(rbuffer)
  BY Sizes, Zenon
<1>2. \A k \in 1..Len(frames) : /\ frames[k].start \in Nat /\ frames[k].size \in Nat
                                /\ frames[k].size >= Header
  BY Sizes, Zenon
<1>3. Rest >= Header /\ \A i \in Here : Rest >= frames[i].size
  BY Zenon DEF Complete
<1>4. off < Len(rbuffer) /\ Pos < written /\ off + 1 \in 1..Len(rbuffer)
  BY <1>1, <1>3, SMT DEF Pos, Rest
<1>5. h < Len(frames)
  <2>1. h = Len(frames) => written = Pos
    BY HandledPlace, Zenon
  <2>2. written # Pos
    BY <1>1, <1>4, SMT DEF Pos, Rest
  <2>3. h = Len(frames) \/ h < Len(frames)
    <3>1. Len(frames) \in Nat
      BY <1>1, Zenon
    <3> QED BY <3>1, SMT
  <2> QED BY <2>1, <2>2, <2>3, Zenon
<1>6. h + 1 \in 1..Len(frames) /\ frames[h + 1].start = Pos
  <2>1. h + 1 \in 1..Len(frames)
    BY <1>1, <1>5, SMT
  <2> QED BY <1>5, <2>1, HandledPlace, Zenon
<1>7. \A j \in Nat : off + 1 + j \in 1..Len(rbuffer) => rbuffer[off + 1 + j] = Pos + j
  <2> SUFFICES ASSUME NEW j \in Nat, off + 1 + j \in 1..Len(rbuffer)
               PROVE  rbuffer[off + 1 + j] = Pos + j
    BY Zenon
  <2>1. rbuffer[off + 1 + j] = taken - Len(rbuffer) + (off + 1 + j) - 1
    BY Zenon DEF Content
  <2> QED BY <1>1, <2>1, SMT DEF Pos, Rest
<1>8. rbuffer[off + 1] = Pos
  BY <1>1, <1>4, SMT DEF Content, Pos, Rest
<1>9. \A i \in 1..Len(frames) : frames[i].start = Pos => i = h + 1
  <2> SUFFICES ASSUME NEW i \in 1..Len(frames), frames[i].start = Pos, i # h + 1 PROVE FALSE
    BY Zenon
  <2> DEFINE g == h + 1
  <2>1. g \in 1..Len(frames) /\ i # g /\ frames[g].start = Pos
    BY <1>6, Zenon
  <2> HIDE DEF g
  <2>2. \A j, k \in 1..Len(frames) :
          j < k => frames[j].start + frames[j].size <= frames[k].start
    BY Zenon DEF Laid
  <2>3. i < g \/ g < i
    BY <1>1, <2>1, SMT
  <2>4. CASE i < g
    <3>1. frames[i].start + frames[i].size <= frames[g].start
      BY <2>1, <2>2, <2>4, Zenon
    <3> QED BY <1>1, <1>2, <2>1, <3>1, SMT
  <2>5. CASE g < i
    <3>1. frames[g].start + frames[g].size <= frames[i].start
      BY <2>1, <2>2, <2>5, Zenon
    <3> QED BY <1>1, <1>2, <2>1, <3>1, SMT
  <2> QED BY <2>3, <2>4, <2>5, Zenon
<1>10. Here = {h + 1}
  BY <1>1, <1>4, <1>6, <1>8, <1>9, Zenon DEF Here
<1>11. off + frames[h + 1].size <= Len(rbuffer)
  <2>1. Rest >= frames[h + 1].size /\ frames[h + 1].size \in Nat
    BY <1>2, <1>3, <1>6, <1>10, Zenon
  <2> QED BY <1>1, <2>1, SMT DEF Rest
<1>12. ASSUME NEW j \in 0..frames[h + 1].size - 1
       PROVE  rbuffer[off + 1 + j] = frames[h + 1].start + j
  <2>1. frames[h + 1].size \in Nat
    BY <1>2, <1>6, Zenon
  <2>2. j \in Nat /\ off + 1 + j \in 1..Len(rbuffer)
    BY <1>1, <1>11, <2>1, SMT
  <2> QED BY <1>6, <1>7, <2>2, Zenon
<1>13. Parsed = {h + 1}
  BY <1>10, <1>12, Zenon DEF Parsed
<1> QED BY <1>6, <1>11, <1>13, Zenon

\* What the handlers of the commands do with the next message.
LEMMA NextGiven ==
  ASSUME ReceiveInv, NEW h \in 0..Len(frames), Handled(h), h + 1 \in 1..Len(frames),
         NEW r, r = frames[h + 1].msg, UNCHANGED cli_callback,
         IF authorized THEN after_auth(r.kind, r.fields) ELSE before_auth(r.kind, r.fields)
  PROVE  /\ pc' = pc /\ err' = err /\ authorized' = TRUE
         /\ sender_name' \in Sender /\ tag' \in {0} \cup {s.fields.tag : s \in Tagged}
         /\ h + 1 \notin Expected => given' = given
         /\ h + 1 \in Expected =>
              /\ sender_name' = IF r.kind \in {"post", "call"} THEN r.fields.cliname
                                                               ELSE sender_name
              /\ given' = Append(given, [msg |-> r, from |-> sender_name'])
<1> DEFINE toClient == r.kind \in {"post", "call", "reply"}
<1>1. TypeOK /\ Laid /\ Kinds
  BY Zenon DEF ReceiveInv
<1>2. /\ Len(frames) \in Nat /\ DOMAIN frames = 1..Len(frames) /\ r \in Responses
  BY <1>1, Sizes, Zenon
<1>3. /\ r.kind \notin Unimplemented /\ (r.kind = "auth" <=> h + 1 = 1)
      /\ (toClient => cli_callback)
  BY <1>1, Zenon DEF Kinds
<1>4. /\ r = [kind |-> r.kind, fields |-> r.fields] /\ (r.kind # "pong" => r.fields # Failed)
      /\ r.kind \in Direct \cup Listing
  BY <1>2, <1>3, UnderstoodIs, Zenon
<1>5. authorized <=> h > 0
  BY <1>1, HandledPlace, Zenon
<1>6. authorized <=> ~(h + 1 = 1)
  BY <1>2, <1>5, SMT
<1>7. h + 1 \in Expected <=> toClient \/ (r.kind \in Monitored /\ monitor)
  BY <1>2, Zenon DEF Expected
<1>8. /\ "auth" \notin {"post", "call", "reply"} /\ "pong" \notin {"post", "call", "reply"}
      /\ "auth" # "pong" /\ "auth" \notin Monitored /\ "pong" \notin Monitored
      /\ \A k \in {"post", "call", "reply"} : k \notin Monitored
  <2>1. /\ "auth" \notin {"post", "call", "reply"} /\ "pong" \notin {"post", "call", "reply"}
        /\ "auth" # "pong" /\ "auth" \in Direct /\ "pong" \in Direct
        /\ {"post", "call", "reply"} \subseteq Direct
    BY SMT DEF Direct
  <2> QED BY <2>1, MonitoredIs, Zenon
<1>9. /\ sender_name \in Sender /\ tag \in {0} \cup {s.fields.tag : s \in Tagged}
      /\ authorized \in BOOLEAN /\ monitor \in BOOLEAN
  BY <1>1, Zenon DEF TypeOK
<1>10. CASE ~authorized
  <2>1. r.kind = "auth" /\ r.fields # Failed
    BY <1>3, <1>4, <1>6, <1>8, <1>10, Zenon
  <2>2. before_auth(r.kind, r.fields)
    BY <1>10, Zenon
  <2>3. authorized' = (r.kind = "auth" /\ r.fields # Failed)
    BY <2>2, Zenon DEF before_auth
  <2>4. authorized' = TRUE
    BY <2>1, <2>3, Zenon
  <2>5. UNCHANGED <<pc, err, sender_name, tag, given>>
    BY <2>2, <2>4, Zenon DEF before_auth
  <2>6. h + 1 \notin Expected
    BY <1>7, <1>8, <2>1, Zenon
  <2> QED BY <1>9, <2>4, <2>5, <2>6, Zenon
<1>11. CASE authorized
  <2>1. r.kind # "auth" /\ after_auth(r.kind, r.fields)
    BY <1>3, <1>6, <1>11, Zenon
  <2>2. authorized' = TRUE
    BY <1>9, <1>11, <2>1, Zenon DEF after_auth
  <2>3. CASE r.kind = "pong" \/ (r.kind \in Monitored /\ ~monitor)
    <3>1. UNCHANGED <<pc, err, sender_name, tag, given>>
      BY <2>1, <2>3, Zenon DEF after_auth
    <3>2. h + 1 \notin Expected
      BY <1>7, <1>8, <2>3, Zenon
    <3> QED BY <1>9, <2>2, <3>1, <3>2, Zenon
  <2>4. CASE ~(r.kind = "pong" \/ (r.kind \in Monitored /\ ~monitor))
    <3>1. ~(r.kind = "auth" \/ r.fields = Failed)
      BY <1>4, <2>1, <2>4, Zenon
    <3>2. /\ sender_name' = IF r.kind \in {"post", "call"} THEN r.fields.cliname ELSE sender_name
          /\ tag' = IF toClient THEN r.fields.tag ELSE tag
          /\ given' = IF toClient => cli_callback THEN Give(r.kind, r.fields) ELSE given
          /\ UNCHANGED <<pc, err>>
      BY <2>1, <2>4, <3>1, Zenon DEF after_auth
    <3>3. h + 1 \in Expected
      <4>1. CASE r.kind \in Listing
        <5>1. r.kind \in Monitored
          BY <4>1, MonitoredIs, Zenon
        <5> QED BY <1>7, <1>9, <2>4, <5>1, Zenon
      <4>2. CASE r.kind \in Direct
        <5>1. toClient
          BY <2>1, <2>4, <4>2, Zenon DEF Direct
        <5> QED BY <1>7, <5>1, Zenon
      <4> QED BY <1>4, <4>1, <4>2, Zenon
    <3>4. given' = Append(given, [msg |-> r, from |-> sender_name'])
      BY <1>3, <1>4, <3>2, Zenon DEF Give
    <3>5. tag' \in {0} \cup {s.fields.tag : s \in Tagged}
      <4>1. toClient => r \in Tagged
        BY <1>2, Zenon DEF Tagged
      <4> QED BY <1>9, <3>2, <4>1, Zenon
    <3>6. sender_name' \in Sender
      <4>1. CASE r.kind \in {"post", "call"}
        <5>1. toClient /\ r.kind # "reply"
          BY <4>1, SMT
        <5>2. r \in {s \in Tagged : s.kind # "reply"}
          BY <1>2, <5>1, Zenon DEF Tagged
        <5>3. sender_name' = r.fields.cliname
          BY <3>2, <4>1, Zenon
        <5> QED BY <5>2, <5>3, Zenon DEF Sender
      <4>2. CASE r.kind \notin {"post", "call"}
        BY <1>9, <3>2, <4>2, Zenon
      <4> QED BY <4>1, <4>2, Zenon
    <3> QED BY <2>2, <3>2, <3>3, <3>4, <3>5, <3>6, Zenon
  <2> QED BY <2>3, <2>4, Zenon
<1> QED BY <1>10, <1>11, Zenon

\* A turn of the loop in handle_received: the next message is handled.
LEMMA ReceiveHandle ==
  ASSUME ReceiveInv, Handle
  PROVE  ReceiveInv'
<1>1. TypeOK /\ Laid /\ Kinds /\ Content /\ Progress /\ Accepted /\ GivenIntact /\ RequestIntact
  BY Zenon DEF ReceiveInv
<1>2. /\ pc = "frames" /\ Complete
      /\ monitor' = monitor /\ frames' = frames /\ written' = written /\ ended' = ended
      /\ taken' = taken /\ rbuffer' = rbuffer /\ cli_callback' = cli_callback /\ asked' = asked
  BY Zenon DEF Handle, svcVars
<1>3. PICK h \in 0..Len(frames) : Handled(h)
  BY <1>1, Zenon DEF Progress
<1> DEFINE g == h + 1
           r == frames[g].msg
<1>4. /\ g \in 1..Len(frames) /\ frames[g].start = Pos
      /\ Parsed = {g} /\ off + frames[g].size <= Len(rbuffer)
  BY <1>1, <1>2, <1>3, NextFound, Zenon
<1>5. /\ off' = off + frames[g].size
      /\ LET m == Understood[r] IN
         IF authorized THEN after_auth(m.kind, m.got) ELSE before_auth(m.kind, m.got)
  <2> HIDE DEF g
  <2>1. Parsed # {}
    BY <1>4, Zenon
  <2>2. \E i \in Parsed :
            LET m == Understood[frames[i].msg] IN
            /\ off' = off + frames[i].size
            /\ IF authorized THEN after_auth(m.kind, m.got) ELSE before_auth(m.kind, m.got)
    BY <2>1, Zenon DEF Handle
  <2> QED BY <1>4, <2>2, Zenon
<1>6. /\ Len(frames) \in Nat /\ DOMAIN frames = 1..Len(frames)
      /\ frames[g].start \in Nat /\ r \in Responses /\ frames[g].size \in Nat
      /\ Len(rbuffer) \in Nat /\ off \in Nat /\ off <= Len(rbuffer) /\ taken \in Nat
      /\ Len(given) \in Nat /\ DOMAIN given = 1..Len(given)
  BY <1>1, <1>4, Sizes, Zenon
<1>7. r.kind \notin Unimplemented
  BY <1>1, <1>4, Zenon DEF Kinds
<1>8. Understood[r].kind = r.kind /\ Understood[r].got = r.fields
  BY <1>6, <1>7, UnderstoodIs, Zenon
<1>9. IF authorized THEN after_auth(r.kind, r.fields) ELSE before_auth(r.kind, r.fields)
  BY <1>5, <1>8, Zenon
<1>10. /\ pc' = pc /\ err' = err /\ authorized' = TRUE
       /\ sender_name' \in Sender /\ tag' \in {0} \cup {s.fields.tag : s \in Tagged}
       /\ g \notin Expected => given' = given
       /\ g \in Expected =>
            /\ sender_name' = IF r.kind \in {"post", "call"} THEN r.fields.cliname ELSE sender_name
            /\ given' = Append(given, [msg |-> r, from |-> sender_name'])
  BY <1>2, <1>3, <1>4, <1>9, NextGiven, Zenon
<1>11. g - 1 = h /\ g > 0 /\ g \in 0..Len(frames) /\ (h = 0 \/ h \in 1..Len(frames))
  <2>1. Len(frames) \in Nat
    BY <1>6, Zenon
  <2>2. h + 1 \in 1..Len(frames)
    BY <1>4, Zenon
  <2> QED BY <2>1, <2>2, SMT
<1> HIDE DEF g
<1>12. UpTo(g) = (IF g \in Expected THEN UpTo(h) + 1 ELSE UpTo(h)) /\ UpTo(g) \in Nat /\ UpTo(g) <= g
  BY <1>1, <1>4, <1>11, Counting, Zenon
<1>13. Len(given) = UpTo(h)
  BY <1>1, <1>3, HandledPlace, Zenon
<1> DEFINE e == [msg |-> r, from |-> sender_name']
<1>14. e \in [msg : Responses, from : Sender] /\ e.msg = r /\ e.from = sender_name'
  BY <1>6, <1>10, SMT
<1> HIDE DEF e, r
<1>15. given \in Seq([msg : Responses, from : Sender])
  BY <1>1, Zenon DEF TypeOK
<1>16. ASSUME g \in Expected
       PROVE  /\ given' \in Seq([msg : Responses, from : Sender])
              /\ Len(given') = Len(given) + 1
              /\ \A i \in 1..Len(given) : given'[i] = given[i]
              /\ given'[Len(given) + 1] = e
  <2> DEFINE E == [msg : Responses, from : Sender]
  <2>1. given \in Seq(E) /\ e \in E /\ given' = Append(given, e)
    BY <1>10, <1>14, <1>15, <1>16, Zenon DEF e
  <2> HIDE DEF E
  <2>2. /\ given' \in Seq(E) /\ Len(given') = Len(given) + 1
        /\ \A i \in 1..Len(given) : given'[i] = given[i]
        /\ given'[Len(given) + 1] = e
    BY <2>1, AppendProperties
  <2> QED BY <2>2, Zenon DEF E
<1>17. given' \in Seq([msg : Responses, from : Sender]) /\ Len(given') = UpTo(g)
  BY <1>10, <1>12, <1>13, <1>15, <1>16, Zenon
<1>18. TypeOK'
  <2>1. Len(given') <= Len(frames')
    <3>1. Len(frames) \in Nat /\ g \in 0..Len(frames) /\ UpTo(g) \in Nat /\ UpTo(g) <= g
      BY <1>6, <1>11, <1>12, Zenon
    <3>2. UpTo(g) <= Len(frames)
      BY <3>1, SMT
    <3> QED BY <1>2, <1>17, <3>2, Zenon
  <2>2. off' \in 0..Len(rbuffer')
    <3>1. off + frames[g].size \in 0..Len(rbuffer)
      BY <1>4, <1>6, SMT
    <3> QED BY <1>2, <1>5, <3>1, Zenon
  <2>3. authorized' \in BOOLEAN
    BY <1>10, Zenon
  <2> QED BY <1>1, <1>2, <1>10, <1>17, <2>1, <2>2, <2>3, Zenon DEF TypeOK
<1>19. Laid' /\ Kinds' /\ Accepted' /\ RequestIntact'
  BY <1>1, <1>2, <1>10, Zenon DEF Laid, Kinds, Accepted, RequestIntact
<1>20. Content'
  <2>1. "frames" # "recv"
    BY SMT
  <2> QED BY <1>1, <1>2, <1>10, <2>1, Zenon DEF Content
<1>21. Expected' = Expected
  BY <1>2, SMT DEF Expected
<1>22. \A k : UpTo(k)' = UpTo(k)
  BY <1>21, SMT DEF UpTo
<1>23. Progress'
  <2>1. Pos' = frames[g].start + frames[g].size
    <3>1. off' = off + frames[g].size /\ taken' = taken /\ rbuffer' = rbuffer
      BY <1>2, <1>5, Zenon
    <3>2. frames[g].start = taken - (Len(rbuffer) - off)
      BY <1>4, Zenon DEF Pos, Rest
    <3>3. Pos' = taken' - (Len(rbuffer') - off')
      BY Zenon DEF Pos, Rest
    <3>4. /\ frames[g].size \in Nat /\ Len(rbuffer) \in Nat
          /\ off \in Nat /\ taken \in Nat
      BY <1>6, Zenon
    <3>5. Pos' = taken - (Len(rbuffer) - (off + frames[g].size))
      BY <3>1, <3>3, Zenon
    <3> QED BY <3>2, <3>4, <3>5, SMT
  <2>2. IF g < Len(frames) THEN frames[g + 1].start = Pos' ELSE written = Pos'
    <3>1. CASE g < Len(frames)
      <4>1. g \in 1..Len(frames) - 1
        BY <1>4, <1>6, <3>1, SMT
      <4>2. frames[g + 1].start = frames[g].start + frames[g].size
        BY <1>1, <4>1, Zenon DEF Laid
      <4> QED BY <2>1, <3>1, <4>2, Zenon
    <3>2. CASE ~(g < Len(frames))
      <4>1. g = Len(frames) /\ Len(frames) # 0
        <5>1. Len(frames) \in Nat /\ g \in 1..Len(frames)
          BY <1>4, <1>6, Zenon
        <5> QED BY <3>2, <5>1, SMT
      <4>2. frames # <<>>
        BY <4>1, SMT
      <4>3. frames[Len(frames)].start + frames[Len(frames)].size = written
        BY <1>1, <4>2, Zenon DEF Laid
      <4> QED BY <2>1, <3>2, <4>1, <4>3, Zenon
    <3> QED BY <3>1, <3>2, Zenon
  <2>3. UpTo(g)' = UpTo(g)
    BY <1>22, Zenon
  <2>4. authorized' <=> g > 0
    BY <1>10, <1>11, Zenon
  <2>5. Handled(g)'
    BY <1>2, <1>17, <2>2, <2>3, <2>4, SMT DEF Handled
  <2> QED BY <1>2, <1>11, <2>5, Zenon DEF Progress
<1>24. GivenIntact'
  <2> DEFINE Intact(i, k) == /\ i = UpTo(k)
                             /\ given'[i].msg = frames[k].msg
                             /\ given'[i].msg.kind \in {"post", "call"}
                                  => given'[i].from = frames[k].msg.fields.cliname
  <2>1. ASSUME NEW i \in 1..Len(given), given'[i] = given[i]
        PROVE  \E k \in Expected : Intact(i, k)
    BY <1>1, <1>6, <2>1, Zenon DEF GivenIntact
  <2>2. ASSUME g \in Expected PROVE Intact(Len(given) + 1, g)
    <3>1. Len(given) + 1 = UpTo(g)
      BY <1>12, <1>13, <2>2, Zenon
    <3>2. given'[Len(given) + 1] = e
      BY <1>16, <2>2, Zenon
    <3>3. e.msg = frames[g].msg
      BY <1>14, Zenon DEF r
    <3>4. e.msg.kind \in {"post", "call"} => e.from = frames[g].msg.fields.cliname
      BY <1>10, <1>14, <2>2, Zenon DEF r
    <3> QED BY <3>1, <3>2, <3>3, <3>4, Zenon
  <2>3. DOMAIN given' = 1..Len(given')
    BY <1>17, LenProperties, Zenon
  <2>4. ASSUME NEW i \in DOMAIN given' PROVE \E k \in Expected : Intact(i, k)
    <3>1. CASE g \in Expected
      <4>1. i \in 1..Len(given) \/ i = Len(given) + 1
        <5>1. i \in 1..Len(given) + 1 /\ Len(given) \in Nat
          BY <1>6, <1>16, <2>3, <3>1, Zenon
        <5> QED BY <5>1, SMT
      <4>2. CASE i = Len(given) + 1
        BY <2>2, <3>1, <4>2, Zenon
      <4>3. CASE i \in 1..Len(given)
        <5>1. given'[i] = given[i]
          BY <1>16, <3>1, <4>3, Zenon
        <5> QED BY <2>1, <4>3, <5>1, Zenon
      <4> QED BY <4>1, <4>2, <4>3, Zenon
    <3>2. CASE g \notin Expected
      <4>1. given' = given
        BY <1>10, <3>2, Zenon
      <4>2. i \in 1..Len(given) /\ given'[i] = given[i]
        BY <1>6, <4>1, Zenon
      <4> QED BY <2>1, <4>2, Zenon
    <3> QED BY <3>1, <3>2, Zenon
  <2> QED BY <1>2, <1>21, <1>22, <2>4, Zenon DEF GivenIntact
<1> QED BY <1>18, <1>19, <1>20, <1>23, <1>24, Zenon DEF ReceiveInv

LEMMA ReceiveStep ==
  ASSUME ReceiveInv, [Next]_vars
  PROVE  ReceiveInv'
<1>1. CASE End \/ ConnectReturns \/ BufferFull \/ RecvEnd \/ \E q \in Requests : Ask(q)
  BY <1>1, ReceiveSmall, Zenon
<1>2. CASE \E r \in Responses, n \in Length : Send(r, n)
  BY <1>2, ReceiveSend, Zenon
<1>3. CASE \E n \in 1..bufsize : Recv(n)
  BY <1>3, ReceiveRecv, Zenon
<1>4. CASE MoveRest
  BY <1>4, ReceiveMoveRest, Zenon
<1>5. CASE Handle
  BY <1>5, ReceiveHandle, Zenon
<1>6. CASE UNCHANGED vars
  <2>1. /\ UNCHANGED <<monitor, frames, written, taken, rbuffer, off, authorized,
                       sender_name, tag, given>>
        /\ ended' = ended /\ cli_callback' = cli_callback /\ pc' = pc /\ err' = err
        /\ asked' = asked
    BY <1>6, Zenon DEF vars, svcVars, recvVars, msgVars
  <2>2. /\ ended \in BOOLEAN /\ cli_callback \in BOOLEAN /\ Len(asked) \in 0..1
        /\ RequestIntact
    BY Zenon DEF ReceiveInv, TypeOK
  <2>3. RequestIntact'
    BY <2>1, <2>2, Zenon DEF RequestIntact
  <2> QED BY <2>1, <2>2, <2>3, ReceiveQuiet, Zenon
<1> QED BY <1>1, <1>2, <1>3, <1>4, <1>5, <1>6, Zenon DEF Next, RecvStep

LEMMA ReceiveInvariant == Spec => []ReceiveInv
<1>1. Init => ReceiveInv
  BY ReceiveInit, Zenon
<1>2. ReceiveInv /\ [Next]_vars => ReceiveInv'
  BY ReceiveStep, Zenon
<1> QED BY <1>1, <1>2, PTL DEF Spec

\* The variables of recv_loop and handle_received keep their types: off stays in
\* the buffer, and no more is given than was sent.
THEOREM ReceiveTypes == Spec => []TypeOK
<1>1. ReceiveInv => TypeOK
  BY Zenon DEF ReceiveInv
<1> QED BY <1>1, ReceiveInvariant, PTL

\* recv_loop, handle_received and the handlers of the commands: the callbacks get the
\* messages whole, in order and once each, wherever the reads end and whatever their
\* number, sizes and fields.
THEOREM MessagesGivenIntact == Spec => []GivenIntact
<1>1. ReceiveInv => GivenIntact
  BY Zenon DEF ReceiveInv
<1> QED BY <1>1, ReceiveInvariant, PTL

\* RequestSerializer to the handlers of Dispatcher: a request is read as it was sent.
THEOREM RequestsReadIntact == Spec => []RequestIntact
<1>1. ReceiveInv => RequestIntact
  BY Zenon DEF ReceiveInv
<1> QED BY <1>1, ReceiveInvariant, PTL

\* handle_received: no message of the service is taken for a malformed one, so that
\* recv_loop ends only because the service ended or the buffer is full.
THEOREM NoneRefused == Spec => [](err # "message")
<1>1. ReceiveInv => err # "message"
  BY Zenon DEF ReceiveInv, Accepted
<1> QED BY <1>1, ReceiveInvariant, PTL
=============================================================================
