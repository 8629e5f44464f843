--------------------------- MODULE ClientReceive ----------------------------
(***************************************************************************)
(* The receiving thread of a client: Client::recv_loop, handle_received    *)
(* and the handlers of the commands (src/src/cli.cc), on the messages that *)
(* the service writes (Wire.tla).                                          *)
(*                                                                         *)
(* A byte is known by its place in the stream of the service.  What a      *)
(* handler is given is recorded, and compared with what was sent.  The     *)
(* pending requests that replies belong to are the subject of Client.tla.  *)
(***************************************************************************)
EXTENDS Wire, Integers, FiniteSets

CONSTANTS
  bufsize,    \* ClientOptions::bufsize
  Header,     \* bytes that binary_info needs
  Length,     \* the lengths of messages
  Responses,  \* messages of the service: their kind and their fields
  Requests,   \* messages of the client
  MaxFrames   \* bound: messages of the service

ASSUME ReceiveAssumption ==
  /\ Header \in Nat \ {0} /\ bufsize \in Nat /\ Header <= bufsize
  /\ Length \subseteq Nat /\ \A n \in Length : n >= Header
  /\ MaxFrames \in Nat
  /\ \A r \in Responses : IsResponse(r)
  /\ \A q \in Requests : IsRequest(q)

VARIABLES
  monitor,      \* mon_callback is set
  frames,       \* what the service has written
  written,      \* bytes it has written
  ended,        \* it has closed the connection
  taken,        \* bytes the client has read
  rbuffer,      \* the bytes in rbuffer, rbuf_off or size of them
  off,          \* handle_received: off
  pc,           \* where the receiving thread is
  err,          \* what ended it
  authorized,   \* cmd_handler is handle_cmd_after_auth
  cli_callback, \* cli_callback is set
  sender_name,  \* sender_name of the thread
  tag,          \* tag of the thread
  given,        \* what the callbacks have been given
  asked         \* the last request, and what the service got of it

svcVars  == <<frames, written, ended>>
recvVars == <<taken, rbuffer, off, pc, err>>
msgVars  == <<authorized, sender_name, tag, given>>
vars     == <<monitor, svcVars, recvVars, msgVars, cli_callback, asked>>

Nobody == 0

Frame  == [start : Nat, size : Length, msg : Responses]
Tagged == {r \in Responses : r.kind \in {"post", "call", "reply"}}
Sender == {Nobody} \cup {r.fields.cliname : r \in {s \in Tagged : s.kind # "reply"}}

TypeOK ==
  /\ {monitor, ended, authorized, cli_callback} \subseteq BOOLEAN
  /\ frames \in Seq(Frame) /\ Len(frames) <= MaxFrames
  /\ written \in Nat /\ taken \in 0..written
  /\ rbuffer \in Seq(Nat) /\ Len(rbuffer) <= bufsize /\ off \in 0..Len(rbuffer)
  /\ pc \in {"recv", "frames", "done"} /\ err \in {"none", "full", "eof", "message"}
  /\ sender_name \in Sender /\ tag \in {0} \cup {r.fields.tag : r \in Tagged}
  /\ given \in Seq([msg : Responses, from : Sender]) /\ Len(given) <= Len(frames)
  /\ Len(asked) \in 0..1

Init ==
  /\ monitor \in BOOLEAN
  /\ frames = <<>> /\ written = 0 /\ ended = FALSE
  /\ taken = 0 /\ rbuffer = <<>> /\ off = 0 /\ pc = "recv" /\ err = "none"
  /\ authorized = FALSE /\ cli_callback = FALSE
  /\ sender_name = Nobody /\ tag = 0 /\ given = <<>> /\ asked = <<>>
-----------------------------------------------------------------------------
(***************************************************************************)
(* The service, and the application.                                       *)
(***************************************************************************)

\* The answer to auth comes first.  Of topics and methods the service hears when
\* connect has returned.  What is not implemented is not written.
MaySend(kind) ==
  IF frames = <<>> THEN kind = "auth"
  ELSE /\ kind # "auth" /\ kind \notin Unimplemented
       /\ kind \in {"post", "call", "reply"} => cli_callback

Send(r, n) ==
  /\ ~ended /\ pc # "done" /\ Len(frames) < MaxFrames /\ MaySend(r.kind)
  /\ frames' = Append(frames, [start |-> written, size |-> n, msg |-> r])
  /\ written' = written + n
  /\ asked' = <<>>
  /\ UNCHANGED <<monitor, ended, recvVars, msgVars, cli_callback>>

End ==
  /\ ~ended
  /\ ended' = TRUE
  /\ UNCHANGED <<monitor, frames, written, recvVars, msgVars, cli_callback, asked>>

\* connect goes on after the answer to auth, and sets cli_callback.
ConnectReturns ==
  /\ authorized /\ ~cli_callback
  /\ cli_callback' = TRUE
  /\ UNCHANGED <<monitor, svcVars, recvVars, msgVars, asked>>

\* A request of the client.  The other direction is independent of this one, and
\* looked at while nothing is under way here.
Ask(q) ==
  /\ taken = written /\ asked = <<>> /\ Len(frames) <= 1
  /\ IF q.kind = "auth" THEN frames = <<>> ELSE cli_callback
  /\ asked' = <<[sent |-> [kind |-> q.kind, got |-> q.fields],
                 got  |-> RequestGot(Request(q.kind, q.fields))]>>
  /\ UNCHANGED <<monitor, svcVars, recvVars, msgVars, cli_callback>>
-----------------------------------------------------------------------------
(***************************************************************************)
(* recv_loop.                                                              *)
(***************************************************************************)
\* Mutant: one byte is kept back.
Full_early == Len(rbuffer) >= bufsize - 1

Full == Len(rbuffer) = bufsize

Room == bufsize - Len(rbuffer)

\* iclose(true, why)
Finish(why) == pc' = "done" /\ err' = why

BufferFull ==
  /\ pc = "recv" /\ Full
  /\ Finish("full")
  /\ UNCHANGED <<monitor, svcVars, taken, rbuffer, off, msgVars, cli_callback, asked>>

RecvEnd ==
  /\ pc = "recv" /\ ~Full /\ ended /\ taken = written
  /\ Finish("eof")
  /\ UNCHANGED <<monitor, svcVars, taken, rbuffer, off, msgVars, cli_callback, asked>>

\* connection->recv returns n bytes.
Recv(n) ==
  /\ pc = "recv" /\ ~Full
  /\ n \in 1..written - taken /\ n <= Room
  /\ rbuffer' = rbuffer \o [i \in 1..n |-> taken + i - 1]
  /\ taken' = taken + n
  /\ off' = 0 /\ pc' = "frames"
  /\ UNCHANGED <<monitor, svcVars, err, msgVars, cli_callback, asked>>
-----------------------------------------------------------------------------
(***************************************************************************)
(* handle_received: the loop over complete messages.                       *)
(***************************************************************************)
Rest == Len(rbuffer) - off

\* binary_info: the message that begins at off, if one does.
Here == {i \in DOMAIN frames : off < Len(rbuffer) /\ frames[i].start = rbuffer[off + 1]}

Complete == Rest >= Header /\ \A i \in Here : Rest >= frames[i].size

\* Mutant: what is left is not moved.
Kept_unmoved == SubSeq(rbuffer, 1, Rest)

Kept == SubSeq(rbuffer, off + 1, Len(rbuffer))

\* The loop ends; what is left goes to the front.
MoveRest ==
  /\ pc = "frames" /\ ~Complete
  /\ rbuffer' = Kept /\ off' = 0
  /\ pc' = "recv"
  /\ UNCHANGED <<monitor, svcVars, taken, err, msgVars, cli_callback, asked>>

\* binary_info and Caps::parse: the message in the buffer, unless no message begins
\* at off or bytes of another follow.
Parsed ==
  {i \in Here : \A j \in 0..frames[i].size - 1 : rbuffer[off + 1 + j] = frames[i].start + j}

\* What the client reads in each message of the service.
Understood ==
  [r \in {s \in Responses : s.kind \notin Unimplemented} |->
     LET caps == Response(r.kind, r.fields) IN
     [kind |-> ResponseKind(caps), got |-> ResponseGot(caps)]]

\* handle_cmd_before_auth
before_auth(kind, got) ==
  /\ authorized' = (kind = "auth" /\ got # Failed)
  /\ IF authorized' THEN UNCHANGED <<pc, err>> ELSE Finish("message")
  /\ UNCHANGED <<sender_name, tag, given>>

Give(kind, got) ==
  Append(given, [msg |-> [kind |-> kind, fields |-> got], from |-> sender_name'])

\* handle_cmd_after_auth.  A reply sets tag and leaves sender_name.
after_auth(kind, got) ==
  LET toClient == kind \in {"post", "call", "reply"} IN
  /\ UNCHANGED authorized
  /\ IF kind = "pong" \/ (kind \in Monitored /\ ~monitor)
     THEN UNCHANGED <<pc, err, sender_name, tag, given>>
     ELSE IF kind = "auth" \/ got = Failed
     THEN Finish("message") /\ UNCHANGED <<sender_name, tag, given>>
     ELSE /\ sender_name' = IF kind \in {"post", "call"} THEN got.cliname ELSE sender_name
          /\ tag' = IF toClient THEN got.tag ELSE tag
          /\ given' = IF toClient => cli_callback THEN Give(kind, got) ELSE given
          /\ UNCHANGED <<pc, err>>

Handle ==
  /\ pc = "frames" /\ Complete
  /\ IF Parsed = {}
     THEN Finish("message") /\ UNCHANGED <<off, msgVars>>
     ELSE \E i \in Parsed :
            LET m == Understood[frames[i].msg] IN
            /\ off' = off + frames[i].size
            /\ IF authorized THEN after_auth(m.kind, m.got) ELSE before_auth(m.kind, m.got)
  /\ UNCHANGED <<monitor, svcVars, taken, rbuffer, cli_callback, asked>>
-----------------------------------------------------------------------------
RecvStep ==
  BufferFull \/ RecvEnd \/ (\E n \in 1..bufsize : Recv(n)) \/ MoveRest \/ Handle

Next ==
  \/ RecvStep \/ ConnectReturns \/ End
  \/ \E r \in Responses, n \in Length : Send(r, n)
  \/ \E q \in Requests : Ask(q)

Spec == Init /\ [][Next]_vars

FairSpec == Spec /\ WF_vars(RecvStep)
-----------------------------------------------------------------------------
\* The messages a client is to be given: everything but the answers to auth and ping,
\* and messages for monitors only if it is one.
Expected ==
  {k \in DOMAIN frames : \/ frames[k].msg.kind \in {"post", "call", "reply"}
                         \/ frames[k].msg.kind \in Monitored /\ monitor}

\* How many of them there are up to the k-th message.
UpTo(k) == Cardinality({j \in Expected : j <= k})

\* The callbacks get the messages of the service whole, in order and once each,
\* wherever the reads end; in recv_post and recv_call the name of the sender is
\* that of the message.
GivenIntact ==
  \A i \in DOMAIN given : \E k \in Expected :
    /\ i = UpTo(k)
    /\ given[i].msg = frames[k].msg
    /\ given[i].msg.kind \in {"post", "call"}
         => given[i].from = frames[k].msg.fields.cliname

\* A request reaches the handler of its kind with the fields that were sent.
RequestIntact == asked # <<>> => asked[1].got = asked[1].sent

\* A message that fits the buffer, as those before it do, is given to the client.
AllGiven ==
  (\A i \in DOMAIN frames : frames[i].size <= bufsize)
    ~> \/ Len(given) = Cardinality(Expected)
       \/ \E i \in DOMAIN frames : frames[i].size > bufsize
=============================================================================
