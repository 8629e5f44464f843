-------------------------------- MODULE Poll --------------------------------
(***************************************************************************)
(* The poll of a service: SocketPoll (src/src/sock-poll.cc) with the       *)
(* keepalive of BeepSocketPoll (src/src/beep-sock-poll.h).  The poll of a  *)
(* unix socket is the same with active_adapters always empty.              *)
(*                                                                         *)
(* Time is kept as ages, up to the first that counts as overdue, so that   *)
(* it need not be bounded: Tick makes everything older, at any moment.     *)
(* The frames that a read completes are the subject of SocketAdapter.tla,  *)
(* what the dispatcher does with them that of Dispatcher.tla.              *)
(***************************************************************************)
EXTENDS Integers, Sequences, FiniteSets, SequencesExt

CONSTANTS
  beep_timeout,  \* Options::beep_timeout
  MaxConns,      \* bound: connections clients make
  MaxStarts      \* bound: calls of start that begin to listen

ASSUME PollAssumption ==
  beep_timeout \in Nat \ {0} /\ MaxConns \in Nat /\ MaxStarts \in Nat

VARIABLES
  started,    \* dispatcher # nullptr
  listen_fd,  \* listen_fd >= 0
  starter,    \* where the thread that calls start is
  stopper,    \* where the thread that calls stop is
  starts,     \* calls of start so far
  thread,     \* where run_thread is
  left,       \* what is left of the timeout of select
  rfds,       \* the descriptors select has reported and the loop has not reached
  conn,       \* the state of each connection
  fd,         \* its descriptor
  unread,     \* connections with bytes that have not been read
  eof,        \* those whose other end has been closed
  unmapped,   \* those that Adapter::close has been called of
  shut,       \* those shut down for their silence
  active,     \* active_adapters
  quiet       \* how long ago each connection was accepted or last read from

ctlVars  == <<started, listen_fd, starter, stopper, starts>>
pollVars == <<thread, left, rfds>>
connVars == <<conn, fd, unread, eof, unmapped>>
timeVars == <<shut, active, quiet>>
vars == <<ctlVars, pollVars, connVars, timeVars>>

Conn   == 1..MaxConns
Fd     == 1..MaxConns
Listen == 0           \* stands for listen_fd in rfds
Age    == 0..beep_timeout + 1
Never  == -1          \* select without a timeout

TypeOK ==
  /\ {started, listen_fd} \subseteq BOOLEAN
  /\ starter \in {"idle", "wait"} /\ stopper \in {"idle", "join"} /\ starts \in 0..MaxStarts
  /\ thread \in {"off", "begin", "top", "select", "ready", "timeout", "error", "loop",
                 "release", "ended", "deaf", "lost"}
  /\ left \in Age \cup {Never} /\ rfds \subseteq {Listen} \cup Fd
  /\ conn \in [Conn -> {"none", "backlog", "open", "deleted"}]
  /\ fd \in [Conn -> Fd \cup {0}]
  /\ \A c, d \in Conn : conn[c] = "open" /\ conn[d] = "open" /\ c # d => fd[c] # fd[d]
  /\ unread \cup eof \cup unmapped \cup shut \subseteq Conn
  /\ active \in Seq([adapter : Conn, age : Age]) /\ Len(active) <= MaxConns
  /\ quiet \in [Conn -> Age]

Init ==
  /\ started = FALSE /\ listen_fd = FALSE /\ starter = "idle" /\ stopper = "idle"
  /\ starts = 0 /\ thread = "off" /\ left = Never /\ rfds = {}
  /\ conn = [c \in Conn |-> "none"] /\ fd = [c \in Conn |-> 0]
  /\ unread = {} /\ eof = {} /\ unmapped = {}
  /\ shut = {} /\ active = <<>> /\ quiet = [c \in Conn |-> 0]

Open == {c \in Conn : conn[c] = "open"}
-----------------------------------------------------------------------------
(***************************************************************************)
(* start and stop.                                                         *)
(***************************************************************************)

\* start_mutex is held from the test of dispatcher to the wait.
start ==
  /\ ~started /\ starter = "idle" /\ starts < MaxStarts
  /\ starts' = starts + 1
  /\ started' = TRUE /\ listen_fd' = TRUE
  /\ starter' = "wait" /\ thread' = "begin"
  /\ UNCHANGED <<stopper, left, rfds, connVars, timeVars>>

stop ==
  /\ started /\ stopper = "idle"
  /\ listen_fd' = FALSE
  /\ stopper' = "join"
  /\ UNCHANGED <<started, starter, starts, pollVars, connVars, timeVars>>

\* The thread has ended; closing the socket refuses the clients not accepted yet.
StopReturns ==
  /\ stopper = "join" /\ thread = "ended"
  /\ started' = FALSE /\ stopper' = "idle" /\ thread' = "off"
  /\ conn' = [c \in Conn |-> IF conn[c] = "backlog" THEN "deleted" ELSE conn[c]]
  /\ unread' = {} /\ eof' = {}
  /\ UNCHANGED <<listen_fd, starter, starts, left, rfds, fd, unmapped, timeVars>>
-----------------------------------------------------------------------------
(***************************************************************************)
(* The clients, the dispatcher, and time.                                  *)
(***************************************************************************)
Connect(c) ==
  /\ conn[c] = "none" /\ \A d \in 1..c - 1 : conn[d] # "none"
  /\ started /\ listen_fd
  /\ conn' = [conn EXCEPT ![c] = "backlog"]
  /\ UNCHANGED <<ctlVars, pollVars, fd, unread, eof, unmapped, timeVars>>

ClientSends(c) ==
  /\ conn[c] \in {"backlog", "open"} /\ c \notin eof \cup unread
  /\ unread' = unread \cup {c}
  /\ UNCHANGED <<ctlVars, pollVars, conn, fd, eof, unmapped, timeVars>>

ClientCloses(c) ==
  /\ conn[c] \in {"backlog", "open"} /\ c \notin eof
  /\ eof' = eof \cup {c}
  /\ UNCHANGED <<ctlVars, pollVars, conn, fd, unread, unmapped, timeVars>>

\* A write of the dispatcher failed, or it refuses the client: Adapter::close.
DispatcherCloses(c) ==
  /\ c \in Open \ unmapped
  /\ unmapped' = unmapped \cup {c}
  /\ UNCHANGED <<ctlVars, pollVars, conn, fd, unread, eof, timeVars>>

Older(age) == IF age > beep_timeout THEN age ELSE age + 1

Tick ==
  /\ quiet' = [c \in Conn |-> IF c \in Open THEN Older(quiet[c]) ELSE quiet[c]]
  /\ active' = [i \in DOMAIN active |-> [active[i] EXCEPT !.age = Older(@)]]
  /\ left' = IF left > 0 THEN left - 1 ELSE left
  /\ UNCHANGED <<ctlVars, thread, rfds, connVars, shut>>
-----------------------------------------------------------------------------
(***************************************************************************)
(* The poll thread.                                                        *)
(***************************************************************************)

\* obtain_timeout; select refuses one that is negative.
obtain_timeout == beep_timeout - active[1].age

\* Without a listening socket max_fd is 0, and select waits for nothing but its
\* timeout, if active_adapters is not empty.
RunBegin ==
  /\ thread = "begin"
  /\ starter' = "idle"
  /\ IF listen_fd THEN thread' = "top" /\ UNCHANGED left
     ELSE IF active = <<>> THEN thread' = "lost" /\ UNCHANGED left
     ELSE IF obtain_timeout < 0 THEN thread' = "error" /\ UNCHANGED left
     ELSE thread' = "deaf" /\ left' = obtain_timeout
  /\ UNCHANGED <<started, listen_fd, stopper, starts, rfds, connVars, timeVars>>

\* Mutant: no timeout.
SelectBegin_forever ==
  /\ thread = "top"
  /\ thread' = "select" /\ left' = Never
  /\ UNCHANGED <<ctlVars, rfds, connVars, timeVars>>

SelectBegin ==
  /\ thread = "top"
  /\ IF active = <<>> THEN thread' = "select" /\ left' = Never
     ELSE IF obtain_timeout < 0 THEN thread' = "error" /\ left' = Never
     ELSE thread' = "select" /\ left' = obtain_timeout
  /\ UNCHANGED <<ctlVars, rfds, connVars, timeVars>>

\* Mutant: stop does not shut the listening socket down.
Readable_running ==
  {fd[c] : c \in Open \cap (unread \cup eof \cup unmapped \cup shut)}
    \cup (IF \E c \in Conn : conn[c] = "backlog" THEN {Listen} ELSE {})

Readable ==
  {fd[c] : c \in Open \cap (unread \cup eof \cup unmapped \cup shut)}
    \cup (IF ~listen_fd \/ \E c \in Conn : conn[c] = "backlog" THEN {Listen} ELSE {})

SelectReady ==
  /\ thread = "select" /\ Readable # {}
  /\ rfds' = Readable
  /\ thread' = "ready" /\ left' = Never
  /\ UNCHANGED <<ctlVars, connVars, timeVars>>

SelectTimeout ==
  /\ thread = "deaf" \/ (thread = "select" /\ Readable = {})
  /\ left = 0
  /\ thread' = "timeout" /\ left' = Never
  /\ UNCHANGED <<ctlVars, rfds, connVars, timeVars>>

\* Mutant: one tick early.
Overdue_before == {i \in DOMAIN active : \A j \in 1..i : active[j].age >= beep_timeout - 1}

\* The entries at the front of the list that are overdue.
Overdue == {i \in DOMAIN active : \A j \in 1..i : active[j].age >= beep_timeout}

\* shutdown_timeout_adapter, on the descriptors of the adapters, then what run does
\* with the result of do_poll.
Polled ==
  /\ thread \in {"ready", "timeout", "error"}
  /\ shut' = shut \cup {c \in Open : \E i \in Overdue : fd[active[i].adapter] = fd[c]}
  /\ active' = SubSeq(active, Cardinality(Overdue) + 1, Len(active))
  /\ thread' = IF thread = "error" \/ ~listen_fd THEN "release"
               ELSE IF thread = "timeout" THEN "top" ELSE "loop"
  /\ rfds' = IF thread = "ready" /\ listen_fd THEN rfds ELSE {}
  /\ UNCHANGED <<ctlVars, left, connVars, quiet>>

LoopEnd ==
  /\ thread = "loop" /\ rfds = {}
  /\ thread' = "top"
  /\ UNCHANGED <<ctlVars, left, rfds, connVars, timeVars>>

\* do_accept: the lowest free descriptor; the adapter enters the list at its end.
Accept ==
  /\ thread = "loop" /\ Listen \in rfds
  /\ rfds' = rfds \ {Listen}
  /\ LET free == Fd \ {fd[c] : c \in Open} IN
     \E c \in Conn :
       /\ conn[c] = "backlog" /\ \A d \in 1..c - 1 : conn[d] # "backlog"
       /\ conn' = [conn EXCEPT ![c] = "open"]
       /\ fd' = [fd EXCEPT ![c] = CHOOSE f \in free : \A g \in free : f <= g]
       /\ active' = Append(active, [adapter |-> c, age |-> 0])
       /\ quiet' = [quiet EXCEPT ![c] = 0]
  /\ UNCHANGED <<ctlVars, thread, left, unread, eof, unmapped, shut>>

\* stop has shut the socket down since the last look at listen_fd.
AcceptFails ==
  /\ thread = "loop" /\ Listen \in rfds /\ ~listen_fd
  /\ rfds' = rfds \ {Listen}
  /\ UNCHANGED <<ctlVars, thread, left, connVars, timeVars>>

\* The loop goes through the descriptors in their order.
Reached(c) ==
  /\ thread = "loop" /\ c \in Open /\ fd[c] \in rfds
  /\ \A f \in rfds : fd[c] <= f

\* delete_adapter: what was known of a connection ends with it.
delete_adapters(cs) ==
  /\ conn' = [c \in Conn |-> IF c \in cs THEN "deleted" ELSE conn[c]]
  /\ unread' = unread \ cs /\ eof' = eof \ cs /\ unmapped' = unmapped \ cs
  /\ shut' = shut \ cs /\ quiet' = [c \in Conn |-> IF c \in cs THEN 0 ELSE quiet[c]]

\* The list without the entry of an adapter.
Without(c) == RemoveFirstMatch(active, LAMBDA e : e.adapter = c)

\* Mutant: the entry stays where it is.
Refreshed_inplace(c) ==
  [i \in DOMAIN active |-> IF active[i].adapter = c THEN [adapter |-> c, age |-> 0]
                           ELSE active[i]]

\* do_read succeeds.  The entry, unless it has been removed, goes to the end.
Refreshed(c) ==
  IF \E i \in DOMAIN active : active[i].adapter = c
  THEN Append(Without(c), [adapter |-> c, age |-> 0])
  ELSE active

Read(c) ==
  /\ Reached(c) /\ c \in unread \ unmapped
  /\ unread' = unread \ {c} /\ rfds' = rfds \ {fd[c]}
  /\ active' = Refreshed(c) /\ quiet' = [quiet EXCEPT ![c] = 0]
  /\ UNCHANGED <<ctlVars, thread, left, conn, fd, eof, unmapped, shut>>

\* do_read fails: the read does, a frame is not valid or Dispatcher::put refuses it.
\* The adapter is deleted.
ReadFails(c) ==
  /\ Reached(c)
  /\ rfds' = rfds \ {fd[c]}
  /\ delete_adapters({c})
  /\ active' = Without(c)
  /\ UNCHANGED <<ctlVars, thread, left, fd>>

\* active_adapters keeps its entries.
Release ==
  /\ thread = "release"
  /\ delete_adapters(Open)
  /\ thread' = "ended"
  /\ UNCHANGED <<ctlVars, left, rfds, fd, active>>
-----------------------------------------------------------------------------
PollStep ==
  \/ RunBegin \/ SelectBegin \/ SelectReady \/ SelectTimeout \/ Polled \/ LoopEnd
  \/ Accept \/ AcceptFails \/ Release \/ \E c \in Conn : Read(c) \/ ReadFails(c)

Next ==
  \/ start \/ stop \/ StopReturns \/ PollStep \/ Tick
  \/ \E c \in Conn : Connect(c) \/ ClientSends(c) \/ ClientCloses(c) \/ DispatcherCloses(c)

Spec == Init /\ [][Next]_vars

\* The poll thread keeps running, time passes, a stop that can return does.
FairSpec == Spec /\ WF_vars(PollStep) /\ WF_vars(Tick) /\ WF_vars(StopReturns)
-----------------------------------------------------------------------------
\* Only the front of active_adapters is looked at: the list is in order of the last
\* reads, and every connection not yet shut down is in it once.
FrontIsOldest ==
  /\ \A i, j \in DOMAIN active : i < j => active[i].age >= active[j].age
  /\ \A c \in Open \ shut :
       Cardinality({i \in DOMAIN active : active[i].adapter = c}) = 1

\* A client is shut down only after beep_timeout without a read, or because an entry
\* that an earlier start left in the list had its descriptor.
OnlySilentShut ==
  [][\A c \in shut' \ shut :
       \/ quiet[c] >= beep_timeout
       \/ \E i \in DOMAIN active : active[i].adapter \notin Open /\ fd[active[i].adapter] = fd[c]]_vars

\* A client that has been silent for beep_timeout is heard of again or deleted.
SilentDropped ==
  \A c \in Conn : c \in Open /\ quiet[c] >= beep_timeout ~> c \notin Open \/ quiet[c] = 0

\* stop returns, and then no connection is left, unless it overtakes the beginning of
\* the poll thread, which then waits for ever without a descriptor or a timeout.
StopEnds == stopper = "join" ~> (stopper = "idle" /\ Open = {}) \/ thread = "lost"
=============================================================================
