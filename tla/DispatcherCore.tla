--------------------------- MODULE DispatcherCore ---------------------------
(***************************************************************************)
(* The flora service: flora::internal::Dispatcher (src/src/disp.cc) with   *)
(* the part of the socket poll thread that feeds it                        *)
(* (src/src/sock-poll.cc) and the client connections that use it.          *)
(*                                                                         *)
(* Two threads share an adapter (the server end of one connection) and the *)
(* command queue: the poll thread reads requests and puts them, deletes    *)
(* adapters and queues their erasure; the dispatcher thread takes batches  *)
(* of packets and runs one handler per packet.  A handler touches the      *)
(* state it shares with the poll thread only through `closed', `info' and  *)
(* the queue, so one handler is one step.                                  *)
(***************************************************************************)
EXTENDS Integers, Sequences, FiniteSets

CONSTANTS
  Adapter,        \* connections; each is accepted at most once
  NoAdapter,      \* absence of an adapter in named_adapters
  Name, NoName,   \* client ids, and the empty string
  ClientName,     \* the id each connection authenticates with
  MonitorClient,  \* connections that set FLORA_CLI_FLAG_MONITOR
  OldClient,      \* connections whose protocol version is below 3
  MonitorMode,    \* FLORA_DISP_FLAG_MONITOR
  Patient,        \* clients that stay until their authentication is answered
  Slow,           \* clients that may let a write to them time out
  Topic, Method,  \* message and method names, NoName possibly among them
  Data, NoData,   \* payloads, and the absence of a persistent message
  BigNamed,       \* payloads the server cannot forward with a sender's id
  BigAnon,        \* payloads it cannot forward without one either
  ListFits,       \* sets of clients whose list fits in the buffer of the server
  AddFits,        \* clients whose entry alone does
  Timeout,        \* timeouts a caller may ask for; 0 means the default
  DEFAULT_CALL_TIMEOUT,
  CLEAR_SUBSCRIPTION_THRESHOLD,
  Script,         \* the commands each client issues
  Endless,        \* clients that never stop sending
  MaxSend,        \* bound: requests of the others, authentication and replies apart
  MayClose        \* whether Dispatcher::close may be called

\* A monitor that disconnects before its authentication is handled stays in
\* Dispatcher::monitors as an address without an object; the behaviour after
\* that is undefined and not modelled: monitors are patient.
ASSUME ConstantsAssumption ==
  /\ NoAdapter \notin Adapter /\ NoName \notin Name /\ NoData \notin Data
  /\ ClientName \in [Adapter -> Name \cup {NoName}]
  /\ MonitorClient \subseteq Patient /\ OldClient \subseteq Adapter
  /\ Patient \subseteq Adapter /\ Slow \subseteq Adapter
  /\ Endless \subseteq {a \in Adapter : "call" \notin Script[a]}
  /\ BigAnon \subseteq BigNamed /\ BigNamed \subseteq Data
  /\ MonitorMode \in BOOLEAN /\ MayClose \in BOOLEAN
  /\ Timeout \subseteq Nat /\ DEFAULT_CALL_TIMEOUT \in Nat \ {0}
  /\ CLEAR_SUBSCRIPTION_THRESHOLD \in Nat \ {0}
  /\ MaxSend \in Nat

VARIABLES
  poll,             \* SocketPoll::adapters: the life of each connection there
  gone,             \* connections whose client end is closed
  closed,           \* adapters whose buffer is null (SocketAdapter::close)
  info,             \* Adapter::info: null, or into adapter_infos or monitors
  adapter_infos,    \* keys of Dispatcher::adapter_infos
  monitors,         \* keys of Dispatcher::monitors
  declared_methods, \* AdapterInfo::declared_methods
  named_adapters,   \* Dispatcher::named_adapters
  subscriptions,    \* Dispatcher::subscriptions, each list as a bag
  persist_msgs,     \* Dispatcher::persist_msgs
  clear_sub_prio,   \* Dispatcher::clear_sub_prio
  cmd_packets,      \* Dispatcher::cmd_packets
  pending_cmds, it, \* the batch handle_cmds works on, and how much is done
  pending_calls,    \* Dispatcher::pending_calls
  forwarded,        \* the calls given a svrid so far, in that order
  now, tp,          \* the steady clock, and its value in discard_pending_calls
  working, running, \* Dispatcher::working, and whether its thread still runs
  nsent,            \* requests each client has sent
  asked,            \* the target of each call a client has made
  authres,          \* the authentication result written to each client
  incoming,         \* calls written to each client and not replied to yet
  answers,          \* what has been written to each client about each call
  seen,             \* the last persistent message written per topic
  view,             \* a monitor's client list after all that was written to it
  untold            \* clients a monitor was not told of: the message did not fit

connVars   == <<poll, gone>>
infoVars   == <<info, adapter_infos, monitors, declared_methods, named_adapters>>
subVars    == <<subscriptions, persist_msgs, clear_sub_prio>>
queueVars  == <<cmd_packets, pending_cmds, it>>
callVars   == <<pending_calls, forwarded>>
threadVars == <<working, running>>
clientVars == <<nsent, asked>>
wireVars   == <<authres, incoming, answers, seen, view, untold>>

vars == <<connVars, closed, infoVars, subVars, queueVars, callVars, now, tp,
          threadVars, clientVars, wireVars>>

CallId == 1..MaxSend

Code == {"success", "eauth", "edupid", "etimeout", "enexists"}

MsgType == {"instant", "persist"}

\* Two sentinels: no clock value, and no answer yet.
NoTime == -1
NoResult == "none"

(***************************************************************************)
(* The packets of the command queue.  A null caps is "erase"; "unknown" is *)
(* a command number the dispatcher has no handler for.                     *)
(***************************************************************************)
RequestOf(senders, ids) ==
  [cmd : {"ping", "unknown"}, sender : senders]
    \cup [cmd : {"subscribe", "unsubscribe"}, sender : senders, name : Topic]
    \cup [cmd : {"declare", "remove"}, sender : senders, name : Method]
    \cup [cmd : {"post"}, sender : senders, name : Topic, type : MsgType,
          data : Data]
    \cup [cmd : {"call"}, sender : senders, name : Method,
          target : Name \cup {NoName}, cliid : ids, data : Data,
          timeout : Timeout]

Packet ==
  RequestOf(Adapter, CallId)
    \cup [cmd : {"auth", "erase"}, sender : Adapter]
    \cup [cmd : {"reply"}, sender : Adapter, svrid : Nat, data : Data]

PendingCall ==
  [svrid : Nat, cliid : CallId, sender : Adapter, target : Adapter,
   discard_tp : Nat]

CallAnswer == [code : Code, from : Adapter \cup {NoAdapter}, svrid : Nat]

\* One type invariant: what the C++ declarations of this state say.
TypeOK ==
  /\ poll \in [Adapter -> {"none", "open", "deleting", "deleted"}]
  /\ gone \subseteq Adapter /\ closed \subseteq Adapter
  /\ info \in [Adapter -> {"null", "adapter", "monitor"}]
  /\ adapter_infos \subseteq Adapter /\ monitors \subseteq Adapter
  /\ declared_methods \in [Adapter -> SUBSET Method]
  /\ named_adapters \in [Name -> Adapter \cup {NoAdapter}]
  /\ subscriptions \in [Topic -> [Adapter -> Nat]]
  /\ persist_msgs \in [Topic -> Data \cup {NoData}]
  /\ clear_sub_prio \in 0..CLEAR_SUBSCRIPTION_THRESHOLD - 1
  /\ cmd_packets \in Seq(Packet) /\ pending_cmds \in Seq(Packet)
  /\ it \in 0..Len(pending_cmds)
  /\ pending_calls \in Seq(PendingCall)
  /\ forwarded \in Seq([sender : Adapter, cliid : CallId])
  /\ now \in Nat /\ tp \in Nat \cup {NoTime}
  /\ working \in BOOLEAN /\ running \in BOOLEAN
  /\ nsent \in [Adapter -> 0..MaxSend]
  /\ asked \in [Adapter -> Seq(Name \cup {NoName})]
  /\ authres \in [Adapter -> Code \cup {NoResult}]
  /\ incoming \in [Adapter -> SUBSET Nat]
  /\ answers \in [Adapter -> [CallId -> Seq(CallAnswer)]]
  /\ seen \in [Adapter -> [Topic -> Data \cup {NoData}]]
  /\ view \in [Adapter -> [Adapter -> Nat]]
  /\ untold \in [Adapter -> SUBSET Adapter]

Init ==
  /\ poll = [a \in Adapter |-> "none"]
  /\ gone = {} /\ closed = {}
  /\ info = [a \in Adapter |-> "null"]
  /\ adapter_infos = {} /\ monitors = {}
  /\ declared_methods = [a \in Adapter |-> {}]
  /\ named_adapters = [n \in Name |-> NoAdapter]
  /\ subscriptions = [t \in Topic |-> [a \in Adapter |-> 0]]
  /\ persist_msgs = [t \in Topic |-> NoData]
  /\ clear_sub_prio = 0
  /\ cmd_packets = <<>> /\ pending_cmds = <<>> /\ it = 0
  /\ pending_calls = <<>> /\ forwarded = <<>>
  /\ now = 0 /\ tp = NoTime
  /\ working = TRUE /\ running = TRUE
  /\ nsent = [a \in Adapter |-> 0]
  /\ asked = [a \in Adapter |-> <<>>]
  /\ authres = [a \in Adapter |-> NoResult]
  /\ incoming = [a \in Adapter |-> {}]
  /\ answers = [a \in Adapter |-> [c \in CallId |-> <<>>]]
  /\ seen = [a \in Adapter |-> [t \in Topic |-> NoData]]
  /\ view = [m \in Adapter |-> [a \in Adapter |-> 0]]
  /\ untold = [m \in Adapter |-> {}]
-----------------------------------------------------------------------------
(***************************************************************************)
(* Clients and the poll thread.  Reading a request off a socket and        *)
(* putting it are merged with the client's sending it: requests of one     *)
(* connection keep their order, and nothing else sees the socket.          *)
(***************************************************************************)

\* discard_pending_calls runs with cmd_mutex held, so nothing is queued then.
Unlocked == tp = NoTime

put(p) == Unlocked /\ cmd_packets' = Append(cmd_packets, p)

\* A connection is accepted and its client authenticates at once.
Connect(a) ==
  /\ poll[a] = "none"
  /\ poll' = [poll EXCEPT ![a] = "open"]
  /\ put([cmd |-> "auth", sender |-> a])
  /\ UNCHANGED <<gone, closed, infoVars, subVars, pending_cmds, it, callVars,
                 now, tp, threadVars, clientVars, wireVars>>

Connected(a) == poll[a] = "open" /\ a \notin closed \cup gone

\* The requests a client may issue next.
Request(a) ==
  {p \in RequestOf({a}, {Len(asked[a]) + 1}) : p.cmd \in Script[a]}

\* Bound: an endless client has one packet queued at a time.
Send(a, p) ==
  /\ Connected(a)
  /\ authres[a] = "success"
  /\ IF a \in Endless
     THEN UNCHANGED nsent /\ \A i \in 1..Len(cmd_packets) : cmd_packets[i].sender # a
     ELSE nsent[a] < MaxSend /\ nsent' = [nsent EXCEPT ![a] = @ + 1]
  /\ asked' = IF p.cmd = "call"
              THEN [asked EXCEPT ![a] = Append(@, p.target)] ELSE asked
  /\ put(p)
  /\ UNCHANGED <<connVars, closed, infoVars, subVars, pending_cmds, it,
                 callVars, now, tp, threadVars, wireVars>>

\* A client's Reply object sends one reply per call it was given.
SendReply(a, svrid, d) ==
  /\ Connected(a)
  /\ svrid \in incoming[a]
  /\ incoming' = [incoming EXCEPT ![a] = @ \ {svrid}]
  /\ put([cmd |-> "reply", sender |-> a, svrid |-> svrid, data |-> d])
  /\ UNCHANGED <<connVars, closed, infoVars, subVars, pending_cmds, it,
                 callVars, now, tp, threadVars, clientVars, authres, answers,
                 seen, view, untold>>

\* The client closes its end, or its process ends.
Disconnect(a) ==
  /\ poll[a] = "open" /\ a \notin gone
  /\ a \in Patient => (authres[a] # NoResult \/ a \in closed)
  /\ gone' = gone \cup {a}
  /\ UNCHANGED <<poll, closed, infoVars, subVars, queueVars, callVars, now, tp,
                 threadVars, clientVars, wireVars>>

\* Mutant: the adapter is not closed.
PollClose_not(a) ==
  /\ poll[a] = "open" /\ a \in gone \cup closed
  /\ poll' = [poll EXCEPT ![a] = "deleting"]
  /\ UNCHANGED <<closed, gone, infoVars, subVars, queueVars, callVars, now, tp,
                 threadVars, clientVars, wireVars>>

\* delete_adapter, first half: the poll thread reads end of file, or finds the
\* adapter closed by the dispatcher, and closes it.
PollClose(a) ==
  /\ poll[a] = "open" /\ a \in gone \cup closed
  /\ poll' = [poll EXCEPT ![a] = "deleting"]
  /\ closed' = closed \cup {a}
  /\ UNCHANGED <<gone, infoVars, subVars, queueVars, callVars, now, tp,
                 threadVars, clientVars, wireVars>>

\* Mutant: the erasure is never queued.
erase_adapter_lost(a) == UNCHANGED cmd_packets

\* Dispatcher::erase_adapter: nothing is queued for an adapter without info.
erase_adapter(a) ==
  IF info[a] = "null" THEN UNCHANGED cmd_packets
  ELSE put([cmd |-> "erase", sender |-> a])

\* delete_adapter, second half, and adapters.erase.
PollErase(a) ==
  /\ poll[a] = "deleting"
  /\ poll' = [poll EXCEPT ![a] = "deleted"]
  /\ erase_adapter(a)
  /\ UNCHANGED <<gone, closed, infoVars, subVars, pending_cmds, it, callVars,
                 now, tp, threadVars, clientVars, wireVars>>
-----------------------------------------------------------------------------
(***************************************************************************)
(* The dispatcher thread: handle_cmds takes all queued packets as one      *)
(* batch and calls handle_cmd for each; the batch keeps its references to  *)
(* the adapters until it is finished.                                      *)
(***************************************************************************)

\* The top of the loop of handle_cmds, cmd_mutex not yet taken.
LoopTop == running /\ pending_cmds = <<>> /\ tp = NoTime

Splice ==
  /\ LoopTop /\ working
  /\ cmd_packets # <<>>
  /\ pending_cmds' = cmd_packets
  /\ cmd_packets' = <<>>
  /\ UNCHANGED <<connVars, closed, infoVars, subVars, it, callVars, now, tp,
                 threadVars, clientVars, wireVars>>

\* Mutant: the queue has to be empty.
Leaving_drained == ~working /\ cmd_packets = <<>>

Leaving == ~working

Exit ==
  /\ LoopTop /\ Leaving
  /\ running' = FALSE
  /\ UNCHANGED <<connVars, closed, infoVars, subVars, queueVars, callVars, now,
                 tp, working, clientVars, wireVars>>

\* Dispatcher::close, up to the join.
Close ==
  /\ MayClose /\ working /\ Unlocked
  /\ working' = FALSE
  /\ UNCHANGED <<connVars, closed, infoVars, subVars, queueVars, callVars, now,
                 tp, running, clientVars, wireVars>>

\* Adapter::info points into a map entry that has been erased.
Dangling(a) ==
  \/ info[a] = "adapter" /\ a \notin adapter_infos
  \/ info[a] = "monitor" /\ a \notin monitors

\* The packet being handled.
Cmd == pending_cmds[it + 1]

Handling(kind) == it < Len(pending_cmds) /\ Cmd.cmd = kind

\* The iterator moves on; the batch is cleared after its last packet.
Advance ==
  /\ UNCHANGED <<connVars, cmd_packets, now, tp, threadVars, clientVars>>
  /\ IF it + 1 = Len(pending_cmds)
     THEN pending_cmds' = <<>> /\ it' = 0
     ELSE it' = it + 1 /\ UNCHANGED pending_cmds

\* Mutant: SocketPoll::adapters does not keep the adapter alive.
Expired_unpolled(a, named) ==
  /\ \A i \in 1..Len(cmd_packets) : cmd_packets[i].sender # a
  /\ \A i \in 1..Len(pending_cmds) : pending_cmds[i].sender # a
  /\ \A n \in Name : named[n] # a

\* No shared_ptr to the adapter is left: weak_ptr::lock returns null.
Expired(a, named) ==
  /\ poll[a] = "deleted"
  /\ \A i \in 1..Len(cmd_packets) : cmd_packets[i].sender # a
  /\ \A i \in 1..Len(pending_cmds) : pending_cmds[i].sender # a
  /\ \A n \in Name : named[n] # a
  /\ \A i \in 1..Len(pending_calls) :
       pending_calls[i].sender # a /\ pending_calls[i].target # a

\* The sets of recipients for which SocketAdapter::write may fail: the client
\* has closed its end, or does not read and the write times out.  A failed
\* write closes the adapter.
Failing(to) == SUBSET ((to \ closed) \cap (gone \cup Slow))

\* The recipients a write does reach.
Reached(to, failed) == (to \ closed) \ failed

(***************************************************************************)
(* Packets for which handle_cmd closes the sender without any other        *)
(* change: requests of a monitor, command numbers without a handler,       *)
(* requests before authentication, empty names, and the declaration of a   *)
(* method that is declared already.                                        *)
(***************************************************************************)
Refused(p) ==
  /\ p.cmd # "erase"
  /\ \/ info[p.sender] = "monitor"
     \/ p.cmd = "unknown"
     \/ p.cmd # "auth" /\ info[p.sender] = "null"
     \/ /\ p.cmd \in {"subscribe", "unsubscribe", "declare", "remove", "post"}
        /\ p.name = NoName
     \/ p.cmd = "declare" /\ p.name \in declared_methods[p.sender]

CloseSender ==
  /\ it < Len(pending_cmds) /\ Refused(Cmd)
  /\ closed' = closed \cup {Cmd.sender}
  /\ Advance
  /\ UNCHANGED <<infoVars, subVars, callVars, wireVars>>

Accepted(kind) == Handling(kind) /\ ~Refused(Cmd)
=============================================================================
