------------------------------- MODULE Agent --------------------------------
(***************************************************************************)
(* flora::Agent (src/src/flora-agent.cc): the run thread keeps a client    *)
(* connected and repeats the subscriptions on every new connection, while  *)
(* the application and the callbacks of the clients use the agent.         *)
(*                                                                         *)
(* What is done under one hold of conn_mutex is one step; cg_mutex is held *)
(* over several and is a variable.  post_handlers and call_handlers are    *)
(* treated alike by the code and are one map here, whose names are numbers *)
(* in the order of its iterators.  The clients are those of Client.tla,    *)
(* reduced to what an agent sees of them.                                  *)
(***************************************************************************)
EXTENDS Naturals, FiniteSets

CONSTANTS
  App,       \* threads of the application
  Run,       \* the run thread
  NoOne,     \* no thread
  MaxName,   \* the names of handlers are 1..MaxName
  MaxConns,  \* bound: connections the service accepts
  MaxOps     \* bound: operations of the application and of callbacks

ASSUME AgentAssumption ==
  /\ MaxName \in Nat /\ MaxConns \in Nat /\ MaxOps \in Nat
  /\ \A t \in App \cup {Run, NoOne} : t \notin 0..MaxConns
  /\ Run # NoOne /\ {Run, NoOne} \cap App = {}

VARIABLES
  handlers,    \* the names in post_handlers and call_handlers
  flora_cli,   \* Agent::flora_cli
  working,     \* Agent::working
  cg_mutex,    \* who holds Agent::cg_mutex
  run,         \* where the run thread is
  pos,         \* run: the iterator of init_cli, or of clean_gabages
  gabages,     \* run: the clients in the list gabages
  start,       \* where the thread that calls start is
  used,        \* the connections made so far are 1..used
  peer,        \* those whose other end is open
  sock,        \* those that the client has not closed
  ccb,         \* those whose cli_callback is set
  recv,        \* where the receiving thread of each is
  told,        \* the names the service has been told on each
  pc,          \* where each application thread or callback is in an operation
  arg,         \* the client and the name it works with
  ops,         \* operations so far
  kept         \* handlers in the map since init_cli began, unless it was disturbed

agentVars == <<handlers, flora_cli, working, start>>
runVars   == <<run, pos, gabages>>
connVars  == <<used, peer, sock, ccb, told>>
opVars    == <<pc, arg, ops>>
vars == <<agentVars, cg_mutex, runVars, connVars, recv, opVars, kept>>

Name   == 1..MaxName
Conn   == 1..MaxConns
NoCli  == 0
Thread == App \cup Conn

TypeOK ==
  /\ handlers \subseteq Name /\ kept \subseteq handlers
  /\ flora_cli \in Conn \cup {NoCli} /\ working \in BOOLEAN
  /\ cg_mutex \in Thread \cup {Run, NoOne}
  /\ run \in {"off", "begin", "check", "connect", "auth", "ready", "init", "dangling", "set",
              "wait", "woken", "retry", "clean", "cleaning", "joining", "ended", "crashed"}
  /\ pos \in 0..MaxName + MaxConns + 1 /\ gabages \subseteq 1..used
  /\ start \in {"no", "wait", "done"}
  /\ used \in 0..MaxConns
  /\ peer \subseteq 1..used /\ sock \subseteq 1..used /\ ccb \subseteq 1..used
  /\ recv \in [Conn -> {"none", "read", "callback", "iclose", "close", "tell", "done"}]
  /\ told \in [Conn -> SUBSET Name]
  /\ pc \in [Thread -> {"idle", "subscribe", "unsubscribe", "post", "econn", "close",
                        "closing", "detached", "join", "closed"}]
  /\ arg \in [Thread -> [cli : Conn \cup {NoCli}, name : 0..MaxName]]
  /\ \A t \in Thread : pc[t] \notin {"idle", "econn", "close", "join", "closed"}
                        => arg[t].cli # NoCli
  /\ ops \in 0..MaxOps

Nothing == [cli |-> NoCli, name |-> 0]

Init ==
  /\ handlers = {} /\ flora_cli = NoCli /\ working = FALSE /\ cg_mutex = NoOne
  /\ run = "off" /\ pos = 0 /\ gabages = {} /\ start = "no"
  /\ used = 0 /\ peer = {} /\ sock = {} /\ ccb = {}
  /\ recv = [c \in Conn |-> "none"] /\ told = [c \in Conn |-> {}]
  /\ pc = [t \in Thread |-> "idle"] /\ arg = [t \in Thread |-> Nothing]
  /\ ops = 0 /\ kept = {}
-----------------------------------------------------------------------------
(***************************************************************************)
(* start(false), and the run thread.                                       *)
(***************************************************************************)

\* conn_mutex is held until the wait has begun.
Start ==
  /\ start = "no"
  /\ start' = "wait" /\ run' = "begin"
  /\ UNCHANGED <<handlers, flora_cli, working, cg_mutex, pos, gabages, connVars, recv,
                 opVars, kept>>

RunBegin ==
  /\ run = "begin"
  /\ working' = TRUE /\ run' = "check"
  /\ UNCHANGED <<handlers, flora_cli, start, cg_mutex, pos, gabages, connVars, recv,
                 opVars, kept>>

RunCheck ==
  /\ run = "check"
  /\ run' = IF working THEN "connect" ELSE "ended"
  /\ UNCHANGED <<agentVars, cg_mutex, pos, gabages, connVars, recv, opVars, kept>>

\* start_cond.notify_one()
StartNotified == IF start = "wait" THEN "done" ELSE start

ConnectFails ==
  /\ run = "connect"
  /\ start' = StartNotified /\ run' = "retry"
  /\ UNCHANGED <<handlers, flora_cli, working, cg_mutex, pos, gabages, connVars, recv,
                 opVars, kept>>

\* conn_cond.wait_for ends without a notification.
RetryTimeout ==
  /\ run = "retry"
  /\ run' = "clean"
  /\ UNCHANGED <<agentVars, cg_mutex, pos, gabages, connVars, recv, opVars, kept>>

\* Client::connect has been authenticated; its receiving thread runs.
ConnectAuth ==
  /\ run = "connect" /\ used < MaxConns
  /\ used' = used + 1
  /\ peer' = peer \cup {used'} /\ sock' = sock \cup {used'}
  /\ recv' = [recv EXCEPT ![used'] = "read"]
  /\ run' = "auth"
  /\ UNCHANGED <<agentVars, cg_mutex, pos, gabages, ccb, told, opVars, kept>>

\* Client::connect sets cli_callback and returns.
ConnectReturn ==
  /\ run = "auth"
  /\ ccb' = ccb \cup {used}
  /\ run' = "ready"
  /\ UNCHANGED <<agentVars, cg_mutex, pos, gabages, used, peer, sock, told, recv, opVars,
                 kept>>

\* init_cli goes through the handlers without conn_mutex.
InitBegin ==
  /\ run = "ready"
  /\ pos' = 0 /\ kept' = handlers
  /\ run' = "init"
  /\ UNCHANGED <<agentVars, cg_mutex, gabages, connVars, recv, opVars>>

\* A request that is written reaches the service.
Writable(c) == c \in sock \cap peer

\* Mutant: the first name is left out.
Ahead_second == {n \in handlers : n > pos + 1}

\* What the iterator has not reached yet.
Ahead == {n \in handlers : n > pos}

InitNext ==
  /\ run = "init"
  /\ IF Ahead = {}
     THEN run' = "set" /\ UNCHANGED <<pos, told>>
     ELSE LET n == CHOOSE m \in Ahead : \A k \in Ahead : m <= k IN
          /\ pos' = n
          /\ told' = IF Writable(used) THEN [told EXCEPT ![used] = @ \cup {n}] ELSE told
          /\ UNCHANGED run
  /\ UNCHANGED <<agentVars, cg_mutex, gabages, used, peer, sock, ccb, recv, opVars, kept>>

\* The handlers in names enter or leave the map, a data race with init_cli.
Raced(names) == IF run = "init" /\ names # {} THEN "dangling" ELSE run

\* No handler is sure to be repeated after the race.
StillKept(names) == IF run = "init" /\ names # {} THEN {} ELSE kept \ names

\* The outcomes of the race: the iterator goes on, having passed over any names, or
\* reads what has been freed.
InitSkips ==
  /\ run = "dangling"
  /\ \E p \in pos..MaxName : pos' = p
  /\ run' = "init"
  /\ UNCHANGED <<agentVars, cg_mutex, gabages, connVars, recv, opVars, kept>>

InitCrash ==
  /\ run = "dangling"
  /\ run' = "crashed"
  /\ UNCHANGED <<agentVars, cg_mutex, pos, gabages, connVars, recv, opVars, kept>>

\* Mutant: cli is swapped before it is entered into gabages.
SetClient_swapped ==
  /\ run = "set"
  /\ flora_cli' = used
  /\ start' = StartNotified
  /\ run' = "wait"
  /\ UNCHANGED <<handlers, working, cg_mutex, pos, gabages, connVars, recv, opVars, kept>>

\* From the lock to conn_cond.wait.
SetClient ==
  /\ run = "set"
  /\ gabages' = gabages \cup {used}
  /\ flora_cli' = used
  /\ start' = StartNotified
  /\ run' = "wait"
  /\ UNCHANGED <<handlers, working, cg_mutex, pos, connVars, recv, opVars, kept>>

\* Mutant: conn_cond is not notified.
Notified_not == run

\* conn_cond.notify_one(): lost unless the run thread waits.
Notified ==
  CASE run = "wait" -> "woken"
    [] run = "retry" -> "clean"
    [] OTHER -> run

\* A wait of a condition variable may end by itself.
Spurious ==
  /\ run = "wait"
  /\ run' = "woken"
  /\ UNCHANGED <<agentVars, cg_mutex, pos, gabages, connVars, recv, opVars, kept>>

RunWoken ==
  /\ run = "woken"
  /\ flora_cli' = NoCli
  /\ run' = "clean"
  /\ UNCHANGED <<handlers, working, start, cg_mutex, pos, gabages, connVars, recv, opVars,
                 kept>>
-----------------------------------------------------------------------------
(***************************************************************************)
(* clean_gabages.  Every client in the list is closed and its receiving    *)
(* thread joined; none is removed, since *it and cli both refer to it.     *)
(***************************************************************************)
CleanBegin ==
  /\ run = "clean" /\ cg_mutex = NoOne
  /\ cg_mutex' = Run /\ pos' = 0 /\ run' = "cleaning"
  /\ UNCHANGED <<agentVars, gabages, connVars, recv, opVars, kept>>

CleanNext ==
  /\ run = "cleaning"
  /\ LET left == {c \in gabages : c > pos} IN
     IF left = {}
     THEN /\ run' = "check" /\ cg_mutex' = NoOne /\ UNCHANGED <<pos, sock>>
     ELSE LET c == CHOOSE d \in left : \A e \in left : d <= e IN
          /\ pos' = c /\ sock' = sock \ {c}
          /\ run' = "joining" /\ UNCHANGED cg_mutex
  /\ UNCHANGED <<agentVars, gabages, used, peer, ccb, told, recv, opVars, kept>>

CleanJoin ==
  /\ run = "joining" /\ recv[pos] = "done"
  /\ run' = "cleaning"
  /\ UNCHANGED <<agentVars, cg_mutex, pos, gabages, connVars, recv, opVars, kept>>
-----------------------------------------------------------------------------
(***************************************************************************)
(* The receiving thread of a client.                                       *)
(***************************************************************************)

\* recv_post and recv_call: the handler is looked up and called after the unlock.
RecvMessage(c) ==
  /\ recv[c] = "read" /\ Writable(c) /\ c \in ccb
  /\ told[c] \cap handlers # {}
  /\ recv' = [recv EXCEPT ![c] = "callback"]
  /\ UNCHANGED <<agentVars, cg_mutex, runVars, connVars, opVars, kept>>

CallbackReturn(c) ==
  /\ recv[c] = "callback" /\ pc[c] \in {"idle", "closed"}
  /\ recv' = [recv EXCEPT ![c] = "read"]
  /\ UNCHANGED <<agentVars, cg_mutex, runVars, connVars, opVars, kept>>

RecvEnd(c) ==
  /\ recv[c] = "read" /\ ~Writable(c)
  /\ recv' = [recv EXCEPT ![c] = "iclose"]
  /\ UNCHANGED <<agentVars, cg_mutex, runVars, connVars, opVars, kept>>

RecvIclose(c) ==
  /\ recv[c] = "iclose"
  /\ recv' = [recv EXCEPT ![c] = IF c \in sock THEN "close" ELSE "done"]
  /\ UNCHANGED <<agentVars, cg_mutex, runVars, connVars, opVars, kept>>

RecvClose(c) ==
  /\ recv[c] = "close"
  /\ sock' = sock \ {c}
  /\ recv' = [recv EXCEPT ![c] = "tell"]
  /\ UNCHANGED <<agentVars, cg_mutex, runVars, used, peer, ccb, told, opVars, kept>>

\* disconnected and destroy_client, if cli_callback is set.
RecvTell(c) ==
  /\ recv[c] = "tell"
  /\ run' = IF c \in ccb THEN Notified ELSE run
  /\ recv' = [recv EXCEPT ![c] = "done"]
  /\ UNCHANGED <<agentVars, cg_mutex, pos, gabages, connVars, opVars, kept>>

\* The service, or the network, ends a connection.
Breaks(c) ==
  /\ c \in peer
  /\ peer' = peer \ {c}
  /\ UNCHANGED <<agentVars, cg_mutex, runVars, used, sock, ccb, told, recv, opVars, kept>>
-----------------------------------------------------------------------------
(***************************************************************************)
(* The operations, by threads of the application and in callbacks.         *)
(***************************************************************************)
Idle(t) ==
  /\ pc[t] = "idle" /\ ops < MaxOps
  /\ t \in Conn => recv[t] = "callback"
  /\ ops' = ops + 1

At(t, where, cli, name) ==
  /\ pc' = [pc EXCEPT ![t] = where]
  /\ arg' = [arg EXCEPT ![t] = [cli |-> cli, name |-> name]]

Done(t) == At(t, "idle", NoCli, 0)

subscribe(t, n) ==
  /\ Idle(t)
  /\ handlers' = handlers \cup {n}
  /\ run' = Raced({n} \ handlers) /\ kept' = StillKept({n} \ handlers)
  /\ IF n \notin handlers /\ flora_cli # NoCli
     THEN At(t, "subscribe", flora_cli, n) ELSE Done(t)
  /\ UNCHANGED <<flora_cli, working, start, cg_mutex, pos, gabages, connVars, recv>>

unsubscribe(t, n) ==
  /\ Idle(t)
  /\ handlers' = handlers \ {n}
  /\ run' = Raced(handlers \cap {n}) /\ kept' = StillKept(handlers \cap {n})
  /\ IF n \in handlers /\ flora_cli # NoCli
     THEN At(t, "unsubscribe", flora_cli, n) ELSE Done(t)
  /\ UNCHANGED <<flora_cli, working, start, cg_mutex, pos, gabages, connVars, recv>>

\* Client::subscribe and unsubscribe, outside of the lock.
Request(t) ==
  /\ pc[t] \in {"subscribe", "unsubscribe"}
  /\ LET c == arg[t].cli  n == arg[t].name IN
     told' = IF ~Writable(c) THEN told
             ELSE [told EXCEPT ![c] = IF pc[t] = "subscribe" THEN @ \cup {n} ELSE @ \ {n}]
  /\ Done(t)
  /\ UNCHANGED <<agentVars, cg_mutex, runVars, used, peer, sock, ccb, recv, ops, kept>>

\* post and call take the client under the lock.
post(t) ==
  /\ Idle(t)
  /\ IF flora_cli = NoCli THEN Done(t) ELSE At(t, "post", flora_cli, 0)
  /\ UNCHANGED <<agentVars, cg_mutex, runVars, connVars, recv, kept>>

PostSent(t) ==
  /\ pc[t] = "post"
  /\ IF Writable(arg[t].cli) THEN Done(t) ELSE At(t, "econn", NoCli, 0)
  /\ UNCHANGED <<agentVars, cg_mutex, runVars, connVars, recv, ops, kept>>

destroy_client(t) ==
  /\ pc[t] = "econn"
  /\ run' = Notified
  /\ Done(t)
  /\ UNCHANGED <<agentVars, cg_mutex, pos, gabages, connVars, recv, ops, kept>>
-----------------------------------------------------------------------------
(***************************************************************************)
(* close.                                                                  *)
(***************************************************************************)
close(t) ==
  /\ Idle(t)
  /\ IF working
     THEN /\ working' = FALSE
          /\ run' = IF run = "init" THEN Raced(handlers) ELSE Notified
          /\ flora_cli' = NoCli
          /\ handlers' = {} /\ kept' = {}
          /\ At(t, "close", flora_cli, 0)
     ELSE /\ Done(t)
          /\ UNCHANGED <<working, run, flora_cli, handlers, kept>>
  /\ UNCHANGED <<start, cg_mutex, pos, gabages, connVars, recv>>

\* cg_mutex is taken and the client closed, unless this is its own callback.
CloseClient(t) ==
  /\ pc[t] = "close" /\ cg_mutex = NoOne
  /\ LET c == arg[t].cli IN
     IF c \in Conn \ {t}
     THEN /\ cg_mutex' = t /\ sock' = sock \ {c}
          /\ At(t, "closing", c, 0)
     ELSE /\ UNCHANGED <<cg_mutex, sock>>
          /\ At(t, IF c = t THEN "detached" ELSE "join", c, 0)
  /\ UNCHANGED <<agentVars, runVars, used, peer, ccb, told, recv, ops, kept>>

\* Mutant: cg_mutex is not given back before the join.
CloseJoined_locked(t) ==
  /\ pc[t] = "closing" /\ recv[arg[t].cli] = "done"
  /\ At(t, "join", NoCli, 0)
  /\ UNCHANGED <<agentVars, cg_mutex, runVars, connVars, recv, ops, kept>>

CloseJoined(t) ==
  /\ pc[t] = "closing" /\ recv[arg[t].cli] = "done"
  /\ cg_mutex' = NoOne
  /\ At(t, "join", NoCli, 0)
  /\ UNCHANGED <<agentVars, runVars, connVars, recv, ops, kept>>

\* Another thread closes the client while this one goes on to the join.
CloseDetached(t) ==
  /\ pc[t] = "detached"
  /\ sock' = sock \ {arg[t].cli}
  /\ At(t, "join", NoCli, 0)
  /\ UNCHANGED <<agentVars, cg_mutex, runVars, used, peer, ccb, told, recv, ops, kept>>

\* Mutant: close does not wait for the run thread.
RunJoined_not == TRUE

RunJoined == run = "ended"

CloseReturn(t) ==
  /\ pc[t] = "join" /\ RunJoined
  /\ At(t, "closed", NoCli, 0)
  /\ UNCHANGED <<agentVars, cg_mutex, runVars, connVars, recv, ops, kept>>
-----------------------------------------------------------------------------
RunStep ==
  \/ RunBegin \/ RunCheck \/ ConnectReturn \/ InitBegin \/ InitNext \/ InitSkips
  \/ SetClient \/ RunWoken \/ RetryTimeout \/ CleanBegin \/ CleanNext \/ CleanJoin

RecvStep(c) == RecvEnd(c) \/ RecvIclose(c) \/ RecvClose(c) \/ RecvTell(c) \/ CallbackReturn(c)

OpStep(t) ==
  \/ Request(t) \/ PostSent(t) \/ destroy_client(t)
  \/ CloseClient(t) \/ CloseJoined(t) \/ CloseDetached(t) \/ CloseReturn(t)

Begin(t) == (\E n \in Name : subscribe(t, n) \/ unsubscribe(t, n)) \/ post(t) \/ close(t)

\* Of what follows InitCrash nothing is claimed.
Next ==
  \/ Start \/ RunStep \/ ConnectFails \/ ConnectAuth \/ InitCrash \/ Spurious
  \/ \E c \in Conn : RecvStep(c) \/ RecvMessage(c) \/ Breaks(c)
  \/ \E t \in Thread : OpStep(t) \/ Begin(t)

Spec == Init /\ [][Next]_vars

\* Threads keep running, callbacks return, connect returns and is accepted in the
\* end.  cg_mutex is contended, hence strong fairness of what takes it.
FairSpec ==
  /\ Spec
  /\ SF_vars(RunStep) /\ SF_vars(ConnectAuth) /\ WF_vars(ConnectFails \/ ConnectAuth)
  /\ \A c \in Conn : WF_vars(RecvStep(c))
  /\ \A t \in Thread : SF_vars(OpStep(t))
-----------------------------------------------------------------------------
\* A handler that was in the map when init_cli began, and has not been removed, is
\* subscribed on the connection that the agent waits on, unless the map was changed
\* while init_cli went through it without the lock.
HandlersRepeated ==
  run = "wait" /\ Writable(flora_cli) => kept \subseteq told[flora_cli]

\* A connection is closed before the next is made, even when it is left while it is
\* in order (an ECONN of an older client, a spurious wakeup): the service would
\* refuse the second one for its id.
OneConnection == Cardinality(sock) <= 1

\* When close returns to the application the agent may be destroyed: its run thread
\* and all receiving threads have ended, no callback is running.
ClosedIsQuiet ==
  (\E t \in App : pc[t] = "closed") => /\ run = "ended"
                                       /\ \A c \in Conn : recv[c] \in {"none", "done"}

\* A disconnection reported while the agent waits on that connection is followed by
\* a new connection.
Reconnects ==
  \A c \in Conn :
    run = "wait" /\ flora_cli = c /\ recv[c] = "tell" /\ c \in ccb
      ~> flora_cli \notin {NoCli, c} \/ ~working \/ used = MaxConns \/ run = "crashed"

\* From the test of working to conn_cond.wait: a notification of conn_cond is lost,
\* and so is the close that makes it if the connection is accepted.
Deaf == {"connect", "auth", "ready", "init", "dangling", "set", "wait"}

\* close returns to a thread of the application, whatever callbacks do and however
\* clean_gabages meets it, if the run thread was to notice it.  To a callback it
\* never returns: it joins the run thread, which joins the callback's thread.
CloseReturns ==
  \A t \in App :
    pc[t] = "close" /\ run \notin Deaf ~> pc[t] = "closed" \/ run = "crashed"

\* The agent does not stay with a connection that has ended.
StaysConnected ==
  \A c \in Conn : flora_cli = c /\ c \notin peer ~> flora_cli # c \/ run = "crashed"
=============================================================================
