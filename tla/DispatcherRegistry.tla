------------------------- MODULE DispatcherRegistry -------------------------
(***************************************************************************)
(* Who is connected: authentication, erasure, client ids and monitors      *)
(* (handle_auth_req, do_erase_adapter and what they call in                *)
(* src/src/disp.cc).                                                       *)
(***************************************************************************)
EXTENDS DispatcherCore

\* Mutant: the id is not looked up.
AuthResult_unchecked(a) == IF a \in OldClient THEN "eauth" ELSE "success"

\* handle_auth_req: what the client is told.
AuthResult(a) ==
  IF a \in OldClient THEN "eauth"
  ELSE IF a \in MonitorClient
       THEN IF MonitorMode THEN "success" ELSE "eauth"
  ELSE IF ClientName[a] # NoName /\ named_adapters[ClientName[a]] # NoAdapter
       THEN "edupid"
  ELSE "success"

TellAuth(a, failed) ==
  authres' = IF a \in Reached({a}, failed)
             THEN [authres EXCEPT ![a] = AuthResult(a)] ELSE authres

\* A refused client is answered and then closed.
AuthReject ==
  LET s == Cmd.sender IN
  /\ Accepted("auth")
  /\ AuthResult(s) # "success"
  /\ \E failed \in Failing({s}) : TellAuth(s, failed)
  /\ closed' = closed \cup {s}
  /\ Advance
  /\ UNCHANGED <<infoVars, subVars, callVars, incoming, answers, seen, view, untold>>

\* serialize_monitor_list_all and serialize_monitor_list_add: what does not fit is
\* not written, and the monitors stay connected without it.
Listed(s) == IF adapter_infos \in ListFits THEN {s} ELSE {}
Added(s)  == IF s \in AddFits THEN monitors ELSE {}

\* add_monitor and the answer, then the list of all clients for the new monitor.
AuthMonitor ==
  LET s == Cmd.sender IN
  /\ Accepted("auth")
  /\ AuthResult(s) = "success" /\ s \in MonitorClient
  /\ monitors' = monitors \cup {s}
  /\ info' = [info EXCEPT ![s] = "monitor"]
  /\ \E failed \in Failing({s}), late \in Failing(Listed(s)) :
       /\ TellAuth(s, failed)
       /\ view' = [view EXCEPT ![s] = [a \in Adapter |->
            IF a \in adapter_infos /\ s \in Reached(Listed(s), failed \cup late)
            THEN 1 ELSE 0]]
       /\ closed' = closed \cup failed \cup late
  /\ untold' = [untold EXCEPT ![s] = IF Listed(s) = {} THEN adapter_infos ELSE {}]
  /\ Advance
  /\ UNCHANGED <<adapter_infos, declared_methods, named_adapters, subVars,
                 callVars, incoming, answers, seen>>

\* write_monitor_list_add, for the monitors that the write reaches.
ListAdd(s, to) ==
  [m \in Adapter |-> IF m \in to THEN [view[m] EXCEPT ![s] = @ + 1] ELSE view[m]]

\* Mutant: the monitors are not told.
ListRemove_silent(s, to) == view

\* write_monitor_list_remove, which always fits: MonitorView removes the first
\* entry with the id.
ListRemove(s, to) ==
  [m \in Adapter |-> IF m \in to /\ view[m][s] > 0
                     THEN [view[m] EXCEPT ![s] = @ - 1] ELSE view[m]]

\* add_adapter's insertion into named_adapters.
NameTaken(a) ==
  IF ClientName[a] = NoName THEN named_adapters
  ELSE [named_adapters EXCEPT ![ClientName[a]] = a]

\* add_adapter, then the news of the client for every monitor.  The info of an
\* adapter that is in adapter_infos already is left as it is.
AuthAdapter ==
  LET s == Cmd.sender IN
  /\ Accepted("auth")
  /\ AuthResult(s) = "success" /\ s \notin MonitorClient
  /\ named_adapters' = NameTaken(s)
  /\ adapter_infos' = adapter_infos \cup {s}
  /\ IF s \in adapter_infos THEN UNCHANGED <<info, declared_methods>>
     ELSE /\ info' = [info EXCEPT ![s] = "adapter"]
          /\ declared_methods' = [declared_methods EXCEPT ![s] = {}]
  /\ \E failed \in Failing({s} \cup Added(s)) :
       /\ TellAuth(s, failed)
       /\ view' = ListAdd(s, Reached(Added(s), failed))
       /\ closed' = closed \cup failed
  /\ untold' = [m \in Adapter |-> IF m \in monitors \ Added(s)
                                 THEN untold[m] \cup {s} ELSE untold[m] \ {s}]
  /\ Advance
  /\ UNCHANGED <<monitors, subVars, callVars, incoming, answers, seen>>

\* do_erase_adapter's removal from named_adapters.
NameReleased(a) ==
  IF ClientName[a] = NoName THEN named_adapters
  ELSE [named_adapters EXCEPT ![ClientName[a]] = NoAdapter]

\* clear_sub_gabages: expired subscribers are dropped.  The adapter being
\* erased is still referenced by the batch.
WithoutExpired(named) ==
  [t \in Topic |-> [a \in Adapter |->
     IF Expired(a, named) THEN 0 ELSE subscriptions[t][a]]]

\* Mutant: off by one.
DueToClear_late == clear_sub_prio + 1 > CLEAR_SUBSCRIPTION_THRESHOLD

\* check_subscriptions: enough erasures since the last collection.
DueToClear == clear_sub_prio + 1 >= CLEAR_SUBSCRIPTION_THRESHOLD

\* check_subscriptions.  Whether ten seconds have passed since the last command
\* is up to the clients, hence to the environment.
check_subscriptions(named) ==
  \E idle \in BOOLEAN :
    IF idle \/ DueToClear
    THEN subscriptions' = WithoutExpired(named) /\ clear_sub_prio' = 0
    ELSE UNCHANGED subscriptions /\ clear_sub_prio' = clear_sub_prio + 1

\* do_erase_adapter of a client, with the news of it for every monitor.  The
\* info pointer is not reset, though what it points to is erased.
EraseAdapter ==
  LET s == Cmd.sender IN
  /\ Handling("erase") /\ info[s] = "adapter"
  /\ named_adapters' = NameReleased(s)
  /\ adapter_infos' = adapter_infos \ {s}
  /\ \E failed \in Failing(monitors) :
       /\ view' = ListRemove(s, Reached(monitors, failed))
       /\ closed' = closed \cup failed
  /\ check_subscriptions(NameReleased(s))
  /\ Advance
  /\ UNCHANGED <<info, monitors, declared_methods, persist_msgs, callVars,
                 authres, incoming, answers, seen, untold>>

\* do_erase_adapter of a monitor: its name is released as well.
EraseMonitor ==
  LET s == Cmd.sender IN
  /\ Handling("erase") /\ info[s] = "monitor"
  /\ named_adapters' = NameReleased(s)
  /\ monitors' = monitors \ {s}
  /\ check_subscriptions(NameReleased(s))
  /\ Advance
  /\ UNCHANGED <<closed, info, adapter_infos, declared_methods, persist_msgs,
                 callVars, wireVars>>
=============================================================================
