-------------------------- MODULE DispatcherTopics --------------------------
(***************************************************************************)
(* Subscriptions, posts and pings (handle_subscribe_req,                   *)
(* handle_unsubscribe_req, post_msg, handle_ping_req in src/src/disp.cc).  *)
(***************************************************************************)
EXTENDS DispatcherCore

\* Mutant: the list is not searched.
Subscribed_unsearched(t, s) == FALSE

Subscribed(t, s) == subscriptions[t][s] > 0

\* handle_subscribe_req: a new subscriber is sent the persistent message of the
\* name, if there is one that fits; for a subscriber nothing happens.
Subscribe ==
  LET s == Cmd.sender  t == Cmd.name
      new == ~Subscribed(t, s)
      to == IF new /\ persist_msgs[t] \notin {NoData} \cup BigAnon
            THEN {s} ELSE {} IN
  /\ Accepted("subscribe")
  /\ subscriptions' = IF new THEN [subscriptions EXCEPT ![t][s] = @ + 1]
                      ELSE subscriptions
  /\ \E failed \in Failing(to) :
       /\ seen' = IF s \in Reached(to, failed)
                  THEN [seen EXCEPT ![s][t] = persist_msgs[t]] ELSE seen
       /\ closed' = closed \cup failed
  /\ Advance
  /\ UNCHANGED <<infoVars, persist_msgs, clear_sub_prio, callVars, authres,
                 incoming, answers, view, untold>>

\* handle_unsubscribe_req: the sender and expired subscribers are dropped.
Unsubscribe ==
  LET s == Cmd.sender  t == Cmd.name IN
  /\ Accepted("unsubscribe")
  /\ subscriptions' =
       [subscriptions EXCEPT ![t] = [a \in Adapter |->
          IF a = s \/ Expired(a, named_adapters) THEN 0 ELSE @[a]]]
  /\ Advance
  /\ UNCHANGED <<closed, infoVars, persist_msgs, clear_sub_prio, callVars,
                 wireVars>>

\* post_msg's subscribers: expired and closed ones are dropped from the list.
Subscriber(t) ==
  {a \in Adapter : /\ subscriptions[t][a] > 0
                   /\ ~Expired(a, named_adapters) /\ a \notin closed}

\* Mutant: instant messages are kept as well.
Kept_always(p) == [persist_msgs EXCEPT ![p.name] = p.data]

\* post_msg's end: persistent messages are kept.
Kept(p) ==
  IF p.type = "persist" THEN [persist_msgs EXCEPT ![p.name] = p.data]
  ELSE persist_msgs

\* post_msg: a message that does not fit in the buffer reaches nobody, but is
\* kept all the same when it is persistent.
Post ==
  LET t == Cmd.name
      to == IF Cmd.data \in BigNamed THEN {} ELSE Subscriber(t) IN
  /\ Accepted("post")
  /\ subscriptions' =
       [subscriptions EXCEPT ![t] = [a \in Adapter |->
          IF a \in Subscriber(t) THEN @[a] ELSE 0]]
  /\ \E failed \in Failing(to) :
       /\ seen' = IF Cmd.type # "persist" THEN seen
                  ELSE [a \in Adapter |->
                          IF a \in Reached(to, failed)
                          THEN [seen[a] EXCEPT ![t] = Cmd.data] ELSE seen[a]]
       /\ closed' = closed \cup failed
  /\ persist_msgs' = Kept(Cmd)
  /\ Advance
  /\ UNCHANGED <<infoVars, clear_sub_prio, callVars, authres, incoming,
                 answers, view, untold>>

\* handle_ping_req.
Ping ==
  /\ Accepted("ping")
  /\ \E failed \in Failing({Cmd.sender}) : closed' = closed \cup failed
  /\ Advance
  /\ UNCHANGED <<infoVars, subVars, callVars, wireVars>>
=============================================================================
