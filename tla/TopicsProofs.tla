---------------------------- MODULE TopicsProofs ----------------------------
(***************************************************************************)
(* Proofs about subscribers and monitors: whom a post reaches, what a      *)
(* subscriber has been sent last, and what a monitor knows of the clients. *)
(* What an erasure and a collection of subscribers may take away rests on  *)
(* the invariant of registration.                                          *)
(***************************************************************************)
EXTENDS DispatcherProofs

TopicsInv == NoDuplicateSubscription /\ PersistCoherent /\ MonitorViewExact

\* A step that adds no subscriber.
Fewer ==
  \A t \in Topic, a \in Adapter : subscriptions'[t][a] \in {0, subscriptions[t][a]}

\* A step that drops nobody who is connected.
KeepsConnected ==
  \A t \in Topic, a \in Adapter \ closed : subscriptions'[t][a] = subscriptions[t][a]

USE ConstantsAssumption DEF connVars, infoVars, subVars, queueVars, callVars,
  threadVars, clientVars, wireVars

\* The types of what subscribers and monitors are written to.
LEMMA TopicTypes ==
  ASSUME TypeInv
  PROVE  /\ subscriptions \in [Topic -> [Adapter -> Nat]]
         /\ persist_msgs \in [Topic -> Data \cup {NoData}]
         /\ seen \in [Adapter -> [Topic -> Data \cup {NoData}]]
         /\ view \in [Adapter -> [Adapter -> Nat]]
         /\ closed \subseteq Adapter /\ monitors \subseteq Adapter
         /\ adapter_infos \subseteq Adapter
BY Zenon DEF TypeInv, TypeOK

\* An adapter that no shared_ptr refers to has been closed.
LEMMA ExpiredClosed ==
  ASSUME RegistryInv, NEW a \in Adapter, NEW named, Expired(a, named)
  PROVE  a \in closed
BY Zenon DEF Expired, RegistryInv, LifeCycle

\* check_subscriptions drops subscribers whose connection is gone.
LEMMA CollectDrops ==
  ASSUME RegistryInv, NEW named, check_subscriptions(named)
  PROVE  Fewer /\ KeepsConnected
<1>1. CASE subscriptions' = subscriptions
  BY <1>1, Zenon DEF Fewer, KeepsConnected
<1>2. CASE subscriptions' = WithoutExpired(named)
  BY <1>2, ExpiredClosed, Zenon DEF WithoutExpired, Fewer, KeepsConnected
<1> QED BY <1>1, <1>2, Zenon DEF check_subscriptions

\* The name of the topic that is subscribed, unsubscribed or posted.
LEMMA CmdTopic ==
  ASSUME RegistryInv, Handle, NEW kind \in {"subscribe", "unsubscribe", "post"}, Accepted(kind)
  PROVE  Cmd.name \in Topic /\ Cmd.sender \in Adapter
<1>1. Cmd \in Packet /\ Cmd.sender \in Adapter
  BY HandleAdvances, Zenon DEF RegistryInv
<1>2. Cmd.cmd = kind
  BY Zenon DEF Accepted, Handling
<1> QED BY <1>1, <1>2, PacketFields, Zenon

\* handle_unsubscribe_req drops the sender, and subscribers whose connection is gone.
LEMMA UnsubscribeDrops ==
  ASSUME RegistryInv, Handle, Unsubscribe
  PROVE  /\ Fewer /\ Handling("unsubscribe")
         /\ \A t \in Topic, a \in Adapter \ closed :
              \/ subscriptions'[t][a] = subscriptions[t][a]
              \/ Cmd.sender = a /\ Cmd.name = t
<1>1. PICK s \in Adapter, n \in Topic :
        /\ s = Cmd.sender /\ n = Cmd.name
        /\ subscriptions' = [subscriptions EXCEPT ![n] = [a \in Adapter |->
             IF a = s \/ Expired(a, named_adapters) THEN 0 ELSE subscriptions[n][a]]]
  BY CmdTopic, Zenon DEF Unsubscribe
<1>2. subscriptions \in [Topic -> [Adapter -> Nat]]
  BY TopicTypes, Zenon DEF RegistryInv
<1>3. /\ \A t \in Topic : t # n => subscriptions'[t] = subscriptions[t]
      /\ subscriptions'[n] = [a \in Adapter |->
             IF a = s \/ Expired(a, named_adapters) THEN 0 ELSE subscriptions[n][a]]
  BY <1>1, <1>2, Zenon
<1>4. \A a \in Adapter : /\ subscriptions'[n][a] \in {0, subscriptions[n][a]}
                         /\ a \notin closed /\ a # s => subscriptions'[n][a] = subscriptions[n][a]
  BY <1>3, ExpiredClosed, Zenon
<1>5. Fewer
  BY <1>3, <1>4, Zenon DEF Fewer
<1>6. Handling("unsubscribe")
  BY Zenon DEF Unsubscribe, Accepted
<1> QED BY <1>1, <1>3, <1>4, <1>5, <1>6, Zenon

\* post_msg drops the subscribers that it does not write to.
LEMMA PostDrops ==
  ASSUME RegistryInv, Handle, Post
  PROVE  /\ Fewer /\ KeepsConnected
         /\ \A a \in Adapter : subscriptions'[Cmd.name][a] > 0 => a \in Subscriber(Cmd.name)
<1>1. PICK n \in Topic :
        /\ n = Cmd.name
        /\ subscriptions' = [subscriptions EXCEPT ![n] = [a \in Adapter |->
             IF a \in Subscriber(n) THEN subscriptions[n][a] ELSE 0]]
  BY CmdTopic, Zenon DEF Post
<1>2. subscriptions \in [Topic -> [Adapter -> Nat]]
  BY TopicTypes, Zenon DEF RegistryInv
<1>3. /\ \A t \in Topic : t # n => subscriptions'[t] = subscriptions[t]
      /\ subscriptions'[n] = [a \in Adapter |->
             IF a \in Subscriber(n) THEN subscriptions[n][a] ELSE 0]
  BY <1>1, <1>2, Zenon
<1>4. \A a \in Adapter : ~(subscriptions[n][a] > 0) => subscriptions[n][a] = 0
  <2>1. subscriptions[n] \in [Adapter -> Nat]
    BY <1>2, Zenon
  <2> QED BY <2>1, SMT
<1>5. \A a \in Adapter \ closed : a \in Subscriber(n) \/ subscriptions[n][a] = 0
  BY <1>4, ExpiredClosed, Zenon DEF Subscriber
<1>6. /\ \A a \in Adapter : subscriptions'[n][a] \in {0, subscriptions[n][a]}
      /\ \A a \in Adapter \ closed : subscriptions'[n][a] = subscriptions[n][a]
  BY <1>3, <1>5, Zenon
<1>7. ~(0 > 0)
  BY SMT
<1> QED BY <1>1, <1>3, <1>6, <1>7, Zenon DEF Fewer, KeepsConnected

LEMMA NatZero == ASSUME NEW x \in Nat, ~(x > 0) PROVE x = 0
BY SMT

\* handle_subscribe_req enters the sender once.
LEMMA SubscribeAdds ==
  ASSUME RegistryInv, Handle, Subscribe
  PROVE  \A t \in Topic, a \in Adapter :
           \/ subscriptions'[t][a] = subscriptions[t][a]
           \/ /\ t = Cmd.name /\ a = Cmd.sender
              /\ ~Subscribed(t, a) /\ subscriptions'[t][a] = 1
<1>1. PICK s \in Adapter, n \in Topic :
        /\ s = Cmd.sender /\ n = Cmd.name
        /\ subscriptions' = IF ~Subscribed(n, s) THEN [subscriptions EXCEPT ![n][s] = @ + 1]
                            ELSE subscriptions
  BY CmdTopic, Zenon DEF Subscribe
<1>2. subscriptions \in [Topic -> [Adapter -> Nat]]
  BY TopicTypes, Zenon DEF RegistryInv
<1>3. CASE Subscribed(n, s)
  BY <1>1, <1>3, Zenon
<1>4. CASE ~Subscribed(n, s)
  <2>1. subscriptions[n][s] = 0
    <3>1. subscriptions[n][s] \in Nat
      <4>1. subscriptions[n] \in [Adapter -> Nat]
        BY <1>2, Zenon
      <4> QED BY <4>1, Zenon
    <3>2. ~(subscriptions[n][s] > 0)
      BY <1>4, Zenon DEF Subscribed
    <3> QED BY <3>1, <3>2, NatZero, Zenon
  <2>2. subscriptions' = [subscriptions EXCEPT ![n] = [subscriptions[n] EXCEPT ![s] = 0 + 1]]
    BY <1>1, <1>4, <2>1, Zenon
  <2>3. 0 + 1 = 1
    BY SMT
  <2>4. /\ \A t \in Topic : t # n => subscriptions'[t] = subscriptions[t]
        /\ \A a \in Adapter : a # s => subscriptions'[n][a] = subscriptions[n][a]
        /\ subscriptions'[n][s] = 1
    BY <1>2, <2>2, <2>3, Zenon
  <2> QED BY <1>1, <1>4, <2>1, <2>4, Zenon
<1> QED BY <1>3, <1>4, Zenon
-----------------------------------------------------------------------------
(***************************************************************************)
(* What each kind of step does.                                            *)
(***************************************************************************)

\* The handlers that change what subscribers or monitors are told.
Tells == Subscribe \/ Post \/ AuthMonitor \/ AuthAdapter \/ EraseAdapter

\* The steps of the others leave it alone, and add neither subscribers nor monitors.
Quiet ==
  /\ Fewer /\ monitors' \subseteq monitors
  /\ UNCHANGED <<persist_msgs, seen, view, untold, adapter_infos>>

\* Nothing opens an adapter that has been closed.
LEMMA ClosedGrows ==
  ASSUME [Next]_vars
  PROVE  closed \subseteq closed'
<1>1. CASE UNCHANGED vars
  BY <1>1, Zenon DEF vars
<1>2. CASE \E a \in Adapter :
             \/ Connect(a) \/ Disconnect(a) \/ PollStep(a)
             \/ \E p \in Request(a) : Send(a, p)
             \/ \E svrid \in incoming[a], d \in Data : SendReply(a, svrid, d)
  <2>1. PICK a \in Adapter :
             \/ Connect(a) \/ Disconnect(a) \/ PollStep(a)
             \/ \E p \in Request(a) : Send(a, p)
             \/ \E svrid \in incoming[a], d \in Data : SendReply(a, svrid, d)
    BY <1>2, Zenon
  <2>2. CASE Connect(a) \/ Disconnect(a)
    BY <2>2, Zenon DEF Connect, Disconnect
  <2>3. CASE PollStep(a)
    BY <2>3, Zenon DEF PollStep, PollClose, PollErase
  <2>4. CASE \E p \in Request(a) : Send(a, p)
    BY <2>4, Zenon DEF Send
  <2>5. CASE \E svrid \in incoming[a], d \in Data : SendReply(a, svrid, d)
    BY <2>5, Zenon DEF SendReply
  <2> QED BY <2>1, <2>2, <2>3, <2>4, <2>5, Zenon
<1>3. CASE Splice \/ Exit \/ Close \/ Tick \/ DiscardBegin \/ DiscardEnd \/ DiscardCall
           \/ DiscardCrash
  BY <1>3, Zenon DEF Splice, Exit, Close, Tick, DiscardBegin, DiscardEnd, DiscardCall,
    DiscardCrash
<1>4. CASE Handle
  BY <1>4, Zenon DEF Handle, CloseSender, AuthReject, AuthMonitor, AuthAdapter, EraseAdapter,
    EraseMonitor, Subscribe, Unsubscribe, Post, Ping, DeclareMethod, RemoveMethod, CallUnknown,
    CallForward, ReplyDropped, ReplyForward, ReplyTooBig
<1> QED BY <1>1, <1>2, <1>3, <1>4, Zenon DEF Next, DispatcherStep

\* What the other steps leave alone.
LEMMA OtherSteps ==
  ASSUME [Next]_vars, ~(Handle /\ Tells)
  PROVE  \/ UNCHANGED <<subscriptions, persist_msgs, seen, view, untold, adapter_infos, monitors>>
         \/ Handle /\ (Unsubscribe \/ EraseMonitor)
<1>1. CASE UNCHANGED vars
  BY <1>1, Zenon DEF vars
<1>2. CASE \E a \in Adapter :
             \/ Connect(a) \/ Disconnect(a) \/ PollStep(a)
             \/ \E p \in Request(a) : Send(a, p)
             \/ \E svrid \in incoming[a], d \in Data : SendReply(a, svrid, d)
  <2>1. PICK a \in Adapter :
             \/ Connect(a) \/ Disconnect(a) \/ PollStep(a)
             \/ \E p \in Request(a) : Send(a, p)
             \/ \E svrid \in incoming[a], d \in Data : SendReply(a, svrid, d)
    BY <1>2, Zenon
  <2>2. CASE Connect(a) \/ Disconnect(a)
    BY <2>2, Zenon DEF Connect, Disconnect
  <2>3. CASE PollStep(a)
    BY <2>3, Zenon DEF PollStep, PollClose, PollErase
  <2>4. CASE \E p \in Request(a) : Send(a, p)
    BY <2>4, Zenon DEF Send
  <2>5. CASE \E svrid \in incoming[a], d \in Data : SendReply(a, svrid, d)
    BY <2>5, Zenon DEF SendReply
  <2> QED BY <2>1, <2>2, <2>3, <2>4, <2>5, Zenon
<1>3. CASE Splice \/ Exit \/ Close \/ Tick \/ DiscardBegin \/ DiscardEnd \/ DiscardCall
           \/ DiscardCrash
  BY <1>3, Zenon DEF Splice, Exit, Close, Tick, DiscardBegin, DiscardEnd, DiscardCall,
    DiscardCrash
<1>4. CASE Handle
  BY <1>4, Zenon DEF Handle, Tells, CloseSender, AuthReject, Ping, DeclareMethod,
    RemoveMethod, CallUnknown, CallForward, ReplyDropped, ReplyForward, ReplyTooBig
<1> QED BY <1>1, <1>2, <1>3, <1>4, Zenon DEF Next, DispatcherStep

\* Of the other steps, only unsubscribing drops a connected subscriber.
LEMMA QuietSteps ==
  ASSUME RegistryInv, [Next]_vars, ~(Handle /\ Tells)
  PROVE  Quiet /\ (KeepsConnected \/ (Handle /\ Unsubscribe))
<1>1. CASE UNCHANGED <<subscriptions, persist_msgs, seen, view, untold, adapter_infos, monitors>>
  <2>1. Fewer /\ KeepsConnected
    BY <1>1, Zenon DEF Fewer, KeepsConnected
  <2>2. monitors' \subseteq monitors
    BY <1>1, Zenon
  <2> QED BY <1>1, <2>1, <2>2, Zenon DEF Quiet
<1>2. CASE Handle /\ Unsubscribe
  <2>1. UNCHANGED <<persist_msgs, seen, view, untold, adapter_infos, monitors>>
    BY <1>2, Zenon DEF Unsubscribe
  <2>2. monitors' \subseteq monitors
    BY <2>1, Zenon
  <2> QED BY <1>2, <2>1, <2>2, UnsubscribeDrops, Zenon DEF Quiet
<1>3. CASE Handle /\ EraseMonitor
  <2>1. /\ UNCHANGED <<persist_msgs, seen, view, untold, adapter_infos>>
        /\ monitors' = monitors \ {Cmd.sender}
        /\ check_subscriptions(NameReleased(Cmd.sender))
    BY <1>3, Zenon DEF EraseMonitor
  <2>2. monitors' \subseteq monitors
    BY <2>1, Zenon
  <2>3. Fewer /\ KeepsConnected
    BY <2>1, CollectDrops, Zenon
  <2> QED BY <2>1, <2>2, <2>3, Zenon DEF Quiet
<1> QED BY <1>1, <1>2, <1>3, OtherSteps, Zenon
-----------------------------------------------------------------------------
(***************************************************************************)
(* Subscribers.                                                            *)
(***************************************************************************)

\* Whatever a step does to the lists, it adds the sender of a subscription only.
LEMMA SubscribersStep ==
  ASSUME RegistryInv, [Next]_vars
  PROVE  \/ Fewer /\ (KeepsConnected \/ (Handle /\ Unsubscribe))
         \/ Handle /\ Subscribe
<1>1. CASE Handle /\ Post
  BY <1>1, PostDrops, Zenon
<1>2. CASE Handle /\ (AuthMonitor \/ AuthAdapter)
  <2>1. UNCHANGED subscriptions
    BY <1>2, Zenon DEF AuthMonitor, AuthAdapter
  <2> QED BY <2>1, Zenon DEF Fewer, KeepsConnected
<1>3. CASE Handle /\ EraseAdapter
  <2>1. check_subscriptions(NameReleased(Cmd.sender))
    BY <1>3, Zenon DEF EraseAdapter
  <2> QED BY <2>1, CollectDrops, Zenon
<1> QED BY <1>1, <1>2, <1>3, QuietSteps, Zenon DEF Tells, Quiet

\* Nobody is listed twice.
LEMMA NoDuplicateStep ==
  ASSUME RegistryInv, NoDuplicateSubscription, [Next]_vars
  PROVE  NoDuplicateSubscription'
<1>1. 0 <= 1 /\ 1 <= 1
  BY SMT
<1>2. CASE Fewer
  BY <1>1, <1>2, Zenon DEF Fewer, NoDuplicateSubscription
<1>3. CASE Handle /\ Subscribe
  BY <1>1, <1>3, SubscribeAdds, Zenon DEF NoDuplicateSubscription
<1> QED BY <1>2, <1>3, SubscribersStep, Zenon

\* A step without messages.
LEMMA CoherentQuiet ==
  ASSUME PersistCoherent, Fewer, closed \subseteq closed', UNCHANGED <<persist_msgs, seen>>
  PROVE  PersistCoherent'
<1> SUFFICES ASSUME NEW t \in Topic, NEW a \in Adapter, a \notin closed',
                    subscriptions'[t][a] > 0,
                    persist_msgs[t] \notin {NoData} \cup BigNamed
             PROVE  seen[a][t] = persist_msgs[t]
  BY Zenon DEF PersistCoherent
<1>1. ~(0 > 0)
  BY SMT
<1>2. subscriptions'[t][a] = subscriptions[t][a]
  BY <1>1, Zenon DEF Fewer
<1>3. subscriptions[t][a] > 0 /\ a \in Adapter \ closed
  BY <1>2, Zenon
<1> QED BY <1>3, Zenon DEF PersistCoherent

\* handle_subscribe_req sends the kept message to a new subscriber.
LEMMA CoherentSubscribe ==
  ASSUME RegistryInv, PersistCoherent, Handle, Subscribe
  PROVE  PersistCoherent'
<1>1. PICK s \in Adapter, n \in Topic : s = Cmd.sender /\ n = Cmd.name
  BY CmdTopic, Zenon DEF Subscribe
<1> DEFINE to == IF ~Subscribed(n, s) /\ persist_msgs[n] \notin {NoData} \cup BigAnon
                 THEN {s} ELSE {}
<1>2. PICK failed \in Failing(to) :
        /\ seen' = IF s \in Reached(to, failed)
                   THEN [seen EXCEPT ![s] = [seen[s] EXCEPT ![n] = persist_msgs[n]]] ELSE seen
        /\ closed' = closed \cup failed
  BY <1>1, Zenon DEF Subscribe
<1>3. UNCHANGED persist_msgs
  BY Zenon DEF Subscribe
<1>4. seen \in [Adapter -> [Topic -> Data \cup {NoData}]]
  BY TopicTypes, Zenon DEF RegistryInv
<1>5. /\ \A a \in Adapter, t \in Topic : ~(a = s /\ t = n) => seen'[a][t] = seen[a][t]
      /\ s \in Reached(to, failed) => seen'[s][n] = persist_msgs[n]
      /\ s \notin Reached(to, failed) => seen'[s][n] = seen[s][n]
  BY <1>2, <1>4, Zenon
<1>6. \A t \in Topic, a \in Adapter :
           \/ subscriptions'[t][a] = subscriptions[t][a]
           \/ t = n /\ a = s /\ ~Subscribed(t, a)
  BY <1>1, SubscribeAdds, Zenon
<1> SUFFICES ASSUME NEW t \in Topic, NEW a \in Adapter, a \notin closed',
                    subscriptions'[t][a] > 0,
                    persist_msgs[t] \notin {NoData} \cup BigNamed
             PROVE  seen'[a][t] = persist_msgs[t]
  BY <1>3, Zenon DEF PersistCoherent
<1>7. CASE ~(t = n /\ a = s /\ ~Subscribed(t, a))
  <2>1. subscriptions[t][a] > 0 /\ a \notin closed
    BY <1>2, <1>6, <1>7, Zenon
  <2>2. seen[a][t] = persist_msgs[t]
    BY <2>1, Zenon DEF PersistCoherent
  <2> QED BY <1>5, <2>2, Zenon
<1>8. CASE t = n /\ a = s /\ ~Subscribed(t, a)
  <2>1. to = {s}
    BY <1>8, Zenon
  <2>2. s \in Reached(to, failed)
    BY <1>2, <1>8, <2>1, Zenon DEF Reached
  <2> QED BY <1>5, <1>8, <2>2, Zenon
<1> QED BY <1>7, <1>8, Zenon

\* post_msg writes a persistent message to all subscribers, and keeps it.
LEMMA CoherentPost ==
  ASSUME RegistryInv, PersistCoherent, Handle, Post
  PROVE  PersistCoherent'
<1>1. PICK n \in Topic : n = Cmd.name
  BY CmdTopic, Zenon DEF Post
<1>0. PICK d : d = Cmd.data
  BY Zenon
<1> DEFINE to == IF d \in BigNamed THEN {} ELSE Subscriber(n)
<1>2. PICK failed \in Failing(to) :
        /\ seen' = IF Cmd.type # "persist" THEN seen
                   ELSE [a \in Adapter |-> IF a \in Reached(to, failed)
                                           THEN [seen[a] EXCEPT ![n] = d] ELSE seen[a]]
        /\ closed' = closed \cup failed
  BY <1>0, <1>1, Zenon DEF Post
<1>3. persist_msgs' = Kept(Cmd) /\ closed \subseteq closed'
  BY <1>2, Zenon DEF Post
<1>4. /\ seen \in [Adapter -> [Topic -> Data \cup {NoData}]]
      /\ persist_msgs \in [Topic -> Data \cup {NoData}]
  BY TopicTypes, Zenon DEF RegistryInv
<1>5. /\ Fewer
      /\ \A a \in Adapter : subscriptions'[n][a] > 0 => a \in Subscriber(n)
  BY <1>1, PostDrops, Zenon
<1>6. CASE Cmd.type # "persist"
  <2>1. UNCHANGED <<persist_msgs, seen>>
    BY <1>2, <1>3, <1>6, Zenon DEF Kept
  <2> QED BY <1>3, <1>5, <2>1, CoherentQuiet, Zenon
<1>7. CASE Cmd.type = "persist"
  <2>1. /\ \A t \in Topic : t # n => persist_msgs'[t] = persist_msgs[t]
        /\ persist_msgs'[n] = d
    BY <1>0, <1>1, <1>3, <1>4, <1>7, Zenon DEF Kept
  <2>2. /\ \A a \in Adapter, t \in Topic : t # n => seen'[a][t] = seen[a][t]
        /\ \A a \in Reached(to, failed) : a \in Adapter => seen'[a][n] = d
    BY <1>2, <1>4, <1>7, Zenon
  <2> SUFFICES ASSUME NEW t \in Topic, NEW a \in Adapter, a \notin closed',
                      subscriptions'[t][a] > 0,
                      persist_msgs'[t] \notin {NoData} \cup BigNamed
               PROVE  seen'[a][t] = persist_msgs'[t]
    BY Zenon DEF PersistCoherent
  <2>3. CASE t = n
    <3>1. to = Subscriber(n) /\ a \in Subscriber(n)
      BY <1>5, <2>1, <2>3, Zenon
    <3>2. a \in Reached(to, failed)
      BY <1>2, <3>1, Zenon DEF Reached
    <3> QED BY <2>1, <2>2, <2>3, <3>2, Zenon
  <2>4. CASE t # n
    <3>1. ~(0 > 0)
      BY SMT
    <3>2. subscriptions'[t][a] = subscriptions[t][a]
      BY <1>5, <3>1, Zenon DEF Fewer
    <3>3. subscriptions[t][a] > 0 /\ a \in Adapter \ closed
      BY <1>3, <3>2, Zenon
    <3>4. persist_msgs[t] \notin {NoData} \cup BigNamed
      BY <2>1, <2>4, Zenon
    <3>5. seen[a][t] = persist_msgs[t]
      BY <3>3, <3>4, Zenon DEF PersistCoherent
    <3> QED BY <2>1, <2>2, <2>4, <3>5, Zenon
  <2> QED BY <2>3, <2>4, Zenon
<1> QED BY <1>6, <1>7, Zenon

\* Subscribers stay up to date.
LEMMA CoherentStep ==
  ASSUME RegistryInv, PersistCoherent, [Next]_vars
  PROVE  PersistCoherent'
<1>1. CASE Handle /\ (AuthMonitor \/ AuthAdapter \/ EraseAdapter)
  <2>1. UNCHANGED <<persist_msgs, seen>> /\ ~Subscribe
    BY <1>1, Zenon DEF AuthMonitor, AuthAdapter, EraseAdapter, Subscribe, Accepted, Handling
  <2> QED BY <2>1, ClosedGrows, SubscribersStep, CoherentQuiet, Zenon
<1>2. CASE ~(Handle /\ Tells)
  BY <1>2, ClosedGrows, QuietSteps, CoherentQuiet, Zenon DEF Quiet
<1> QED BY <1>1, <1>2, CoherentSubscribe, CoherentPost, Zenon DEF Tells
-----------------------------------------------------------------------------
(***************************************************************************)
(* Monitors.                                                               *)
(***************************************************************************)

\* An entry of a monitor's list.
Shown(infos, a) == IF a \in infos THEN 1 ELSE 0

\* MonitorViewExact for one monitor.
Exact(v, infos) == \A a \in Adapter : v[a] = Shown(infos, a)

\* What MonitorViewExact says, in these words.
LEMMA ViewExactIs ==
  /\ MonitorViewExact <=>
       \A m \in monitors \ closed : Exact(view[m], adapter_infos \ untold[m])
  /\ MonitorViewExact' <=>
       \A m \in monitors' \ closed' : Exact(view'[m], adapter_infos' \ untold'[m])
BY Zenon DEF MonitorViewExact, Exact, Shown

\* The news that a client has come or gone keeps a list exact, and so does its
\* absence for a client the monitor is not told of.
LEMMA ListAdded ==
  ASSUME NEW v \in [Adapter -> Nat], NEW infos, NEW out, NEW s \in Adapter, s \notin infos,
         Exact(v, infos \ out)
  PROVE  /\ Exact([v EXCEPT ![s] = @ + 1], (infos \cup {s}) \ (out \ {s}))
         /\ Exact(v, (infos \cup {s}) \ (out \cup {s}))
BY SMTT(30) DEF Exact, Shown

LEMMA ListRemoved ==
  ASSUME NEW v \in [Adapter -> Nat], NEW infos, NEW out, NEW s \in infos, s \in Adapter,
         Exact(v, infos \ out)
  PROVE  Exact(IF v[s] > 0 THEN [v EXCEPT ![s] = @ - 1] ELSE v, (infos \ {s}) \ out)
BY SMTT(30) DEF Exact, Shown

\* The sender of an authentication is not registered yet.
LEMMA NotYetKnown ==
  ASSUME RegistryInv, Handle, Accepted("auth")
  PROVE  /\ Cmd.sender \in Adapter
         /\ Cmd.sender \notin adapter_infos /\ Cmd.sender \notin monitors
<1>1. PICK s \in Adapter : s = Cmd.sender
  BY SenderKnown, Zenon
<1>2. Cmd.cmd = "auth"
  BY Zenon DEF Accepted, Handling
<1>3. Has(s, "auth")
  BY <1>1, <1>2, HandleQueue, Zenon DEF RegistryInv
<1>4. info[s] = "null"
  BY <1>3, Zenon DEF RegistryInv, LifeCycle
<1> QED BY <1>1, <1>4, Zenon DEF RegistryInv, InfoFits

\* A new monitor gets the list of all clients, or is told of none of them.
LEMMA ViewMonitor ==
  ASSUME RegistryInv, MonitorViewExact, Handle, AuthMonitor
  PROVE  MonitorViewExact'
<1>1. PICK s \in Adapter : s = Cmd.sender /\ s \notin monitors
  BY NotYetKnown, Zenon DEF AuthMonitor
<1>2. PICK failed \in Failing({s}), late \in Failing(Listed(s)) :
        /\ view' = [view EXCEPT ![s] = [a \in Adapter |->
             IF a \in adapter_infos /\ s \in Reached(Listed(s), failed \cup late)
             THEN 1 ELSE 0]]
        /\ closed' = closed \cup failed \cup late
  BY <1>1, Zenon DEF AuthMonitor
<1>3. /\ monitors' = monitors \cup {s} /\ adapter_infos' = adapter_infos
      /\ untold' = [untold EXCEPT ![s] = IF Listed(s) = {} THEN adapter_infos ELSE {}]
  BY <1>1, Zenon DEF AuthMonitor
<1>4. /\ view \in [Adapter -> [Adapter -> Nat]] /\ untold \in [Adapter -> SUBSET Adapter]
      /\ \A m \in monitors : m \in Adapter
  BY TopicTypes, Zenon DEF RegistryInv, TypeInv, TypeOK
<1> SUFFICES ASSUME NEW m \in monitors' \ closed'
             PROVE  Exact(view'[m], adapter_infos' \ untold'[m])
  BY ViewExactIs, Zenon
<1>5. CASE m = s
  <2>1. /\ view'[s] = [a \in Adapter |->
             IF a \in adapter_infos /\ s \in Reached(Listed(s), failed \cup late)
             THEN 1 ELSE 0]
        /\ untold'[s] = IF Listed(s) = {} THEN adapter_infos ELSE {}
    BY <1>2, <1>3, <1>4, Zenon
  <2>2. s \notin closed /\ s \notin failed /\ s \notin late
    BY <1>2, <1>5, Zenon
  <2>3. CASE Listed(s) = {}
    <3>1. s \notin Reached(Listed(s), failed \cup late)
      BY <2>3, Zenon DEF Reached
    <3>2. \A a \in Adapter : view'[s][a] = 0
      BY <2>1, <3>1, Zenon
    <3>3. \A a : a \notin adapter_infos' \ untold'[s]
      BY <1>3, <2>1, <2>3, Zenon
    <3> QED BY <1>5, <3>2, <3>3, Zenon DEF Exact, Shown
  <2>4. CASE Listed(s) # {}
    <3>1. s \in Reached(Listed(s), failed \cup late)
      BY <2>2, <2>4, Zenon DEF Reached, Listed
    <3>2. \A a \in Adapter : view'[s][a] = IF a \in adapter_infos THEN 1 ELSE 0
      BY <2>1, <3>1, Zenon
    <3>3. untold'[s] = {}
      BY <2>1, <2>4, Zenon
    <3>4. \A a : a \in adapter_infos' \ untold'[s] <=> a \in adapter_infos
      BY <1>3, <3>3, Zenon
    <3>5. \A a \in Adapter : view'[s][a] = Shown(adapter_infos' \ untold'[s], a)
      BY <3>2, <3>4, Zenon DEF Shown
    <3> QED BY <1>5, <3>5, Zenon DEF Exact
  <2> QED BY <2>3, <2>4, Zenon
<1>6. CASE m # s
  <2>1. m \in monitors \ closed /\ m \in Adapter
    BY <1>2, <1>3, <1>4, <1>6, Zenon
  <2>2. view'[m] = view[m] /\ untold'[m] = untold[m]
    BY <1>2, <1>3, <1>4, <1>6, <2>1, Zenon
  <2>3. Exact(view[m], adapter_infos \ untold[m])
    BY <2>1, ViewExactIs, Zenon
  <2> QED BY <1>3, <2>2, <2>3, Zenon
<1> QED BY <1>5, <1>6, Zenon

\* write_monitor_list_add: who is not told is closed, or nobody is told.
LEMMA ViewAdd ==
  ASSUME RegistryInv, MonitorViewExact, Handle, AuthAdapter
  PROVE  MonitorViewExact'
<1>1. PICK s \in Adapter : s = Cmd.sender /\ s \notin adapter_infos
  BY NotYetKnown, Zenon DEF AuthAdapter
<1>2. PICK failed \in Failing({s} \cup Added(s)) :
        /\ view' = ListAdd(s, Reached(Added(s), failed))
        /\ closed' = closed \cup failed
  BY <1>1, Zenon DEF AuthAdapter
<1>3. /\ monitors' = monitors /\ adapter_infos' = adapter_infos \cup {s}
      /\ untold' = [m \in Adapter |-> IF m \in monitors \ Added(s)
                                     THEN untold[m] \cup {s} ELSE untold[m] \ {s}]
  BY <1>1, Zenon DEF AuthAdapter
<1>4. view \in [Adapter -> [Adapter -> Nat]] /\ \A m \in monitors : m \in Adapter
  BY TopicTypes, Zenon DEF RegistryInv
<1> SUFFICES ASSUME NEW m \in monitors' \ closed'
             PROVE  Exact(view'[m], adapter_infos' \ untold'[m])
  BY ViewExactIs, Zenon
<1>5. m \in monitors /\ m \notin closed /\ m \notin failed /\ m \in Adapter
  BY <1>2, <1>3, <1>4, Zenon
<1>6. Exact(view[m], adapter_infos \ untold[m]) /\ view[m] \in [Adapter -> Nat]
  BY <1>4, <1>5, ViewExactIs, Zenon
<1>7. /\ Exact([view[m] EXCEPT ![s] = @ + 1], (adapter_infos \cup {s}) \ (untold[m] \ {s}))
      /\ Exact(view[m], (adapter_infos \cup {s}) \ (untold[m] \cup {s}))
  BY <1>1, <1>6, ListAdded, Zenon
<1>8. CASE s \in AddFits
  <2>1. m \in Added(s) /\ m \in Reached(Added(s), failed)
    BY <1>5, <1>8, Zenon DEF Added, Reached
  <2>2. view'[m] = [view[m] EXCEPT ![s] = @ + 1] /\ untold'[m] = untold[m] \ {s}
    BY <1>2, <1>3, <1>5, <2>1, Zenon DEF ListAdd
  <2> QED BY <1>3, <1>7, <2>2, Zenon
<1>9. CASE s \notin AddFits
  <2>1. m \notin Added(s) /\ m \notin Reached(Added(s), failed)
    BY <1>9, Zenon DEF Added, Reached
  <2>2. view'[m] = view[m] /\ untold'[m] = untold[m] \cup {s}
    BY <1>2, <1>3, <1>5, <2>1, Zenon DEF ListAdd
  <2> QED BY <1>3, <1>7, <2>2, Zenon
<1> QED BY <1>8, <1>9, Zenon

\* write_monitor_list_remove.
LEMMA ViewRemove ==
  ASSUME RegistryInv, MonitorViewExact, Handle, EraseAdapter
  PROVE  MonitorViewExact'
<1>1. PICK s \in Adapter : s = Cmd.sender /\ s \in adapter_infos
  <2>1. info[Cmd.sender] = "adapter"
    BY Zenon DEF EraseAdapter
  <2> QED BY <2>1, SenderKnown, Zenon DEF Dangling
<1>2. PICK failed \in Failing(monitors) :
        /\ view' = ListRemove(s, Reached(monitors, failed))
        /\ closed' = closed \cup failed
  BY <1>1, Zenon DEF EraseAdapter
<1>3. monitors' = monitors /\ adapter_infos' = adapter_infos \ {s} /\ untold' = untold
  BY <1>1, Zenon DEF EraseAdapter
<1>4. view \in [Adapter -> [Adapter -> Nat]] /\ \A m \in monitors : m \in Adapter
  BY TopicTypes, Zenon DEF RegistryInv
<1> SUFFICES ASSUME NEW m \in monitors' \ closed'
             PROVE  Exact(view'[m], adapter_infos' \ untold'[m])
  BY ViewExactIs, Zenon
<1>5. m \in monitors \ closed /\ m \in Adapter /\ m \in Reached(monitors, failed)
  BY <1>2, <1>3, <1>4, Zenon DEF Reached
<1>6. Exact(view[m], adapter_infos \ untold[m]) /\ view[m] \in [Adapter -> Nat]
  BY <1>4, <1>5, ViewExactIs, Zenon
<1>7. Exact(IF view[m][s] > 0 THEN [view[m] EXCEPT ![s] = @ - 1] ELSE view[m],
            (adapter_infos \ {s}) \ untold[m])
  BY <1>1, <1>6, ListRemoved, Zenon
<1>8. view'[m] = IF view[m][s] > 0 THEN [view[m] EXCEPT ![s] = @ - 1] ELSE view[m]
  BY <1>2, <1>5, Zenon DEF ListRemove
<1> QED BY <1>3, <1>7, <1>8, Zenon

\* The lists of the monitors stay exact.
LEMMA ViewStep ==
  ASSUME RegistryInv, MonitorViewExact, [Next]_vars
  PROVE  MonitorViewExact'
<1>1. ASSUME monitors' \subseteq monitors, UNCHANGED <<view, untold, adapter_infos>>
      PROVE  MonitorViewExact'
  <2>1. \A m \in monitors' \ closed' : m \in monitors \ closed
    BY <1>1, ClosedGrows, Zenon
  <2>2. \A m \in monitors' \ closed' : Exact(view[m], adapter_infos \ untold[m])
    BY <2>1, ViewExactIs, Zenon
  <2>3. \A m \in monitors' \ closed' : Exact(view'[m], adapter_infos' \ untold'[m])
    BY <1>1, <2>2, Zenon
  <2> QED BY <2>3, ViewExactIs, Zenon
<1>2. CASE Subscribe \/ Post
  <2>1. monitors' = monitors /\ UNCHANGED <<view, untold, adapter_infos>>
    BY <1>2, Zenon DEF Subscribe, Post
  <2>2. monitors' \subseteq monitors
    BY <2>1, Zenon
  <2> QED BY <1>1, <2>1, <2>2, Zenon
<1>3. CASE ~(Handle /\ Tells)
  BY <1>1, <1>3, QuietSteps, Zenon DEF Quiet
<1> QED BY <1>2, <1>3, ViewMonitor, ViewAdd, ViewRemove, Zenon DEF Tells
-----------------------------------------------------------------------------
(***************************************************************************)
(* The theorems.                                                           *)
(***************************************************************************)

\* The three invariants hold at the start.
LEMMA TopicsInit == Init => TopicsInv
<1> SUFFICES ASSUME Init PROVE TopicsInv
  BY Zenon
<1>1. 0 <= 1 /\ ~(0 > 0)
  BY SMT
<1>2. \A t \in Topic, a \in Adapter : subscriptions[t][a] = 0
  BY Zenon DEF Init
<1>3. monitors = {}
  BY Zenon DEF Init
<1> QED BY <1>1, <1>2, <1>3, Zenon
  DEF TopicsInv, NoDuplicateSubscription, PersistCoherent, MonitorViewExact

\* They are inductive together with the invariant of registration.
LEMMA TopicsInvariant == Spec => [](RegistryInv /\ TopicsInv)
<1>1. RegistryInv /\ TopicsInv /\ [Next]_vars => RegistryInv' /\ TopicsInv'
  BY RegistryStep, NoDuplicateStep, CoherentStep, ViewStep, Zenon DEF TopicsInv
<1> QED BY <1>1, TopicsInit, RegistryInit, PTL DEF Spec

\* handle_subscribe_req lists a subscriber once, however often it subscribes,
\* unsubscribes and is collected, so that post_msg writes to it once.
THEOREM SubscribersListedOnce == Spec => []NoDuplicateSubscription
<1>1. TopicsInv => NoDuplicateSubscription
  BY Zenon DEF TopicsInv
<1> QED BY <1>1, TopicsInvariant, PTL

\* A connected subscriber has been sent the persistent message that the dispatcher
\* keeps, in whatever order subscriptions, posts and failing writes come.
THEOREM SubscribersUpToDate == Spec => []PersistCoherent
<1>1. TopicsInv => PersistCoherent
  BY Zenon DEF TopicsInv
<1> QED BY <1>1, TopicsInvariant, PTL

\* add_monitor, add_adapter and do_erase_adapter keep the list of every connected
\* monitor equal to adapter_infos.
THEOREM MonitorsSeeAll == Spec => []MonitorViewExact
<1>1. TopicsInv => MonitorViewExact
  BY Zenon DEF TopicsInv
<1> QED BY <1>1, TopicsInvariant, PTL

\* clear_sub_gabages, handle_unsubscribe_req and post_msg drop no subscriber whose
\* connection lives, but the one that asks for it.
THEOREM SubscribersKept == Spec => SubscriberKept
<1> DEFINE Drops(t, a) == /\ subscriptions[t][a] > 0 /\ a \notin closed
                          /\ subscriptions'[t][a] = 0
<1>1. ASSUME RegistryInv, [Next]_vars
      PROVE  \A t \in Topic, a \in Adapter :
               Drops(t, a) => Handling("unsubscribe") /\ Cmd.sender = a /\ Cmd.name = t
  <2> SUFFICES ASSUME NEW t \in Topic, NEW a \in Adapter, Drops(t, a)
               PROVE  Handling("unsubscribe") /\ Cmd.sender = a /\ Cmd.name = t
    BY Zenon
  <2>1. ~(0 > 0) /\ 1 # 0
    BY SMT
  <2>2. subscriptions'[t][a] # subscriptions[t][a] /\ a \in Adapter \ closed
    BY <2>1, Zenon
  <2>3. ~KeepsConnected
    BY <2>2, Zenon DEF KeepsConnected
  <2>4. ~(Handle /\ Subscribe)
    <3> SUFFICES ASSUME Handle, Subscribe PROVE FALSE
      BY Zenon
    <3>1. subscriptions'[t][a] = subscriptions[t][a] \/ subscriptions'[t][a] = 1
      BY <1>1, SubscribeAdds, Zenon
    <3> QED BY <2>1, <2>2, <3>1, Zenon
  <2>5. Handle /\ Unsubscribe
    BY <1>1, <2>3, <2>4, SubscribersStep, Zenon
  <2>6. /\ Handling("unsubscribe")
        /\ \/ subscriptions'[t][a] = subscriptions[t][a]
           \/ Cmd.sender = a /\ Cmd.name = t
    BY <1>1, <2>2, <2>5, UnsubscribeDrops, Zenon
  <2> QED BY <2>2, <2>6, Zenon
<1>2. RegistryInv /\ [Next]_vars =>
        [\A t \in Topic, a \in Adapter :
           Drops(t, a) => Handling("unsubscribe") /\ Cmd.sender = a /\ Cmd.name = t]_vars
  BY <1>1, Zenon
<1> QED BY <1>2, RegistryInvariant, PTL DEF Spec, SubscriberKept
=============================================================================
