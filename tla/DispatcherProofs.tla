-------------------------- MODULE DispatcherProofs --------------------------
(***************************************************************************)
(* Proofs about the flora service, for every set of clients, names, topics *)
(* and methods and for any number of requests.                             *)
(***************************************************************************)
EXTENDS Dispatcher, SequenceTheorems, TLAPS

\* TypeOK, and a client has made no more calls than it has sent requests.
TypeInv == TypeOK /\ \A a \in Adapter : Len(asked[a]) <= nsent[a]

\* What the fields of a packet are, by its command.
LEMMA PacketFields ==
  ASSUME NEW p \in Packet
  PROVE  /\ p.sender \in Adapter
         /\ p.cmd \in {"subscribe", "unsubscribe"} => p.name \in Topic
         /\ p.cmd \in {"declare", "remove"} => p.name \in Method
         /\ p.cmd = "post" => /\ p.name \in Topic /\ p.type \in MsgType
                              /\ p.data \in Data
         /\ p.cmd = "call" => /\ p.name \in Method
                              /\ p.target \in Name \cup {NoName}
                              /\ p.cliid \in CallId /\ p.data \in Data
                              /\ p.timeout \in Timeout
         /\ p.cmd = "reply" => p.svrid \in Nat /\ p.data \in Data
BY Zenon DEF Packet, RequestOf

\* The requests of a client are packets.
LEMMA RequestIsPacket ==
  ASSUME TypeInv, NEW a \in Adapter, NEW p \in Request(a),
         p.cmd = "call" => Len(asked[a]) < MaxSend
  PROVE  p \in Packet
<1> USE ConstantsAssumption
<1>1. Len(asked[a]) \in Nat
  BY SMTT(60) DEF TypeInv, TypeOK
<1>2. p.cmd = "call" => Len(asked[a]) + 1 \in CallId
  BY <1>1, SMTT(60) DEF CallId
<1> QED
  BY <1>1, <1>2, ZenonT(40) DEF Request, RequestOf, Packet

\* What a client sends is a packet: it makes at most MaxSend calls.
LEMMA SentIsPacket ==
  ASSUME TypeInv, NEW a \in Adapter, NEW p \in Request(a), Send(a, p)
  PROVE  p \in Packet
<1>1. p.cmd = "call" => a \notin Endless
  <2>1. p.cmd \in Script[a]
    BY Zenon DEF Request
  <2> QED BY <2>1, ConstantsAssumption, Zenon
<1>2. Len(asked[a]) \in Nat /\ Len(asked[a]) <= nsent[a] /\ nsent[a] \in Nat
  BY SMTT(60) DEF TypeInv, TypeOK
<1>3. a \notin Endless => nsent[a] < MaxSend
  BY Zenon DEF Send
<1>4. p.cmd = "call" => Len(asked[a]) < MaxSend
  BY <1>1, <1>2, <1>3, ConstantsAssumption, SMTT(60)
<1> QED BY <1>4, RequestIsPacket, Zenon

\* The packet being handled.
LEMMA CmdIsPacket ==
  ASSUME TypeInv, it < Len(pending_cmds)
  PROVE  Cmd \in Packet
BY SMTT(60) DEF TypeInv, TypeOK, Cmd

\* After a handler the rest of the batch is still to be handled.
LEMMA AdvanceType ==
  ASSUME TypeInv, it < Len(pending_cmds), Advance
  PROVE  pending_cmds' \in Seq(Packet) /\ it' \in 0..Len(pending_cmds')
<1>1. pending_cmds \in Seq(Packet) /\ it \in 0..Len(pending_cmds)
  BY Zenon DEF TypeInv, TypeOK
<1>2. Len(pending_cmds) \in Nat
  BY <1>1, LenProperties, Zenon
<1>3. CASE it + 1 = Len(pending_cmds)
  <2>1. pending_cmds' = <<>> /\ it' = 0
    BY <1>3, Zenon DEF Advance
  <2> QED BY <2>1, EmptySeq, SMTT(60)
<1>4. CASE it + 1 # Len(pending_cmds)
  <2>1. pending_cmds' = pending_cmds /\ it' = it + 1
    BY <1>4, Zenon DEF Advance
  <2> QED BY <2>1, <1>1, <1>2, <1>4, SMTT(60)
<1> QED BY <1>3, <1>4, Zenon

\* A packet is put at the end of the queue.
LEMMA PutType ==
  ASSUME TypeInv, NEW p \in Packet, put(p)
  PROVE  cmd_packets' \in Seq(Packet)
BY AppendProperties, Zenon DEF TypeInv, TypeOK, put

USE ConstantsAssumption DEF connVars, infoVars, subVars, queueVars, callVars,
  threadVars, clientVars, wireVars

\* The steps of the clients and of the poll thread keep the types.
LEMMA TypeConn ==
  ASSUME TypeInv, NEW a \in Adapter,
         \/ Connect(a) \/ Disconnect(a) \/ PollStep(a)
         \/ \E p \in Request(a) : Send(a, p)
         \/ \E svrid \in incoming[a], d \in Data : SendReply(a, svrid, d)
  PROVE  TypeInv'
<1>1. CASE Connect(a)
  <2>1. [cmd |-> "auth", sender |-> a] \in Packet
    BY Zenon DEF Packet
  <2>2. cmd_packets' \in Seq(Packet)
    BY <1>1, <2>1, PutType, Zenon DEF Connect
  <2> QED BY <1>1, <2>2, Zenon DEF TypeInv, TypeOK, Connect
<1>2. CASE Disconnect(a)
  BY <1>2, Zenon DEF TypeInv, TypeOK, Disconnect
<1>3. CASE PollClose(a)
  BY <1>3, Zenon DEF TypeInv, TypeOK, PollClose
<1>4. CASE PollErase(a)
  <2>1. [cmd |-> "erase", sender |-> a] \in Packet
    BY Zenon DEF Packet
  <2>2. cmd_packets' \in Seq(Packet)
    BY <1>4, <2>1, PutType, Zenon DEF PollErase, erase_adapter, TypeInv, TypeOK
  <2> QED BY <1>4, <2>2, Zenon DEF TypeInv, TypeOK, PollErase
<1>5. ASSUME NEW p \in Request(a), Send(a, p)
      PROVE  TypeInv'
  <2>1. p.cmd = "call" => /\ a \notin Endless
                          /\ p.target \in Name \cup {NoName}
    BY ZenonT(40) DEF Request, RequestOf
  <2>2. Len(asked[a]) \in Nat /\ Len(asked[a]) <= nsent[a] /\ nsent[a] \in Nat
    BY SMTT(60) DEF TypeInv, TypeOK
  <2>3. a \notin Endless => nsent[a] < MaxSend
    BY <1>5, Zenon DEF Send
  <2>4. p \in Packet
    BY <1>5, SentIsPacket, Zenon
  <2>5. nsent' \in [Adapter -> 0..MaxSend]
    <3>1. nsent \in [Adapter -> 0..MaxSend] /\ MaxSend \in Nat
      BY Zenon DEF TypeInv, TypeOK
    <3>2. \/ nsent' = nsent
          \/ nsent[a] < MaxSend /\ nsent' = [nsent EXCEPT ![a] = @ + 1]
      BY <1>5, Zenon DEF Send
    <3>3. ASSUME nsent[a] < MaxSend PROVE nsent[a] + 1 \in 0..MaxSend
      <4>1. nsent[a] \in 0..MaxSend
        BY <3>1, Zenon
      <4> QED BY <3>1, <3>3, <4>1, SMT
    <3> QED BY <3>1, <3>2, <3>3, Zenon
  <2>6. asked' \in [Adapter -> Seq(Name \cup {NoName})]
    BY <1>5, <2>1, AppendProperties, Zenon DEF Send, TypeInv, TypeOK
  <2>7. \A b \in Adapter : Len(asked'[b]) <= nsent'[b]
    <3>1. /\ nsent \in [Adapter -> 0..MaxSend] /\ MaxSend \in Nat
          /\ asked \in [Adapter -> Seq(Name \cup {NoName})]
          /\ \A b \in Adapter : Len(asked[b]) <= nsent[b]
      BY Zenon DEF TypeInv, TypeOK
    <3>2. /\ \/ asked' = asked
             \/ \E n \in Name \cup {NoName} : asked' = [asked EXCEPT ![a] = Append(asked[a], n)]
                  /\ nsent' = [nsent EXCEPT ![a] = @ + 1]
          /\ \/ nsent' = nsent
             \/ nsent' = [nsent EXCEPT ![a] = @ + 1]
      BY <1>5, <2>1, <2>2, Zenon DEF Send
    <3> SUFFICES ASSUME NEW b \in Adapter PROVE Len(asked'[b]) <= nsent'[b]
      OBVIOUS
    <3>3. CASE b # a
      BY <3>1, <3>2, <3>3, Zenon
    <3>4. CASE b = a
      <4>1. /\ asked[a] \in Seq(Name \cup {NoName}) /\ nsent[a] \in Nat
            /\ Len(asked[a]) <= nsent[a] /\ Len(asked[a]) \in Nat
        BY <3>1, <3>4, LenProperties, SMT
      <4>2. \/ asked'[a] = asked[a] /\ nsent'[a] \in {nsent[a], nsent[a] + 1}
            \/ \E n \in Name \cup {NoName} : asked'[a] = Append(asked[a], n)
                 /\ nsent'[a] = nsent[a] + 1
        BY <3>1, <3>2, Zenon
      <4>3. \A n \in Name \cup {NoName} : Len(Append(asked[a], n)) = Len(asked[a]) + 1
        BY <4>1, SMT
      <4>4. /\ Len(asked'[a]) \in {Len(asked[a]), Len(asked[a]) + 1}
            /\ nsent'[a] \in {nsent[a], nsent[a] + 1}
            /\ Len(asked'[a]) = Len(asked[a]) \/ nsent'[a] = nsent[a] + 1
        BY <4>2, <4>3, Zenon
      <4>5. Len(asked'[a]) <= nsent'[a]
        BY <4>1, <4>4, SMT
      <4> QED BY <3>4, <4>5, Zenon
    <3> QED BY <3>3, <3>4, Zenon
  <2>8. cmd_packets' \in Seq(Packet)
    BY <1>5, <2>4, PutType, Zenon DEF Send
  <2> QED BY <1>5, <2>5, <2>6, <2>7, <2>8, Zenon DEF Send, TypeInv, TypeOK
<1>6. ASSUME NEW svrid \in incoming[a], NEW d \in Data, SendReply(a, svrid, d)
      PROVE  TypeInv'
  <2>1. [cmd |-> "reply", sender |-> a, svrid |-> svrid, data |-> d] \in Packet
    BY Zenon DEF Packet, TypeInv, TypeOK
  <2>2. cmd_packets' \in Seq(Packet)
    BY <1>6, <2>1, PutType, Zenon DEF SendReply
  <2> QED BY <1>6, <2>2, Zenon DEF TypeInv, TypeOK, SendReply
<1> QED BY <1>1, <1>2, <1>3, <1>4, <1>5, <1>6, Zenon DEF PollStep

\* The steps of handle_cmds' loop, of close and of the clock keep the types.
LEMMA TypeLoop ==
  ASSUME TypeInv,
         Splice \/ Exit \/ Close \/ Tick \/ DiscardBegin \/ DiscardCrash \/ DiscardEnd
  PROVE  TypeInv'
<1>1. CASE Splice
  <2>1. cmd_packets' = <<>> /\ pending_cmds' = cmd_packets /\ it' = 0
    BY <1>1, SMTT(60) DEF TypeInv, TypeOK, Splice, LoopTop
  <2>2. cmd_packets' \in Seq(Packet) /\ 0 \in 0..Len(cmd_packets)
    BY <2>1, EmptySeq, LenProperties, SMTT(60) DEF TypeInv, TypeOK
  <2> QED BY <1>1, <2>1, <2>2, Zenon DEF TypeInv, TypeOK, Splice
<1>2. CASE Exit \/ Close \/ DiscardCrash
  BY <1>2, Zenon DEF TypeInv, TypeOK, Exit, Close, DiscardCrash
<1>3. CASE Tick
  <2>1. now' \in Nat
    BY <1>3, SMTT(60) DEF Tick, TypeInv, TypeOK
  <2> QED BY <1>3, <2>1, Zenon DEF TypeInv, TypeOK, Tick
<1>4. CASE DiscardBegin \/ DiscardEnd
  <2>1. tp' \in Nat \cup {NoTime}
    BY <1>4, Zenon DEF DiscardBegin, DiscardEnd, TypeInv, TypeOK
  <2> QED BY <1>4, <2>1, Zenon DEF TypeInv, TypeOK, DiscardBegin, DiscardEnd
<1> QED BY <1>1, <1>2, <1>3, <1>4, Zenon

\* Every handler has a packet and moves on.
LEMMA HandleAdvances ==
  ASSUME TypeInv, Handle
  PROVE  /\ it < Len(pending_cmds) /\ Advance
         /\ Cmd \in Packet /\ Cmd.sender \in Adapter
         /\ pending_cmds' \in Seq(Packet) /\ it' \in 0..Len(pending_cmds')
<1>1. it < Len(pending_cmds) /\ Advance
  BY Zenon DEF Handle, CloseSender, AuthReject, AuthMonitor, AuthAdapter,
    EraseAdapter, EraseMonitor, Subscribe, Unsubscribe, Post, Ping,
    DeclareMethod, RemoveMethod, CallUnknown, CallForward, ReplyDropped,
    ReplyForward, ReplyTooBig, ReplyTo, Accepted, Handling
<1> QED BY <1>1, CmdIsPacket, PacketFields, AdvanceType, Zenon

\* The writes of a handler close adapters only.
LEMMA FailingType ==
  ASSUME TypeInv, NEW to, NEW failed \in Failing(to)
  PROVE  closed \cup failed \subseteq Adapter
BY Zenon DEF Failing, TypeInv, TypeOK

\* handle_auth_req and do_erase_adapter keep the types; clear_sub_prio stays
\* below its threshold.
LEMMA TypeRegistry ==
  ASSUME TypeInv, Handle,
         \/ CloseSender \/ AuthReject \/ AuthMonitor \/ AuthAdapter
         \/ EraseAdapter \/ EraseMonitor
  PROVE  TypeInv'
<1> DEFINE s == Cmd.sender
<1>0. /\ Advance /\ s \in Adapter
      /\ pending_cmds' \in Seq(Packet) /\ it' \in 0..Len(pending_cmds')
  BY HandleAdvances, Zenon
<1>a. AuthResult(s) \in Code
  BY Zenon DEF AuthResult, Code
<1>n. /\ NameTaken(s) \in [Name -> Adapter \cup {NoAdapter}]
      /\ NameReleased(s) \in [Name -> Adapter \cup {NoAdapter}]
  BY <1>0, Zenon DEF NameTaken, NameReleased, TypeInv, TypeOK
<1>c. ASSUME check_subscriptions(NameReleased(s))
      PROVE  /\ subscriptions' \in [Topic -> [Adapter -> Nat]]
             /\ clear_sub_prio' \in 0..CLEAR_SUBSCRIPTION_THRESHOLD - 1
  <2>1. /\ subscriptions \in [Topic -> [Adapter -> Nat]]
        /\ clear_sub_prio \in 0..CLEAR_SUBSCRIPTION_THRESHOLD - 1
        /\ CLEAR_SUBSCRIPTION_THRESHOLD \in Nat \ {0}
    BY Zenon DEF TypeInv, TypeOK
  <2>2. WithoutExpired(NameReleased(s)) \in [Topic -> [Adapter -> Nat]]
    BY <2>1, Zenon DEF WithoutExpired
  <2>3. \/ /\ subscriptions' = WithoutExpired(NameReleased(s))
           /\ clear_sub_prio' = 0
        \/ /\ ~(clear_sub_prio + 1 >= CLEAR_SUBSCRIPTION_THRESHOLD)
           /\ subscriptions' = subscriptions
           /\ clear_sub_prio' = clear_sub_prio + 1
    BY <1>c, Zenon DEF check_subscriptions, DueToClear
  <2> QED BY <2>1, <2>2, <2>3, SMTT(60)
<1> HIDE DEF s
<1>1. CASE CloseSender
  BY <1>0, <1>1, Zenon DEF s, TypeInv, TypeOK, CloseSender, Advance
<1>2. CASE AuthReject
  <2>1. authres' \in [Adapter -> Code \cup {NoResult}]
    <3>1. PICK failed \in Failing({s}) : TellAuth(s, failed)
      BY <1>2, Zenon DEF AuthReject, s
    <3> QED BY <3>1, <1>0, <1>a, Zenon DEF TellAuth, TypeInv, TypeOK
  <2> QED BY <1>0, <1>2, <2>1, Zenon DEF s, TypeInv, TypeOK, AuthReject, Advance
<1>3. CASE AuthMonitor
  <2>1. PICK failed \in Failing({s}), late \in Failing(Listed(s)) :
          /\ TellAuth(s, failed)
          /\ view' = [view EXCEPT ![s] = [a \in Adapter |->
               IF a \in adapter_infos /\ s \in Reached(Listed(s), failed \cup late)
               THEN 1 ELSE 0]]
          /\ closed' = closed \cup failed \cup late
    BY <1>3, Zenon DEF AuthMonitor, s
  <2>2. closed' \subseteq Adapter
    BY <2>1, FailingType, Zenon
  <2>3. authres' \in [Adapter -> Code \cup {NoResult}]
    BY <2>1, <1>0, <1>a, Zenon DEF TellAuth, TypeInv, TypeOK
  <2>4. view' \in [Adapter -> [Adapter -> Nat]]
    BY <2>1, Zenon DEF TypeInv, TypeOK
  <2>5. /\ monitors' \subseteq Adapter
        /\ info' \in [Adapter -> {"null", "adapter", "monitor"}]
    BY <1>0, <1>3, Zenon DEF s, AuthMonitor, TypeInv, TypeOK
  <2>6. untold' \in [Adapter -> SUBSET Adapter]
    BY <1>0, <1>3, Zenon DEF s, AuthMonitor, TypeInv, TypeOK
  <2> QED
    <3>1. /\ UNCHANGED <<connVars, cmd_packets, now, tp, threadVars, clientVars>>
          /\ UNCHANGED <<adapter_infos, declared_methods, named_adapters, subVars,
                         callVars, incoming, answers, seen>>
      BY <1>3, Zenon DEF AuthMonitor, Advance
    <3> QED BY <1>0, <2>2, <2>3, <2>4, <2>5, <2>6, <3>1, Zenon
      DEF TypeInv, TypeOK, connVars, threadVars, clientVars, subVars, callVars
<1>4. CASE AuthAdapter
  <2>1. PICK failed \in Failing({s} \cup Added(s)) :
          /\ TellAuth(s, failed)
          /\ view' = ListAdd(s, Reached(Added(s), failed))
          /\ closed' = closed \cup failed
    BY <1>4, Zenon DEF AuthAdapter, s
  <2>2. closed' \subseteq Adapter
    BY <2>1, FailingType, Zenon
  <2>3. authres' \in [Adapter -> Code \cup {NoResult}]
    BY <2>1, <1>0, <1>a, Zenon DEF TellAuth, TypeInv, TypeOK
  <2>4. view' \in [Adapter -> [Adapter -> Nat]]
    BY <2>1, <1>0, SMTT(60) DEF ListAdd, TypeInv, TypeOK
  <2>5. /\ adapter_infos' \subseteq Adapter
        /\ info' \in [Adapter -> {"null", "adapter", "monitor"}]
        /\ declared_methods' \in [Adapter -> SUBSET Method]
    BY <1>0, <1>4, Zenon DEF s, AuthAdapter, TypeInv, TypeOK
  <2>6. named_adapters' \in [Name -> Adapter \cup {NoAdapter}]
    BY <1>4, <1>n, Zenon DEF AuthAdapter, s
  <2>7. untold' \in [Adapter -> SUBSET Adapter]
    <3>1. untold' = [m \in Adapter |-> IF m \in monitors \ Added(s)
                                      THEN untold[m] \cup {s} ELSE untold[m] \ {s}]
      BY <1>4, Zenon DEF s, AuthAdapter
    <3>2. untold \in [Adapter -> SUBSET Adapter]
      BY <1>0, Zenon DEF TypeInv, TypeOK
    <3> HIDE DEF s
    <3>3. \A m \in Adapter : (IF m \in monitors \ Added(s)
                             THEN untold[m] \cup {s} ELSE untold[m] \ {s}) \in SUBSET Adapter
      BY <1>0, <3>2, SMTT(30)
    <3> QED BY <3>1, <3>3, Zenon
  <2> QED
    BY <1>0, <1>4, <2>2, <2>3, <2>4, <2>5, <2>6, <2>7, Zenon
    DEF TypeInv, TypeOK, AuthAdapter, Advance
<1>5. CASE EraseAdapter
  <2>1. PICK failed \in Failing(monitors) :
          /\ view' = ListRemove(s, Reached(monitors, failed))
          /\ closed' = closed \cup failed
    BY <1>5, Zenon DEF EraseAdapter, s
  <2>2. closed' \subseteq Adapter
    BY <2>1, FailingType, Zenon
  <2>3. view' \in [Adapter -> [Adapter -> Nat]]
    BY <2>1, <1>0, SMTT(60) DEF ListRemove, TypeInv, TypeOK
  <2>4. /\ named_adapters' \in [Name -> Adapter \cup {NoAdapter}]
        /\ subscriptions' \in [Topic -> [Adapter -> Nat]]
        /\ clear_sub_prio' \in 0..CLEAR_SUBSCRIPTION_THRESHOLD - 1
    BY <1>5, <1>n, <1>c, Zenon DEF EraseAdapter, s
  <2> QED
    BY <1>0, <1>5, <2>2, <2>3, <2>4, Zenon DEF TypeInv, TypeOK, EraseAdapter, Advance
<1>6. CASE EraseMonitor
  <2>1. /\ named_adapters' \in [Name -> Adapter \cup {NoAdapter}]
        /\ subscriptions' \in [Topic -> [Adapter -> Nat]]
        /\ clear_sub_prio' \in 0..CLEAR_SUBSCRIPTION_THRESHOLD - 1
    BY <1>6, <1>n, <1>c, Zenon DEF EraseMonitor, s
  <2> QED BY <1>0, <1>6, <2>1, Zenon DEF TypeInv, TypeOK, EraseMonitor, Advance
<1> QED BY <1>1, <1>2, <1>3, <1>4, <1>5, <1>6, Zenon

\* The handlers of subscriptions, posts and pings keep the types.
LEMMA TypeTopics ==
  ASSUME TypeInv, Handle, Subscribe \/ Unsubscribe \/ Post \/ Ping
  PROVE  TypeInv'
<1> DEFINE s == Cmd.sender
<1> DEFINE t == Cmd.name
<1>0. /\ Advance /\ s \in Adapter /\ Cmd \in Packet
      /\ pending_cmds' \in Seq(Packet) /\ it' \in 0..Len(pending_cmds')
  BY HandleAdvances, Zenon
<1>t. /\ subscriptions \in [Topic -> [Adapter -> Nat]]
      /\ persist_msgs \in [Topic -> Data \cup {NoData}]
      /\ seen \in [Adapter -> [Topic -> Data \cup {NoData}]]
  BY Zenon DEF TypeInv, TypeOK
<1> HIDE DEF s, t
<1>1. CASE Subscribe
  <2>0. t \in Topic
    BY <1>0, <1>1, PacketFields, Zenon DEF Subscribe, Accepted, Handling, t
  <2>1. subscriptions' \in [Topic -> [Adapter -> Nat]]
    <3> DEFINE g == [subscriptions[t] EXCEPT ![s] = @ + 1]
    <3>1. subscriptions[t] \in [Adapter -> Nat] /\ subscriptions[t][s] + 1 \in Nat
      BY <1>0, <1>t, <2>0, SMT
    <3>2. g \in [Adapter -> Nat]
      BY <1>0, <3>1, Zenon
    <3>3. \/ subscriptions' = subscriptions
          \/ subscriptions' = [subscriptions EXCEPT ![t] = g]
      BY <1>1, Zenon DEF Subscribe, s, t
    <3> HIDE DEF g
    <3> QED BY <1>t, <2>0, <3>2, <3>3, Zenon
  <2>2. \/ seen' = [seen EXCEPT ![s][t] = persist_msgs[t]]
        \/ seen' = seen
    BY <1>1, Zenon DEF Subscribe, s, t
  <2>3. closed' \subseteq Adapter
    BY <1>1, FailingType, Zenon DEF Subscribe
  <2>4. seen' \in [Adapter -> [Topic -> Data \cup {NoData}]]
    <3>1. [seen[s] EXCEPT ![t] = persist_msgs[t]] \in [Topic -> Data \cup {NoData}]
      BY <1>0, <1>t, <2>0, Zenon
    <3> QED BY <1>0, <1>t, <2>2, <3>1, Zenon
  <2> QED BY <1>0, <1>1, <2>1, <2>3, <2>4, Zenon DEF TypeInv, TypeOK, Subscribe, Advance
<1>2. CASE Unsubscribe
  <2>0. t \in Topic
    BY <1>0, <1>2, PacketFields, Zenon DEF Unsubscribe, Accepted, Handling, t
  <2>1. subscriptions' \in [Topic -> [Adapter -> Nat]]
    <3> DEFINE g == [a \in Adapter |-> IF a = s \/ Expired(a, named_adapters) THEN 0
                                       ELSE subscriptions[t][a]]
    <3>1. subscriptions[t] \in [Adapter -> Nat] /\ 0 \in Nat
      BY <1>t, <2>0, SMT
    <3>2. g \in [Adapter -> Nat]
      BY <3>1, Zenon
    <3>3. subscriptions' = [subscriptions EXCEPT ![t] = g]
      BY <1>2, Zenon DEF Unsubscribe, s, t
    <3> HIDE DEF g
    <3> QED BY <1>t, <2>0, <3>2, <3>3, Zenon
  <2> QED BY <1>0, <1>2, <2>1, Zenon DEF TypeInv, TypeOK, Unsubscribe, Advance
<1>3. CASE Post
  <2>0. t \in Topic /\ Cmd.data \in Data
    BY <1>0, <1>3, PacketFields, Zenon DEF Post, Accepted, Handling, t
  <2>1. subscriptions' \in [Topic -> [Adapter -> Nat]]
    BY <1>3, <1>t, <2>0, ZenonT(40) DEF Post, t
  <2> DEFINE to == IF Cmd.data \in BigNamed THEN {} ELSE Subscriber(t)
  <2>2. PICK failed \in Failing(to) :
          seen' = IF Cmd.type # "persist" THEN seen
                  ELSE [a \in Adapter |->
                          IF a \in Reached(to, failed)
                          THEN [seen[a] EXCEPT ![t] = Cmd.data] ELSE seen[a]]
    BY <1>3, Zenon DEF Post, t
  <2>3. closed' \subseteq Adapter
    BY <1>3, FailingType, Zenon DEF Post
  <2>4. seen' \in [Adapter -> [Topic -> Data \cup {NoData}]]
    BY <1>t, <2>0, <2>2, Zenon
  <2>5. persist_msgs' \in [Topic -> Data \cup {NoData}]
    BY <1>3, <1>t, <2>0, Zenon DEF Post, Kept, t
  <2> QED
    BY <1>0, <1>3, <2>1, <2>3, <2>4, <2>5, Zenon DEF TypeInv, TypeOK, Post, Advance
<1>4. CASE Ping
  <2>1. closed' \subseteq Adapter
    BY <1>4, FailingType, Zenon DEF Ping
  <2> QED BY <1>0, <1>4, <2>1, Zenon DEF TypeInv, TypeOK, Ping, Advance
<1> QED BY <1>1, <1>2, <1>3, <1>4, Zenon

\* An answer is written to the caller or to nobody.
LEMMA AnswerType ==
  ASSUME TypeInv, NEW a \in Adapter, NEW c \in CallId, NEW code \in Code,
         NEW from \in Adapter \cup {NoAdapter}, NEW svrid \in Nat, NEW failed,
         Answer(a, c, code, from, svrid, failed)
  PROVE  answers' \in [Adapter -> [CallId -> Seq(CallAnswer)]]
<1>1. answers \in [Adapter -> [CallId -> Seq(CallAnswer)]]
  BY Zenon DEF TypeInv, TypeOK
<1> DEFINE ans == [code |-> code, from |-> from, svrid |-> svrid]
<1>2. ans \in CallAnswer
  BY Zenon DEF CallAnswer
<1> HIDE DEF ans
<1>3. Append(answers[a][c], ans) \in Seq(CallAnswer)
  BY <1>1, <1>2, AppendProperties, SMTT(60)
<1> DEFINE g == [answers[a] EXCEPT ![c] = Append(answers[a][c], ans)]
<1>4. g \in [CallId -> Seq(CallAnswer)]
  BY <1>1, <1>3, Zenon
<1>5. \/ answers' = [answers EXCEPT ![a] = g]
      \/ answers' = answers
  BY Zenon DEF Answer, ans
<1> HIDE DEF g
<1> QED BY <1>1, <1>4, <1>5, Zenon

\* The list of pending calls after an insertion of add_pending_call.
LEMMA InsertedType ==
  ASSUME TypeInv, NEW k \in 1..Len(pending_calls) + 1, NEW pc \in PendingCall
  PROVE  Inserted(k, pc) \in Seq(PendingCall)
<1>1. pending_calls \in Seq(PendingCall) /\ Len(pending_calls) \in Nat
  BY LenProperties, Zenon DEF TypeInv, TypeOK
<1>2. \A i \in 1..Len(pending_calls) : pending_calls[i] \in PendingCall
  BY <1>1, ElementOfSeq, Zenon
<1>3. Inserted(k, pc) \in [1..Len(pending_calls) + 1 -> PendingCall]
  BY <1>1, <1>2, SMTT(60) DEF Inserted
<1> QED BY <1>1, <1>3, SeqDef, SMTT(60)

\* The list of pending calls after the removal of an answered one.
LEMMA RemovedType ==
  ASSUME TypeInv, NEW k \in 1..Len(pending_calls)
  PROVE  Removed(k) \in Seq(PendingCall)
<1>1. pending_calls \in Seq(PendingCall) /\ Len(pending_calls) \in Nat
  BY LenProperties, Zenon DEF TypeInv, TypeOK
<1>2. \A i \in 1..Len(pending_calls) : pending_calls[i] \in PendingCall
  BY <1>1, ElementOfSeq, Zenon
<1>3. Removed(k) \in [1..Len(pending_calls) - 1 -> PendingCall]
  BY <1>1, <1>2, SMTT(60) DEF Removed
<1> QED BY <1>1, <1>3, SeqDef, SMTT(60)

\* The handlers of methods, calls and replies keep the types.
LEMMA TypeCalls ==
  ASSUME TypeInv, Handle,
         \/ DeclareMethod \/ RemoveMethod \/ CallUnknown \/ CallForward
         \/ ReplyDropped
         \/ \E i \in 1..Len(pending_calls) : ReplyForward(i) \/ ReplyTooBig(i)
  PROVE  TypeInv'
<1> DEFINE s == Cmd.sender
<1>0. /\ Advance /\ s \in Adapter /\ Cmd \in Packet
      /\ pending_cmds' \in Seq(Packet) /\ it' \in 0..Len(pending_cmds')
  BY HandleAdvances, Zenon
<1> HIDE DEF s
<1>1. CASE DeclareMethod \/ RemoveMethod
  <2>1. Cmd.name \in Method
    BY <1>0, <1>1, PacketFields, Zenon DEF DeclareMethod, RemoveMethod, Accepted, Handling
  <2>2. declared_methods' \in [Adapter -> SUBSET Method]
    <3>1. declared_methods \in [Adapter -> SUBSET Method]
      BY Zenon DEF TypeInv, TypeOK
    <3>2. \/ declared_methods' = [declared_methods EXCEPT ![s] = @ \cup {Cmd.name}]
          \/ declared_methods' = [declared_methods EXCEPT ![s] = @ \ {Cmd.name}]
      BY <1>1, Zenon DEF s, DeclareMethod, RemoveMethod
    <3> QED BY <1>0, <2>1, <3>1, <3>2, SMTT(60)
  <2> QED
    BY <1>0, <1>1, <2>2, Zenon DEF TypeInv, TypeOK, DeclareMethod, RemoveMethod, Advance
<1>2. CASE CallUnknown
  <2>1. Cmd.cliid \in CallId
    BY <1>0, <1>2, PacketFields, Zenon DEF CallUnknown, Accepted, Handling
  <2>2. PICK failed \in Failing({s}) :
          /\ Answer(s, Cmd.cliid, "enexists", NoAdapter, 0, failed)
          /\ closed' = closed \cup failed
    BY <1>2, Zenon DEF CallUnknown, s
  <2>3. closed' \subseteq Adapter
    BY <2>2, FailingType, Zenon
  <2>4. answers' \in [Adapter -> [CallId -> Seq(CallAnswer)]]
    BY <1>0, <2>1, <2>2, AnswerType, Zenon DEF Code
  <2> QED BY <1>0, <1>2, <2>3, <2>4, Zenon DEF TypeInv, TypeOK, CallUnknown, Advance
<1>3. CASE CallForward
  <2> DEFINE target == FindNamed(Cmd.target)
  <2>1. /\ Cmd.cliid \in CallId /\ Cmd.target \in Name \cup {NoName}
        /\ Cmd.timeout \in Nat
    BY <1>0, <1>3, PacketFields, Zenon DEF CallForward, Accepted, Handling
  <2>2. target \in Adapter
    BY <1>3, <2>1, Zenon DEF CallForward, Callable, FindNamed, TypeInv, TypeOK
  <2>3. Deadline(Cmd.timeout) \in Nat /\ reqseq + 1 \in Nat
    <3>1. now \in Nat /\ DEFAULT_CALL_TIMEOUT \in Nat /\ Len(forwarded) \in Nat
      BY LenProperties, Zenon DEF TypeInv, TypeOK
    <3> QED BY <2>1, <3>1, SMTT(60) DEF Deadline, reqseq
  <2> HIDE DEF target
  <2>4. pending_calls' \in Seq(PendingCall)
    <3> DEFINE pc == [svrid |-> reqseq + 1, cliid |-> Cmd.cliid, sender |-> s,
                      target |-> target, discard_tp |-> Deadline(Cmd.timeout)]
    <3>1. pc \in PendingCall
      BY <1>0, <2>1, <2>2, <2>3, Zenon DEF PendingCall
    <3>2. \E k \in 1..Len(pending_calls) + 1 : pending_calls' = Inserted(k, pc)
      BY <1>3, Zenon DEF CallForward, add_pending_call, s, target
    <3> HIDE DEF pc
    <3> QED BY <3>1, <3>2, InsertedType, SMTT(60)
  <2>5. forwarded' \in Seq([sender : Adapter, cliid : CallId])
    <3>1. [sender |-> s, cliid |-> Cmd.cliid] \in [sender : Adapter, cliid : CallId]
      BY <1>0, <2>1, Zenon
    <3> QED BY <1>3, <3>1, AppendProperties, Zenon DEF CallForward, s, TypeInv, TypeOK
  <2>6. incoming' \in [Adapter -> SUBSET Nat]
    <3>1. incoming \in [Adapter -> SUBSET Nat]
      BY Zenon DEF TypeInv, TypeOK
    <3>2. \/ incoming' = incoming
          \/ incoming' = [incoming EXCEPT ![target] = @ \cup {reqseq + 1}]
      BY <1>3, Zenon DEF CallForward, target
    <3>3. incoming[target] \cup {reqseq + 1} \in SUBSET Nat
      BY <2>2, <2>3, <3>1, SMT
    <3> QED BY <2>2, <3>1, <3>2, <3>3, Zenon
  <2>7. closed' \subseteq Adapter
    BY <1>0, <1>3, FailingType, Zenon DEF CallForward, s
  <2> QED
    BY <1>0, <1>3, <2>4, <2>5, <2>6, <2>7, Zenon DEF TypeInv, TypeOK, CallForward, Advance
<1>4. CASE ReplyDropped
  BY <1>0, <1>4, Zenon DEF TypeInv, TypeOK, ReplyDropped, Advance
<1>5. ASSUME NEW i \in 1..Len(pending_calls), ReplyForward(i)
      PROVE  TypeInv'
  <2> DEFINE pc == pending_calls[i]
  <2>1. pc.sender \in Adapter /\ pc.cliid \in CallId
    <3>1. pending_calls \in Seq(PendingCall)
      BY Zenon DEF TypeInv, TypeOK
    <3>2. pc \in PendingCall
      BY <3>1, ElementOfSeq, Zenon
    <3> QED BY <3>2, Zenon DEF PendingCall
  <2>2. Cmd.svrid \in Nat
    BY <1>0, <1>5, PacketFields, Zenon DEF ReplyForward, ReplyTo, Accepted, Handling
  <2>3. PICK failed \in Failing({pc.sender}) :
          /\ Answer(pc.sender, pc.cliid, "success", s, Cmd.svrid, failed)
          /\ closed' = closed \cup failed
    BY <1>5, Zenon DEF ReplyForward, s
  <2>4. closed' \subseteq Adapter
    BY <2>3, FailingType, Zenon
  <2>5. answers' \in [Adapter -> [CallId -> Seq(CallAnswer)]]
    BY <1>0, <2>1, <2>2, <2>3, AnswerType, Zenon DEF Code
  <2>6. pending_calls' \in Seq(PendingCall)
    BY <1>5, RemovedType, Zenon DEF ReplyForward
  <2> QED
    BY <1>0, <1>5, <2>4, <2>5, <2>6, Zenon DEF TypeInv, TypeOK, ReplyForward, Advance
<1>6. ASSUME NEW i \in 1..Len(pending_calls), ReplyTooBig(i)
      PROVE  TypeInv'
  BY <1>0, <1>6, Zenon DEF s, TypeInv, TypeOK, ReplyTooBig, Advance
<1> QED BY <1>1, <1>2, <1>3, <1>4, <1>5, <1>6, Zenon

\* The steps of discard_pending_calls keep the types.
LEMMA TypeDiscard ==
  ASSUME TypeInv, DiscardCall
  PROVE  TypeInv'
<1> DEFINE pc == Head(pending_calls)
<1>1. pending_calls \in Seq(PendingCall) /\ pending_calls # <<>>
  BY Zenon DEF DiscardCall, Overdue, TypeInv, TypeOK
<1>2. pc \in PendingCall /\ Tail(pending_calls) \in Seq(PendingCall)
  BY <1>1, HeadTailProperties, Zenon
<1>3. pc.sender \in Adapter /\ pc.cliid \in CallId /\ pc.svrid \in Nat
  BY <1>2, Zenon DEF PendingCall
<1> HIDE DEF pc
<1>4. PICK failed \in Failing({pc.sender}) :
        /\ Answer(pc.sender, pc.cliid, "etimeout", NoAdapter, pc.svrid, failed)
        /\ closed' = closed \cup failed
  BY Zenon DEF DiscardCall, pc
<1>5. closed' \subseteq Adapter
  BY <1>4, FailingType, Zenon
<1>6. answers' \in [Adapter -> [CallId -> Seq(CallAnswer)]]
  BY <1>3, <1>4, AnswerType, Zenon DEF Code
<1> QED BY <1>2, <1>5, <1>6, Zenon DEF TypeInv, TypeOK, DiscardCall

\* Every step keeps the types.
LEMMA TypeStep ==
  ASSUME TypeInv, [Next]_vars
  PROVE  TypeInv'
<1>1. CASE UNCHANGED vars
  BY <1>1, Zenon DEF vars, TypeInv, TypeOK
<1>2. CASE Handle
  BY <1>2, TypeRegistry, TypeTopics, TypeCalls, Zenon DEF Handle
<1>3. CASE Next /\ ~Handle
  BY <1>3, TypeConn, TypeLoop, TypeDiscard, Zenon DEF Next, DispatcherStep
<1> QED BY <1>1, <1>2, <1>3, Zenon

\* The types hold at the start.
LEMMA TypeInit == Init => TypeInv
BY EmptySeq, SMTT(60) DEF Init, TypeInv, TypeOK, NoTime, NoResult

\* Every variable keeps the type its declaration gives it; in particular the
\* collection counter stays below its threshold and the batch iterator within
\* the batch.
THEOREM TypeCorrect == Spec => []TypeOK
<1>1. TypeInv /\ [Next]_vars => TypeInv'
  BY TypeStep, Zenon
<1>2. TypeInv => TypeOK
  BY Zenon DEF TypeInv
<1> QED BY <1>1, <1>2, TypeInit, PTL DEF Spec
-----------------------------------------------------------------------------
(***************************************************************************)
(* Registration.  The argument is about the order of the packets of one    *)
(* client: its authentication comes before all others, its erasure after   *)
(* them, so that what the erasure destroys is not reached again.           *)
(***************************************************************************)

\* What is still to be handled, in the batch and in the queue.
Left == it + 1..Len(pending_cmds)
Queued == 1..Len(cmd_packets)

\* Where the next packet is put.
Last == Len(cmd_packets) + 1

HasPacket(a) == \/ \E i \in Left : pending_cmds[i].sender = a
                \/ \E i \in Queued : cmd_packets[i].sender = a
Has(a, kind) ==
  \/ \E i \in Left : pending_cmds[i].sender = a /\ pending_cmds[i].cmd = kind
  \/ \E i \in Queued : cmd_packets[i].sender = a /\ cmd_packets[i].cmd = kind

\* Of two packets of one client, the earlier is not its erasure and neither is
\* its authentication.
Apart(p, q) ==
  p.sender = q.sender => p.cmd \notin {"auth", "erase"} /\ q.cmd # "auth"

Ordered ==
  /\ \A i, j \in Left : i < j => Apart(pending_cmds[i], pending_cmds[j])
  /\ \A i \in Left, j \in Queued : Apart(pending_cmds[i], cmd_packets[j])
  /\ \A i, j \in Queued : i < j => Apart(cmd_packets[i], cmd_packets[j])

\* Where Adapter::info points, by the role of the client.
InfoFits ==
  /\ \A a \in Adapter : /\ info[a] = "adapter" => a \notin MonitorClient
                        /\ info[a] = "monitor" => a \in MonitorClient
  /\ \A a \in adapter_infos : info[a] = "adapter"
  /\ \A a \in monitors : info[a] = "monitor"

NamesFit ==
  \A n \in Name : named_adapters[n] # NoAdapter =>
    named_adapters[n] \in adapter_infos /\ ClientName[named_adapters[n]] = n

NamesHeld ==
  \A a \in adapter_infos : ClientName[a] \notin {NoName} \cup MonitorName =>
    named_adapters[ClientName[a]] = a

\* The life of a connection, as its packets and its info tell it.
LifeCycle ==
  \A a \in Adapter :
    /\ poll[a] = "none" => /\ ~HasPacket(a) /\ a \notin gone \cup closed
                           /\ authres[a] = NoResult /\ info[a] = "null"
    /\ poll[a] \in {"deleting", "deleted"} => a \in closed
    /\ Has(a, "auth") => info[a] = "null" /\ authres[a] = NoResult
    /\ Has(a, "erase") => poll[a] = "deleted"
    /\ Dangling(a) => poll[a] = "deleted" /\ ~HasPacket(a)

\* Whoever subscribes, calls or is called has been registered.
Users ==
  \A a \in Adapter : info[a] = "null" =>
    /\ \A t \in Topic : subscriptions[t][a] = 0
    /\ \A i \in 1..Len(pending_calls) : pending_calls[i].sender # a
    /\ incoming[a] = {}

PatientLife ==
  \A a \in Patient :
    /\ a \in gone \cup closed => ~Has(a, "auth")
    /\ poll[a] = "deleted" /\ a \in adapter_infos \cup monitors => Has(a, "erase")

RegistryInv ==
  /\ TypeInv /\ Ordered /\ InfoFits /\ NamesFit /\ NamesHeld
  /\ LifeCycle /\ Users /\ PatientLife
-----------------------------------------------------------------------------
(***************************************************************************)
(* What the steps do to the packets still to be handled.                   *)
(***************************************************************************)
USE ConstantsAssumption DEF connVars, infoVars, subVars, queueVars, callVars,
  threadVars, clientVars, wireVars

\* The types of the queue and of the batch.
LEMMA QueueTypes ==
  ASSUME TypeInv
  PROVE  /\ cmd_packets \in Seq(Packet) /\ pending_cmds \in Seq(Packet)
         /\ Len(cmd_packets) \in Nat /\ Len(pending_cmds) \in Nat
         /\ it \in 0..Len(pending_cmds)
BY LenProperties, Zenon DEF TypeInv, TypeOK

\* A step that leaves queue and batch alone.
LEMMA SameQueue ==
  ASSUME UNCHANGED queueVars
  PROVE  /\ \A a : HasPacket(a)' <=> HasPacket(a)
         /\ \A a, kind : Has(a, kind)' <=> Has(a, kind)
         /\ Ordered => Ordered'
BY Zenon DEF HasPacket, Has, Ordered, Left, Queued

\* Dispatcher::put adds one packet behind all others.
LEMMA PutPositions ==
  ASSUME TypeInv, NEW p \in Packet, put(p), UNCHANGED <<pending_cmds, it>>
  PROVE  /\ Queued' = Queued \cup {Last} /\ Left' = Left /\ cmd_packets'[Last] = p
         /\ \A i \in Queued : i < Last /\ cmd_packets'[i] = cmd_packets[i]
         /\ \A i, j \in Queued' : i < j => i \in Queued /\ (j \in Queued \/ j = Last)
<1> DEFINE n == Len(cmd_packets)
<1>1. /\ n \in Nat /\ Len(cmd_packets') = n + 1
      /\ \A i \in 1..n : cmd_packets'[i] = cmd_packets[i]
      /\ cmd_packets'[n + 1] = p
  BY QueueTypes, AppendProperties, SMTT(60) DEF put
<1>2. Queued' = Queued \cup {n + 1} /\ Left' = Left
  BY <1>1, SMTT(60) DEF Queued, Left
<1>3. \A i \in Queued : i < n + 1 /\ cmd_packets'[i] = cmd_packets[i]
  BY <1>1, SMTT(60) DEF Queued
<1>4. \A i, j \in Queued' : i < j => i \in Queued /\ (j \in Queued \/ j = n + 1)
  BY <1>1, <1>2, SMTT(60) DEF Queued
<1> QED BY <1>1, <1>2, <1>3, <1>4, Zenon DEF Last

\* What this does to the order of the packets.
LEMMA PutQueue ==
  ASSUME TypeInv, NEW p \in Packet, put(p), UNCHANGED <<pending_cmds, it>>
  PROVE  /\ \A a : HasPacket(a)' <=> HasPacket(a) \/ p.sender = a
         /\ \A a, kind : Has(a, kind)' <=>
                           Has(a, kind) \/ (p.sender = a /\ p.cmd = kind)
         /\ /\ Ordered
            /\ ~Has(p.sender, "auth") /\ ~Has(p.sender, "erase")
            /\ p.cmd = "auth" => ~HasPacket(p.sender)
            => Ordered'
<1>1. /\ Queued' = Queued \cup {Last} /\ Left' = Left /\ cmd_packets'[Last] = p
      /\ \A i \in Queued : i < Last /\ cmd_packets'[i] = cmd_packets[i]
      /\ \A i, j \in Queued' : i < j => i \in Queued /\ (j \in Queued \/ j = Last)
  BY PutPositions, Zenon
<1>4. \A a : HasPacket(a)' <=> HasPacket(a) \/ p.sender = a
  BY <1>1, Zenon DEF HasPacket
<1>5. \A a, kind : Has(a, kind)' <=>
                     Has(a, kind) \/ (p.sender = a /\ p.cmd = kind)
  BY <1>1, Zenon DEF Has
<1>6. ASSUME Ordered, ~Has(p.sender, "auth"), ~Has(p.sender, "erase"),
             p.cmd = "auth" => ~HasPacket(p.sender)
      PROVE  Ordered'
  <2>1. \A i \in Left : Apart(pending_cmds[i], p)
    BY <1>6, Zenon DEF Has, HasPacket, Apart
  <2>2. \A i \in Queued : Apart(cmd_packets[i], p)
    BY <1>6, Zenon DEF Has, HasPacket, Apart
  <2> QED BY <1>1, <1>6, <2>1, <2>2, Zenon DEF Ordered
<1> QED BY <1>4, <1>5, <1>6, Zenon

\* The splice of handle_cmds moves the queue to the batch as it is.
LEMMA SplicePositions ==
  ASSUME TypeInv, Splice
  PROVE  Left = {} /\ Queued' = {} /\ Left' = Queued /\ pending_cmds' = cmd_packets
<1>1. /\ it = 0 /\ it' = 0 /\ pending_cmds = <<>> /\ cmd_packets' = <<>>
      /\ pending_cmds' = cmd_packets
  BY QueueTypes, EmptySeq, SMTT(60) DEF Splice, LoopTop
<1> QED BY <1>1, QueueTypes, SMTT(60) DEF Left, Queued

\* The order of the packets stays what it is.
LEMMA SpliceQueue ==
  ASSUME TypeInv, Splice
  PROVE  /\ \A a : HasPacket(a)' <=> HasPacket(a)
         /\ \A a, kind : Has(a, kind)' <=> Has(a, kind)
         /\ Ordered => Ordered'
BY SplicePositions, Zenon DEF HasPacket, Has, Ordered

\* A handler takes the first packet.
LEMMA HandlePositions ==
  ASSUME TypeInv, Handle
  PROVE  /\ it + 1 \in Left /\ Left' = Left \ {it + 1} /\ Queued' = Queued
         /\ \A i \in Left' : i > it + 1 /\ pending_cmds'[i] = pending_cmds[i]
         /\ cmd_packets' = cmd_packets
<1>1. it < Len(pending_cmds) /\ Advance
  BY HandleAdvances, Zenon
<1>2. CASE it + 1 = Len(pending_cmds)
  <2>1. pending_cmds' = <<>> /\ it' = 0 /\ cmd_packets' = cmd_packets
    BY <1>1, <1>2, Zenon DEF Advance
  <2> QED BY <1>2, <2>1, QueueTypes, SMTT(60) DEF Left, Queued
<1>3. CASE it + 1 # Len(pending_cmds)
  <2>1. pending_cmds' = pending_cmds /\ it' = it + 1 /\ cmd_packets' = cmd_packets
    BY <1>1, <1>3, Zenon DEF Advance
  <2> QED BY <1>1, <1>3, <2>1, QueueTypes, SMTT(60) DEF Left, Queued
<1> QED BY <1>2, <1>3, Zenon

\* The rest stays in order; the packet is the authentication or the
\* erasure of a client, no other packet of the client is left.
LEMMA HandleQueue ==
  ASSUME TypeInv, Handle
  PROVE  /\ HasPacket(Cmd.sender) /\ Has(Cmd.sender, Cmd.cmd)
         /\ \A a : HasPacket(a)' => HasPacket(a)
         /\ \A a, kind : Has(a, kind)' => Has(a, kind)
         /\ \A a, kind : /\ Has(a, kind)
                         /\ ~(Cmd.sender = a /\ Cmd.cmd = kind)
                         => Has(a, kind)'
         /\ Ordered => Ordered'
         /\ Ordered => \A s : s = Cmd.sender =>
              /\ Cmd.cmd \in {"auth", "erase"} => ~HasPacket(s)'
              /\ ~Has(s, "auth")'
<1>2. /\ it + 1 \in Left /\ Left' = Left \ {it + 1} /\ Queued' = Queued
      /\ \A i \in Left' : i > it + 1 /\ pending_cmds'[i] = pending_cmds[i]
      /\ cmd_packets' = cmd_packets
  BY HandlePositions, Zenon
<1>3. Cmd = pending_cmds[it + 1]
  BY Zenon DEF Cmd
<1>4. HasPacket(Cmd.sender) /\ Has(Cmd.sender, Cmd.cmd)
  BY <1>2, <1>3, Zenon DEF HasPacket, Has
<1>5. \A a : HasPacket(a)' => HasPacket(a)
  BY <1>2, Zenon DEF HasPacket
<1>6. \A a, kind : Has(a, kind)' => Has(a, kind)
  BY <1>2, Zenon DEF Has
<1>7. \A a, kind : Has(a, kind) /\ ~(Cmd.sender = a /\ Cmd.cmd = kind)
                     => Has(a, kind)'
  BY <1>2, <1>3, Zenon DEF Has
<1>8. Ordered => Ordered'
  BY <1>2, Zenon DEF Ordered
<1>9. ASSUME Ordered
      PROVE  /\ \A i \in Left' : Apart(Cmd, pending_cmds'[i])
             /\ \A i \in Queued' : Apart(Cmd, cmd_packets'[i])
  <2>1. it + 1 \in Int
    BY QueueTypes, SMTT(60)
  <2> QED BY <1>2, <1>3, <1>9, <2>1, Zenon DEF Ordered
<1>10. Ordered => \A s : s = Cmd.sender =>
         /\ Cmd.cmd \in {"auth", "erase"} => ~HasPacket(s)'
         /\ ~Has(s, "auth")'
  BY <1>9, Zenon DEF Apart, HasPacket, Has
<1> QED BY <1>4, <1>5, <1>6, <1>7, <1>8, <1>10, Zenon
-----------------------------------------------------------------------------
(***************************************************************************)
(* The steps of the clients, of the poll thread and of the loop.           *)
(***************************************************************************)

\* A new connection: its authentication is the first of its packets.
LEMMA RegistryConnect ==
  ASSUME RegistryInv, NEW a \in Adapter, Connect(a), TypeInv'
  PROVE  RegistryInv'
<1> DEFINE p == [cmd |-> "auth", sender |-> a]
<1>0. p \in Packet /\ put(p) /\ UNCHANGED <<pending_cmds, it>>
  BY Zenon DEF Packet, Connect
<1>1. /\ \A b : HasPacket(b)' <=> HasPacket(b) \/ b = a
      /\ \A b, kind : Has(b, kind)' <=> Has(b, kind) \/ (b = a /\ kind = "auth")
      /\ Ordered'
  <2>1. ~HasPacket(a) /\ ~Has(a, "auth") /\ ~Has(a, "erase")
    BY Zenon DEF RegistryInv, LifeCycle, Connect, HasPacket, Has
  <2> QED BY <1>0, <2>1, PutQueue, Zenon DEF RegistryInv
<1>2. /\ UNCHANGED <<gone, closed, infoVars, subVars, callVars, authres, incoming>>
      /\ poll[a] = "none" /\ poll' = [poll EXCEPT ![a] = "open"]
      /\ poll \in [Adapter -> {"none", "open", "deleting", "deleted"}]
  BY Zenon DEF Connect, RegistryInv, TypeInv, TypeOK
<1>3. InfoFits' /\ NamesFit' /\ NamesHeld' /\ Users'
  BY <1>2, Zenon DEF RegistryInv, InfoFits, NamesFit, NamesHeld, Users
<1>4. LifeCycle'
  <2>1. poll'[a] = "open" /\ \A b \in Adapter : b # a => poll'[b] = poll[b]
    BY <1>2, Zenon
  <2>2. ~HasPacket(a) /\ info[a] = "null" /\ authres[a] = NoResult
    BY <1>2, Zenon DEF RegistryInv, LifeCycle
  <2>3. ~Has(a, "erase")
    BY <2>2, Zenon DEF HasPacket, Has
  <2>4. /\ "open" \notin {"none", "deleting", "deleted"} /\ "auth" # "erase"
        /\ ~Dangling(a)
    BY <2>2, SMT DEF Dangling
  <2>5. \A b : Dangling(b)' <=> Dangling(b)
    BY <1>2, Zenon DEF Dangling
  <2> SUFFICES ASSUME NEW b \in Adapter
               PROVE  /\ poll'[b] = "none" => /\ ~HasPacket(b)' /\ b \notin gone \cup closed
                                              /\ authres[b] = NoResult /\ info[b] = "null"
                      /\ poll'[b] \in {"deleting", "deleted"} => b \in closed
                      /\ Has(b, "auth")' => info[b] = "null" /\ authres[b] = NoResult
                      /\ Has(b, "erase")' => poll'[b] = "deleted"
                      /\ Dangling(b) => poll'[b] = "deleted" /\ ~HasPacket(b)'
    BY <1>2, <2>5, Zenon DEF LifeCycle
  <2>6. CASE b = a
    BY <1>1, <2>1, <2>2, <2>3, <2>4, <2>6, Zenon
  <2>7. CASE b # a
    <3>1. (HasPacket(b)' <=> HasPacket(b)) /\ \A kind : Has(b, kind)' <=> Has(b, kind)
      BY <1>1, <2>7, Zenon
    <3> QED BY <2>1, <2>7, <3>1, Zenon DEF RegistryInv, LifeCycle
  <2> QED BY <2>6, <2>7, Zenon
<1>5. PatientLife'
  BY <1>1, <1>2, Zenon DEF RegistryInv, LifeCycle, PatientLife
<1> QED BY <1>1, <1>3, <1>4, <1>5, Zenon DEF RegistryInv

\* A client that has been authenticated sends a request or a reply.
LEMMA RegistrySend ==
  ASSUME RegistryInv, NEW a \in Adapter, NEW p \in Packet, p.sender = a,
         p.cmd \notin {"auth", "erase"}, put(p), Connected(a), ~Has(a, "auth"),
         UNCHANGED <<connVars, closed, infoVars, subVars, pending_cmds, it,
                     callVars, authres>>,
         \A b \in Adapter : incoming'[b] \subseteq incoming[b],
         TypeInv'
  PROVE  RegistryInv'
<1>0. poll[a] = "open" /\ ~Has(a, "auth") /\ ~Has(a, "erase") /\ ~Dangling(a)
  BY Zenon DEF RegistryInv, LifeCycle, Connected
<1>1. /\ \A b : HasPacket(b)' <=> HasPacket(b) \/ b = a
      /\ \A b, kind : kind \in {"auth", "erase"} => (Has(b, kind)' <=> Has(b, kind))
      /\ Ordered'
  BY <1>0, PutQueue, Zenon DEF RegistryInv
<1>2. InfoFits' /\ NamesFit' /\ NamesHeld' /\ Users'
  <2>1. InfoFits' /\ NamesFit' /\ NamesHeld'
    BY Zenon DEF RegistryInv, InfoFits, NamesFit, NamesHeld
  <2>2. /\ info' = info /\ subscriptions' = subscriptions /\ pending_calls' = pending_calls
        /\ Users
    BY Zenon DEF RegistryInv
  <2>3. \A b \in Adapter : incoming[b] = {} => incoming'[b] = {}
    BY Zenon
  <2>4. Users'
    BY <2>2, <2>3, Zenon DEF Users
  <2> QED BY <2>1, <2>4, Zenon
<1>3. LifeCycle'
  BY <1>0, <1>1, Zenon DEF RegistryInv, LifeCycle, Dangling
<1>4. PatientLife'
  BY <1>1, Zenon DEF RegistryInv, PatientLife
<1> QED BY <1>1, <1>2, <1>3, <1>4, Zenon DEF RegistryInv

\* The second half of delete_adapter: the erasure is the last packet of its
\* client, and is not queued twice.
LEMMA RegistryErase ==
  ASSUME RegistryInv, NEW a \in Adapter, PollErase(a), TypeInv'
  PROVE  RegistryInv'
<1>0. /\ UNCHANGED <<gone, closed, infoVars, subVars, pending_cmds, it, callVars,
                     authres, incoming>>
      /\ poll[a] = "deleting" /\ poll' = [poll EXCEPT ![a] = "deleted"]
      /\ poll \in [Adapter -> {"none", "open", "deleting", "deleted"}]
  BY Zenon DEF PollErase, RegistryInv, TypeInv, TypeOK
<1>1. ~Has(a, "erase") /\ ~Dangling(a) /\ a \in closed
  BY <1>0, Zenon DEF RegistryInv, LifeCycle
<1>2. InfoFits' /\ NamesFit' /\ NamesHeld' /\ Users'
  BY <1>0, Zenon DEF RegistryInv, InfoFits, NamesFit, NamesHeld, Users
<1>3. CASE info[a] = "null"
  <2>1. UNCHANGED queueVars
    BY <1>0, <1>3, Zenon DEF PollErase, erase_adapter
  <2>2. Ordered'
    BY <2>1, SameQueue, Zenon DEF RegistryInv
  <2>3. LifeCycle'
    BY <1>0, <1>1, <2>1, SameQueue, Zenon DEF RegistryInv, LifeCycle, Dangling
  <2>4. PatientLife'
    BY <1>0, <1>3, <2>1, SameQueue, Zenon DEF RegistryInv, PatientLife, InfoFits
  <2> QED BY <1>2, <2>2, <2>3, <2>4, Zenon DEF RegistryInv
<1>4. CASE info[a] # "null"
  <2> DEFINE p == [cmd |-> "erase", sender |-> a]
  <2>0. p \in Packet /\ put(p)
    BY <1>4, Zenon DEF PollErase, erase_adapter, Packet
  <2>1. ~Has(a, "auth")
    BY <1>4, Zenon DEF RegistryInv, LifeCycle
  <2>2. /\ \A b : HasPacket(b)' <=> HasPacket(b) \/ b = a
        /\ \A b, kind : Has(b, kind)' <=> Has(b, kind) \/ (b = a /\ kind = "erase")
        /\ Ordered'
    BY <1>0, <1>1, <2>0, <2>1, PutQueue, ZenonT(40) DEF RegistryInv
  <2>a. /\ poll'[a] = "deleted" /\ \A b \in Adapter : b # a => poll'[b] = poll[b]
        /\ "deleted" # "none" /\ "auth" # "erase"
    BY <1>0, Zenon
  <2>b. \A b : Dangling(b)' <=> Dangling(b)
    BY <1>0, Zenon DEF Dangling
  <2>c. ASSUME NEW b, b # a
        PROVE  (HasPacket(b)' <=> HasPacket(b)) /\ \A kind : Has(b, kind)' <=> Has(b, kind)
    BY <2>2, <2>c, Zenon
  <2>3. LifeCycle'
    <3> SUFFICES ASSUME NEW b \in Adapter
                 PROVE  /\ poll'[b] = "none" => /\ ~HasPacket(b)' /\ b \notin gone \cup closed
                                                /\ authres[b] = NoResult /\ info[b] = "null"
                        /\ poll'[b] \in {"deleting", "deleted"} => b \in closed
                        /\ Has(b, "auth")' => info[b] = "null" /\ authres[b] = NoResult
                        /\ Has(b, "erase")' => poll'[b] = "deleted"
                        /\ Dangling(b) => poll'[b] = "deleted" /\ ~HasPacket(b)'
      BY <1>0, <2>b, Zenon DEF LifeCycle
    <3>1. CASE b = a
      BY <1>1, <2>1, <2>2, <2>a, <3>1, Zenon
    <3>2. CASE b # a
      BY <2>a, <2>c, <3>2, Zenon DEF RegistryInv, LifeCycle
    <3> QED BY <3>1, <3>2, Zenon
  <2>4. PatientLife'
    <3> SUFFICES ASSUME NEW b \in Patient
                 PROVE  /\ b \in gone \cup closed => ~Has(b, "auth")'
                        /\ poll'[b] = "deleted" /\ b \in adapter_infos \cup monitors
                             => Has(b, "erase")'
      BY <1>0, Zenon DEF PatientLife
    <3>0. b \in Adapter
      BY Zenon
    <3>1. CASE b = a
      BY <2>1, <2>2, <2>a, <3>1, Zenon
    <3>2. CASE b # a
      BY <2>a, <2>c, <3>0, <3>2, Zenon DEF RegistryInv, PatientLife
    <3> QED BY <3>1, <3>2, Zenon
  <2> QED BY <1>2, <2>2, <2>3, <2>4, Zenon DEF RegistryInv
<1> QED BY <1>3, <1>4, Zenon

\* The steps that leave the packets and the registry alone, and close at most
\* adapters that have been registered or whose client is gone.
LEMMA RegistryQuiet ==
  ASSUME RegistryInv, TypeInv',
         \A a : HasPacket(a)' <=> HasPacket(a),
         \A a, kind : Has(a, kind)' <=> Has(a, kind), Ordered',
         UNCHANGED <<poll, infoVars, subscriptions, incoming, authres>>,
         \A i \in 1..Len(pending_calls') : \E j \in 1..Len(pending_calls) :
           pending_calls'[i].sender = pending_calls[j].sender,
         gone' = gone \/ \E a \in Adapter : Disconnect(a),
         closed \subseteq closed',
         \A a \in closed' \ closed : info[a] # "null" 
  PROVE  RegistryInv'
<1>1. InfoFits' /\ NamesFit' /\ NamesHeld' /\ Users'
  <2>1. InfoFits' /\ NamesFit' /\ NamesHeld'
    BY Zenon DEF RegistryInv, InfoFits, NamesFit, NamesHeld
  <2>2. info' = info /\ subscriptions' = subscriptions /\ incoming' = incoming /\ Users
    BY Zenon DEF RegistryInv
  <2>3. ASSUME NEW a, \A i \in 1..Len(pending_calls) : pending_calls[i].sender # a
        PROVE  \A i \in 1..Len(pending_calls') : pending_calls'[i].sender # a
    BY <2>3, Zenon
  <2>4. Users'
    BY <2>2, <2>3, Zenon DEF Users
  <2> QED BY <2>1, <2>4, Zenon
<1>2. \A a \in Adapter : a \in gone' => /\ poll[a] # "none" \/ a \in gone
                                        /\ a \in Patient /\ a \notin gone =>
                                             authres[a] # NoResult \/ a \in closed
  BY Zenon DEF Disconnect
<1>3. LifeCycle'
  <2> SUFFICES ASSUME NEW a \in Adapter
               PROVE  /\ poll[a] = "none" => /\ ~HasPacket(a) /\ a \notin gone' \cup closed'
                                             /\ authres[a] = NoResult /\ info[a] = "null"
                      /\ poll[a] \in {"deleting", "deleted"} => a \in closed'
                      /\ Has(a, "auth") => info[a] = "null" /\ authres[a] = NoResult
                      /\ Has(a, "erase") => poll[a] = "deleted"
                      /\ Dangling(a) => poll[a] = "deleted" /\ ~HasPacket(a)
    BY Zenon DEF LifeCycle, Dangling
  <2> QED BY <1>2, Zenon DEF RegistryInv, LifeCycle
<1>4. PatientLife'
  <2>1. \A a \in Patient : /\ Has(a, "auth") => info[a] = "null" /\ authres[a] = NoResult
                           /\ a \in Adapter
    BY Zenon DEF RegistryInv, LifeCycle
  <2> QED BY <1>2, <2>1, Zenon DEF RegistryInv, PatientLife
<1> QED BY <1>1, <1>3, <1>4, Zenon DEF RegistryInv

\* A write fails only for its recipients.
LEMMA FailingSubset ==
  ASSUME NEW to, NEW failed \in Failing(to)
  PROVE  failed \subseteq to
BY Zenon DEF Failing

\* The first half of delete_adapter: the adapter is closed.
LEMMA RegistryPollClose ==
  ASSUME RegistryInv, NEW a \in Adapter, PollClose(a), TypeInv'
  PROVE  RegistryInv'
<1>0. /\ UNCHANGED <<gone, infoVars, subVars, queueVars, callVars, authres, incoming>>
      /\ poll[a] = "open" /\ poll' = [poll EXCEPT ![a] = "deleting"]
      /\ closed' = closed \cup {a} /\ a \in gone \cup closed
      /\ poll \in [Adapter -> {"none", "open", "deleting", "deleted"}]
  BY Zenon DEF PollClose, RegistryInv, TypeInv, TypeOK
<1>1. /\ \A b : HasPacket(b)' <=> HasPacket(b)
      /\ \A b, kind : Has(b, kind)' <=> Has(b, kind)
      /\ Ordered'
  BY <1>0, SameQueue, Zenon DEF RegistryInv
<1>2. InfoFits' /\ NamesFit' /\ NamesHeld' /\ Users'
  BY <1>0, Zenon DEF RegistryInv, InfoFits, NamesFit, NamesHeld, Users
<1>3. LifeCycle'
  BY <1>0, <1>1, Zenon DEF RegistryInv, LifeCycle, Dangling
<1>4. PatientLife'
  BY <1>0, <1>1, Zenon DEF RegistryInv, PatientLife
<1> QED BY <1>1, <1>2, <1>3, <1>4, Zenon DEF RegistryInv

\* A pending call's sender is registered, or was.
LEMMA CallersKnown ==
  ASSUME RegistryInv
  PROVE  \A i \in 1..Len(pending_calls) :
           pending_calls[i].sender \in Adapter /\ info[pending_calls[i].sender] # "null"
<1>1. \A i \in 1..Len(pending_calls) : pending_calls[i] \in PendingCall
  BY ElementOfSeq, Zenon DEF RegistryInv, TypeInv, TypeOK
<1>2. \A pc \in PendingCall : pc.sender \in Adapter
  BY Zenon DEF PendingCall
<1> QED BY <1>1, <1>2, Zenon DEF RegistryInv, Users

\* The loop of handle_cmds, discard_pending_calls, close and the clock.
LEMMA RegistryLoop ==
  ASSUME RegistryInv, TypeInv',
         \/ \E a \in Adapter : Disconnect(a)
         \/ Splice \/ Exit \/ Close \/ Tick \/ DiscardBegin \/ DiscardCall
         \/ DiscardCrash \/ DiscardEnd
  PROVE  RegistryInv'
<1>1. CASE Splice
  <2>1. UNCHANGED <<connVars, closed, infoVars, subVars, callVars, authres, incoming>>
    BY <1>1, Zenon DEF Splice
  <2> QED BY <1>1, <2>1, SpliceQueue, RegistryQuiet, Zenon DEF RegistryInv
<1>2. CASE DiscardCall
  <2>1. UNCHANGED <<connVars, infoVars, subVars, queueVars, authres, incoming>>
    BY <1>2, Zenon DEF DiscardCall
  <2>2. /\ pending_calls \in Seq(PendingCall) /\ pending_calls # <<>>
        /\ pending_calls' = Tail(pending_calls)
    BY <1>2, Zenon DEF DiscardCall, Overdue, RegistryInv, TypeInv, TypeOK
  <2>3. /\ Len(pending_calls') = Len(pending_calls) - 1
        /\ \A i \in 1..Len(pending_calls') : pending_calls'[i] = pending_calls[i + 1]
        /\ Len(pending_calls) \in Nat \ {0}
        /\ Head(pending_calls) = pending_calls[1]
    <3>1. /\ Len(pending_calls') = Len(pending_calls) - 1
          /\ \A i \in 1..Len(pending_calls') : pending_calls'[i] = pending_calls[i + 1]
      BY <2>2, HeadTailProperties, Zenon
    <3>2. Len(pending_calls) \in Nat \ {0}
      BY <2>2, EmptySeq, Zenon
    <3>3. Head(pending_calls) = pending_calls[1]
      BY <2>2, SMT
    <3> QED BY <3>1, <3>2, <3>3, Zenon
  <2>4. \A i \in 1..Len(pending_calls') : \E j \in 1..Len(pending_calls) :
          pending_calls'[i].sender = pending_calls[j].sender
    BY <2>3, SMTT(60)
  <2>5. /\ closed \subseteq closed'
        /\ closed' \subseteq closed \cup {Head(pending_calls).sender}
    BY <1>2, FailingSubset, Zenon DEF DiscardCall
  <2>6. info[Head(pending_calls).sender] # "null"
    BY <2>3, CallersKnown, SMTT(60)
  <2> QED BY <2>1, <2>4, <2>5, <2>6, SameQueue, RegistryQuiet, Zenon DEF RegistryInv
<1>3. CASE \/ Exit \/ Close \/ Tick \/ DiscardBegin \/ DiscardCrash \/ DiscardEnd
           \/ \E a \in Adapter : Disconnect(a)
  <2>1. /\ UNCHANGED <<poll, closed, infoVars, subVars, queueVars, callVars, authres,
                       incoming>>
        /\ gone' = gone \/ \E a \in Adapter : Disconnect(a)
    BY <1>3, Zenon
    DEF Exit, Close, Tick, DiscardBegin, DiscardCrash, DiscardEnd, Disconnect
  <2> QED BY <2>1, SameQueue, RegistryQuiet, Zenon DEF RegistryInv
<1> QED BY <1>1, <1>2, <1>3, Zenon
-----------------------------------------------------------------------------
(***************************************************************************)
(* The handlers.                                                           *)
(***************************************************************************)

\* The sender of the packet being handled is not dangling.
LEMMA SenderKnown ==
  ASSUME RegistryInv, Handle
  PROVE  /\ Cmd.sender \in Adapter /\ ~Dangling(Cmd.sender)
         /\ poll[Cmd.sender] # "none"
<1>1. Cmd.sender \in Adapter
  BY HandleAdvances, CmdIsPacket, PacketFields, Zenon DEF RegistryInv
<1> QED BY <1>1, HandleQueue, Zenon DEF RegistryInv, LifeCycle

\* The handlers that leave the registry alone.
LEMMA RegistryPlain ==
  ASSUME RegistryInv, TypeInv', Handle, Cmd.cmd # "erase",
         UNCHANGED <<info, adapter_infos, monitors, named_adapters>>,
         closed \subseteq closed',
         \A a \in closed' \ closed : a = Cmd.sender \/ info[a] # "null",
         \A a \in Adapter : a # Cmd.sender => authres'[a] = authres[a],
         Users'
  PROVE  RegistryInv'
<1>0. PICK s : s = Cmd.sender
  BY Zenon
<1>1. UNCHANGED connVars
  BY HandleAdvances, Zenon DEF Advance, RegistryInv
<1>2. /\ Ordered' /\ ~Has(s, "auth")'
      /\ \A a : HasPacket(a)' => HasPacket(a)
      /\ \A a, kind : Has(a, kind)' => Has(a, kind)
      /\ \A a : Has(a, "erase")' <=> Has(a, "erase")
  <2>1. \A q : q = Cmd.sender => ~Has(q, "auth")'
    BY HandleQueue, Zenon DEF RegistryInv
  <2>2. \A a : Has(a, "erase") => Has(a, "erase")'
    BY HandleQueue, Zenon DEF RegistryInv
  <2> QED BY <1>0, <2>1, <2>2, HandleQueue, Zenon DEF RegistryInv
<1>3. s \in Adapter /\ ~Dangling(s) /\ poll[s] # "none"
  BY <1>0, SenderKnown, Zenon
<1>4. InfoFits' /\ NamesFit' /\ NamesHeld'
  BY Zenon DEF RegistryInv, InfoFits, NamesFit, NamesHeld
<1>5. /\ \A a \in closed' \ closed : a = s \/ info[a] # "null"
      /\ \A a \in Adapter : a # s => authres'[a] = authres[a]
  BY <1>0, Zenon
<1>6. LifeCycle'
  BY <1>1, <1>2, <1>3, <1>5, Zenon DEF RegistryInv, LifeCycle, Dangling
<1>7. PatientLife'
  <2>1. \A a \in Patient : a \in gone' \cup closed' => ~Has(a, "auth")'
    BY <1>1, <1>2, <1>5, Zenon DEF RegistryInv, LifeCycle, PatientLife
  <2>2. \A a \in Patient : poll'[a] = "deleted" /\ a \in adapter_infos' \cup monitors'
          => Has(a, "erase")'
    BY <1>1, <1>2, Zenon DEF RegistryInv, PatientLife
  <2> QED BY <2>1, <2>2, Zenon DEF PatientLife
<1> QED BY <1>2, <1>4, <1>6, <1>7, Zenon DEF RegistryInv

\* A handler of an accepted request has a registered client for its sender.
LEMMA AcceptedKnown ==
  ASSUME RegistryInv, Handle, NEW kind, kind \notin {"auth", "erase"}, Accepted(kind)
  PROVE  info[Cmd.sender] = "adapter" /\ Cmd.cmd = kind
<1>1. info[Cmd.sender] \in {"null", "adapter", "monitor"}
  BY SenderKnown, Zenon DEF RegistryInv, TypeInv, TypeOK
<1> QED BY <1>1, Zenon DEF Accepted, Refused, Handling

\* The handlers that close the sender and change nothing else.
LEMMA RegistryClose ==
  ASSUME RegistryInv, TypeInv', CloseSender \/ AuthReject
  PROVE  RegistryInv'
<1>1. Handle /\ Cmd.cmd # "erase"
  BY Zenon DEF Handle, CloseSender, AuthReject, Refused, Accepted, Handling
<1>2. /\ UNCHANGED <<infoVars, subVars, callVars, incoming>>
      /\ closed' = closed \cup {Cmd.sender}
  BY Zenon DEF CloseSender, AuthReject
<1>3. \A a \in Adapter : a # Cmd.sender => authres'[a] = authres[a]
  BY Zenon DEF CloseSender, AuthReject, TellAuth, RegistryInv, TypeInv, TypeOK
<1>4. Users'
  BY <1>2, Zenon DEF RegistryInv, Users
<1> QED BY <1>1, <1>2, <1>3, <1>4, RegistryPlain, Zenon

\* Subscriptions, posts and pings: only registered clients subscribe, and only
\* subscribers are written to.
LEMMA RegistryTopics ==
  ASSUME RegistryInv, TypeInv', Subscribe \/ Unsubscribe \/ Post \/ Ping
  PROVE  RegistryInv'
<1>1. Handle
  BY Zenon DEF Handle
<1>2. info[Cmd.sender] = "adapter" /\ Cmd.cmd # "erase" /\ Cmd.sender \in Adapter
  <2>1. PICK kind \in {"subscribe", "unsubscribe", "post", "ping"} : Accepted(kind)
    BY Zenon DEF Subscribe, Unsubscribe, Post, Ping
  <2> QED BY <1>1, <2>1, AcceptedKnown, SenderKnown, Zenon
<1>3. UNCHANGED <<infoVars, callVars, incoming, authres>>
  BY Zenon DEF Subscribe, Unsubscribe, Post, Ping
<1>4. subscriptions \in [Topic -> [Adapter -> Nat]]
  BY Zenon DEF RegistryInv, TypeInv, TypeOK
<1>5. Cmd.cmd \in {"subscribe", "unsubscribe", "post"} => Cmd.name \in Topic
  BY <1>1, HandleAdvances, CmdIsPacket, PacketFields, Zenon DEF RegistryInv
<1>6. /\ closed \subseteq closed'
      /\ \A a \in closed' \ closed : a = Cmd.sender \/ info[a] # "null"
  <2>1. CASE Post
    <3>1. closed \subseteq closed' /\ closed' \subseteq closed \cup Subscriber(Cmd.name)
      BY <2>1, FailingSubset, Zenon DEF Post
    <3>2. \A a \in Subscriber(Cmd.name) : info[a] # "null"
      <4>1. Cmd.name \in Topic
        BY <1>5, <2>1, Zenon DEF Post, Accepted, Handling
      <4>2. \A a \in Adapter : info[a] = "null" => subscriptions[Cmd.name][a] = 0
        BY <4>1, Zenon DEF RegistryInv, Users
      <4>3. \A a \in Subscriber(Cmd.name) : a \in Adapter /\ subscriptions[Cmd.name][a] > 0
        BY Zenon DEF Subscriber
      <4>4. ~(0 > 0)
        BY SMT
      <4> QED BY <4>2, <4>3, <4>4, Zenon
    <3> QED BY <3>1, <3>2, Zenon
  <2>2. CASE Subscribe \/ Unsubscribe \/ Ping
    BY <2>2, FailingSubset, ZenonT(40) DEF Subscribe, Unsubscribe, Ping
  <2> QED BY <2>1, <2>2, Zenon
<1>7. \A t \in Topic, a \in Adapter :
        a # Cmd.sender /\ subscriptions[t][a] = 0 => subscriptions'[t][a] = 0
  <2>1. CASE Subscribe
    <3> DEFINE g == [subscriptions[Cmd.name] EXCEPT ![Cmd.sender] = @ + 1]
    <3>1. \/ subscriptions' = subscriptions
          \/ subscriptions' = [subscriptions EXCEPT ![Cmd.name] = g]
      BY <2>1, Zenon DEF Subscribe
    <3>2. \A a \in Adapter : a # Cmd.sender => g[a] = subscriptions[Cmd.name][a]
      BY <1>4, <1>5, <2>1, Zenon DEF Subscribe, Accepted, Handling
    <3> QED BY <1>4, <3>1, <3>2, Zenon
  <2>2. CASE Unsubscribe
    BY <1>4, <2>2, Zenon DEF Unsubscribe
  <2>3. CASE Post
    BY <1>4, <2>3, Zenon DEF Post
  <2>4. CASE Ping
    BY <2>4, Zenon DEF Ping
  <2> QED BY <2>1, <2>2, <2>3, <2>4, Zenon
<1>8. Users'
  BY <1>2, <1>3, <1>7, Zenon DEF RegistryInv, Users
<1> QED BY <1>1, <1>2, <1>3, <1>6, <1>8, RegistryPlain, Zenon

\* Methods, calls and replies: only registered clients call and are called.
LEMMA RegistryCalls ==
  ASSUME RegistryInv, TypeInv',
         \/ DeclareMethod \/ RemoveMethod \/ CallUnknown \/ CallForward
         \/ ReplyDropped
         \/ \E i \in 1..Len(pending_calls) : ReplyForward(i) \/ ReplyTooBig(i)
  PROVE  RegistryInv'
<1>1. Handle
  BY Zenon DEF Handle
<1>2. info[Cmd.sender] = "adapter" /\ Cmd.cmd # "erase" /\ Cmd.sender \in Adapter
  <2>1. PICK kind \in {"declare", "remove", "call", "reply"} : Accepted(kind)
    BY Zenon DEF DeclareMethod, RemoveMethod, CallUnknown, CallForward, ReplyDropped,
      ReplyForward, ReplyTooBig, ReplyTo
  <2> QED BY <1>1, <2>1, AcceptedKnown, SenderKnown, Zenon
<1>3. UNCHANGED <<info, adapter_infos, monitors, named_adapters, subVars, authres>>
  BY Zenon DEF DeclareMethod, RemoveMethod, CallUnknown, CallForward, ReplyDropped,
    ReplyForward, ReplyTooBig
<1>4. /\ pending_calls \in Seq(PendingCall) /\ Len(pending_calls) \in Nat
      /\ incoming \in [Adapter -> SUBSET Nat]
      /\ named_adapters \in [Name -> Adapter \cup {NoAdapter}]
  BY LenProperties, Zenon DEF RegistryInv, TypeInv, TypeOK
<1>5. CASE CallForward
  <2> DEFINE target == FindNamed(Cmd.target)
  <2>1. Cmd.target \in Name \cup {NoName}
    BY <1>1, <1>5, HandleAdvances, PacketFields, Zenon
      DEF CallForward, Accepted, Handling, RegistryInv
  <2>2. target \in Adapter /\ info[target] = "adapter"
    <3>1. Cmd.target \in Name /\ target = named_adapters[Cmd.target] /\ target # NoAdapter
      BY <1>5, <2>1, Zenon DEF CallForward, Callable, FindNamed
    <3>2. target \in adapter_infos
      BY <3>1, Zenon DEF RegistryInv, NamesFit
    <3> QED BY <1>4, <3>1, <3>2, ZenonT(40) DEF RegistryInv, InfoFits
  <2>3. /\ closed \subseteq closed'
        /\ closed' \subseteq closed \cup {target, Cmd.sender}
    <3>1. PICK to \in SUBSET {target} : \E failed \in Failing(to) :
            closed' = closed \cup failed \cup (IF to = {} THEN {Cmd.sender} ELSE {})
      <4> DEFINE sent == IF Cmd.data \in BigNamed THEN {} ELSE {target}
      <4>1. sent \in SUBSET {target}
        BY Zenon
      <4>2. \E failed \in Failing(sent) :
              closed' = closed \cup failed \cup (IF sent = {} THEN {Cmd.sender} ELSE {})
        BY <1>5, Zenon DEF CallForward
      <4> QED BY <4>1, <4>2, Zenon
    <3>2. PICK failed \in Failing(to) :
            closed' = closed \cup failed \cup (IF to = {} THEN {Cmd.sender} ELSE {})
      BY <3>1, Zenon
    <3>3. failed \subseteq {target}
      BY <3>1, FailingSubset, Zenon
    <3> QED BY <3>2, <3>3, Zenon
  <2>4. \A a \in Adapter : a # target => incoming'[a] = incoming[a]
    BY <1>4, <1>5, Zenon DEF CallForward
  <2>5. \A i \in 1..Len(pending_calls') :
          \/ pending_calls'[i].sender = Cmd.sender
          \/ \E j \in 1..Len(pending_calls) : pending_calls'[i] = pending_calls[j]
    <3>0. PICK k \in 1..Len(pending_calls) + 1 : \E pc :
            pending_calls' = Inserted(k, pc) /\ pc.sender = Cmd.sender
      <4>1. PICK k \in 1..Len(pending_calls) + 1 :
              pending_calls' = Inserted(k, [svrid |-> reqseq + 1, cliid |-> Cmd.cliid,
                                            sender |-> Cmd.sender,
                                            target |-> FindNamed(Cmd.target),
                                            discard_tp |-> Deadline(Cmd.timeout)])
        BY <1>5, Zenon DEF CallForward, add_pending_call
      <4>2. [svrid |-> reqseq + 1, cliid |-> Cmd.cliid, sender |-> Cmd.sender,
             target |-> FindNamed(Cmd.target),
             discard_tp |-> Deadline(Cmd.timeout)].sender = Cmd.sender
        OBVIOUS
      <4> QED BY <4>1, <4>2, Zenon
    <3>1. PICK pc : pending_calls' = Inserted(k, pc) /\ pc.sender = Cmd.sender
      BY <3>0, Zenon
    <3>2. Len(pending_calls') = Len(pending_calls) + 1
      <4> DEFINE n == Len(pending_calls)
                 e(i) == IF i < k THEN pending_calls[i]
                         ELSE IF i = k THEN pc ELSE pending_calls[i - 1]
      <4>1. n \in Nat /\ pending_calls' = [i \in 1..n + 1 |-> e(i)]
        BY <1>4, <3>1, LenProperties, Zenon DEF Inserted, TypeInv, TypeOK
      <4> HIDE DEF n, e
      <4>2. Len([i \in 1..n + 1 |-> e(i)]) = n + 1
        BY <4>1, SMT
      <4> QED BY <4>1, <4>2, Zenon DEF n
    <3>3. \A i \in 1..Len(pending_calls) + 1 :
            /\ i < k => i \in 1..Len(pending_calls) /\ pending_calls'[i] = pending_calls[i]
            /\ i = k => pending_calls'[i] = pc
            /\ i > k => /\ i - 1 \in 1..Len(pending_calls)
                        /\ pending_calls'[i] = pending_calls[i - 1]
      BY <1>4, <3>1, SMTT(60) DEF Inserted
    <3> QED BY <1>4, <3>1, <3>2, <3>3, SMTT(60)
  <2>6. Users'
    <3>1. info' = info /\ subscriptions' = subscriptions
      BY <1>3, Zenon
    <3>2. ASSUME NEW a \in Adapter, info'[a] = "null"
          PROVE  /\ \A t \in Topic : subscriptions'[t][a] = 0
                 /\ \A i \in 1..Len(pending_calls') : pending_calls'[i].sender # a
                 /\ incoming'[a] = {}
      <4>1. info[a] = "null"
        BY <3>1, <3>2, Zenon
      <4>2. a # Cmd.sender /\ a # target
        BY <1>2, <2>2, <4>1, SMT
      <4>3. /\ \A t \in Topic : subscriptions[t][a] = 0
            /\ \A i \in 1..Len(pending_calls) : pending_calls[i].sender # a
            /\ incoming[a] = {}
        BY <4>1, Zenon DEF RegistryInv, Users
      <4>4. \A i \in 1..Len(pending_calls') : pending_calls'[i].sender # a
        BY <2>5, <4>2, <4>3, Zenon
      <4> QED BY <2>4, <3>1, <4>2, <4>3, <4>4, Zenon
    <3> QED BY <3>2, Zenon DEF Users
  <2> QED BY <1>1, <1>2, <1>3, <2>2, <2>3, <2>6, RegistryPlain, Zenon
<1>6. ASSUME NEW k \in 1..Len(pending_calls), ReplyForward(k)
      PROVE  RegistryInv'
  <2>1. UNCHANGED incoming /\ pending_calls' = Removed(k)
    BY <1>6, Zenon DEF ReplyForward
  <2>2. /\ closed \subseteq closed'
        /\ closed' \subseteq closed \cup {pending_calls[k].sender}
    BY <1>6, FailingSubset, Zenon DEF ReplyForward
  <2>3. \A i \in 1..Len(pending_calls') : \E j \in 1..Len(pending_calls) :
          pending_calls'[i] = pending_calls[j]
    <3>0. TypeInv
      BY Zenon DEF RegistryInv
    <3>t. Removed(k) \in Seq(PendingCall)
      BY <3>0, RemovedType, Zenon
    <3>d. DOMAIN Removed(k) = 1..Len(pending_calls) - 1
      BY Zenon DEF Removed
    <3>1. Len(pending_calls') = Len(pending_calls) - 1
      BY <1>4, <2>1, <3>t, <3>d, LenProperties, SMTT(60)
    <3>2. \A i \in 1..Len(pending_calls) - 1 :
            /\ i < k => i \in 1..Len(pending_calls) /\ pending_calls'[i] = pending_calls[i]
            /\ ~(i < k) => /\ i + 1 \in 1..Len(pending_calls)
                           /\ pending_calls'[i] = pending_calls[i + 1]
      BY <1>4, <2>1, SMTT(60) DEF Removed
    <3> QED BY <1>4, <3>1, <3>2, Zenon
  <2>4. Users'
    <3>1. UNCHANGED <<info, subscriptions, incoming>>
      BY <1>3, <2>1, Zenon
    <3>2. ASSUME NEW a \in Adapter, info'[a] = "null"
          PROVE  /\ \A t \in Topic : subscriptions'[t][a] = 0
                 /\ \A i \in 1..Len(pending_calls') : pending_calls'[i].sender # a
                 /\ incoming'[a] = {}
      <4>1. info[a] = "null"
        BY <3>1, <3>2, Zenon
      <4>2. /\ \A t \in Topic : subscriptions[t][a] = 0
            /\ \A i \in 1..Len(pending_calls) : pending_calls[i].sender # a
            /\ incoming[a] = {}
        BY <4>1, Zenon DEF RegistryInv, Users
      <4>3. \A i \in 1..Len(pending_calls') : pending_calls'[i].sender # a
        BY <2>3, <4>2, Zenon
      <4> QED BY <3>1, <4>2, <4>3, Zenon
    <3> QED BY <3>2, Zenon DEF Users
  <2> QED BY <1>1, <1>2, <1>3, <2>2, <2>4, CallersKnown, RegistryPlain, Zenon
<1>7. CASE \/ DeclareMethod \/ RemoveMethod \/ CallUnknown \/ ReplyDropped
           \/ \E i \in 1..Len(pending_calls) : ReplyTooBig(i)
  <2>1. /\ UNCHANGED <<pending_calls, incoming>>
        /\ closed \subseteq closed' /\ closed' \subseteq closed \cup {Cmd.sender}
    BY <1>7, FailingSubset, Zenon DEF DeclareMethod, RemoveMethod, CallUnknown,
      ReplyDropped, ReplyTooBig
  <2>2. Users'
    BY <1>3, <2>1, Zenon DEF RegistryInv, Users
  <2> QED BY <1>1, <1>2, <1>3, <2>1, <2>2, RegistryPlain, Zenon
<1> QED BY <1>5, <1>6, <1>7, Zenon

\* What the handlers that change the registry have in common.
LEMMA RegistryFrame ==
  ASSUME RegistryInv, Handle, Cmd.cmd \in {"auth", "erase"}
  PROVE  \A s : s = Cmd.sender =>
           /\ UNCHANGED connVars
           /\ s \in Adapter /\ ~Dangling(s) /\ poll[s] # "none"
           /\ Has(s, Cmd.cmd) /\ ~HasPacket(s)' /\ Ordered'
           /\ \A kind : ~Has(s, kind)'
           /\ \A a : HasPacket(a)' => HasPacket(a)
           /\ \A a, kind : Has(a, kind)' => Has(a, kind)
           /\ \A a, kind : a # s => (Has(a, kind)' <=> Has(a, kind))
<1>1. \A s : s = Cmd.sender => ~HasPacket(s)'
  BY HandleQueue, Zenon DEF RegistryInv
<1>2. \A s : ~HasPacket(s)' => \A kind : ~Has(s, kind)'
  BY Zenon DEF HasPacket, Has
<1>3. \A a, kind : a # Cmd.sender => (Has(a, kind)' <=> Has(a, kind))
  BY HandleQueue, Zenon DEF RegistryInv
<1>4. /\ Has(Cmd.sender, Cmd.cmd) /\ Ordered'
      /\ \A a : HasPacket(a)' => HasPacket(a)
      /\ \A a, kind : Has(a, kind)' => Has(a, kind)
  BY HandleQueue, Zenon DEF RegistryInv
<1>5. UNCHANGED connVars
  BY HandleAdvances, Zenon DEF Advance, RegistryInv
<1> QED BY <1>1, <1>2, <1>3, <1>4, <1>5, SenderKnown, Zenon

\* The life of connections while the authentication of s is handled: only s
\* changes, and the adapters closed are s and others that are registered.
LEMMA RegistryKeptLife ==
  ASSUME RegistryInv, NEW s \in Adapter, UNCHANGED connVars,
         poll[s] # "none", \A kind : ~Has(s, kind)',
         \A a : HasPacket(a)' => HasPacket(a),
         \A a, kind : a # s => (Has(a, kind)' <=> Has(a, kind)),
         \A a \in Adapter : a # s => info'[a] = info[a] /\ authres'[a] = authres[a],
         \A a \in Adapter : Dangling(a)' => Dangling(a) /\ a # s,
         closed \subseteq closed',
         \A a \in closed' \ closed : a = s \/ poll[a] # "none"
  PROVE  LifeCycle'
<1> SUFFICES ASSUME NEW a \in Adapter
             PROVE  /\ poll'[a] = "none" => /\ ~HasPacket(a)' /\ a \notin gone' \cup closed'
                                            /\ authres'[a] = NoResult /\ info'[a] = "null"
                    /\ poll'[a] \in {"deleting", "deleted"} => a \in closed'
                    /\ Has(a, "auth")' => info'[a] = "null" /\ authres'[a] = NoResult
                    /\ Has(a, "erase")' => poll'[a] = "deleted"
                    /\ Dangling(a)' => poll'[a] = "deleted" /\ ~HasPacket(a)'
  BY Zenon DEF LifeCycle
<1>1. /\ poll[a] = "none" => /\ ~HasPacket(a) /\ a \notin gone \cup closed
                             /\ authres[a] = NoResult /\ info[a] = "null"
      /\ poll[a] \in {"deleting", "deleted"} => a \in closed
      /\ Has(a, "auth") => info[a] = "null" /\ authres[a] = NoResult
      /\ Has(a, "erase") => poll[a] = "deleted"
      /\ Dangling(a) => poll[a] = "deleted" /\ ~HasPacket(a)
  BY Zenon DEF RegistryInv, LifeCycle
<1>2. poll'[a] = poll[a] /\ gone' = gone
  BY Zenon
<1>3. poll[a] = "none" => /\ a # s /\ a \notin closed' /\ ~HasPacket(a)'
                          /\ a \notin gone /\ authres'[a] = NoResult /\ info'[a] = "null"
  BY <1>1, Zenon
<1>4. Has(a, "auth")' => info'[a] = "null" /\ authres'[a] = NoResult
  BY <1>1, Zenon
<1>5. Has(a, "erase")' => poll[a] = "deleted"
  BY <1>1, Zenon
<1>6. Dangling(a)' => poll[a] = "deleted" /\ ~HasPacket(a)'
  BY <1>1, Zenon
<1>7. poll[a] \in {"deleting", "deleted"} => a \in closed'
  BY <1>1, Zenon
<1> QED BY <1>2, <1>3, <1>4, <1>5, <1>6, <1>7, Zenon

LEMMA RegistryKeptPatient ==
  ASSUME RegistryInv, NEW s \in Adapter, UNCHANGED connVars,
         Has(s, "auth"), \A kind : ~Has(s, kind)',
         \A a, kind : a # s => (Has(a, kind)' <=> Has(a, kind)),
         \A a \in adapter_infos' \cup monitors' : a = s \/ a \in adapter_infos \cup monitors,
         \A a \in closed' \ closed : a = s \/ ~Has(a, "auth")
  PROVE  PatientLife'
<1>1. \A a \in Patient : a \in gone' \cup closed' => ~Has(a, "auth")'
  BY Zenon DEF RegistryInv, PatientLife
<1>2. s \in Patient => poll[s] # "deleted"
  BY Zenon DEF RegistryInv, LifeCycle, PatientLife
<1>3. \A a \in Patient : poll'[a] = "deleted" /\ a \in adapter_infos' \cup monitors'
        => Has(a, "erase")'
  BY <1>2, Zenon DEF RegistryInv, PatientLife
<1> QED BY <1>1, <1>3, Zenon DEF PatientLife

\* handle_auth_req accepts a monitor.
LEMMA RegistryAuthMonitor ==
  ASSUME RegistryInv, TypeInv', AuthMonitor
  PROVE  RegistryInv'
<1>0. PICK s : s = Cmd.sender
  BY Zenon
<1>1. Handle /\ Cmd.cmd = "auth"
  BY Zenon DEF Handle, AuthMonitor, Accepted, Handling
<1>2. /\ UNCHANGED connVars
      /\ s \in Adapter /\ poll[s] # "none" /\ Has(s, "auth") /\ ~HasPacket(s)' /\ Ordered'
      /\ \A kind : ~Has(s, kind)'
      /\ \A a : HasPacket(a)' => HasPacket(a)
      /\ \A a, kind : Has(a, kind)' => Has(a, kind)
      /\ \A a, kind : a # s => (Has(a, kind)' <=> Has(a, kind))
  BY <1>0, <1>1, RegistryFrame, Zenon
<1>3. /\ s \in MonitorClient /\ monitors' = monitors \cup {s}
      /\ info' = [info EXCEPT ![s] = "monitor"]
      /\ closed \subseteq closed' /\ closed' \subseteq closed \cup {s}
      /\ UNCHANGED <<adapter_infos, named_adapters, subscriptions, pending_calls, incoming>>
      /\ \A a \in Adapter : a # s => authres'[a] = authres[a]
  <2>1. PICK failed \in Failing({s}), late \in Failing(Listed(s)) :
          TellAuth(s, failed) /\ closed' = closed \cup failed \cup late
    BY <1>0, Zenon DEF AuthMonitor
  <2>2. closed \subseteq closed' /\ closed' \subseteq closed \cup {s}
    <3>1. failed \subseteq {s} /\ late \subseteq Listed(s) /\ Listed(s) \subseteq {s}
      BY <2>1, FailingSubset, Zenon DEF Listed
    <3> QED BY <2>1, <3>1, Zenon
  <2>3. authres \in [Adapter -> Code \cup {NoResult}]
    BY Zenon DEF RegistryInv, TypeInv, TypeOK
  <2>4. \A a \in Adapter : a # s => authres'[a] = authres[a]
    BY <2>1, <2>3, Zenon DEF TellAuth
  <2>5. /\ s \in MonitorClient /\ monitors' = monitors \cup {s}
        /\ info' = [info EXCEPT ![s] = "monitor"]
        /\ UNCHANGED <<adapter_infos, named_adapters, subscriptions, pending_calls, incoming>>
    BY <1>0, Zenon DEF AuthMonitor
  <2> QED BY <2>2, <2>4, <2>5, Zenon
<1>4. /\ info[s] = "null" /\ info \in [Adapter -> {"null", "adapter", "monitor"}]
      /\ adapter_infos \subseteq Adapter /\ monitors \subseteq Adapter
  BY <1>2, Zenon DEF RegistryInv, LifeCycle, TypeInv, TypeOK
<1>5. /\ info'[s] = "monitor" /\ \A a \in Adapter : a # s => info'[a] = info[a]
  BY <1>2, <1>3, <1>4, Zenon
<1>6. InfoFits'
  BY <1>3, <1>4, <1>5, ZenonT(40) DEF RegistryInv, InfoFits
<1>7. NamesFit' /\ NamesHeld'
  BY <1>3, Zenon DEF RegistryInv, NamesFit, NamesHeld
<1>8. Users'
  BY <1>3, <1>5, Zenon DEF RegistryInv, Users
<1>9. \A a \in Adapter : Dangling(a)' => Dangling(a) /\ a # s
  BY <1>3, <1>5, Zenon DEF Dangling
<1>10. LifeCycle'
  BY <1>2, <1>3, <1>5, <1>9, RegistryKeptLife, Zenon
<1>11. PatientLife'
  BY <1>2, <1>3, <1>4, RegistryKeptPatient, Zenon
<1> QED BY <1>2, <1>6, <1>7, <1>8, <1>10, <1>11, Zenon DEF RegistryInv

\* handle_auth_req accepts a client, whose id nobody holds.
LEMMA RegistryAuthAdapter ==
  ASSUME RegistryInv, TypeInv', AuthAdapter
  PROVE  RegistryInv'
<1>0. PICK s : s = Cmd.sender
  BY Zenon
<1>1. Handle /\ Cmd.cmd = "auth"
  BY Zenon DEF Handle, AuthAdapter, Accepted, Handling
<1>2. /\ UNCHANGED connVars
      /\ s \in Adapter /\ poll[s] # "none" /\ Has(s, "auth") /\ ~HasPacket(s)' /\ Ordered'
      /\ \A kind : ~Has(s, kind)'
      /\ \A a : HasPacket(a)' => HasPacket(a)
      /\ \A a, kind : Has(a, kind)' => Has(a, kind)
      /\ \A a, kind : a # s => (Has(a, kind)' <=> Has(a, kind))
  BY <1>0, <1>1, RegistryFrame, Zenon
<1>3. /\ info[s] = "null" /\ info \in [Adapter -> {"null", "adapter", "monitor"}]
      /\ adapter_infos \subseteq Adapter /\ monitors \subseteq Adapter
      /\ named_adapters \in [Name -> Adapter \cup {NoAdapter}]
      /\ s \notin adapter_infos
  BY <1>2, Zenon DEF RegistryInv, LifeCycle, InfoFits, TypeInv, TypeOK
<1>4. /\ s \notin MonitorClient /\ adapter_infos' = adapter_infos \cup {s}
      /\ info' = [info EXCEPT ![s] = "adapter"]
      /\ named_adapters' = NameTaken(s)
      /\ ClientName[s] # NoName => named_adapters[ClientName[s]] = NoAdapter
      /\ UNCHANGED <<monitors, subscriptions, pending_calls, incoming>>
      /\ \A a \in Adapter : a # s => authres'[a] = authres[a]
  <2>1. /\ s \notin MonitorClient /\ adapter_infos' = adapter_infos \cup {s}
        /\ info' = [info EXCEPT ![s] = "adapter"] /\ named_adapters' = NameTaken(s)
        /\ UNCHANGED <<monitors, subscriptions, pending_calls, incoming>>
        /\ AuthResult(s) = "success"
    BY <1>0, <1>3, Zenon DEF AuthAdapter
  <2>2. ClientName[s] # NoName => named_adapters[ClientName[s]] = NoAdapter
    BY <2>1, Zenon DEF AuthResult
  <2>3. PICK failed : TellAuth(s, failed)
    BY <1>0, Zenon DEF AuthAdapter
  <2>4. \A a \in Adapter : a # s => authres'[a] = authres[a]
    <3>1. authres \in [Adapter -> Code \cup {NoResult}]
      BY <1>2, Zenon DEF RegistryInv, TypeInv, TypeOK
    <3> QED BY <2>3, <3>1, Zenon DEF TellAuth
  <2> QED BY <2>1, <2>2, <2>4, Zenon
<1>5. closed \subseteq closed' /\ closed' \subseteq closed \cup {s} \cup monitors
  <2>1. PICK failed \in Failing({s} \cup Added(s)) : closed' = closed \cup failed
    BY <1>0, Zenon DEF AuthAdapter
  <2>2. failed \subseteq {s} \cup Added(s) /\ Added(s) \subseteq monitors
    BY <2>1, FailingSubset, Zenon DEF Added
  <2> QED BY <2>1, <2>2, Zenon
<1>6. /\ info'[s] = "adapter" /\ \A a \in Adapter : a # s => info'[a] = info[a]
  BY <1>2, <1>3, <1>4, Zenon
<1>7. InfoFits'
  BY <1>3, <1>4, <1>6, ZenonT(40) DEF RegistryInv, InfoFits
<1>8. /\ ClientName[s] # NoName => named_adapters'[ClientName[s]] = s
      /\ \A n \in Name : n # ClientName[s] => named_adapters'[n] = named_adapters[n]
      /\ ClientName[s] = NoName => named_adapters' = named_adapters
  BY <1>2, <1>3, <1>4, Zenon DEF NameTaken
<1>9. NamesFit'
  BY <1>2, <1>4, <1>8, ZenonT(40) DEF RegistryInv, NamesFit
<1>10. NamesHeld'
  <2> SUFFICES ASSUME NEW a \in adapter_infos', ClientName[a] \notin {NoName} \cup MonitorName
               PROVE  named_adapters'[ClientName[a]] = a
    BY Zenon DEF NamesHeld, MonitorName
  <2>1. CASE a = s
    BY <1>8, <2>1, Zenon
  <2>2. CASE a # s
    <3>1. a \in adapter_infos /\ named_adapters[ClientName[a]] = a /\ a # NoAdapter
      BY <1>3, <1>4, <2>2, Zenon DEF RegistryInv, NamesHeld
    <3>2. ClientName[a] # ClientName[s] /\ ClientName[a] \in Name
      BY <1>3, <1>4, <3>1, Zenon
    <3> QED BY <1>8, <3>1, <3>2, Zenon
  <2> QED BY <2>1, <2>2, Zenon
<1>11. Users'
  BY <1>4, <1>6, Zenon DEF RegistryInv, Users
<1>12. \A a \in Adapter : Dangling(a)' => Dangling(a) /\ a # s
  BY <1>4, <1>6, Zenon DEF Dangling
<1>13. \A m \in monitors : info[m] # "null" /\ poll[m] # "none" /\ ~Has(m, "auth")
  BY <1>3, Zenon DEF RegistryInv, InfoFits, LifeCycle
<1>14. LifeCycle'
  <2>1. \A a \in closed' \ closed : a = s \/ poll[a] # "none"
    BY <1>5, <1>13, Zenon
  <2>2. \A a \in Adapter : a # s => info'[a] = info[a] /\ authres'[a] = authres[a]
    BY <1>4, <1>6, Zenon
  <2> QED BY <1>2, <1>5, <1>12, <2>1, <2>2, RegistryKeptLife, Zenon
<1>15. PatientLife'
  <2>1. \A a \in adapter_infos' \cup monitors' : a = s \/ a \in adapter_infos \cup monitors
    BY <1>4, Zenon
  <2>2. \A a \in closed' \ closed : a = s \/ ~Has(a, "auth")
    BY <1>5, <1>13, Zenon
  <2> QED BY <1>2, <2>1, <2>2, RegistryKeptPatient, Zenon
<1> QED BY <1>2, <1>7, <1>9, <1>10, <1>11, <1>14, <1>15, Zenon DEF RegistryInv

\* do_erase_adapter: no packet of the client is left, and its id is no longer
\* held by another.
LEMMA RegistryEraseHandled ==
  ASSUME RegistryInv, TypeInv', EraseAdapter \/ EraseMonitor
  PROVE  RegistryInv'
<1>0. PICK s : s = Cmd.sender
  BY Zenon
<1>1. Handle /\ Cmd.cmd = "erase"
  BY Zenon DEF Handle, EraseAdapter, EraseMonitor, Handling
<1>2. /\ UNCHANGED connVars
      /\ s \in Adapter /\ Has(s, "erase") /\ ~HasPacket(s)' /\ Ordered'
      /\ ~Dangling(s)
      /\ \A kind : ~Has(s, kind)'
      /\ \A a : HasPacket(a)' => HasPacket(a)
      /\ \A a, kind : Has(a, kind)' => Has(a, kind)
      /\ \A a, kind : a # s => (Has(a, kind)' <=> Has(a, kind))
  BY <1>0, <1>1, RegistryFrame, Zenon
<1>3. /\ info \in [Adapter -> {"null", "adapter", "monitor"}]
      /\ adapter_infos \subseteq Adapter /\ monitors \subseteq Adapter
      /\ named_adapters \in [Name -> Adapter \cup {NoAdapter}]
      /\ subscriptions \in [Topic -> [Adapter -> Nat]]
      /\ poll[s] = "deleted"
  BY <1>2, Zenon DEF RegistryInv, LifeCycle, TypeInv, TypeOK
<1>4. /\ UNCHANGED <<info, pending_calls, incoming, authres>>
      /\ named_adapters' = NameReleased(s)
      /\ closed \subseteq closed' /\ closed' \subseteq closed \cup monitors
      /\ check_subscriptions(NameReleased(s))
      /\ \/ info[s] = "adapter" /\ adapter_infos' = adapter_infos \ {s} /\ monitors' = monitors
         \/ info[s] = "monitor" /\ monitors' = monitors \ {s} /\ adapter_infos' = adapter_infos
  BY <1>0, FailingSubset, Zenon DEF EraseAdapter, EraseMonitor
<1>5. InfoFits'
  BY <1>4, Zenon DEF RegistryInv, InfoFits
<1>6. /\ \A n \in Name : n # ClientName[s] => named_adapters'[n] = named_adapters[n]
      /\ ClientName[s] \in Name => named_adapters'[ClientName[s]] = NoAdapter
  BY <1>2, <1>3, <1>4, Zenon DEF NameReleased
<1>7. NamesFit'
  <2> SUFFICES ASSUME NEW n \in Name, named_adapters'[n] # NoAdapter
               PROVE  /\ named_adapters'[n] \in adapter_infos'
                      /\ ClientName[named_adapters'[n]] = n
    BY Zenon DEF NamesFit
  <2>1. n # ClientName[s] /\ named_adapters'[n] = named_adapters[n]
    BY <1>6, Zenon
  <2>2. named_adapters[n] \in adapter_infos /\ ClientName[named_adapters[n]] = n
    BY <2>1, Zenon DEF RegistryInv, NamesFit
  <2> QED BY <1>4, <2>1, <2>2, Zenon
<1>8. NamesHeld'
  <2> SUFFICES ASSUME NEW a \in adapter_infos', ClientName[a] \notin {NoName} \cup MonitorName
               PROVE  named_adapters'[ClientName[a]] = a
    BY Zenon DEF NamesHeld, MonitorName
  <2>1. a \in Adapter /\ named_adapters[ClientName[a]] = a /\ ClientName[a] \in Name
    BY <1>3, <1>4, Zenon DEF RegistryInv, NamesHeld
  <2>2. ClientName[a] # ClientName[s]
    <3>1. CASE info[s] = "monitor"
      BY <1>2, <3>1, Zenon DEF RegistryInv, InfoFits, MonitorName
    <3>2. CASE info[s] = "adapter"
      <4>1. s \in adapter_infos /\ a # s
        BY <1>2, <1>4, <3>2, Zenon DEF Dangling
      <4> QED BY <2>1, <4>1, Zenon DEF RegistryInv, NamesHeld
    <3> QED BY <1>4, <3>1, <3>2, Zenon
  <2> QED BY <1>6, <2>1, <2>2, Zenon
<1>9. \A t \in Topic, a \in Adapter :
        subscriptions[t][a] = 0 => subscriptions'[t][a] = 0
  BY <1>4, SMTT(60) DEF check_subscriptions, WithoutExpired
<1>10. Users'
  BY <1>4, <1>9, Zenon DEF RegistryInv, Users
<1>11. \A a \in Adapter : Dangling(a)' => Dangling(a) \/ a = s
  BY <1>4, Zenon DEF Dangling
<1>12. \A m \in monitors : info[m] # "null" /\ poll[m] # "none" /\ ~Has(m, "auth")
  BY <1>3, Zenon DEF RegistryInv, InfoFits, LifeCycle
<1>13. LifeCycle'
  BY <1>2, <1>3, <1>4, <1>11, <1>12, Zenon DEF RegistryInv, LifeCycle
<1>14. s \notin adapter_infos' \cup monitors'
  BY <1>4, Zenon DEF RegistryInv, InfoFits
<1>15. PatientLife'
  BY <1>2, <1>4, <1>12, <1>14, Zenon DEF RegistryInv, PatientLife
<1> QED BY <1>2, <1>5, <1>7, <1>8, <1>10, <1>13, <1>15, Zenon DEF RegistryInv
-----------------------------------------------------------------------------
\* Every step of the service keeps the invariant of registration.
LEMMA RegistryStep ==
  ASSUME RegistryInv, [Next]_vars
  PROVE  RegistryInv'
<1>0. TypeInv'
  BY TypeStep, Zenon DEF RegistryInv
<1>1. CASE UNCHANGED vars
  <2>1. /\ UNCHANGED <<poll, gone, closed, infoVars, subVars, pending_calls, incoming, authres>>
        /\ UNCHANGED queueVars
    BY <1>1, Zenon DEF vars
  <2> QED BY <1>0, <2>1, SameQueue, RegistryQuiet, Zenon DEF RegistryInv
<1>2. CASE Handle
  BY <1>0, <1>2, RegistryClose, RegistryAuthMonitor, RegistryAuthAdapter,
    RegistryEraseHandled, RegistryTopics, RegistryCalls, Zenon DEF Handle
<1>3. ASSUME NEW a \in Adapter, NEW p \in Request(a), Send(a, p)
      PROVE  RegistryInv'
  <2>1. p \in Packet /\ p.sender = a /\ p.cmd \notin {"auth", "erase"}
    <3>1. p.sender = a /\ p.cmd \notin {"auth", "erase"}
      BY Zenon DEF Request, RequestOf
    <3> QED BY <1>3, <3>1, SentIsPacket, Zenon DEF RegistryInv
  <2>2. ~Has(a, "auth")
    BY <1>3, Zenon DEF Send, RegistryInv, LifeCycle, NoResult
  <2> QED BY <1>0, <1>3, <2>1, <2>2, RegistrySend, Zenon DEF Send
<1>4. ASSUME NEW a \in Adapter, NEW svrid \in incoming[a], NEW d \in Data,
             SendReply(a, svrid, d)
      PROVE  RegistryInv'
  <2> DEFINE p == [cmd |-> "reply", sender |-> a, svrid |-> svrid, data |-> d]
  <2>1. incoming \in [Adapter -> SUBSET Nat]
    BY Zenon DEF RegistryInv, TypeInv, TypeOK
  <2>2. p \in Packet /\ p.sender = a /\ p.cmd \notin {"auth", "erase"}
    BY <2>1, Zenon DEF Packet
  <2>3. ~Has(a, "auth")
    BY <1>4, Zenon DEF RegistryInv, Users, LifeCycle
  <2>4. \A b \in Adapter : incoming'[b] \subseteq incoming[b]
    BY <1>4, <2>1, Zenon DEF SendReply
  <2> HIDE DEF p
  <2>5. put(p)
    BY <1>4, Zenon DEF SendReply, p
  <2> QED BY <1>0, <1>4, <2>2, <2>3, <2>4, <2>5, RegistrySend, Zenon DEF SendReply
<1>5. CASE \/ \E a \in Adapter : Disconnect(a)
           \/ Splice \/ Exit \/ Close \/ Tick \/ DiscardBegin \/ DiscardCall
           \/ DiscardCrash \/ DiscardEnd
  BY <1>0, <1>5, RegistryLoop, Zenon
<1>6. CASE \E a \in Adapter : Connect(a) \/ PollStep(a)
  BY <1>0, <1>6, RegistryConnect, RegistryPollClose, RegistryErase, Zenon DEF PollStep
<1> QED BY <1>1, <1>2, <1>3, <1>4, <1>5, <1>6, Zenon DEF Next, DispatcherStep

\* The invariant of registration holds at the start.
LEMMA RegistryInit == Init => RegistryInv
<1> SUFFICES ASSUME Init PROVE RegistryInv
  BY Zenon
<1>1. TypeInv
  BY TypeInit, Zenon
<1>2. Left = {} /\ Queued = {}
  <2>1. pending_cmds = <<>> /\ cmd_packets = <<>> /\ it = 0
    BY Zenon DEF Init
  <2>2. Len(<<>>) = 0 /\ 0 + 1..0 = {} /\ 1..0 = {}
    BY SMT
  <2> QED BY <2>1, <2>2, Zenon DEF Left, Queued
<1>3. Ordered /\ \A a : ~HasPacket(a) /\ \A kind : ~Has(a, kind)
  BY <1>2, Zenon DEF Ordered, HasPacket, Has
<1>4. InfoFits /\ NamesFit /\ NamesHeld /\ Users
  <2>1. InfoFits /\ NamesFit /\ NamesHeld
    BY Zenon DEF Init, InfoFits, NamesFit, NamesHeld
  <2>2. /\ subscriptions = [t \in Topic |-> [a \in Adapter |-> 0]] /\ pending_calls = <<>>
        /\ incoming = [a \in Adapter |-> {}]
    BY Zenon DEF Init
  <2>3. 1..Len(pending_calls) = {}
    <3>1. Len(<<>>) = 0 /\ 1..0 = {}
      BY SMT
    <3> QED BY <2>2, <3>1, Zenon
  <2> QED BY <2>1, <2>2, <2>3, Zenon DEF Users
<1>5. LifeCycle /\ PatientLife
  BY <1>3, Zenon DEF Init, LifeCycle, PatientLife, Dangling
<1> QED BY <1>1, <1>3, <1>4, <1>5, Zenon DEF RegistryInv

\* What is left of a batch is part of it.
LEMMA LeftInBatch ==
  ASSUME NEW n \in Nat, Len(pending_cmds) = n, it \in 0..n
  PROVE  Left \subseteq 1..n
BY SMT DEF Left

\* The invariant of registration, which all properties of it follow from.
LEMMA RegistryInvariant == Spec => []RegistryInv
<1>1. RegistryInv /\ [Next]_vars => RegistryInv'
  BY RegistryStep, Zenon
<1> QED BY <1>1, RegistryInit, PTL DEF Spec

\* do_erase_adapter leaves Adapter::info dangling, but neither a later packet, nor a
\* client id, nor an open subscriber or caller leads the dispatcher to it; the
\* target of a pending call does only after its connection has been deleted.
THEOREM InfoInPlace == Spec => []NoDanglingInfo
<1>1. ASSUME RegistryInv
      PROVE  NoDanglingInfo
  <2>1. \A a \in Adapter : Dangling(a) => a \in closed /\ ~HasPacket(a)
    BY <1>1, Zenon DEF RegistryInv, LifeCycle
  <2>2. /\ \A i \in Left : pending_cmds[i] \in Packet
        /\ \A i \in Queued : cmd_packets[i] \in Packet
    <3>1. /\ cmd_packets \in Seq(Packet) /\ pending_cmds \in Seq(Packet)
          /\ Len(pending_cmds) \in Nat /\ it \in 0..Len(pending_cmds)
      BY <1>1, QueueTypes, Zenon DEF RegistryInv
    <3>2. Left \subseteq 1..Len(pending_cmds)
      BY <3>1, LeftInBatch, Zenon
    <3>3. \A i \in 1..Len(pending_cmds) : pending_cmds[i] \in Packet
      BY <3>1, ElementOfSeq, Zenon
    <3>4. \A i \in 1..Len(cmd_packets) : cmd_packets[i] \in Packet
      BY <3>1, ElementOfSeq, Zenon
    <3> QED BY <3>2, <3>3, <3>4, Zenon DEF Queued
  <2>3. /\ \A i \in Left : ~Dangling(pending_cmds[i].sender)
        /\ \A i \in Queued : ~Dangling(cmd_packets[i].sender)
    BY <2>1, <2>2, PacketFields, Zenon DEF HasPacket
  <2>4. \A n \in Name : named_adapters[n] # NoAdapter =>
          named_adapters[n] \in adapter_infos /\ info[named_adapters[n]] = "adapter"
    BY <1>1, Zenon DEF RegistryInv, NamesFit, InfoFits
  <2>5. \A a \in Adapter \ closed :
          /\ \/ \E t \in Topic : subscriptions[t][a] > 0
             \/ \E i \in 1..Len(pending_calls) : pending_calls[i].sender = a
          => info[a] # "null" /\ ~Dangling(a)
    BY <1>1, <2>1, SMTT(60) DEF RegistryInv, Users
  <2>6. \A i \in 1..Len(pending_calls) :
          Dangling(pending_calls[i].target) => poll[pending_calls[i].target] = "deleted"
    <3>1. \A i \in 1..Len(pending_calls) : pending_calls[i] \in PendingCall
      BY <1>1, ElementOfSeq, Zenon DEF RegistryInv, TypeInv, TypeOK
    <3>2. \A pc \in PendingCall : pc.target \in Adapter
      BY Zenon DEF PendingCall
    <3> QED BY <1>1, <3>1, <3>2, Zenon DEF RegistryInv, LifeCycle
  <2> QED BY <2>3, <2>4, <2>5, <2>6, Zenon DEF NoDanglingInfo, Left, Queued
<1> QED BY <1>1, RegistryInvariant, PTL

\* handle_auth_req refuses an id that is taken, and a late erasure never frees
\* an id that has been taken over: no two registered clients share an id that
\* no monitor uses.
THEOREM IdsStayUnique == Spec => []IdsUnique
<1>1. ASSUME RegistryInv
      PROVE  IdsUnique
  BY <1>1, Zenon DEF RegistryInv, NamesHeld, IdsUnique, SameId
<1> QED BY <1>1, RegistryInvariant, PTL

\* Once the poll thread has deleted the connection of a client that waited for
\* its authentication, and do_erase_adapter has run, nothing of it is left in
\* adapter_infos, monitors or named_adapters.
THEOREM PatientClientsForgotten == Spec => []PatientForgotten
<1>1. ASSUME RegistryInv
      PROVE  PatientForgotten
  <2>1. \A a \in Patient : Abandoned(a) => poll[a] = "deleted" /\ ~Has(a, "erase")
    BY Zenon DEF Abandoned, Has, Left, Queued
  <2>2. \A a \in Patient : Abandoned(a) => a \notin adapter_infos \cup monitors
    BY <1>1, <2>1, Zenon DEF RegistryInv, PatientLife
  <2>3. \A n \in Name, a \in Patient : named_adapters[n] = a => a \in adapter_infos
    BY <1>1, ZenonT(40) DEF RegistryInv, NamesFit
  <2> QED BY <2>2, <2>3, Zenon DEF PatientForgotten
<1> QED BY <1>1, RegistryInvariant, PTL
=============================================================================
