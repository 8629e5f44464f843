----------------------------- MODULE CallsProofs ----------------------------
(***************************************************************************)
(* Proofs about calls: the service answers as CallService says, and looks  *)
(* for overdue calls in the right place.  The argument is about a call as  *)
(* it passes from its packet to pending_calls and to its answer: it is in  *)
(* one of these places only, and its number svrid leads to it alone.       *)
(***************************************************************************)
EXTENDS DispatcherProofs, CallRefinement

\* A call, from the packet or the pending call that is about it.
Key(p) == [sender |-> p.sender, cliid |-> p.cliid]

Known(call) == call.cliid \in 1..Len(asked[call.sender])

Target(call) == asked[call.sender][call.cliid]

Unanswered(call) == answers[call.sender][call.cliid] = <<>>

Pending == {pending_calls[i] : i \in 1..Len(pending_calls)}

\* Two packets are not the same call or the same reply.
Distinct(p, q) ==
  p.sender = q.sender /\ p.cmd = q.cmd =>
    /\ p.cmd = "call" => p.cliid # q.cliid
    /\ p.cmd = "reply" => p.svrid # q.svrid

AllDistinct ==
  /\ \A i, j \in Left : i < j => Distinct(pending_cmds[i], pending_cmds[j])
  /\ \A i \in Left, j \in Queued : Distinct(pending_cmds[i], cmd_packets[j])
  /\ \A i, j \in Queued : i < j => Distinct(cmd_packets[i], cmd_packets[j])

\* A call whose packet waits has been asked, and nothing else has happened to it.
CallsFresh ==
  \A p \in Waiting : p.cmd = "call" =>
    /\ Known(Key(p)) /\ Target(Key(p)) = p.target
    /\ Unanswered(Key(p)) /\ Key(p) \notin AcceptedCalls

\* A call is accepted once.
AcceptedOnce ==
  /\ \A k \in DOMAIN forwarded : Known(forwarded[k])
  /\ \A k, l \in DOMAIN forwarded : forwarded[k] = forwarded[l] => k = l

\* A client has been given calls that name its id, and replies to each once.
GivenFits ==
  \A b \in Adapter :
    /\ \A k \in incoming[b] \cup Replied(b) :
         k \in DOMAIN forwarded /\ Target(forwarded[k]) = ClientName[b]
    /\ incoming[b] \cap Replied(b) = {}

\* Numbers of pending calls do not repeat.
NoRepeat == \A i, j \in 1..Len(pending_calls) :
              pending_calls[i].svrid = pending_calls[j].svrid => i = j

\* A pending call has not been answered.
PendingFits ==
  /\ \A c \in Pending : /\ c.svrid \in DOMAIN forwarded /\ forwarded[c.svrid] = Key(c)
                        /\ Unanswered(Key(c))
  /\ NoRepeat

AnswerFits(call, s) ==
  /\ Known(call) /\ Len(s) = 1
  /\ s[1].code = "success" => /\ s[1].svrid \in DOMAIN forwarded
                              /\ forwarded[s[1].svrid] = call
                              /\ ClientName[s[1].from] = Target(call)

AnswersFit ==
  \A a \in Adapter, c \in CallId : answers[a][c] # <<>> =>
    AnswerFits([sender |-> a, cliid |-> c], answers[a][c])

CallsInv ==
  AllDistinct /\ CallsFresh /\ AcceptedOnce /\ GivenFits /\ PendingFits /\ AnswersFit

\* add_pending_call keeps the calls in the order of their deadlines.
Sorted ==
  \A i, j \in 1..Len(pending_calls) :
    i < j => pending_calls[i].discard_tp <= pending_calls[j].discard_tp
-----------------------------------------------------------------------------
(***************************************************************************)
(* What the steps do to the packets that wait and to the pending calls.    *)
(***************************************************************************)
USE ConstantsAssumption DEF connVars, infoVars, subVars, queueVars, callVars,
  threadVars, clientVars, wireVars

\* Waiting, by the places of the packets.
LEMMA WaitingIs ==
  Waiting = {pending_cmds[i] : i \in Left} \cup {cmd_packets[i] : i \in Queued}
BY Zenon DEF Waiting, Left, Queued

\* What waits are packets.
LEMMA WaitingType ==
  ASSUME TypeInv
  PROVE  Waiting \subseteq Packet
<1>1. Left \subseteq 1..Len(pending_cmds)
  BY QueueTypes, SMT DEF Left
<1>2. \A i \in 1..Len(pending_cmds) : pending_cmds[i] \in Packet
  BY QueueTypes, ElementOfSeq, Zenon
<1>3. \A i \in 1..Len(cmd_packets) : cmd_packets[i] \in Packet
  BY QueueTypes, ElementOfSeq, Zenon
<1> QED BY <1>1, <1>2, <1>3, WaitingIs, Zenon DEF Queued

\* A step that leaves queue and batch alone.
LEMMA WaitingSame ==
  ASSUME UNCHANGED queueVars
  PROVE  Waiting' = Waiting /\ (AllDistinct => AllDistinct')
BY Zenon DEF Waiting, AllDistinct, Left, Queued

\* Dispatcher::put.
LEMMA WaitingPut ==
  ASSUME TypeInv, NEW p \in Packet, put(p), UNCHANGED <<pending_cmds, it>>
  PROVE  /\ Waiting' = Waiting \cup {p}
         /\ AllDistinct /\ (\A q \in Waiting : Distinct(q, p)) => AllDistinct'
<1>1. /\ Queued' = Queued \cup {Last} /\ Left' = Left /\ cmd_packets'[Last] = p
      /\ \A i \in Queued : i < Last /\ cmd_packets'[i] = cmd_packets[i]
      /\ \A i, j \in Queued' : i < j => i \in Queued /\ (j \in Queued \/ j = Last)
  BY PutPositions, Zenon
<1>2. Waiting' = {pending_cmds'[i] : i \in Left'} \cup {cmd_packets'[i] : i \in Queued'}
  BY Zenon DEF Waiting, Left, Queued
<1>3. Waiting' = Waiting \cup {p}
  <2>1. {pending_cmds'[i] : i \in Left'} = {pending_cmds[i] : i \in Left}
    BY <1>1, Zenon
  <2>2. {cmd_packets'[i] : i \in Queued'} = {cmd_packets[i] : i \in Queued} \cup {p}
    <3>1. \A i \in Queued' : cmd_packets'[i] = p \/ \E j \in Queued : cmd_packets'[i] = cmd_packets[j]
      BY <1>1, Zenon
    <3>2. Last \in Queued' /\ \A i \in Queued : i \in Queued'
      BY <1>1, Zenon
    <3> QED BY <1>1, <3>1, <3>2, SMT
  <2> QED BY <1>2, <2>1, <2>2, WaitingIs, Zenon
<1>4. ASSUME AllDistinct, \A q \in Waiting : Distinct(q, p)
      PROVE  AllDistinct'
  <2>1. /\ \A i \in Left : Distinct(pending_cmds[i], p)
        /\ \A i \in Queued : Distinct(cmd_packets[i], p)
    BY <1>4, WaitingIs, Zenon
  <2> QED BY <1>1, <1>4, <2>1, Zenon DEF AllDistinct
<1> QED BY <1>3, <1>4, Zenon

\* The splice of handle_cmds.
LEMMA WaitingSplice ==
  ASSUME TypeInv, Splice
  PROVE  Waiting' = Waiting /\ (AllDistinct => AllDistinct')
<1>1. Waiting' = {pending_cmds'[i] : i \in Left'} \cup {cmd_packets'[i] : i \in Queued'}
  BY Zenon DEF Waiting, Left, Queued
<1>2. Waiting' = Waiting
  BY <1>1, SplicePositions, WaitingIs, Zenon
<1>3. AllDistinct => AllDistinct'
  BY SplicePositions, Zenon DEF AllDistinct
<1> QED BY <1>2, <1>3, Zenon

\* A handler takes a packet that no other one repeats.
LEMMA WaitingHandle ==
  ASSUME TypeInv, Handle, AllDistinct
  PROVE  /\ Cmd \in Waiting /\ Waiting' \subseteq Waiting
         /\ Waiting \subseteq Waiting' \cup {Cmd}
         /\ AllDistinct'
         /\ \A p \in Waiting' : Distinct(Cmd, p)
<1>1. /\ it + 1 \in Left /\ Left' = Left \ {it + 1} /\ Queued' = Queued
      /\ \A i \in Left' : i > it + 1 /\ pending_cmds'[i] = pending_cmds[i]
      /\ cmd_packets' = cmd_packets
  BY HandlePositions, Zenon
<1>2. Cmd = pending_cmds[it + 1]
  BY Zenon DEF Cmd
<1>3. Waiting' = {pending_cmds'[i] : i \in Left'} \cup {cmd_packets'[i] : i \in Queued'}
  BY Zenon DEF Waiting, Left, Queued
<1>4. Cmd \in Waiting
  BY <1>1, <1>2, WaitingIs, Zenon
<1>5. Waiting' \subseteq Waiting
  BY <1>1, <1>3, WaitingIs, Zenon
<1>6. Waiting \subseteq Waiting' \cup {Cmd}
  BY <1>1, <1>2, <1>3, WaitingIs, Zenon
<1>7. AllDistinct'
  BY <1>1, Zenon DEF AllDistinct
<1>8. \A i \in Left' : it + 1 < i
  BY <1>1, QueueTypes, SMT DEF Left
<1>9. /\ \A i \in Left' : Distinct(Cmd, pending_cmds'[i])
      /\ \A i \in Queued' : Distinct(Cmd, cmd_packets'[i])
  BY <1>1, <1>2, <1>8, Zenon DEF AllDistinct
<1> QED BY <1>3, <1>4, <1>5, <1>6, <1>7, <1>9, Zenon

\* The list of pending calls and its members.
LEMMA PendingTypes ==
  ASSUME TypeInv
  PROVE  /\ pending_calls \in Seq(PendingCall) /\ Len(pending_calls) \in Nat
         /\ \A i \in 1..Len(pending_calls) :
              /\ pending_calls[i] \in PendingCall /\ pending_calls[i].discard_tp \in Nat
              /\ pending_calls[i].svrid \in Nat
<1>1. pending_calls \in Seq(PendingCall) /\ Len(pending_calls) \in Nat
  BY LenProperties, Zenon DEF TypeInv, TypeOK
<1>2. \A i \in 1..Len(pending_calls) : pending_calls[i] \in PendingCall
  BY <1>1, ElementOfSeq, Zenon
<1> QED BY <1>1, <1>2, Zenon DEF PendingCall

\* The same, for the set of pending calls.
LEMMA PendingMembers ==
  ASSUME TypeInv
  PROVE  \A pc \in Pending : /\ pc \in PendingCall /\ pc.svrid \in Nat
                             /\ pc.sender \in Adapter /\ pc.cliid \in CallId
<1>1. \A pc \in Pending : pc \in PendingCall
  BY PendingTypes, Zenon DEF Pending
<1> QED BY <1>1, Zenon DEF PendingCall

\* The removal of one call takes that one only, and keeps the order.
LEMMA PendingRemoved ==
  ASSUME TypeInv, NEW k \in 1..Len(pending_calls),
         Len(pending_calls') = Len(pending_calls) - 1,
         \A i \in 1..Len(pending_calls') :
           pending_calls'[i] = IF i < k THEN pending_calls[i] ELSE pending_calls[i + 1]
  PROVE  /\ Pending' \subseteq Pending
         /\ NoRepeat => NoRepeat' /\ pending_calls[k] \notin Pending'
         /\ Sorted => Sorted'
<1> DEFINE n == Len(pending_calls)
<1> DEFINE at == [i \in 1..n |-> IF i < k THEN i ELSE i + 1]
<1>1. /\ n \in Nat /\ k \in 1..n /\ Len(pending_calls') = n - 1
      /\ \A i \in 1..n : pending_calls[i].discard_tp \in Nat
  BY PendingTypes, Zenon
<1>2. \A i \in 1..Len(pending_calls') :
        at[i] \in 1..n /\ at[i] # k /\ pending_calls'[i] = pending_calls[at[i]]
  BY <1>1, SMT
<1>3. \A i, j \in 1..Len(pending_calls') : /\ at[i] = at[j] => i = j
                                           /\ i < j => at[i] < at[j]
  BY <1>1, SMT
<1>4. Pending' = {pending_calls'[i] : i \in 1..Len(pending_calls')}
  BY Zenon DEF Pending
<1> HIDE DEF at
<1>5. Pending' \subseteq Pending
  BY <1>2, <1>4, SMT DEF Pending
<1>6. ASSUME NoRepeat PROVE NoRepeat' /\ pending_calls[k] \notin Pending'
  <2>1. \A i, j \in 1..n : pending_calls[i].svrid = pending_calls[j].svrid => i = j
    BY <1>6, Zenon DEF NoRepeat
  <2>2. ASSUME NEW i \in 1..Len(pending_calls') PROVE pending_calls'[i] # pending_calls[k]
    <3>1. at[i] \in 1..n /\ at[i] # k /\ pending_calls'[i] = pending_calls[at[i]]
      BY <1>2, Zenon
    <3> QED BY <1>1, <2>1, <3>1, Zenon
  <2>3. ASSUME NEW i \in 1..Len(pending_calls'), NEW j \in 1..Len(pending_calls'),
               pending_calls'[i].svrid = pending_calls'[j].svrid
        PROVE  i = j
    <3>1. /\ at[i] \in 1..n /\ pending_calls'[i] = pending_calls[at[i]]
          /\ at[j] \in 1..n /\ pending_calls'[j] = pending_calls[at[j]]
      BY <1>2, Zenon
    <3>2. at[i] = at[j]
      BY <2>1, <2>3, <3>1, Zenon
    <3> QED BY <1>3, <3>2, Zenon
  <2>4. pending_calls[k] \notin Pending'
    BY <1>4, <2>2, Zenon
  <2> QED BY <2>3, <2>4, Zenon DEF NoRepeat
<1>7. ASSUME Sorted PROVE Sorted'
  <2> SUFFICES ASSUME NEW i \in 1..Len(pending_calls'), NEW j \in 1..Len(pending_calls'), i < j
               PROVE  pending_calls'[i].discard_tp <= pending_calls'[j].discard_tp
    BY Zenon DEF Sorted
  <2>1. /\ at[i] \in 1..n /\ pending_calls'[i] = pending_calls[at[i]]
        /\ at[j] \in 1..n /\ pending_calls'[j] = pending_calls[at[j]]
    BY <1>2, Zenon
  <2>2. at[i] < at[j]
    BY <1>3, Zenon
  <2>3. pending_calls[at[i]].discard_tp <= pending_calls[at[j]].discard_tp
    BY <1>7, <2>1, <2>2, Zenon DEF Sorted
  <2> QED BY <2>1, <2>3, Zenon
<1> QED BY <1>5, <1>6, <1>7, Zenon

\* Removed is such a removal.
LEMMA PendingReplied ==
  ASSUME TypeInv, NEW k \in 1..Len(pending_calls), pending_calls' = Removed(k)
  PROVE  /\ Pending' \subseteq Pending
         /\ NoRepeat => NoRepeat' /\ pending_calls[k] \notin Pending'
         /\ Sorted => Sorted'
<1>1. Len(pending_calls) \in Nat
  BY PendingTypes, Zenon
<1>2. Removed(k) \in Seq(PendingCall) /\ DOMAIN Removed(k) = 1..Len(pending_calls) - 1
  BY RemovedType, Zenon DEF Removed
<1>3. Len(Removed(k)) = Len(pending_calls) - 1
  BY <1>1, <1>2, LenProperties, SMT
<1>4. \A i \in 1..Len(pending_calls') :
        pending_calls'[i] = IF i < k THEN pending_calls[i] ELSE pending_calls[i + 1]
  BY <1>3, Zenon DEF Removed
<1> QED BY <1>3, <1>4, PendingRemoved, Zenon

\* And so is the removal of the first call.
LEMMA PendingDiscarded ==
  ASSUME TypeInv, pending_calls # <<>>, pending_calls' = Tail(pending_calls)
  PROVE  /\ Head(pending_calls) \in Pending /\ Pending' \subseteq Pending
         /\ NoRepeat => NoRepeat' /\ Head(pending_calls) \notin Pending'
         /\ Sorted => Sorted'
<1>1. /\ pending_calls \in Seq(PendingCall) /\ Len(pending_calls) \in Nat
      /\ Len(pending_calls) # 0
  BY PendingTypes, EmptySeq, SMT
<1>2. /\ 1 \in 1..Len(pending_calls) /\ Head(pending_calls) = pending_calls[1]
      /\ Len(pending_calls') = Len(pending_calls) - 1
  BY <1>1, SMT
<1>3. \A i \in 1..Len(pending_calls') : pending_calls'[i] = pending_calls[i + 1]
  BY <1>1, <1>2, HeadTailProperties, SMT
<1>4. \A i \in 1..Len(pending_calls') :
        pending_calls'[i] = IF i < 1 THEN pending_calls[i] ELSE pending_calls[i + 1]
  BY <1>1, <1>2, <1>3, SMT
<1>5. Head(pending_calls) \in Pending
  BY <1>2, Zenon DEF Pending
<1> QED BY <1>2, <1>4, <1>5, PendingRemoved, Zenon

\* add_pending_call adds one call, in the order of the deadlines.
LEMMA PendingInserted ==
  ASSUME TypeInv, NEW k \in 1..Len(pending_calls) + 1, NEW pc \in PendingCall,
         InsertedAt(k, pc.discard_tp), pending_calls' = Inserted(k, pc)
  PROVE  /\ Pending' = Pending \cup {pc}
         /\ NoRepeat /\ (\A c \in Pending : c.svrid # pc.svrid) => NoRepeat'
         /\ Sorted => Sorted'
<1> DEFINE n == Len(pending_calls)
<1> DEFINE from == [i \in 1..n + 1 |-> IF i < k THEN i ELSE i - 1]
<1>1. /\ n \in Nat /\ k \in 1..n + 1 /\ pc.discard_tp \in Nat
      /\ \A i \in 1..n : pending_calls[i].discard_tp \in Nat
  BY PendingTypes, Zenon DEF PendingCall
<1>2. Inserted(k, pc) \in Seq(PendingCall) /\ DOMAIN Inserted(k, pc) = 1..n + 1
  BY InsertedType, Zenon DEF Inserted
<1>3. Len(pending_calls') = n + 1
  BY <1>1, <1>2, LenProperties, SMT
<1>4. \A i \in 1..n + 1 : pending_calls'[i] = IF i < k THEN pending_calls[i]
        ELSE IF i = k THEN pc ELSE pending_calls[i - 1]
  BY Zenon DEF Inserted
<1>5. /\ k \in 1..n + 1 /\ pending_calls'[k] = pc
      /\ \A i \in 1..n + 1 : i # k =>
           from[i] \in 1..n /\ pending_calls'[i] = pending_calls[from[i]]
  BY <1>1, <1>4, SMT
<1>6. /\ \A i, j \in 1..n + 1 : i # k /\ j # k => /\ from[i] = from[j] => i = j
                                                  /\ i < j => from[i] < from[j]
      /\ \A i \in 1..n : \E j \in 1..n + 1 : j # k /\ from[j] = i
  <2>1. \A i, j \in 1..n + 1 : i # k /\ j # k => /\ from[i] = from[j] => i = j
                                                 /\ i < j => from[i] < from[j]
    BY <1>1, SMT
  <2>2. ASSUME NEW i \in 1..n PROVE \E j \in 1..n + 1 : j # k /\ from[j] = i
    <3>1. /\ i < k => i \in 1..n + 1 /\ i # k /\ from[i] = i
          /\ ~(i < k) => i + 1 \in 1..n + 1 /\ i + 1 # k /\ from[i + 1] = i
      BY <1>1, SMT
    <3> HIDE DEF from
    <3> QED BY <3>1, Zenon
  <2> HIDE DEF from
  <2> QED BY <2>1, <2>2, Zenon
<1>7. Pending' = {pending_calls'[i] : i \in 1..n + 1}
  BY <1>3, Zenon DEF Pending
<1>8. Sorted => /\ \A i \in 1..n + 1 : i < k => pending_calls[from[i]].discard_tp <= pc.discard_tp
                /\ \A i \in 1..n + 1 : k < i => pc.discard_tp <= pending_calls[from[i]].discard_tp
  <2> SUFFICES ASSUME Sorted
               PROVE  /\ \A i \in 1..n + 1 : i < k => pending_calls[from[i]].discard_tp <= pc.discard_tp
                      /\ \A i \in 1..n + 1 : k < i => pc.discard_tp <= pending_calls[from[i]].discard_tp
    BY Zenon
  <2> DEFINE d == [i \in 1..n |-> pending_calls[i].discard_tp]
  <2>1. \A i \in 1..n : d[i] = pending_calls[i].discard_tp /\ d[i] \in Nat
    BY <1>1, Zenon
  <2>2. \A i \in 1..n : (i < k => d[i] < pc.discard_tp) /\ (i = k => pc.discard_tp <= d[i])
    BY <1>1, <2>1, SMT DEF InsertedAt
  <2>3. \A i, j \in 1..n : i < j => d[i] <= d[j]
    BY <2>1, Zenon DEF Sorted
  <2> HIDE DEF d
  <2>4. \A i \in 1..n : k <= i => pc.discard_tp <= d[i]
    BY <1>1, <2>1, <2>2, <2>3, SMT
  <2>5. \A i \in 1..n + 1 : /\ i < k => from[i] \in 1..n /\ from[i] < k
                            /\ k < i => from[i] \in 1..n /\ k <= from[i]
    BY <1>1, SMT
  <2> HIDE DEF from
  <2>6. \A i \in 1..n + 1 : i < k => pending_calls[from[i]].discard_tp <= pc.discard_tp
    <3> SUFFICES ASSUME NEW i \in 1..n + 1, i < k
                 PROVE  pending_calls[from[i]].discard_tp <= pc.discard_tp
      BY Zenon
    <3>1. d[from[i]] < pc.discard_tp /\ d[from[i]] \in Nat
      BY <2>1, <2>2, <2>5, Zenon
    <3>2. d[from[i]] <= pc.discard_tp
      BY <1>1, <3>1, SMT
    <3> QED BY <2>1, <2>5, <3>2, Zenon
  <2>7. \A i \in 1..n + 1 : k < i => pc.discard_tp <= pending_calls[from[i]].discard_tp
    BY <2>1, <2>4, <2>5, Zenon
  <2> QED BY <2>6, <2>7, Zenon
<1> HIDE DEF from
<1>9. Pending' = Pending \cup {pc}
  <2>1. ASSUME NEW i \in 1..n + 1 PROVE pending_calls'[i] \in Pending \cup {pc}
    <3>1. i # k => from[i] \in 1..n /\ pending_calls'[i] = pending_calls[from[i]]
      BY <1>5, Zenon
    <3>2. i # k => pending_calls[from[i]] \in Pending
      BY <3>1, SMT DEF Pending
    <3> QED BY <1>5, <3>1, <3>2, SMT
  <2>2. ASSUME NEW c \in Pending PROVE c \in Pending'
    <3>1. PICK i \in 1..n : c = pending_calls[i]
      BY Zenon DEF Pending
    <3>2. PICK j \in 1..n + 1 : j # k /\ from[j] = i
      BY <1>6, Zenon
    <3>3. pending_calls'[j] = c
      BY <1>5, <3>1, <3>2, Zenon
    <3> QED BY <1>7, <3>3, Zenon
  <2>3. pc \in Pending'
    BY <1>5, <1>7, Zenon
  <2> QED BY <1>7, <2>1, <2>2, <2>3, SMT
<1>10. ASSUME NoRepeat, \A c \in Pending : c.svrid # pc.svrid PROVE NoRepeat'
  <2>1. \A i \in 1..n : pending_calls[i].svrid # pc.svrid
    BY <1>10, Zenon DEF Pending
  <2> SUFFICES ASSUME NEW i \in 1..n + 1, NEW j \in 1..n + 1, i # j
               PROVE  pending_calls'[i].svrid # pending_calls'[j].svrid
    BY <1>3, SMT DEF NoRepeat
  <2>2. CASE i = k \/ j = k
    BY <1>5, <2>1, <2>2, SMT
  <2>3. CASE i # k /\ j # k
    <3>1. /\ from[i] \in 1..n /\ pending_calls'[i] = pending_calls[from[i]]
          /\ from[j] \in 1..n /\ pending_calls'[j] = pending_calls[from[j]]
      BY <1>5, <2>3, Zenon
    <3>2. from[i] # from[j]
      BY <1>6, <2>3, Zenon
    <3> QED BY <1>10, <3>1, <3>2, SMT DEF NoRepeat
  <2> QED BY <2>2, <2>3, Zenon
<1>11. ASSUME Sorted PROVE Sorted'
  <2> SUFFICES ASSUME NEW i \in 1..n + 1, NEW j \in 1..n + 1, i < j
               PROVE  pending_calls'[i].discard_tp <= pending_calls'[j].discard_tp
    BY <1>3, Zenon DEF Sorted
  <2>1. CASE i = k
    <3>1. k < j /\ j # k
      BY <1>1, <2>1, SMT
    <3> QED BY <1>5, <1>8, <1>11, <2>1, <3>1, Zenon
  <2>2. CASE j = k
    <3>1. i < k /\ i # k
      BY <1>1, <2>2, SMT
    <3> QED BY <1>5, <1>8, <1>11, <2>2, <3>1, Zenon
  <2>3. CASE i # k /\ j # k
    <3>1. /\ from[i] \in 1..n /\ pending_calls'[i] = pending_calls[from[i]]
          /\ from[j] \in 1..n /\ pending_calls'[j] = pending_calls[from[j]]
      BY <1>5, <2>3, Zenon
    <3>2. from[i] < from[j]
      BY <1>6, <2>3, Zenon
    <3> QED BY <1>11, <3>1, <3>2, SMT DEF Sorted
  <2> QED BY <2>1, <2>2, <2>3, Zenon
<1> QED BY <1>9, <1>10, <1>11, Zenon
-----------------------------------------------------------------------------
(***************************************************************************)
(* The steps and the invariant of calls.                                   *)
(***************************************************************************)

\* The packet of a reply is what Replied collects.
LEMMA RepliedIs ==
  ASSUME NEW b, NEW k
  PROVE  k \in Replied(b) <=> \E p \in Waiting : /\ p.cmd = "reply" /\ p.sender = b
                                                 /\ p.svrid = k
BY Zenon DEF Replied

\* The same after a step.
LEMMA RepliedNext ==
  ASSUME NEW b, NEW k
  PROVE  k \in Replied(b)' <=> \E p \in Waiting' : /\ p.cmd = "reply" /\ p.sender = b
                                                   /\ p.svrid = k
BY Zenon DEF Replied

\* A step after which no reply waits that did not wait before.
LEMMA RepliedLess ==
  ASSUME \A p \in Waiting' : p.cmd = "reply" => p \in Waiting
  PROVE  \A b : Replied(b)' \subseteq Replied(b)
BY RepliedIs, RepliedNext, SMT

\* What is known of the calls does not change with what they do not depend on.
LEMMA AskedSame ==
  ASSUME UNCHANGED asked
  PROVE  \A call : (Known(call)' <=> Known(call)) /\ Target(call)' = Target(call)
BY Zenon DEF Known, Target

LEMMA AnswersSame ==
  ASSUME UNCHANGED answers
  PROVE  \A call : Unanswered(call)' <=> Unanswered(call)
BY Zenon DEF Unanswered

LEMMA AcceptedSame ==
  ASSUME UNCHANGED forwarded
  PROVE  AcceptedCalls' = AcceptedCalls
BY SMT DEF AcceptedCalls

LEMMA PendingSame ==
  ASSUME UNCHANGED pending_calls
  PROVE  Pending' = Pending /\ (NoRepeat => NoRepeat')
<1>1. Pending' = Pending
  BY SMT DEF Pending
<1>2. NoRepeat => NoRepeat'
  BY SMT DEF NoRepeat
<1> QED BY <1>1, <1>2, Zenon

LEMMA AcceptedOnceSame ==
  ASSUME AcceptedOnce, UNCHANGED <<forwarded, asked>>
  PROVE  AcceptedOnce'
BY Zenon DEF AcceptedOnce, Known

\* An answer that fits still does when more calls are asked or accepted.
LEMMA AnswerFitsNext ==
  ASSUME NEW call, NEW s, AnswerFits(call, s), Known(call)', Target(call)' = Target(call),
         \A k \in DOMAIN forwarded : k \in DOMAIN forwarded' /\ forwarded'[k] = forwarded[k]
  PROVE  AnswerFits(call, s)'
BY Zenon DEF AnswerFits

LEMMA AnswersFitNext ==
  ASSUME AnswersFit, UNCHANGED answers,
         \A a \in Adapter, c \in CallId : Known([sender |-> a, cliid |-> c]) =>
           /\ Known([sender |-> a, cliid |-> c])'
           /\ Target([sender |-> a, cliid |-> c])' = Target([sender |-> a, cliid |-> c]),
         \A k \in DOMAIN forwarded : k \in DOMAIN forwarded' /\ forwarded'[k] = forwarded[k]
  PROVE  AnswersFit'
<1> SUFFICES ASSUME NEW a \in Adapter, NEW c \in CallId, answers'[a][c] # <<>>
             PROVE  AnswerFits([sender |-> a, cliid |-> c], answers[a][c])'
  BY Zenon DEF AnswersFit
<1>1. PICK s : s = answers[a][c]
  BY Zenon
<1>2. PICK call : call = [sender |-> a, cliid |-> c]
  BY Zenon
<1>3. answers'[a][c] = s /\ s # <<>>
  BY <1>1, SMT
<1>a. AnswerFits([sender |-> a, cliid |-> c], answers[a][c])
  BY <1>1, <1>3, Zenon DEF AnswersFit
<1>4. AnswerFits(call, s)
  BY <1>1, <1>2, <1>a, Zenon
<1>5. Known(call)' /\ Target(call)' = Target(call)
  BY <1>2, <1>4, Zenon DEF AnswerFits
<1>6. AnswerFits(call, s)'
  BY <1>4, <1>5, AnswerFitsNext, Zenon
<1> QED BY <1>2, <1>3, <1>6, Zenon DEF AnswerFits

LEMMA AnswersFitSame ==
  ASSUME AnswersFit, UNCHANGED <<answers, asked, forwarded>>
  PROVE  AnswersFit'
<1>1. \A a \in Adapter, c \in CallId : Known([sender |-> a, cliid |-> c]) =>
        /\ Known([sender |-> a, cliid |-> c])'
        /\ Target([sender |-> a, cliid |-> c])' = Target([sender |-> a, cliid |-> c])
  BY AskedSame, Zenon
<1>2. \A k \in DOMAIN forwarded : k \in DOMAIN forwarded' /\ forwarded'[k] = forwarded[k]
  BY Zenon
<1> QED BY <1>1, <1>2, AnswersFitNext, Zenon

\* The steps that are not about calls, and the ends of calls that nobody hears of.
LEMMA CallsQuiet ==
  ASSUME CallsInv, UNCHANGED <<forwarded, asked, answers, incoming>>, AllDistinct',
         \A p \in Waiting' : p \in Waiting \/ p.cmd \notin {"call", "reply"},
         Pending' \subseteq Pending, NoRepeat'
  PROVE  CallsInv'
<1>1. CallsFresh'
  BY AskedSame, AnswersSame, AcceptedSame, Zenon DEF CallsInv, CallsFresh
<1>2. AcceptedOnce' /\ AnswersFit'
  BY AcceptedOnceSame, AnswersFitSame, Zenon DEF CallsInv
<1>3. \A b : Replied(b)' \subseteq Replied(b)
  BY RepliedLess, Zenon
<1>4. GivenFits'
  BY <1>3, ZenonT(40) DEF CallsInv, GivenFits, Target
<1>5. PendingFits'
  BY Zenon DEF CallsInv, PendingFits, Unanswered
<1> QED BY <1>1, <1>2, <1>4, <1>5, Zenon DEF CallsInv

\* What a client asks does not change what it has asked before.
LEMMA AskedGrows ==
  ASSUME TypeInv, NEW a \in Adapter, NEW p \in Request(a), Send(a, p)
  PROVE  /\ \A call : call.sender \in Adapter /\ Known(call) =>
              Known(call)' /\ Target(call)' = Target(call)
         /\ p.cmd = "call" => /\ ~Known(Key(p)) /\ Known(Key(p))'
                              /\ Target(Key(p))' = p.target
<1>1. asked \in [Adapter -> Seq(Name \cup {NoName})] /\ asked[a] \in Seq(Name \cup {NoName})
  BY Zenon DEF TypeInv, TypeOK
<1>2. CASE p.cmd # "call"
  <2>1. asked' = asked
    BY <1>2, Zenon DEF Send
  <2> QED BY <1>2, <2>1, Zenon DEF Known, Target
<1>3. CASE p.cmd = "call"
  <2>1. /\ p.sender = a /\ p.cliid = Len(asked[a]) + 1 /\ p.target \in Name \cup {NoName}
        /\ asked' = [asked EXCEPT ![a] = Append(asked[a], p.target)]
    BY <1>3, Zenon DEF Send, Request, RequestOf
  <2>2. asked'[a] = Append(asked[a], p.target) /\ \A b \in Adapter \ {a} : asked'[b] = asked[b]
    BY <1>1, <2>1, Zenon
  <2>3. /\ Len(asked[a]) \in Nat /\ Len(asked'[a]) = Len(asked[a]) + 1
        /\ \A i \in 1..Len(asked[a]) : asked'[a][i] = asked[a][i]
        /\ asked'[a][Len(asked[a]) + 1] = p.target
    BY <1>1, <2>1, <2>2, AppendProperties, LenProperties, SMT
  <2>4. /\ \A i \in 1..Len(asked[a]) : i \in 1..Len(asked'[a])
        /\ p.cliid \notin 1..Len(asked[a]) /\ p.cliid \in 1..Len(asked'[a])
    BY <2>1, <2>3, SMT
  <2>5. p.cmd = "call" => /\ ~Known(Key(p)) /\ Known(Key(p))'
                          /\ Target(Key(p))' = p.target
    BY <2>1, <2>3, <2>4, Zenon DEF Known, Target, Key
  <2>6. ASSUME NEW call, call.sender \in Adapter, Known(call)
        PROVE  Known(call)' /\ Target(call)' = Target(call)
    BY <2>2, <2>3, <2>4, <2>6, Zenon DEF Known, Target
  <2> QED BY <2>5, <2>6, Zenon
<1> QED BY <1>2, <1>3, Zenon

\* The calls that have been accepted, by their numbers.
LEMMA ForwardedTypes ==
  ASSUME TypeInv
  PROVE  /\ forwarded \in Seq([sender : Adapter, cliid : CallId]) /\ Len(forwarded) \in Nat
         /\ DOMAIN forwarded = 1..Len(forwarded)
         /\ \A k \in DOMAIN forwarded : /\ forwarded[k] \in [sender : Adapter, cliid : CallId]
                                        /\ forwarded[k].sender \in Adapter
                                        /\ forwarded[k].cliid \in CallId
<1>1. forwarded \in Seq([sender : Adapter, cliid : CallId])
  BY Zenon DEF TypeInv, TypeOK
<1>2. Len(forwarded) \in Nat /\ DOMAIN forwarded = 1..Len(forwarded)
  BY <1>1, LenProperties, Zenon
<1>3. \A k \in DOMAIN forwarded : forwarded[k] \in [sender : Adapter, cliid : CallId]
  BY <1>1, <1>2, ElementOfSeq, Zenon
<1> QED BY <1>1, <1>2, <1>3, Zenon

\* A client sends a request.
LEMMA CallsSend ==
  ASSUME TypeInv, CallsInv, NEW a \in Adapter, NEW p \in Request(a), Send(a, p)
  PROVE  CallsInv'
<1>0. /\ p \in Packet /\ p.sender = a /\ p.cmd # "reply" /\ put(p)
      /\ UNCHANGED <<pending_cmds, it, forwarded, pending_calls, answers, incoming>>
  BY SentIsPacket, Zenon DEF Send, Request, RequestOf
<1>1. /\ \A call : call.sender \in Adapter /\ Known(call) =>
           Known(call)' /\ Target(call)' = Target(call)
      /\ p.cmd = "call" => /\ ~Known(Key(p)) /\ Known(Key(p))'
                           /\ Target(Key(p))' = p.target
  BY AskedGrows, Zenon
<1>2. \A q \in Waiting : q.sender \in Adapter /\ (q.cmd = "call" => q.cliid \in CallId)
  BY WaitingType, PacketFields, Zenon
<1>3. \A q \in Waiting : q.cmd = "call" => Key(q).sender \in Adapter /\ Known(Key(q))
  BY <1>2, Zenon DEF CallsInv, CallsFresh, Key
<1>4. \A q \in Waiting : Distinct(q, p)
  <2> SUFFICES ASSUME NEW q \in Waiting, q.sender = p.sender, q.cmd = "call", p.cmd = "call",
                      q.cliid = p.cliid
               PROVE  FALSE
    BY <1>0, Zenon DEF Distinct
  <2>1. Key(q) = Key(p)
    BY Zenon DEF Key
  <2> QED BY <1>1, <1>3, <2>1, Zenon
<1>5. Waiting' = Waiting \cup {p} /\ AllDistinct'
  BY <1>0, <1>4, WaitingPut, Zenon DEF CallsInv
<1>6. \A k \in DOMAIN forwarded : /\ Known(forwarded[k]) /\ Known(forwarded[k])'
                                  /\ Target(forwarded[k])' = Target(forwarded[k])
  <2>1. \A k \in DOMAIN forwarded : Known(forwarded[k]) /\ forwarded[k].sender \in Adapter
    BY ForwardedTypes, Zenon DEF CallsInv, AcceptedOnce
  <2>2. ASSUME NEW k \in DOMAIN forwarded
        PROVE  Known(forwarded[k])' /\ Target(forwarded[k])' = Target(forwarded[k])
    <3>1. forwarded'[k] = forwarded[k]
      BY <1>0, Zenon
    <3> QED BY <1>1, <2>1, <3>1, Zenon DEF Known, Target
  <2> QED BY <2>1, <2>2, Zenon
<1>7. p.cmd = "call" => Unanswered(Key(p)) /\ Key(p) \notin AcceptedCalls
  <2> SUFFICES ASSUME p.cmd = "call" PROVE Unanswered(Key(p)) /\ Key(p) \notin AcceptedCalls
    BY Zenon
  <2>1. p.cliid \in CallId /\ Key(p) = [sender |-> a, cliid |-> p.cliid]
    BY <1>0, PacketFields, Zenon DEF Key
  <2>k. ~Known([sender |-> a, cliid |-> p.cliid])
    BY <1>1, <2>1, Zenon
  <2>2. answers[a][p.cliid] = <<>>
    BY <2>1, <2>k, Zenon DEF CallsInv, AnswersFit, AnswerFits
  <2>f. Key(p).sender = a /\ Key(p).cliid = p.cliid
    BY <1>0, Zenon DEF Key
  <2>u. Unanswered(Key(p))
    BY <2>2, <2>f, Zenon DEF Unanswered
  <2>3. Key(p) \notin AcceptedCalls
    BY <1>1, <1>6, Zenon DEF AcceptedCalls
  <2> QED BY <2>u, <2>3, Zenon
<1>8. CallsFresh'
  <2>1. \A q \in Waiting : q.cmd = "call" =>
          /\ Known(Key(q))' /\ Target(Key(q))' = q.target
          /\ Unanswered(Key(q))' /\ Key(q) \notin AcceptedCalls'
    BY <1>0, <1>1, <1>3, AnswersSame, AcceptedSame, Zenon DEF CallsInv, CallsFresh
  <2>2. p.cmd = "call" =>
          /\ Known(Key(p))' /\ Target(Key(p))' = p.target
          /\ Unanswered(Key(p))' /\ Key(p) \notin AcceptedCalls'
    BY <1>0, <1>1, <1>7, AnswersSame, AcceptedSame, Zenon
  <2> QED BY <1>5, <2>1, <2>2, Zenon DEF CallsFresh
<1>9. AcceptedOnce'
  BY <1>0, <1>6, Zenon DEF CallsInv, AcceptedOnce
<1>10. GivenFits'
  <2>1. \A b : Replied(b)' \subseteq Replied(b)
    BY <1>0, <1>5, RepliedLess, Zenon
  <2> QED BY <1>0, <1>6, <2>1, Zenon DEF CallsInv, GivenFits
<1>11. PendingFits'
  BY <1>0, AnswersSame, PendingSame, Zenon DEF CallsInv, PendingFits
<1>12. AnswersFit'
  <2>1. \A b \in Adapter, c \in CallId : Known([sender |-> b, cliid |-> c]) =>
          /\ Known([sender |-> b, cliid |-> c])'
          /\ Target([sender |-> b, cliid |-> c])' = Target([sender |-> b, cliid |-> c])
    BY <1>1, Zenon
  <2>2. \A k \in DOMAIN forwarded : k \in DOMAIN forwarded' /\ forwarded'[k] = forwarded[k]
    BY <1>0, Zenon
  <2> QED BY <1>0, <2>1, <2>2, AnswersFitNext, Zenon DEF CallsInv
<1> QED BY <1>5, <1>8, <1>9, <1>10, <1>11, <1>12, Zenon DEF CallsInv

\* A client replies to a call.
LEMMA CallsReply ==
  ASSUME TypeInv, CallsInv, NEW a \in Adapter, NEW svrid \in incoming[a], NEW d \in Data,
         SendReply(a, svrid, d)
  PROVE  CallsInv'
<1> DEFINE p == [cmd |-> "reply", sender |-> a, svrid |-> svrid, data |-> d]
<1>1. incoming \in [Adapter -> SUBSET Nat]
  BY Zenon DEF TypeInv, TypeOK
<1>2. p \in Packet /\ p.sender = a /\ p.cmd = "reply" /\ p.svrid = svrid
  BY <1>1, Zenon DEF Packet
<1> HIDE DEF p
<1>3. /\ put(p) /\ UNCHANGED <<pending_cmds, it, forwarded, pending_calls, answers, asked>>
      /\ incoming' = [incoming EXCEPT ![a] = @ \ {svrid}]
  BY Zenon DEF SendReply, p
<1>4. \A q \in Waiting : Distinct(q, p)
  BY <1>2, RepliedIs, SMT DEF Distinct, CallsInv, GivenFits
<1>5. Waiting' = Waiting \cup {p} /\ AllDistinct'
  BY <1>2, <1>3, <1>4, WaitingPut, Zenon DEF CallsInv
<1>6. /\ \A b : Replied(b)' \subseteq Replied(b) \cup {k \in {svrid} : b = a}
  BY <1>2, <1>5, RepliedIs, RepliedNext, SMT
<1>7. /\ \A b \in Adapter : incoming'[b] \subseteq incoming[b]
      /\ svrid \notin incoming'[a]
  BY <1>1, <1>3, Zenon
<1>8. GivenFits'
  <2> SUFFICES ASSUME NEW b \in Adapter
               PROVE  /\ \A k \in incoming'[b] \cup Replied(b)' :
                           k \in DOMAIN forwarded /\ Target(forwarded[k])' = ClientName[b]
                      /\ incoming'[b] \cap Replied(b)' = {}
    BY <1>3, Zenon DEF GivenFits
  <2>1. \A k \in incoming'[b] \cup Replied(b)' : k \in incoming[b] \cup Replied(b)
    BY <1>6, <1>7, SMT
  <2>2. \A k \in DOMAIN forwarded : Target(forwarded[k])' = Target(forwarded[k])
    BY <1>3, Zenon DEF Target
  <2>3. incoming'[b] \cap Replied(b)' = {}
    BY <1>6, <1>7, SMT DEF CallsInv, GivenFits
  <2> QED BY <2>1, <2>2, <2>3, Zenon DEF CallsInv, GivenFits
<1>9. CallsFresh'
  <2>1. \A q \in Waiting' : q.cmd = "call" => q \in Waiting
    BY <1>2, <1>5, Zenon
  <2> QED BY <1>3, <2>1, AskedSame, AnswersSame, AcceptedSame, Zenon DEF CallsInv, CallsFresh
<1>10. AcceptedOnce' /\ AnswersFit'
  BY <1>3, AcceptedOnceSame, AnswersFitSame, Zenon DEF CallsInv
<1>11. PendingFits'
  BY <1>3, AnswersSame, PendingSame, Zenon DEF CallsInv, PendingFits
<1> QED BY <1>5, <1>8, <1>9, <1>10, <1>11, Zenon DEF CallsInv

\* What a write about one call does to the answers: at most ans comes of it.
OnlyAnswer(a, c, ans) ==
  /\ \A b \in Adapter, d \in CallId : b # a \/ d # c => answers'[b][d] = answers[b][d]
  /\ answers'[a][c] = <<>> \/ answers'[a][c] = <<ans>>

\* A write about a call that has not been answered is its only answer.
LEMMA AnswerAdds ==
  ASSUME TypeInv, NEW a \in Adapter, NEW c \in CallId, NEW code, NEW from, NEW svrid,
         NEW failed, Answer(a, c, code, from, svrid, failed), answers[a][c] = <<>>
  PROVE  OnlyAnswer(a, c, [code |-> code, from |-> from, svrid |-> svrid])
<1>1. answers \in [Adapter -> [CallId -> Seq(CallAnswer)]]
  BY Zenon DEF TypeInv, TypeOK
<1> DEFINE ans == [code |-> code, from |-> from, svrid |-> svrid]
<1>2. \/ answers' = answers
      \/ answers' = [answers EXCEPT ![a] = [answers[a] EXCEPT ![c] = Append(answers[a][c], ans)]]
  BY Zenon DEF Answer
<1> HIDE DEF ans
<1>3. Append(answers[a][c], ans) = <<ans>>
  BY SMT
<1>4. CASE answers' = answers
  BY <1>4, Zenon DEF OnlyAnswer, ans
<1>5. CASE answers' = [answers EXCEPT ![a] = [answers[a] EXCEPT ![c] = <<ans>>]]
  BY <1>1, <1>5, Zenon DEF OnlyAnswer, ans
<1> QED BY <1>2, <1>3, <1>4, <1>5, Zenon

\* What an answer has to say to fit.
LEMMA OneAnswerFits ==
  ASSUME NEW call, NEW ans, Known(call),
         ans.code = "success" => /\ ans.svrid \in DOMAIN forwarded
                                 /\ forwarded[ans.svrid] = call
                                 /\ ClientName[ans.from] = Target(call)
  PROVE  AnswerFits(call, <<ans>>)
<1>1. Len(<<ans>>) = 1 /\ <<ans>>[1] = ans
  BY SMT
<1> QED BY <1>1, Zenon DEF AnswerFits

\* The other calls stay unanswered.
LEMMA OthersUnanswered ==
  ASSUME NEW a \in Adapter, NEW c \in CallId, NEW ans, OnlyAnswer(a, c, ans), NEW p,
         p.sender \in Adapter, p.cliid \in CallId,
         Key(p) # [sender |-> a, cliid |-> c], Unanswered(Key(p))
  PROVE  Unanswered(Key(p))'
<1>1. p.sender # a \/ p.cliid # c
  BY Zenon DEF Key
<1>2. answers'[p.sender][p.cliid] = answers[p.sender][p.cliid]
  BY <1>1, Zenon DEF OnlyAnswer
<1>3. Key(p).sender = p.sender /\ Key(p).cliid = p.cliid
  BY Zenon DEF Key
<1> QED BY <1>2, <1>3, Zenon DEF Unanswered

\* Every answer fits after a step that answers one call, if that answer does.
LEMMA AnswersFitMore ==
  ASSUME AnswersFit, UNCHANGED <<forwarded, asked>>, NEW a \in Adapter, NEW c \in CallId,
         NEW ans, OnlyAnswer(a, c, ans), AnswerFits([sender |-> a, cliid |-> c], <<ans>>)
  PROVE  AnswersFit'
<1> SUFFICES ASSUME NEW b \in Adapter, NEW d \in CallId, answers'[b][d] # <<>>
             PROVE  AnswerFits([sender |-> b, cliid |-> d], answers[b][d])'
  BY Zenon DEF AnswersFit
<1>1. PICK s : s = answers'[b][d]
  BY Zenon
<1>2. PICK call : call = [sender |-> b, cliid |-> d]
  BY Zenon
<1>3. AnswerFits(call, s)
  <2>1. CASE b # a \/ d # c
    BY <1>1, <1>2, <2>1, Zenon DEF OnlyAnswer, AnswersFit
  <2>2. CASE b = a /\ d = c
    <3>1. s = <<ans>>
      BY <1>1, <2>2, Zenon DEF OnlyAnswer
    <3> QED BY <1>2, <2>2, <3>1, Zenon
  <2> QED BY <2>1, <2>2, Zenon
<1>4. Known(call)' /\ Target(call)' = Target(call)
  BY <1>3, AskedSame, Zenon DEF AnswerFits
<1>5. AnswerFits(call, s)'
  BY <1>3, <1>4, AnswerFitsNext, Zenon
<1> QED BY <1>1, <1>2, <1>5, Zenon DEF AnswerFits

\* A call is answered, and is nowhere else any more.
LEMMA CallsAnswer ==
  ASSUME TypeInv, CallsInv, NEW a \in Adapter, NEW c \in CallId, NEW ans,
         OnlyAnswer(a, c, ans), AnswerFits([sender |-> a, cliid |-> c], <<ans>>),
         UNCHANGED <<forwarded, asked, incoming>>,
         Waiting' \subseteq Waiting, AllDistinct', Pending' \subseteq Pending, NoRepeat',
         \A p \in Waiting' : p.cmd = "call" => Key(p) # [sender |-> a, cliid |-> c],
         \A pc \in Pending' : Key(pc) # [sender |-> a, cliid |-> c]
  PROVE  CallsInv'
<1>4. CallsFresh'
  <2> SUFFICES ASSUME NEW p \in Waiting', p.cmd = "call"
               PROVE  /\ Known(Key(p))' /\ Target(Key(p))' = p.target
                      /\ Unanswered(Key(p))' /\ Key(p) \notin AcceptedCalls'
    BY Zenon DEF CallsFresh
  <2>1. p.sender \in Adapter /\ p.cliid \in CallId
    BY WaitingType, PacketFields, Zenon
  <2>2. /\ Known(Key(p)) /\ Target(Key(p)) = p.target
        /\ Unanswered(Key(p)) /\ Key(p) \notin AcceptedCalls
    BY Zenon DEF CallsInv, CallsFresh
  <2>3. Unanswered(Key(p))'
    BY <2>1, <2>2, OthersUnanswered, Zenon
  <2> QED BY <2>2, <2>3, AskedSame, AcceptedSame, Zenon
<1>5. AcceptedOnce'
  BY AcceptedOnceSame, Zenon DEF CallsInv
<1>6. \A b : Replied(b)' \subseteq Replied(b)
  BY RepliedLess, Zenon
<1>7. GivenFits'
  BY <1>6, ZenonT(40) DEF CallsInv, GivenFits, Target
<1>8. PendingFits'
  <2> SUFFICES ASSUME NEW pc \in Pending'
               PROVE  /\ pc.svrid \in DOMAIN forwarded /\ forwarded[pc.svrid] = Key(pc)
                      /\ Unanswered(Key(pc))'
    BY Zenon DEF PendingFits
  <2>1. pc.sender \in Adapter /\ pc.cliid \in CallId
    BY PendingMembers, Zenon
  <2>2. /\ pc.svrid \in DOMAIN forwarded /\ forwarded[pc.svrid] = Key(pc)
        /\ Unanswered(Key(pc))
    BY Zenon DEF CallsInv, PendingFits
  <2> QED BY <2>1, <2>2, OthersUnanswered, Zenon
<1>9. AnswersFit'
  BY AnswersFitMore, Zenon DEF CallsInv
<1> QED BY <1>4, <1>5, <1>7, <1>8, <1>9, Zenon DEF CallsInv

\* A pending call, and what is known of it.
LEMMA PendingKnown ==
  ASSUME TypeInv, CallsInv, NEW pc \in Pending
  PROVE  /\ pc \in PendingCall
         /\ pc.sender \in Adapter /\ pc.cliid \in CallId /\ pc.svrid \in Nat
         /\ pc.svrid \in DOMAIN forwarded /\ forwarded[pc.svrid] = Key(pc)
         /\ Known(Key(pc)) /\ answers[pc.sender][pc.cliid] = <<>>
         /\ Key(pc) \in AcceptedCalls
         /\ NoRepeat => \A c \in Pending : Key(c) = Key(pc) => c = pc
<1>1. pc \in PendingCall
  BY PendingMembers, Zenon
<1>2. pc.sender \in Adapter /\ pc.cliid \in CallId /\ pc.svrid \in Nat
  BY PendingMembers, Zenon
<1>3. /\ pc.svrid \in DOMAIN forwarded /\ forwarded[pc.svrid] = Key(pc)
      /\ Unanswered(Key(pc))
  BY Zenon DEF CallsInv, PendingFits
<1>4. answers[pc.sender][pc.cliid] = <<>>
  BY <1>3, Zenon DEF Unanswered, Key
<1>5. Known(Key(pc)) /\ Key(pc) \in AcceptedCalls
  BY <1>3, SMT DEF CallsInv, AcceptedOnce, AcceptedCalls
<1>6. ASSUME NoRepeat, NEW c \in Pending, Key(c) = Key(pc) PROVE c = pc
  <2>1. c.svrid \in DOMAIN forwarded /\ forwarded[c.svrid] = Key(c)
    BY Zenon DEF CallsInv, PendingFits
  <2>2. c.svrid = pc.svrid
    BY <1>3, <1>6, <2>1, Zenon DEF CallsInv, AcceptedOnce
  <2>3. PICK i \in 1..Len(pending_calls) : pc = pending_calls[i]
    BY Zenon DEF Pending
  <2>4. PICK j \in 1..Len(pending_calls) : c = pending_calls[j]
    BY Zenon DEF Pending
  <2> QED BY <1>6, <2>2, <2>3, <2>4, Zenon DEF NoRepeat
<1> QED BY <1>1, <1>2, <1>3, <1>4, <1>5, <1>6, Zenon

\* A pending call times out.
LEMMA CallsDiscard ==
  ASSUME TypeInv, CallsInv, DiscardCall
  PROVE  CallsInv'
<1>1. /\ pending_calls # <<>> /\ pending_calls' = Tail(pending_calls)
      /\ UNCHANGED queueVars /\ UNCHANGED <<forwarded, asked, incoming>> /\ NoRepeat
  BY Zenon DEF DiscardCall, Overdue, CallsInv, PendingFits
<1>2. PICK pc \in Pending : pc = Head(pending_calls)
  BY <1>1, PendingDiscarded, Zenon
<1>3. Pending' \subseteq Pending /\ NoRepeat' /\ pc \notin Pending'
  BY <1>1, <1>2, PendingDiscarded, Zenon
<1>4. PICK a \in Adapter, c \in CallId, k \in Nat :
        a = pc.sender /\ c = pc.cliid /\ k = pc.svrid
  BY PendingMembers, Zenon
<1>5. PICK failed : Answer(a, c, "etimeout", NoAdapter, k, failed)
  BY <1>2, <1>4, Zenon DEF DiscardCall
<1>6. Key(pc) = [sender |-> a, cliid |-> c]
  BY <1>4, Zenon DEF Key
<1>7. /\ Known([sender |-> a, cliid |-> c]) /\ answers[a][c] = <<>>
      /\ [sender |-> a, cliid |-> c] \in AcceptedCalls
      /\ \A d \in Pending : Key(d) = [sender |-> a, cliid |-> c] => d = pc
  BY <1>1, <1>4, <1>6, PendingKnown, Zenon
<1>8. PICK ans : OnlyAnswer(a, c, ans) /\ AnswerFits([sender |-> a, cliid |-> c], <<ans>>)
  <2> DEFINE ans == [code |-> "etimeout", from |-> NoAdapter, svrid |-> k]
  <2>1. ans.code # "success"
    OBVIOUS
  <2>2. OnlyAnswer(a, c, ans)
    BY <1>5, <1>7, AnswerAdds, Zenon
  <2> HIDE DEF ans
  <2> QED BY <1>7, <2>1, <2>2, OneAnswerFits, Zenon
<1>9. Waiting' = Waiting /\ AllDistinct'
  BY <1>1, WaitingSame, Zenon DEF CallsInv
<1>10. /\ \A p \in Waiting' : p.cmd = "call" => Key(p) # [sender |-> a, cliid |-> c]
       /\ \A d \in Pending' : Key(d) # [sender |-> a, cliid |-> c]
  BY <1>3, <1>7, <1>9, Zenon DEF CallsInv, CallsFresh
<1> QED BY <1>1, <1>3, <1>8, <1>9, <1>10, CallsAnswer, Zenon

\* The handlers that are not about calls, and those that lose a reply.
LEMMA CallsOther ==
  ASSUME TypeInv, CallsInv, Handle, UNCHANGED <<callVars, incoming, answers>>
  PROVE  CallsInv'
<1>1. UNCHANGED asked
  BY HandleAdvances, Zenon DEF Advance
<1>2. Waiting' \subseteq Waiting /\ AllDistinct'
  BY WaitingHandle, Zenon DEF CallsInv
<1>3. Pending' = Pending /\ NoRepeat'
  BY PendingSame, Zenon DEF CallsInv, PendingFits
<1> QED BY <1>1, <1>2, <1>3, CallsQuiet, Zenon

\* The packet of a call when it is handled.
LEMMA CmdIsCall ==
  ASSUME TypeInv, CallsInv, Handle, Cmd.cmd = "call"
  PROVE  /\ Cmd \in Waiting /\ Cmd.sender \in Adapter /\ Cmd.cliid \in CallId
         /\ Cmd.target \in Name \cup {NoName} /\ Cmd.timeout \in Nat
         /\ Known(Key(Cmd)) /\ Target(Key(Cmd)) = Cmd.target
         /\ Unanswered(Key(Cmd)) /\ Key(Cmd) \notin AcceptedCalls
         /\ \A p \in Waiting' : p.cmd = "call" => Key(p) # Key(Cmd)
<1>1. Cmd \in Waiting /\ \A p \in Waiting' : Distinct(Cmd, p)
  BY WaitingHandle, Zenon DEF CallsInv
<1>2. /\ Cmd.sender \in Adapter /\ Cmd.cliid \in CallId
      /\ Cmd.target \in Name \cup {NoName} /\ Cmd.timeout \in Nat
  BY HandleAdvances, PacketFields, Zenon
<1>3. /\ Known(Key(Cmd)) /\ Target(Key(Cmd)) = Cmd.target
      /\ Unanswered(Key(Cmd)) /\ Key(Cmd) \notin AcceptedCalls
  BY <1>1, Zenon DEF CallsInv, CallsFresh
<1>4. ASSUME NEW p \in Waiting', p.cmd = "call", Key(p) = Key(Cmd) PROVE FALSE
  <2>1. p.sender = Cmd.sender /\ p.cliid = Cmd.cliid
    BY <1>4, SMT DEF Key
  <2> QED BY <1>1, <1>4, <2>1, Zenon DEF Distinct
<1> QED BY <1>1, <1>2, <1>3, <1>4, Zenon

\* A call of a method that nobody has.
LEMMA CallsUnknown ==
  ASSUME TypeInv, CallsInv, Handle, CallUnknown
  PROVE  CallsInv'
<1>1. /\ Cmd.cmd = "call" /\ UNCHANGED <<callVars, incoming>> /\ UNCHANGED asked
  BY Zenon DEF CallUnknown, Accepted, Handling, Advance
<1>2. PICK a \in Adapter, c \in CallId : a = Cmd.sender /\ c = Cmd.cliid
  BY <1>1, CmdIsCall, Zenon
<1>3. PICK failed : Answer(a, c, "enexists", NoAdapter, 0, failed)
  BY <1>2, Zenon DEF CallUnknown
<1>4. Key(Cmd) = [sender |-> a, cliid |-> c]
  BY <1>2, Zenon DEF Key
<1>5. /\ Known([sender |-> a, cliid |-> c]) /\ Unanswered([sender |-> a, cliid |-> c])
      /\ [sender |-> a, cliid |-> c] \notin AcceptedCalls
      /\ \A p \in Waiting' : p.cmd = "call" => Key(p) # [sender |-> a, cliid |-> c]
  BY <1>1, <1>4, CmdIsCall, Zenon
<1>6. answers[a][c] = <<>>
  BY <1>5, Zenon DEF Unanswered
<1>7. PICK ans : OnlyAnswer(a, c, ans) /\ AnswerFits([sender |-> a, cliid |-> c], <<ans>>)
  <2> DEFINE ans == [code |-> "enexists", from |-> NoAdapter, svrid |-> 0]
  <2>1. ans.code # "success"
    OBVIOUS
  <2>2. OnlyAnswer(a, c, ans)
    BY <1>3, <1>6, AnswerAdds, Zenon
  <2> HIDE DEF ans
  <2> QED BY <1>5, <2>1, <2>2, OneAnswerFits, Zenon
<1>8. Waiting' \subseteq Waiting /\ AllDistinct'
  BY WaitingHandle, Zenon DEF CallsInv
<1>9. Pending' = Pending /\ NoRepeat'
  BY <1>1, PendingSame, Zenon DEF CallsInv, PendingFits
<1>10. \A pc \in Pending' : Key(pc) # [sender |-> a, cliid |-> c]
  BY <1>5, <1>9, PendingKnown, Zenon
<1> QED BY <1>1, <1>5, <1>7, <1>8, <1>9, <1>10, CallsAnswer, Zenon

\* A reply reaches its caller, or the caller turns out to be gone.
LEMMA CallsReplied ==
  ASSUME TypeInv, CallsInv, Handle, NEW i \in 1..Len(pending_calls), ReplyForward(i)
  PROVE  CallsInv'
<1>1. /\ Cmd.cmd = "reply" /\ UNCHANGED <<forwarded, incoming>> /\ UNCHANGED asked
      /\ pending_calls' = Removed(i) /\ NoRepeat
      /\ pending_calls[i].svrid = Cmd.svrid
  BY Zenon DEF ReplyForward, ReplyTo, Matches, Accepted, Handling, Advance, CallsInv, PendingFits
<1>2. PICK pc \in Pending : pc = pending_calls[i]
  BY Zenon DEF Pending
<1>3. Pending' \subseteq Pending /\ NoRepeat' /\ pc \notin Pending'
  BY <1>1, <1>2, PendingReplied, Zenon
<1>4. PICK a \in Adapter, c \in CallId, k \in Nat :
        a = pc.sender /\ c = pc.cliid /\ k = pc.svrid
  BY PendingMembers, Zenon
<1>b. PICK b \in Adapter : b = Cmd.sender
  BY HandleAdvances, Zenon
<1>5. PICK failed : Answer(a, c, "success", b, k, failed)
  <2>1. PICK failed : Answer(pending_calls[i].sender, pending_calls[i].cliid, "success",
                             Cmd.sender, Cmd.svrid, failed)
    BY Zenon DEF ReplyForward
  <2>2. k = Cmd.svrid /\ a = pending_calls[i].sender /\ c = pending_calls[i].cliid
    BY <1>1, <1>2, <1>4, Zenon
  <2> QED BY <1>b, <2>1, <2>2, SMT
<1>6. Key(pc) = [sender |-> a, cliid |-> c]
  BY <1>4, Zenon DEF Key
<1>7. /\ Known([sender |-> a, cliid |-> c]) /\ answers[a][c] = <<>>
      /\ [sender |-> a, cliid |-> c] \in AcceptedCalls
      /\ k \in DOMAIN forwarded /\ forwarded[k] = [sender |-> a, cliid |-> c]
      /\ \A d \in Pending : Key(d) = [sender |-> a, cliid |-> c] => d = pc
  BY <1>1, <1>4, <1>6, PendingKnown, Zenon
<1>8. ClientName[b] = Target([sender |-> a, cliid |-> c])
  <2>1. k \in Replied(b)
    BY <1>1, <1>2, <1>4, <1>b, WaitingHandle, RepliedIs, Zenon DEF CallsInv
  <2>2. Target(forwarded[k]) = ClientName[b]
    BY <2>1, Zenon DEF CallsInv, GivenFits
  <2> QED BY <1>7, <2>2, Zenon
<1>9. PICK ans : OnlyAnswer(a, c, ans) /\ AnswerFits([sender |-> a, cliid |-> c], <<ans>>)
  <2> DEFINE ans == [code |-> "success", from |-> b, svrid |-> k]
  <2>1. ans.from = b /\ ans.svrid = k
    OBVIOUS
  <2>2. OnlyAnswer(a, c, ans)
    BY <1>5, <1>7, AnswerAdds, Zenon
  <2> HIDE DEF ans
  <2>3. /\ ans.svrid \in DOMAIN forwarded
        /\ forwarded[ans.svrid] = [sender |-> a, cliid |-> c]
        /\ ClientName[ans.from] = Target([sender |-> a, cliid |-> c])
    BY <1>7, <1>8, <2>1, Zenon
  <2> QED BY <1>7, <2>2, <2>3, OneAnswerFits, Zenon
<1>10. Waiting' \subseteq Waiting /\ AllDistinct'
  BY WaitingHandle, Zenon DEF CallsInv
<1>11. /\ \A p \in Waiting' : p.cmd = "call" => Key(p) # [sender |-> a, cliid |-> c]
       /\ \A d \in Pending' : Key(d) # [sender |-> a, cliid |-> c]
  BY <1>3, <1>7, <1>10, Zenon DEF CallsInv, CallsFresh
<1> QED BY <1>1, <1>3, <1>9, <1>10, <1>11, CallsAnswer, Zenon

\* What add_pending_call inserts.
LEMMA NewPending ==
  ASSUME TypeInv, Handle, CallForward
  PROVE  \E pc \in PendingCall, k \in 1..Len(pending_calls) + 1 :
           /\ pc.svrid = Len(forwarded) + 1 /\ Key(pc) = Key(Cmd)
           /\ InsertedAt(k, pc.discard_tp) /\ pending_calls' = Inserted(k, pc)
<1>1. /\ Cmd.sender \in Adapter /\ Cmd.cliid \in CallId
      /\ Cmd.target \in Name \cup {NoName} /\ Cmd.timeout \in Nat
  BY HandleAdvances, PacketFields, Zenon DEF CallForward, Accepted, Handling
<1>2. FindNamed(Cmd.target) \in Adapter
  BY <1>1, Zenon DEF CallForward, Callable, FindNamed, TypeInv, TypeOK
<1> DEFINE t == Deadline(Cmd.timeout)
<1> DEFINE new == [svrid |-> Len(forwarded) + 1, cliid |-> Cmd.cliid, sender |-> Cmd.sender,
                   target |-> FindNamed(Cmd.target), discard_tp |-> t]
<1>3. now \in Nat
  BY Zenon DEF TypeInv, TypeOK
<1>4. t \in Nat /\ Len(forwarded) + 1 \in Nat
  BY <1>1, <1>3, ForwardedTypes, SMT DEF Deadline
<1>5. PICK k \in 1..Len(pending_calls) + 1 :
        InsertedAt(k, t) /\ pending_calls' = Inserted(k, new)
  BY Zenon DEF CallForward, add_pending_call, reqseq
<1>6. /\ new \in PendingCall /\ new.svrid = Len(forwarded) + 1 /\ new.discard_tp = t
      /\ new.sender = Cmd.sender /\ new.cliid = Cmd.cliid
  BY <1>1, <1>2, <1>4, Zenon DEF PendingCall
<1> HIDE DEF new, t
<1>7. PICK pc \in PendingCall : pc = new
  BY <1>6, Zenon
<1>8. InsertedAt(k, pc.discard_tp) /\ pending_calls' = Inserted(k, pc)
  BY <1>5, <1>6, <1>7, Zenon
<1>9. pc.svrid = Len(forwarded) + 1 /\ Key(pc) = Key(Cmd)
  BY <1>6, <1>7, SMT DEF Key
<1> QED BY <1>8, <1>9, Zenon

\* The next call that is accepted.
LEMMA ForwardedGrows ==
  ASSUME TypeInv, NEW call \in [sender : Adapter, cliid : CallId],
         forwarded' = Append(forwarded, call), NEW n \in Nat, n = Len(forwarded) + 1
  PROVE  /\ DOMAIN forwarded' = DOMAIN forwarded \cup {n} /\ n \notin DOMAIN forwarded
         /\ forwarded'[n] = call /\ \A k \in DOMAIN forwarded : forwarded'[k] = forwarded[k]
<1>1. /\ forwarded \in Seq([sender : Adapter, cliid : CallId]) /\ Len(forwarded) \in Nat
      /\ DOMAIN forwarded = 1..Len(forwarded)
  BY ForwardedTypes, Zenon
<1>2. /\ forwarded' \in Seq([sender : Adapter, cliid : CallId])
      /\ Len(forwarded') = Len(forwarded) + 1
      /\ \A k \in 1..Len(forwarded) : forwarded'[k] = forwarded[k]
      /\ forwarded'[Len(forwarded) + 1] = call
  BY <1>1, AppendProperties, SMT
<1>3. DOMAIN forwarded' = 1..Len(forwarded) + 1
  BY <1>2, LenProperties, Zenon
<1> QED BY <1>1, <1>2, <1>3, SMT

\* No other call is accepted with it.
LEMMA AcceptedGrows ==
  ASSUME NEW call, NEW n, DOMAIN forwarded' = DOMAIN forwarded \cup {n},
         forwarded'[n] = call, \A k \in DOMAIN forwarded : forwarded'[k] = forwarded[k]
  PROVE  \A c \in AcceptedCalls' : c \in AcceptedCalls \/ c = call
BY SMT DEF AcceptedCalls

\* The target of a call that is accepted has the id that the call names.
LEMMA TargetFound ==
  ASSUME TypeInv, RegistryInv, CallsInv, Handle, CallForward
  PROVE  \E b \in Adapter : b = FindNamed(Cmd.target) /\ ClientName[b] = Cmd.target
<1>0. Cmd.cmd = "call"
  BY Zenon DEF CallForward, Accepted, Handling
<1>1. Cmd.target \in Name /\ named_adapters[Cmd.target] # NoAdapter
  BY <1>0, CmdIsCall, Zenon DEF CallForward, Callable, FindNamed
<1>2. named_adapters[Cmd.target] \in Adapter
  BY <1>1, Zenon DEF TypeInv, TypeOK
<1>3. FindNamed(Cmd.target) = named_adapters[Cmd.target]
  BY <1>1, Zenon DEF FindNamed
<1> QED BY <1>1, <1>2, <1>3, Zenon DEF RegistryInv, NamesFit

\* A call is accepted: it becomes pending, and its target may be given it.
LEMMA CallsAccepted ==
  ASSUME TypeInv, RegistryInv, CallsInv, Handle, CallForward
  PROVE  CallsInv'
<1>0. PICK n \in Nat : n = Len(forwarded) + 1
  BY ForwardedTypes, SMT
<1>1. Cmd.cmd = "call" /\ UNCHANGED <<answers, asked>>
  BY Zenon DEF CallForward, Accepted, Handling, Advance
<1>2. PICK call \in [sender : Adapter, cliid : CallId] : call = Key(Cmd)
  BY <1>1, CmdIsCall, Zenon DEF Key
<1>3. /\ Known(call) /\ Target(call) = Cmd.target /\ Unanswered(call) /\ call \notin AcceptedCalls
      /\ call.sender \in Adapter /\ call.cliid \in CallId
      /\ \A p \in Waiting' : p.cmd = "call" => Key(p) # call
  BY <1>1, <1>2, CmdIsCall, Zenon
<1>4. Waiting' \subseteq Waiting /\ AllDistinct'
  BY WaitingHandle, Zenon DEF CallsInv
<1>5. forwarded' = Append(forwarded, call)
  BY <1>2, Zenon DEF CallForward, Key
<1>6. /\ n \in Nat /\ DOMAIN forwarded' = DOMAIN forwarded \cup {n} /\ n \notin DOMAIN forwarded
      /\ forwarded'[n] = call /\ \A k \in DOMAIN forwarded : forwarded'[k] = forwarded[k]
  BY <1>0, <1>5, ForwardedGrows, Zenon
<1>7. PICK b \in Adapter : /\ b = FindNamed(Cmd.target) /\ ClientName[b] = Cmd.target
                           /\ \A a \in Adapter : /\ a # b => incoming'[a] = incoming[a]
                                                 /\ incoming'[a] \subseteq incoming[a] \cup {n}
  <2>1. PICK b \in Adapter : b = FindNamed(Cmd.target) /\ ClientName[b] = Cmd.target
    BY TargetFound, Zenon
  <2>2. incoming' = incoming \/ incoming' = [incoming EXCEPT ![b] = incoming[b] \cup {n}]
    BY <1>0, <2>1, Zenon DEF CallForward, reqseq
  <2>3. incoming \in [Adapter -> SUBSET Nat]
    BY Zenon DEF TypeInv, TypeOK
  <2>4. \A a \in Adapter : /\ a # b => incoming'[a] = incoming[a]
                           /\ incoming'[a] \subseteq incoming[a] \cup {n}
    BY <2>2, <2>3, Zenon
  <2> QED BY <2>1, <2>4, Zenon
<1>8. PICK pc \in PendingCall :
        /\ pc.svrid = n /\ Key(pc) = call /\ Pending' = Pending \cup {pc} /\ NoRepeat'
  <2>1. PICK pc \in PendingCall, k \in 1..Len(pending_calls) + 1 :
          /\ pc.svrid = n /\ Key(pc) = call
          /\ InsertedAt(k, pc.discard_tp) /\ pending_calls' = Inserted(k, pc)
    BY <1>0, <1>2, NewPending, Zenon
  <2>2. NoRepeat /\ \A c \in Pending : c.svrid # pc.svrid
    BY <1>6, <2>1, PendingKnown, Zenon DEF CallsInv, PendingFits
  <2>3. Pending' = Pending \cup {pc} /\ NoRepeat'
    BY <2>1, <2>2, PendingInserted, Zenon
  <2> QED BY <2>1, <2>3, Zenon
<1>9. CallsFresh'
  <2> SUFFICES ASSUME NEW p \in Waiting', p.cmd = "call"
               PROVE  /\ Known(Key(p))' /\ Target(Key(p))' = p.target
                      /\ Unanswered(Key(p))' /\ Key(p) \notin AcceptedCalls'
    BY Zenon DEF CallsFresh
  <2>1. /\ Known(Key(p)) /\ Target(Key(p)) = p.target
        /\ Unanswered(Key(p)) /\ Key(p) \notin AcceptedCalls /\ Key(p) # call
    BY <1>3, <1>4, Zenon DEF CallsInv, CallsFresh
  <2>2. Key(p) \notin AcceptedCalls'
    BY <1>6, <2>1, AcceptedGrows, Zenon
  <2> QED BY <1>1, <2>1, <2>2, AskedSame, AnswersSame, Zenon
<1>10. \A k \in DOMAIN forwarded : /\ Known(forwarded[k]) /\ forwarded[k] # call
                                   /\ Known(forwarded[k])'
                                   /\ Target(forwarded[k])' = Target(forwarded[k])
  <2>1. \A k \in DOMAIN forwarded : Known(forwarded[k]) /\ forwarded[k] # call
    BY <1>3, Zenon DEF CallsInv, AcceptedOnce, AcceptedCalls
  <2> QED BY <1>1, <1>6, <2>1, Zenon DEF Known, Target
<1>11. Known(forwarded[n])' /\ Target(forwarded[n])' = ClientName[b]
  <2>1. Target(call) = ClientName[b] /\ Known(call)
    BY <1>3, <1>7, Zenon
  <2> QED BY <1>1, <1>6, <2>1, Zenon DEF Known, Target
<1>12. AcceptedOnce'
  <2>1. \A k \in DOMAIN forwarded' : Known(forwarded[k])'
    BY <1>6, <1>10, <1>11, Zenon
  <2>2. \A k, l \in DOMAIN forwarded' : forwarded'[k] = forwarded'[l] => k = l
    BY <1>6, <1>10, Zenon DEF CallsInv, AcceptedOnce
  <2> QED BY <2>1, <2>2, Zenon DEF AcceptedOnce
<1>13. GivenFits'
  <2> SUFFICES ASSUME NEW a \in Adapter
               PROVE  /\ \A k \in incoming'[a] \cup Replied(a)' :
                           k \in DOMAIN forwarded' /\ Target(forwarded[k])' = ClientName[a]
                      /\ incoming'[a] \cap Replied(a)' = {}
    BY Zenon DEF GivenFits
  <2>1. Replied(a)' \subseteq Replied(a)
    BY <1>4, RepliedLess, Zenon
  <2>2. /\ \A k \in incoming[a] \cup Replied(a) :
             k \in DOMAIN forwarded /\ Target(forwarded[k]) = ClientName[a]
        /\ incoming[a] \cap Replied(a) = {}
    BY Zenon DEF CallsInv, GivenFits
  <2>3. /\ incoming'[a] \subseteq incoming[a] \cup {n}
        /\ a # b => incoming'[a] = incoming[a]
    BY <1>7, Zenon
  <2>4. incoming'[a] \cap Replied(a)' = {}
    BY <1>6, <2>1, <2>2, <2>3, SMT
  <2>5. \A k \in incoming'[a] \cup Replied(a)' :
          k \in incoming[a] \cup Replied(a) \/ (k = n /\ a = b)
    BY <2>1, <2>3, Zenon
  <2>6. \A k \in incoming[a] \cup Replied(a) :
          k \in DOMAIN forwarded' /\ Target(forwarded[k])' = ClientName[a]
    BY <1>6, <1>10, <2>2, Zenon
  <2> QED BY <1>6, <1>11, <2>4, <2>5, <2>6, Zenon
<1>14. PendingFits'
  <2> SUFFICES ASSUME NEW c \in Pending'
               PROVE  /\ c.svrid \in DOMAIN forwarded' /\ forwarded'[c.svrid] = Key(c)
                      /\ Unanswered(Key(c))'
    BY <1>8, Zenon DEF PendingFits
  <2>1. CASE c \in Pending
    <3>1. /\ c.svrid \in DOMAIN forwarded /\ forwarded[c.svrid] = Key(c)
          /\ Unanswered(Key(c))
      BY <2>1, Zenon DEF CallsInv, PendingFits
    <3> QED BY <1>1, <1>6, <3>1, AnswersSame, Zenon
  <2>2. CASE c = pc
    <3>1. c.svrid = n /\ Key(c) = call
      BY <1>8, <2>2, Zenon
    <3> QED BY <1>1, <1>3, <1>6, <3>1, AnswersSame, Zenon
  <2> QED BY <1>8, <2>1, <2>2, Zenon
<1>15. AnswersFit'
  <2>1. \A a \in Adapter, c \in CallId : Known([sender |-> a, cliid |-> c]) =>
          /\ Known([sender |-> a, cliid |-> c])'
          /\ Target([sender |-> a, cliid |-> c])' = Target([sender |-> a, cliid |-> c])
    BY <1>1, AskedSame, Zenon
  <2>2. \A k \in DOMAIN forwarded : k \in DOMAIN forwarded' /\ forwarded'[k] = forwarded[k]
    BY <1>6, Zenon
  <2> QED BY <1>1, <2>1, <2>2, AnswersFitNext, Zenon DEF CallsInv
<1> QED BY <1>4, <1>9, <1>12, <1>13, <1>14, <1>15, Zenon DEF CallsInv

\* The handlers that change what is known of calls.
LEMMA HandleOther ==
  ASSUME Handle
  PROVE  \/ UNCHANGED <<callVars, incoming, answers>>
         \/ CallUnknown \/ CallForward \/ \E i \in 1..Len(pending_calls) : ReplyForward(i)
BY Zenon DEF Handle, CloseSender, AuthReject, AuthMonitor, AuthAdapter, EraseAdapter,
  EraseMonitor, Subscribe, Unsubscribe, Post, Ping, DeclareMethod, RemoveMethod,
  ReplyDropped, ReplyTooBig

\* Every step of the service keeps the invariant of calls.
LEMMA CallsStep ==
  ASSUME RegistryInv, CallsInv, [Next]_vars
  PROVE  CallsInv'
<1>0. TypeInv
  BY Zenon DEF RegistryInv
<1>1. ASSUME UNCHANGED queueVars, UNCHANGED <<callVars, asked, incoming, answers>>
      PROVE  CallsInv'
  <2>1. Waiting' = Waiting /\ AllDistinct'
    BY <1>1, WaitingSame, Zenon DEF CallsInv
  <2>2. Pending' = Pending /\ NoRepeat'
    BY <1>1, PendingSame, Zenon DEF CallsInv, PendingFits
  <2> QED BY <1>1, <2>1, <2>2, CallsQuiet, Zenon
<1>2. ASSUME NEW p \in Packet, p.cmd \notin {"call", "reply"}, put(p),
             UNCHANGED <<pending_cmds, it, callVars, asked, incoming, answers>>
      PROVE  CallsInv'
  <2>1. \A q \in Waiting : Distinct(q, p)
    BY <1>2, Zenon DEF Distinct
  <2>2. Waiting' = Waiting \cup {p} /\ AllDistinct'
    BY <1>0, <1>2, <2>1, WaitingPut, Zenon DEF CallsInv
  <2>3. Pending' = Pending /\ NoRepeat'
    BY <1>2, PendingSame, Zenon DEF CallsInv, PendingFits
  <2> QED BY <1>2, <2>2, <2>3, CallsQuiet, Zenon
<1>3. CASE UNCHANGED vars
  BY <1>1, <1>3, Zenon DEF vars
<1>4. ASSUME NEW a \in Adapter, Connect(a) PROVE CallsInv'
  <2> DEFINE p == [cmd |-> "auth", sender |-> a]
  <2>1. p \in Packet /\ p.cmd \notin {"call", "reply"}
    BY Zenon DEF Packet
  <2>2. put(p) /\ UNCHANGED <<pending_cmds, it, callVars, asked, incoming, answers>>
    BY <1>4, Zenon DEF Connect
  <2> HIDE DEF p
  <2> QED BY <1>2, <2>1, <2>2, Zenon
<1>5. ASSUME NEW a \in Adapter, PollErase(a) PROVE CallsInv'
  <2>1. CASE info[a] = "null"
    BY <1>1, <1>5, <2>1, Zenon DEF PollErase, erase_adapter
  <2>2. CASE info[a] # "null"
    <3> DEFINE p == [cmd |-> "erase", sender |-> a]
    <3>1. p \in Packet /\ p.cmd \notin {"call", "reply"}
      BY Zenon DEF Packet
    <3>2. put(p) /\ UNCHANGED <<pending_cmds, it, callVars, asked, incoming, answers>>
      BY <1>5, <2>2, Zenon DEF PollErase, erase_adapter
    <3> HIDE DEF p
    <3> QED BY <1>2, <3>1, <3>2, Zenon
  <2> QED BY <2>1, <2>2, Zenon
<1>6. CASE \/ \E a \in Adapter : Disconnect(a) \/ PollClose(a)
           \/ Exit \/ Close \/ Tick \/ DiscardBegin \/ DiscardEnd \/ DiscardCrash
  BY <1>1, <1>6, Zenon DEF Disconnect, PollClose, Exit, Close, Tick, DiscardBegin, DiscardEnd,
    DiscardCrash
<1>7. CASE Splice
  <2>1. Waiting' = Waiting /\ AllDistinct'
    BY <1>0, <1>7, WaitingSplice, Zenon DEF CallsInv
  <2>2. UNCHANGED <<callVars, asked, incoming, answers>>
    BY <1>7, Zenon DEF Splice
  <2>3. Pending' = Pending /\ NoRepeat'
    BY <2>2, PendingSame, Zenon DEF CallsInv, PendingFits
  <2> QED BY <2>1, <2>2, <2>3, CallsQuiet, Zenon
<1>8. CASE Handle
  <2>1. CASE UNCHANGED <<callVars, incoming, answers>>
    BY <1>0, <1>8, <2>1, CallsOther, Zenon
  <2>2. CASE CallUnknown \/ CallForward \/ \E i \in 1..Len(pending_calls) : ReplyForward(i)
    BY <1>0, <1>8, <2>2, CallsUnknown, CallsAccepted, CallsReplied, Zenon
  <2> QED BY <1>8, <2>1, <2>2, HandleOther, Zenon
<1> QED
  BY <1>0, <1>3, <1>4, <1>5, <1>6, <1>7, <1>8, CallsSend, CallsReply, CallsDiscard,
    Zenon DEF Next, DispatcherStep, PollStep

\* The invariant of calls holds at the start.
LEMMA CallsInit == Init => CallsInv /\ Sorted
<1> SUFFICES ASSUME Init PROVE CallsInv /\ Sorted
  BY Zenon
<1>i. /\ cmd_packets = <<>> /\ pending_cmds = <<>> /\ it = 0
      /\ pending_calls = <<>> /\ forwarded = <<>>
  BY Zenon DEF Init
<1>1. Left = {} /\ Queued = {} /\ 1..Len(pending_calls) = {} /\ DOMAIN forwarded = {}
  <2>1. Left = {} /\ Queued = {}
    BY <1>i, SMT DEF Left, Queued
  <2>2. 1..Len(pending_calls) = {} /\ DOMAIN forwarded = {}
    BY <1>i, SMT
  <2> QED BY <2>1, <2>2, Zenon
<1>2. Waiting = {}
  BY <1>1, WaitingIs, SMT
<1>r. AllDistinct /\ \A b : Replied(b) = {}
  BY <1>1, <1>2, SMT DEF AllDistinct, Replied
<1>3. Pending = {} /\ NoRepeat /\ Sorted
  BY <1>1, Zenon DEF Pending, NoRepeat, Sorted
<1>4. GivenFits
  BY <1>r, Zenon DEF Init, GivenFits
<1>5. AnswersFit
  BY Zenon DEF Init, AnswersFit
<1> QED BY <1>1, <1>2, <1>r, <1>3, <1>4, <1>5, Zenon
  DEF CallsInv, CallsFresh, AcceptedOnce, PendingFits

\* The pending calls stay in the order of their deadlines.
LEMMA SortedStep ==
  ASSUME RegistryInv, Sorted, [Next]_vars
  PROVE  Sorted'
<1>0. TypeInv
  BY Zenon DEF RegistryInv
<1>1. CASE UNCHANGED pending_calls
  BY <1>1, SMT DEF Sorted
<1>2. CASE Handle /\ CallForward
  <2>1. PICK pc \in PendingCall, k \in 1..Len(pending_calls) + 1 :
          InsertedAt(k, pc.discard_tp) /\ pending_calls' = Inserted(k, pc)
    BY <1>0, <1>2, NewPending, Zenon
  <2> QED BY <1>0, <2>1, PendingInserted, Zenon
<1>3. CASE \E i \in 1..Len(pending_calls) : ReplyForward(i)
  BY <1>0, <1>3, PendingReplied, Zenon DEF ReplyForward
<1>4. CASE DiscardCall
  BY <1>0, <1>4, PendingDiscarded, Zenon DEF DiscardCall, Overdue
<1>5. CASE Handle
  BY <1>1, <1>2, <1>3, <1>5, HandleOther, Zenon DEF CallUnknown
<1>6. CASE UNCHANGED vars
  BY <1>1, <1>6, Zenon DEF vars
<1>7. CASE \E a \in Adapter :
             \/ Connect(a) \/ Disconnect(a) \/ PollStep(a)
             \/ \E p \in Request(a) : Send(a, p)
             \/ \E svrid \in incoming[a], d \in Data : SendReply(a, svrid, d)
  BY <1>1, <1>7, Zenon DEF PollStep, Connect, Send, SendReply, Disconnect, PollClose, PollErase
<1>8. CASE Splice \/ Exit \/ Close \/ Tick \/ DiscardBegin \/ DiscardEnd \/ DiscardCrash
  BY <1>1, <1>8, Zenon DEF Splice, Exit, Close, Tick, DiscardBegin, DiscardEnd, DiscardCrash
<1> QED BY <1>4, <1>5, <1>6, <1>7, <1>8, Zenon DEF Next, DispatcherStep

\* The invariants that the properties of calls follow from.
LEMMA CallsInvariant == Spec => [](RegistryInv /\ CallsInv /\ Sorted)
<1>1. CallsInv /\ Sorted /\ RegistryInv /\ [Next]_vars => CallsInv' /\ Sorted' /\ RegistryInv'
  BY CallsStep, SortedStep, RegistryStep, Zenon
<1> QED BY <1>1, CallsInit, RegistryInit, PTL DEF Spec

\* No call is answered twice, whatever the order of its reply, its timeout and
\* the departure of its target.
THEOREM CallsAnsweredOnce == Spec => []AtMostOneAnswer
<1>1. ASSUME RegistryInv, CallsInv PROVE AtMostOneAnswer
  <2> SUFFICES ASSUME NEW a \in Adapter, NEW c \in CallId PROVE Len(answers[a][c]) <= 1
    BY Zenon DEF AtMostOneAnswer
  <2>1. CASE answers[a][c] = <<>>
    BY <2>1, SMT
  <2>2. CASE answers[a][c] # <<>>
    <3>1. Len(answers[a][c]) = 1
      BY <1>1, <2>2, Zenon DEF CallsInv, AnswersFit, AnswerFits
    <3> QED BY <3>1, SMT
  <2> QED BY <2>1, <2>2, Zenon
<1> QED BY <1>1, CallsInvariant, PTL

\* A caller that is told "success" is given the reply to that very call, from the
\* client whose id it named: handle_reply_req never mixes up two calls.
THEOREM CallsAnsweredByTarget == Spec => []AnsweredByTarget
<1>1. ASSUME RegistryInv, CallsInv PROVE AnsweredByTarget
  <2> SUFFICES ASSUME NEW a \in Adapter, NEW c \in CallId, NEW i \in 1..Len(answers[a][c]),
                      answers[a][c][i].code = "success"
               PROVE  /\ forwarded[answers[a][c][i].svrid] = [sender |-> a, cliid |-> c]
                      /\ ClientName[answers[a][c][i].from] = asked[a][c]
    BY Zenon DEF AnsweredByTarget
  <2>1. answers[a][c] # <<>>
    BY SMT
  <2>2. Len(answers[a][c]) = 1
    BY <1>1, <2>1, Zenon DEF CallsInv, AnswersFit, AnswerFits
  <2>3. i = 1
    BY <2>2, SMT
  <2>4. answers[a][c][1].code = "success"
    BY <2>3, Zenon
  <2>5. AnswerFits([sender |-> a, cliid |-> c], answers[a][c])
    BY <1>1, <2>1, Zenon DEF CallsInv, AnswersFit
  <2>6. /\ forwarded[answers[a][c][1].svrid] = [sender |-> a, cliid |-> c]
        /\ ClientName[answers[a][c][1].from] = Target([sender |-> a, cliid |-> c])
    BY <2>4, <2>5, Zenon DEF AnswerFits
  <2>7. Target([sender |-> a, cliid |-> c]) = asked[a][c]
    BY Zenon DEF Target
  <2> QED BY <2>3, <2>6, <2>7, Zenon
<1> QED BY <1>1, CallsInvariant, PTL

\* It is enough that handle_cmds and discard_pending_calls look at the first
\* pending call.
THEOREM OverdueCallsNoticed == Spec => []OverdueNoticed
<1>1. ASSUME RegistryInv, Sorted PROVE OverdueNoticed
  <2> DEFINE t == IF tp = NoTime THEN now ELSE tp
  <2>1. /\ pending_calls \in Seq(PendingCall) /\ Len(pending_calls) \in Nat
        /\ \A i \in 1..Len(pending_calls) : pending_calls[i].discard_tp \in Nat
    BY <1>1, PendingTypes, Zenon DEF RegistryInv
  <2>2. t \in Nat
    BY <1>1, Zenon DEF RegistryInv, TypeInv, TypeOK
  <2> HIDE DEF t
  <2> SUFFICES ASSUME NEW i \in 1..Len(pending_calls), pending_calls[i].discard_tp <= t
               PROVE  Overdue(t)
    BY Zenon DEF OverdueNoticed, t
  <2>3. 1 \in 1..Len(pending_calls) /\ pending_calls # <<>>
    BY <2>1, SMTT(30)
  <2>4. pending_calls[1].discard_tp <= pending_calls[i].discard_tp
    <3>1. CASE i = 1
      BY <2>1, <3>1, SMT
    <3>2. CASE i # 1
      <4>1. 1 < i
        BY <3>2, SMT
      <4> QED BY <1>1, <2>3, <4>1, Zenon DEF Sorted
    <3> QED BY <3>1, <3>2, Zenon
  <2>5. pending_calls[1].discard_tp <= t
    BY <2>1, <2>2, <2>3, <2>4, SMT
  <2>6. Head(pending_calls) = pending_calls[1]
    BY <2>1, <2>3, SMT
  <2> QED BY <2>3, <2>5, <2>6, Zenon DEF Overdue
<1> QED BY <1>1, CallsInvariant, PTL
-----------------------------------------------------------------------------
(***************************************************************************)
(* The service implements CallService: every step is a step of the         *)
(* abstract service, or leaves what that one shows as it is.               *)
(***************************************************************************)

\* The calls that each client holds, by their numbers.
Holding == [b \in Adapter |-> incoming[b] \cup Replied(b)]

\* What a caller is told, of what is written to it.
Shown(s) == [i \in DOMAIN s |-> [code |-> s[i].code, from |-> s[i].from]]

\* No answer shows nothing, one answer shows one.
LEMMA ShownIs ==
  /\ Shown(<<>>) = <<>>
  /\ \A ans : Shown(<<ans>>) = <<[code |-> ans.code, from |-> ans.from]>>
BY SMT DEF Shown

\* The refinement mapping, client by client and call by call.
LEMMA MappingIs ==
  /\ HeldCalls = [b \in Adapter |-> {forwarded[k] : k \in Holding[b]}]
  /\ Outcome = [a \in Adapter |-> [c \in CallId |-> Shown(answers[a][c])]]
BY Zenon DEF HeldCalls, Holding, Outcome, Shown

\* The same after a step.
LEMMA MappingNext ==
  /\ HeldCalls' = [b \in Adapter |-> {forwarded'[k] : k \in Holding'[b]}]
  /\ Outcome' = [a \in Adapter |-> [c \in CallId |-> Shown(answers'[a][c])]]
BY Zenon DEF HeldCalls, Holding, Outcome, Shown

\* Images of a set without one element, and with one more.
LEMMA ImageLess ==
  ASSUME NEW f, NEW S, NEW T, NEW k \in S, \A l : l \in T <=> l \in S /\ l # k,
         \A l, m \in S : f[l] = f[m] => l = m
  PROVE  {f[l] : l \in T} = {f[l] : l \in S} \ {f[k]}
<1>1. ASSUME NEW x \in {f[l] : l \in T} PROVE x \in {f[l] : l \in S} \ {f[k]}
  BY <1>1, Zenon
<1>2. ASSUME NEW x \in {f[l] : l \in S} \ {f[k]} PROVE x \in {f[l] : l \in T}
  BY <1>2, Zenon
<1> QED BY <1>1, <1>2, Zenon

LEMMA ImageMore ==
  ASSUME NEW f, NEW g, NEW S, NEW T, NEW n, \A k : k \in T <=> k \in S \/ k = n,
         \A k \in S : g[k] = f[k]
  PROVE  {g[k] : k \in T} = {f[k] : k \in S} \cup {g[n]}
<1>1. ASSUME NEW x \in {g[k] : k \in T} PROVE x \in {f[k] : k \in S} \cup {g[n]}
  BY <1>1, Zenon
<1>2. ASSUME NEW x \in {f[k] : k \in S} \cup {g[n]} PROVE x \in {g[k] : k \in T}
  BY <1>2, Zenon
<1> QED BY <1>1, <1>2, Zenon

\* A client keeps what it holds.
LEMMA HeldSame ==
  ASSUME Holding' = Holding,
         \A b \in Adapter : \A k \in Holding[b] : forwarded'[k] = forwarded[k]
  PROVE  HeldCalls' = HeldCalls
<1>1. \A b \in Adapter : {forwarded'[k] : k \in Holding'[b]} = {forwarded[k] : k \in Holding[b]}
  BY SMT
<1> QED BY <1>1, MappingIs, MappingNext, Zenon

\* A step that shows nothing.
LEMMA Stutters ==
  ASSUME UNCHANGED <<asked, forwarded, answers>>, Holding' = Holding
  PROVE  [Service!Next]_(Service!vars)
<1>1. HeldCalls' = HeldCalls
  BY HeldSame, SMT
<1>2. AcceptedCalls' = AcceptedCalls /\ Outcome' = Outcome
  BY SMT DEF AcceptedCalls, Outcome
<1> QED BY <1>1, <1>2, Zenon DEF Service!vars

\* What a client holds, number by number.
LEMMA HoldingIs ==
  ASSUME NEW b \in Adapter, NEW k
  PROVE  /\ k \in Holding[b] <=> \/ k \in incoming[b]
                                 \/ \E p \in Waiting : /\ p.cmd = "reply" /\ p.sender = b
                                                       /\ p.svrid = k
         /\ k \in Holding'[b] <=> \/ k \in incoming'[b]
                                  \/ \E p \in Waiting' : /\ p.cmd = "reply" /\ p.sender = b
                                                         /\ p.svrid = k
<1>1. k \in Holding[b] <=> k \in incoming[b] \/ k \in Replied(b)
  BY Zenon DEF Holding
<1>2. k \in Holding'[b] <=> k \in incoming'[b] \/ k \in Replied(b)'
  BY Zenon DEF Holding
<1>3. k \in Replied(b) <=> \E p \in Waiting : p.cmd = "reply" /\ p.sender = b /\ p.svrid = k
  BY RepliedIs, ZenonT(40)
<1>4. k \in Replied(b)' <=> \E p \in Waiting' : p.cmd = "reply" /\ p.sender = b /\ p.svrid = k
  BY RepliedNext, ZenonT(40)
<1> QED BY <1>1, <1>2, <1>3, <1>4, Zenon

\* Holding is known by its members.
LEMMA HoldingEqual ==
  ASSUME \A b \in Adapter : \A k : k \in Holding'[b] <=> k \in Holding[b]
  PROVE  Holding' = Holding
<1>1. \A b \in Adapter : Holding'[b] = Holding[b]
  BY Zenon
<1>2. Holding = [b \in Adapter |-> Holding[b]] /\ Holding' = [b \in Adapter |-> Holding'[b]]
  BY Zenon DEF Holding
<1> QED BY <1>1, <1>2, Zenon

\* No reply is put or taken.
LEMMA HoldingSame ==
  ASSUME incoming' = incoming,
         \A p : p.cmd = "reply" => (p \in Waiting' <=> p \in Waiting)
  PROVE  Holding' = Holding
<1>1. ASSUME NEW b \in Adapter, NEW k PROVE k \in Holding'[b] <=> k \in Holding[b]
  BY HoldingIs, SMT
<1> QED BY <1>1, HoldingEqual, Zenon

\* A packet that is no reply is taken from the batch.
LEMMA HoldingOther ==
  ASSUME TypeInv, CallsInv, Handle, incoming' = incoming, Cmd.cmd # "reply"
  PROVE  Holding' = Holding
<1>1. Waiting' \subseteq Waiting /\ Waiting \subseteq Waiting' \cup {Cmd}
  BY WaitingHandle, Zenon DEF CallsInv
<1>2. \A p : p.cmd = "reply" => (p \in Waiting' <=> p \in Waiting)
  BY <1>1, Zenon
<1> QED BY <1>2, HoldingSame, Zenon

\* A client is given a call.
LEMMA HoldingMore ==
  ASSUME TypeInv, CallsInv, Handle, Cmd.cmd # "reply", NEW b \in Adapter, NEW n,
         incoming' = [incoming EXCEPT ![b] = incoming[b] \cup {n}]
  PROVE  \A e \in Adapter : \A k : k \in Holding'[e] <=> k \in Holding[e] \/ (e = b /\ k = n)
<1>1. Waiting' \subseteq Waiting /\ Waiting \subseteq Waiting' \cup {Cmd}
  BY WaitingHandle, Zenon DEF CallsInv
<1>2. incoming \in [Adapter -> SUBSET Nat]
  BY Zenon DEF TypeInv, TypeOK
<1> SUFFICES ASSUME NEW e \in Adapter, NEW k
             PROVE  k \in Holding'[e] <=> k \in Holding[e] \/ (e = b /\ k = n)
  BY Zenon
<1> DEFINE W == \E q \in Waiting : q.cmd = "reply" /\ q.sender = e /\ q.svrid = k
<1>3. k \in Holding[e] <=> k \in incoming[e] \/ W
  BY HoldingIs, Zenon
<1>4. k \in Holding'[e] <=> k \in incoming'[e] \/ W
  <2>1. (\E q \in Waiting' : q.cmd = "reply" /\ q.sender = e /\ q.svrid = k) <=> W
    BY <1>1, Zenon
  <2> QED BY <2>1, HoldingIs, Zenon
<1>5. k \in incoming'[e] <=> k \in incoming[e] \/ (e = b /\ k = n)
  BY <1>2, SMT
<1> HIDE DEF W
<1> QED BY <1>3, <1>4, <1>5, SMT

\* A reply is taken from the batch.
LEMMA HoldingLess ==
  ASSUME TypeInv, CallsInv, Handle, incoming' = incoming, Cmd.cmd = "reply"
  PROVE  /\ Cmd.sender \in Adapter /\ Cmd.svrid \in Holding[Cmd.sender]
         /\ \A b \in Adapter : \A k : k \in Holding'[b] <=>
              k \in Holding[b] /\ ~(b = Cmd.sender /\ k = Cmd.svrid)
<1>1. /\ Cmd \in Waiting /\ Waiting' \subseteq Waiting
      /\ Waiting \subseteq Waiting' \cup {Cmd}
      /\ \A p \in Waiting' : Distinct(Cmd, p)
  BY WaitingHandle, Zenon DEF CallsInv
<1>2. Cmd.sender \in Adapter
  BY <1>1, WaitingType, PacketFields, Zenon
<1>3. Cmd.svrid \in Replied(Cmd.sender)
  BY <1>1, RepliedIs, Zenon
<1>4. Cmd.svrid \in Holding[Cmd.sender] /\ Cmd.svrid \notin incoming[Cmd.sender]
  BY <1>2, <1>3, Zenon DEF Holding, CallsInv, GivenFits
<1>5. ASSUME NEW b \in Adapter, NEW k
      PROVE  k \in Holding'[b] <=> k \in Holding[b] /\ ~(b = Cmd.sender /\ k = Cmd.svrid)
  <2>1. /\ k \in Holding[b] <=> \/ k \in incoming[b]
                                \/ \E p \in Waiting : /\ p.cmd = "reply" /\ p.sender = b
                                                      /\ p.svrid = k
        /\ k \in Holding'[b] <=> \/ k \in incoming'[b]
                                 \/ \E p \in Waiting' : /\ p.cmd = "reply" /\ p.sender = b
                                                        /\ p.svrid = k
    BY HoldingIs, Zenon
  <2>2. k \in incoming'[b] <=> k \in incoming[b]
    BY Zenon
  <2>3. k \in incoming[b] => ~(b = Cmd.sender /\ k = Cmd.svrid)
    BY <1>4, Zenon
  <2>4. CASE k \in incoming[b]
    BY <2>1, <2>2, <2>3, <2>4, Zenon
  <2>5. CASE k \notin incoming[b]
    <3>1. ASSUME k \in Holding'[b] PROVE k \in Holding[b] /\ ~(b = Cmd.sender /\ k = Cmd.svrid)
      <4>1. PICK p \in Waiting' : p.cmd = "reply" /\ p.sender = b /\ p.svrid = k
        BY <2>1, <2>2, <2>5, <3>1, Zenon
      <4>2. p \in Waiting /\ ~(b = Cmd.sender /\ k = Cmd.svrid)
        <5>1. p \in Waiting /\ Distinct(Cmd, p)
          BY <1>1, Zenon
        <5> QED BY <4>1, <5>1, SMT DEF Distinct
      <4>3. k \in Holding[b]
        BY <2>1, <4>1, <4>2, Zenon
      <4> QED BY <4>2, <4>3, Zenon
    <3>2. ASSUME k \in Holding[b], ~(b = Cmd.sender /\ k = Cmd.svrid) PROVE k \in Holding'[b]
      <4>1. PICK p \in Waiting : p.cmd = "reply" /\ p.sender = b /\ p.svrid = k
        BY <2>1, <2>5, <3>2, Zenon
      <4>2. p \in Waiting'
        BY <1>1, <3>2, <4>1, SMT
      <4> QED BY <2>1, <4>1, <4>2, Zenon
    <3> QED BY <3>1, <3>2, Zenon
  <2> QED BY <2>4, <2>5, Zenon
<1> QED BY <1>2, <1>4, <1>5, Zenon

\* A reply that has been handled is no longer held.
LEMMA HeldLess ==
  ASSUME TypeInv, CallsInv, Handle, Cmd.cmd = "reply", UNCHANGED <<forwarded, incoming>>
  PROVE  \E b \in Adapter, k \in DOMAIN forwarded :
           /\ b = Cmd.sender /\ k = Cmd.svrid /\ forwarded[k] \in HeldCalls[b]
           /\ HeldCalls' = [HeldCalls EXCEPT ![b] = @ \ {forwarded[k]}]
<1>b. PICK b \in Adapter : b = Cmd.sender
  BY HoldingLess, Zenon
<1>k. PICK k : k = Cmd.svrid
  BY Zenon
<1>1. /\ k \in Holding[b]
      /\ \A a \in Adapter : \A l :
           l \in Holding'[a] <=> l \in Holding[a] /\ ~(a = b /\ l = k)
  BY <1>b, <1>k, HoldingLess, SMT
<1>2. \A a \in Adapter : \A l \in Holding[a] : l \in DOMAIN forwarded
  BY Zenon DEF CallsInv, GivenFits, Holding
<1>3. \A l, m \in DOMAIN forwarded : forwarded[l] = forwarded[m] => l = m
  BY Zenon DEF CallsInv, AcceptedOnce
<1>4. \A a \in Adapter : HeldCalls[a] = {forwarded[l] : l \in Holding[a]}
  BY MappingIs, Zenon
<1>5. {forwarded[l] : l \in Holding'[b]} = HeldCalls[b] \ {forwarded[k]}
  <2>1. \A l : l \in Holding'[b] <=> l \in Holding[b] /\ l # k
    BY <1>1, Zenon
  <2>2. \A l, m \in Holding[b] : forwarded[l] = forwarded[m] => l = m
    BY <1>2, <1>3, Zenon
  <2>3. {forwarded[l] : l \in Holding'[b]} = {forwarded[l] : l \in Holding[b]} \ {forwarded[k]}
    BY <1>1, <2>1, <2>2, ImageLess, SMT
  <2> QED BY <1>4, <2>3, Zenon
<1>6. ASSUME NEW a \in Adapter, a # b PROVE {forwarded[l] : l \in Holding'[a]} = HeldCalls[a]
  <2>1. Holding'[a] = Holding[a]
    <3>1. \A l : l \in Holding'[a] <=> l \in Holding[a]
      BY <1>1, <1>6, Zenon
    <3> QED BY <3>1, Zenon
  <2> QED BY <1>4, <2>1, Zenon
<1>7. HeldCalls' = [a \in Adapter |-> {forwarded[l] : l \in Holding'[a]}]
  BY MappingNext, SMT
<1>8. HeldCalls' = [HeldCalls EXCEPT ![b] = @ \ {forwarded[k]}]
  <2>1. HeldCalls = [a \in Adapter |-> HeldCalls[a]]
    BY MappingIs, Zenon
  <2>2. HeldCalls' = [a \in Adapter |-> HeldCalls'[a]]
    BY <1>7, Zenon
  <2>3. HeldCalls'[b] = HeldCalls[b] \ {forwarded[k]}
    BY <1>5, <1>7, Zenon
  <2>4. \A a \in Adapter : a # b => HeldCalls'[a] = HeldCalls[a]
    BY <1>6, <1>7, Zenon
  <2> QED BY <2>1, <2>2, <2>3, <2>4, Zenon
<1>9. k \in DOMAIN forwarded /\ forwarded[k] \in HeldCalls[b]
  <2>1. k \in Holding[b]
    BY <1>1, Zenon
  <2>2. HeldCalls[b] = {forwarded[l] : l \in Holding[b]}
    BY <1>4, Zenon
  <2>3. forwarded[k] \in HeldCalls[b]
    BY <2>1, <2>2, Zenon
  <2> QED BY <1>2, <2>1, <2>3, Zenon
<1> QED BY <1>b, <1>k, <1>8, <1>9, Zenon

\* Functions of two arguments that agree, or differ in one place.
LEMMA NestedEqual ==
  ASSUME NEW S, NEW T, NEW f, NEW g, f = [x \in S |-> [y \in T |-> f[x][y]]],
         g = [x \in S |-> [y \in T |-> g[x][y]]],
         \A x \in S, y \in T : f[x][y] = g[x][y]
  PROVE  f = g
<1>1. \A x \in S : [y \in T |-> f[x][y]] = [y \in T |-> g[x][y]]
  BY Zenon
<1>2. [x \in S |-> [y \in T |-> f[x][y]]] = [x \in S |-> [y \in T |-> g[x][y]]]
  BY <1>1, Zenon
<1> QED BY <1>2, Zenon

LEMMA NestedExcept ==
  ASSUME NEW S, NEW T, NEW f, NEW g, f = [x \in S |-> [y \in T |-> f[x][y]]],
         g = [x \in S |-> [y \in T |-> g[x][y]]], NEW a \in S, NEW c \in T,
         \A x \in S, y \in T : x # a \/ y # c => g[x][y] = f[x][y]
  PROVE  g = [f EXCEPT ![a][c] = g[a][c]]
<1> DEFINE h == [f EXCEPT ![a][c] = g[a][c]]
<1>1. h = [x \in S |-> [y \in T |-> h[x][y]]]
  <2>1. DOMAIN f = S /\ \A x \in S : f[x] = [y \in T |-> f[x][y]]
    BY Zenon
  <2>2. h[a] = [f[a] EXCEPT ![c] = g[a][c]] /\ \A x \in S : x # a => h[x] = f[x]
    BY <2>1, Zenon
  <2>3. DOMAIN h = S /\ h = [x \in S |-> h[x]]
    BY <2>1, Zenon
  <2> HIDE DEF h
  <2>4. h[a] = [y \in T |-> h[a][y]]
    <3>1. DOMAIN f[a] = T
      BY <2>1, Zenon
    <3>2. \A e : [f[a] EXCEPT ![c] = e] = [y \in T |-> [f[a] EXCEPT ![c] = e][y]]
      BY <3>1, SMT
    <3>3. [f[a] EXCEPT ![c] = g[a][c]] = [y \in T |-> [f[a] EXCEPT ![c] = g[a][c]][y]]
      BY <3>2, Zenon
    <3> QED BY <2>2, <3>3, Zenon
  <2>5. ASSUME NEW x \in S, x # a PROVE h[x] = [y \in T |-> h[x][y]]
    <3>1. h[x] = f[x] /\ f[x] = [y \in T |-> f[x][y]]
      BY <2>1, <2>2, <2>5, Zenon
    <3> QED BY <3>1, SMT
  <2>6. \A x \in S : h[x] = [y \in T |-> h[x][y]]
    BY <2>4, <2>5, Zenon
  <2> QED BY <2>3, <2>6, SMT
<1>2. \A x \in S, y \in T : g[x][y] = h[x][y]
  <2>1. DOMAIN f = S /\ \A x \in S : DOMAIN f[x] = T
    BY Zenon
  <2> QED BY <2>1, SMT
<1> HIDE DEF h
<1>3. g = h
  BY <1>1, <1>2, NestedEqual, SMT
<1> QED BY <1>3, Zenon DEF h

\* The outcomes may have been added to by an answer to an open call.
OutcomeTold(a, c, code, from) ==
  /\ Outcome[a][c] = <<>>
  /\ \/ Outcome' = Outcome
     \/ Outcome' = [Outcome EXCEPT ![a][c] = <<[code |-> code, from |-> from]>>]

\* The outcomes after a write about one call.
LEMMA OutcomeAdds ==
  ASSUME NEW a \in Adapter, NEW c \in CallId, NEW code, NEW from, NEW svrid,
         answers[a][c] = <<>>,
         OnlyAnswer(a, c, [code |-> code, from |-> from, svrid |-> svrid])
  PROVE  OutcomeTold(a, c, code, from)
<1>1. Outcome[a][c] = <<>>
  BY MappingIs, ShownIs, Zenon
<1>2. \A b \in Adapter, d \in CallId : b # a \/ d # c => Outcome'[b][d] = Outcome[b][d]
  BY MappingIs, MappingNext, Zenon DEF OnlyAnswer
<1>3. Outcome'[a][c] = Shown(answers'[a][c])
  BY MappingNext, Zenon
<1>4. Outcome'[a][c] = <<>> \/ Outcome'[a][c] = <<[code |-> code, from |-> from]>>
  <2>1. CASE answers'[a][c] = <<>>
    BY <1>3, <2>1, ShownIs, Zenon
  <2>2. CASE answers'[a][c] = <<[code |-> code, from |-> from, svrid |-> svrid]>>
    <3> DEFINE ans == [code |-> code, from |-> from, svrid |-> svrid]
    <3>1. ans.code = code /\ ans.from = from
      OBVIOUS
    <3> HIDE DEF ans
    <3>2. answers'[a][c] = <<ans>>
      BY <2>2, Zenon DEF ans
    <3> QED BY <1>3, <3>1, <3>2, ShownIs, SMTT(30)
  <2> QED BY <2>1, <2>2, Zenon DEF OnlyAnswer
<1>5. /\ Outcome = [b \in Adapter |-> [d \in CallId |-> Outcome[b][d]]]
      /\ Outcome' = [b \in Adapter |-> [d \in CallId |-> Outcome'[b][d]]]
  <2>1. /\ \A b \in Adapter, d \in CallId : Outcome[b][d] = Shown(answers[b][d])
        /\ \A b \in Adapter, d \in CallId : Outcome'[b][d] = Shown(answers'[b][d])
    BY MappingIs, MappingNext, Zenon
  <2> QED BY <2>1, MappingIs, MappingNext, SMTT(30)
<1>6. CASE Outcome'[a][c] = <<>>
  <2>1. \A b \in Adapter, d \in CallId : Outcome'[b][d] = Outcome[b][d]
    BY <1>1, <1>2, <1>6, Zenon
  <2>2. Outcome' = Outcome
    BY <1>5, <2>1, NestedEqual, SMT
  <2> QED BY <1>1, <2>2, Zenon DEF OutcomeTold
<1>7. CASE Outcome'[a][c] = <<[code |-> code, from |-> from]>>
  <2>1. Outcome' = [Outcome EXCEPT ![a][c] = Outcome'[a][c]]
    BY <1>2, <1>5, NestedExcept, SMT
  <2> QED BY <1>1, <1>7, <2>1, Zenon DEF OutcomeTold
<1> QED BY <1>4, <1>6, <1>7, Zenon
-----------------------------------------------------------------------------
(***************************************************************************)
(* The steps of the service as steps of CallService.                       *)
(***************************************************************************)

\* The handlers that are not about calls, and those that lose a reply.
LEMMA SimulateOther ==
  ASSUME TypeInv, CallsInv, Handle, UNCHANGED <<callVars, incoming, answers>>
  PROVE  [Service!Next]_(Service!vars)
<1>1. UNCHANGED <<asked, forwarded, answers>> /\ incoming' = incoming
  BY HandleAdvances, Zenon DEF Advance
<1>2. CASE Cmd.cmd # "reply"
  BY <1>1, <1>2, HoldingOther, Stutters, Zenon
<1>3. CASE Cmd.cmd = "reply"
  <2>1. PICK b \in Adapter, k \in DOMAIN forwarded :
          /\ forwarded[k] \in HeldCalls[b]
          /\ HeldCalls' = [HeldCalls EXCEPT ![b] = @ \ {forwarded[k]}]
    BY <1>1, <1>3, HeldLess, Zenon
  <2>2. PICK call \in [sender : Adapter, cliid : CallId] : call = forwarded[k]
    BY ForwardedTypes, Zenon
  <2>3. AcceptedCalls' = AcceptedCalls /\ Outcome' = Outcome
    BY <1>1, SMT DEF AcceptedCalls, Outcome
  <2>4. Service!Lose(call, b)
    BY <1>1, <2>1, <2>2, <2>3, Zenon DEF Service!Lose
  <2> QED BY <2>4, Zenon DEF Service!Next, Service!Call
<1> QED BY <1>2, <1>3, Zenon

\* A request of a client.
LEMMA SimulateSend ==
  ASSUME TypeInv, CallsInv, NEW a \in Adapter, NEW p \in Request(a), Send(a, p)
  PROVE  [Service!Next]_(Service!vars)
<1>1. /\ p \in Packet /\ p.cmd # "reply" /\ put(p) /\ incoming' = incoming
      /\ UNCHANGED <<pending_cmds, it>> /\ UNCHANGED <<forwarded, answers>>
  BY SentIsPacket, Zenon DEF Send, Request, RequestOf
<1>2. Waiting' = Waiting \cup {p}
  BY <1>1, WaitingPut, Zenon
<1>3. \A q : q.cmd = "reply" => (q \in Waiting' <=> q \in Waiting)
  BY <1>1, <1>2, Zenon
<1>4. Holding' = Holding
  BY <1>1, <1>3, HoldingSame, Zenon
<1>5. CASE p.cmd # "call"
  <2>1. asked' = asked
    BY <1>5, Zenon DEF Send
  <2> QED BY <1>1, <1>4, <2>1, Stutters, Zenon
<1>6. CASE p.cmd = "call"
  <2>1. HeldCalls' = HeldCalls
    BY <1>1, <1>4, HeldSame, SMTT(30)
  <2>2. AcceptedCalls' = AcceptedCalls /\ Outcome' = Outcome
    BY <1>1, SMTT(30) DEF AcceptedCalls, Outcome
  <2>3. PICK id \in Name \cup {NoName} : id = p.target
    BY <1>1, <1>6, PacketFields, Zenon
  <2>4. Service!Ask(a, id)
    BY <1>6, <2>1, <2>2, <2>3, Zenon DEF Send, Service!Ask
  <2> QED BY <2>4, Zenon DEF Service!Next
<1> QED BY <1>5, <1>6, Zenon

\* A reply on its way is as good as held.
LEMMA SimulateReply ==
  ASSUME TypeInv, CallsInv, NEW a \in Adapter, NEW svrid \in incoming[a], NEW d \in Data,
         SendReply(a, svrid, d)
  PROVE  [Service!Next]_(Service!vars)
<1> DEFINE p == [cmd |-> "reply", sender |-> a, svrid |-> svrid, data |-> d]
<1>1. incoming \in [Adapter -> SUBSET Nat]
  BY Zenon DEF TypeInv, TypeOK
<1>2. p \in Packet /\ p.sender = a /\ p.cmd = "reply" /\ p.svrid = svrid
  BY <1>1, Zenon DEF Packet
<1> HIDE DEF p
<1>3. /\ put(p) /\ UNCHANGED <<pending_cmds, it>> /\ UNCHANGED <<asked, forwarded, answers>>
      /\ incoming' = [incoming EXCEPT ![a] = @ \ {svrid}]
  BY Zenon DEF SendReply, p
<1>4. Waiting' = Waiting \cup {p}
  BY <1>2, <1>3, WaitingPut, Zenon
<1>5. ASSUME NEW b \in Adapter, NEW k
      PROVE  k \in Holding'[b] <=> k \in Holding[b]
  <2> DEFINE W == \E q \in Waiting : q.cmd = "reply" /\ q.sender = b /\ q.svrid = k
  <2>1. k \in Holding[b] <=> k \in incoming[b] \/ W
    BY HoldingIs, Zenon
  <2>2. k \in Holding'[b] <=> k \in incoming'[b] \/ W \/ (b = a /\ k = svrid)
    <3>1. (\E q \in Waiting' : q.cmd = "reply" /\ q.sender = b /\ q.svrid = k)
            <=> W \/ (b = a /\ k = svrid)
      BY <1>2, <1>4, Zenon
    <3> QED BY <3>1, HoldingIs, Zenon
  <2>3. k \in incoming'[b] <=> k \in incoming[b] /\ ~(b = a /\ k = svrid)
    BY <1>1, <1>3, SMTT(30)
  <2> HIDE DEF W
  <2> QED BY <2>1, <2>2, <2>3, SMTT(30)
<1>6. Holding' = Holding
  BY <1>5, HoldingEqual, Zenon
<1> QED BY <1>3, <1>6, Stutters, Zenon

\* A call that is known and has no outcome.
LEMMA OpenIs ==
  ASSUME NEW a \in Adapter, NEW c \in CallId, Known([sender |-> a, cliid |-> c]),
         Outcome[a][c] = <<>>
  PROVE  Service!Open([sender |-> a, cliid |-> c])
BY SMT DEF Service!Open, Service!Asked, Known

\* What CallService tells a caller.
LEMMA ToldIs ==
  ASSUME NEW a \in Adapter, NEW c \in CallId, NEW code, NEW from,
         Outcome' = [Outcome EXCEPT ![a][c] = <<[code |-> code, from |-> from]>>]
  PROVE  Service!Told([sender |-> a, cliid |-> c], code, from)
BY SMT DEF Service!Told

\* The target or the method does not exist.
LEMMA SimulateUnknown ==
  ASSUME TypeInv, CallsInv, Handle, CallUnknown
  PROVE  [Service!Next]_(Service!vars)
<1>1. /\ Cmd.cmd = "call" /\ UNCHANGED <<callVars, incoming>> /\ UNCHANGED asked
  BY Zenon DEF CallUnknown, Accepted, Handling, Advance
<1>2. PICK a \in Adapter, c \in CallId : a = Cmd.sender /\ c = Cmd.cliid
  BY <1>1, CmdIsCall, Zenon
<1>3. PICK failed : Answer(a, c, "enexists", NoAdapter, 0, failed)
  BY <1>2, Zenon DEF CallUnknown
<1>4. Key(Cmd) = [sender |-> a, cliid |-> c]
  BY <1>2, Zenon DEF Key
<1>5. /\ Known([sender |-> a, cliid |-> c]) /\ Unanswered([sender |-> a, cliid |-> c])
      /\ [sender |-> a, cliid |-> c] \notin AcceptedCalls
  BY <1>1, <1>4, CmdIsCall, Zenon
<1>6. answers[a][c] = <<>>
  BY <1>5, Zenon DEF Unanswered
<1>7. OnlyAnswer(a, c, [code |-> "enexists", from |-> NoAdapter, svrid |-> 0])
  BY <1>3, <1>6, AnswerAdds, Zenon
<1>8. /\ Outcome[a][c] = <<>>
      /\ \/ Outcome' = Outcome
         \/ Outcome' = [Outcome EXCEPT ![a][c] = <<[code |-> "enexists", from |-> NoAdapter]>>]
  <2>1. OutcomeTold(a, c, "enexists", NoAdapter)
    BY <1>6, <1>7, OutcomeAdds, Zenon
  <2> QED BY <2>1, Zenon DEF OutcomeTold
<1>9. HeldCalls' = HeldCalls /\ AcceptedCalls' = AcceptedCalls
  <2>1. Holding' = Holding
    BY <1>1, HoldingOther, Zenon
  <2>2. HeldCalls' = HeldCalls
    BY <1>1, <2>1, HeldSame, Zenon
  <2> QED BY <1>1, <2>2, AcceptedSame, Zenon
<1>10. CASE Outcome' = Outcome
  BY <1>1, <1>9, <1>10, Zenon DEF Service!vars
<1>11. CASE Outcome' = [Outcome EXCEPT ![a][c] = <<[code |-> "enexists", from |-> NoAdapter]>>]
  <2>1. PICK call \in [sender : Adapter, cliid : CallId] : call = [sender |-> a, cliid |-> c]
    OBVIOUS
  <2>2. Service!Open(call) /\ Service!Told(call, "enexists", NoAdapter)
    BY <1>5, <1>8, <1>11, <2>1, OpenIs, ToldIs, Zenon
  <2>3. Service!Refuse(call)
    BY <1>1, <1>5, <1>9, <2>1, <2>2, Zenon DEF Service!Refuse
  <2> QED BY <2>3, Zenon DEF Service!Next, Service!Call
<1> QED BY <1>8, <1>10, <1>11, Zenon

\* An overdue call is discarded.
LEMMA SimulateDiscard ==
  ASSUME TypeInv, CallsInv, DiscardCall
  PROVE  [Service!Next]_(Service!vars)
<1>1. /\ pending_calls # <<>> /\ pending_calls' = Tail(pending_calls)
      /\ UNCHANGED queueVars /\ UNCHANGED <<forwarded, asked, incoming>>
  BY Zenon DEF DiscardCall, Overdue
<1>2. PICK pc \in Pending : pc = Head(pending_calls)
  BY <1>1, PendingDiscarded, Zenon
<1>3. PICK a \in Adapter, c \in CallId, k \in Nat :
        a = pc.sender /\ c = pc.cliid /\ k = pc.svrid
  BY PendingMembers, Zenon
<1>4. PICK failed : Answer(a, c, "etimeout", NoAdapter, k, failed)
  BY <1>2, <1>3, Zenon DEF DiscardCall
<1>5. Key(pc) = [sender |-> a, cliid |-> c]
  BY <1>3, Zenon DEF Key
<1>6. /\ Known([sender |-> a, cliid |-> c]) /\ answers[a][c] = <<>>
      /\ [sender |-> a, cliid |-> c] \in AcceptedCalls
  BY <1>3, <1>5, PendingKnown, Zenon
<1>7. OnlyAnswer(a, c, [code |-> "etimeout", from |-> NoAdapter, svrid |-> k])
  BY <1>4, <1>6, AnswerAdds, Zenon
<1>8. /\ Outcome[a][c] = <<>>
      /\ \/ Outcome' = Outcome
         \/ Outcome' = [Outcome EXCEPT ![a][c] = <<[code |-> "etimeout", from |-> NoAdapter]>>]
  <2>1. OutcomeTold(a, c, "etimeout", NoAdapter)
    BY <1>6, <1>7, OutcomeAdds, Zenon
  <2> QED BY <2>1, Zenon DEF OutcomeTold
<1>9. HeldCalls' = HeldCalls /\ AcceptedCalls' = AcceptedCalls
  <2>1. Waiting' = Waiting
    BY <1>1, WaitingSame, Zenon
  <2>2. Holding' = Holding
    BY <1>1, <2>1, HoldingSame, Zenon
  <2>3. HeldCalls' = HeldCalls
    BY <1>1, <2>2, HeldSame, Zenon
  <2> QED BY <1>1, <2>3, AcceptedSame, Zenon
<1>10. CASE Outcome' = Outcome
  BY <1>1, <1>9, <1>10, Zenon DEF Service!vars
<1>11. CASE Outcome' = [Outcome EXCEPT ![a][c] = <<[code |-> "etimeout", from |-> NoAdapter]>>]
  <2>1. PICK call \in [sender : Adapter, cliid : CallId] : call = [sender |-> a, cliid |-> c]
    OBVIOUS
  <2>2. Service!Open(call) /\ Service!Told(call, "etimeout", NoAdapter)
    BY <1>6, <1>8, <1>11, <2>1, OpenIs, ToldIs, Zenon
  <2>3. Service!TimeOut(call)
    BY <1>1, <1>6, <1>9, <2>1, <2>2, Zenon DEF Service!TimeOut
  <2> QED BY <2>3, Zenon DEF Service!Next, Service!Call
<1> QED BY <1>8, <1>10, <1>11, Zenon

\* A reply is the answer to a call, or is lost with its caller.
LEMMA SimulateReplied ==
  ASSUME TypeInv, CallsInv, Handle, NEW i \in 1..Len(pending_calls), ReplyForward(i)
  PROVE  [Service!Next]_(Service!vars)
<1>1. /\ Cmd.cmd = "reply" /\ UNCHANGED <<forwarded, incoming>> /\ UNCHANGED asked
      /\ pending_calls[i].svrid = Cmd.svrid
  BY Zenon DEF ReplyForward, ReplyTo, Matches, Accepted, Handling, Advance
<1>2. PICK pc \in Pending : pc = pending_calls[i]
  BY Zenon DEF Pending
<1>3. PICK b \in Adapter, k \in DOMAIN forwarded :
        /\ b = Cmd.sender /\ k = Cmd.svrid /\ forwarded[k] \in HeldCalls[b]
        /\ HeldCalls' = [HeldCalls EXCEPT ![b] = @ \ {forwarded[k]}]
  BY <1>1, HeldLess, Zenon
<1>4. PICK a \in Adapter, c \in CallId : a = pc.sender /\ c = pc.cliid
  BY PendingMembers, Zenon
<1>5. PICK failed : Answer(a, c, "success", b, k, failed)
  BY <1>2, <1>3, <1>4, Zenon DEF ReplyForward
<1>6. PICK call \in [sender : Adapter, cliid : CallId] : call = [sender |-> a, cliid |-> c]
  OBVIOUS
<1>7. /\ Known([sender |-> a, cliid |-> c]) /\ answers[a][c] = <<>> /\ forwarded[k] = call
  <2>1. Key(pc) = [sender |-> a, cliid |-> c]
    BY <1>4, Zenon DEF Key
  <2>2. k = pc.svrid
    BY <1>1, <1>2, <1>3, Zenon
  <2>3. /\ Known(Key(pc)) /\ answers[pc.sender][pc.cliid] = <<>>
        /\ forwarded[pc.svrid] = Key(pc)
    BY PendingKnown, Zenon
  <2> QED BY <1>4, <1>6, <2>1, <2>2, <2>3, Zenon
<1>8. OnlyAnswer(a, c, [code |-> "success", from |-> b, svrid |-> k])
  BY <1>5, <1>7, AnswerAdds, Zenon
<1>9. /\ Outcome[a][c] = <<>>
      /\ \/ Outcome' = Outcome
         \/ Outcome' = [Outcome EXCEPT ![a][c] = <<[code |-> "success", from |-> b]>>]
  <2>1. OutcomeTold(a, c, "success", b)
    BY <1>7, <1>8, OutcomeAdds, Zenon
  <2> QED BY <2>1, Zenon DEF OutcomeTold
<1>10. /\ AcceptedCalls' = AcceptedCalls /\ call \in HeldCalls[b]
       /\ HeldCalls' = [HeldCalls EXCEPT ![b] = @ \ {call}]
  BY <1>1, <1>3, <1>7, AcceptedSame, Zenon
<1>11. CASE Outcome' = Outcome
  <2>1. Service!Lose(call, b)
    BY <1>1, <1>10, <1>11, Zenon DEF Service!Lose
  <2> QED BY <2>1, Zenon DEF Service!Next, Service!Call
<1>12. CASE Outcome' = [Outcome EXCEPT ![a][c] = <<[code |-> "success", from |-> b]>>]
  <2>o. Service!Open([sender |-> a, cliid |-> c])
    BY <1>7, <1>9, OpenIs, Zenon
  <2>t. Service!Told([sender |-> a, cliid |-> c], "success", b)
    BY <1>12, ToldIs, Zenon
  <2>1. Service!Open(call) /\ Service!Told(call, "success", b)
    BY <1>6, <2>o, <2>t, Zenon
  <2>2. Service!Succeed(call, b)
    BY <1>1, <1>10, <2>1, Zenon DEF Service!Succeed
  <2> QED BY <2>2, Zenon DEF Service!Next, Service!Call
<1> QED BY <1>9, <1>11, <1>12, Zenon

\* A call is accepted, and is given to its target unless that one is gone or the
\* call does not fit in the buffer.
LEMMA SimulateAccepted ==
  ASSUME TypeInv, RegistryInv, CallsInv, Handle, CallForward
  PROVE  [Service!Next]_(Service!vars)
<1>0. PICK n \in Nat : n = Len(forwarded) + 1
  BY ForwardedTypes, SMT
<1>1. Cmd.cmd = "call" /\ UNCHANGED <<answers, asked>>
  BY Zenon DEF CallForward, Accepted, Handling, Advance
<1>2. PICK a \in Adapter, c \in CallId : a = Cmd.sender /\ c = Cmd.cliid
  BY <1>1, CmdIsCall, Zenon
<1>3. PICK call \in [sender : Adapter, cliid : CallId] : call = [sender |-> a, cliid |-> c]
  OBVIOUS
<1>4. /\ Known([sender |-> a, cliid |-> c]) /\ Target([sender |-> a, cliid |-> c]) = Cmd.target
      /\ Unanswered([sender |-> a, cliid |-> c]) /\ call \notin AcceptedCalls
  <2>1. Key(Cmd) = [sender |-> a, cliid |-> c]
    BY <1>2, Zenon DEF Key
  <2> QED BY <1>1, <1>3, <2>1, CmdIsCall, Zenon
<1>5. /\ n \notin DOMAIN forwarded /\ DOMAIN forwarded' = DOMAIN forwarded \cup {n}
      /\ forwarded'[n] = call /\ \A k \in DOMAIN forwarded : forwarded'[k] = forwarded[k]
  <2>1. forwarded' = Append(forwarded, call)
    BY <1>2, <1>3, Zenon DEF CallForward
  <2> QED BY <1>0, <2>1, ForwardedGrows, SMT
<1>6. PICK b \in Adapter :
        /\ ClientName[b] = Cmd.target
        /\ incoming' = incoming \/ incoming' = [incoming EXCEPT ![b] = incoming[b] \cup {n}]
  <2>1. PICK b \in Adapter : b = FindNamed(Cmd.target) /\ ClientName[b] = Cmd.target
    BY <1>1, TargetFound, Zenon
  <2>2. incoming' = incoming \/ incoming' = [incoming EXCEPT ![b] = incoming[b] \cup {n}]
    BY <1>0, <2>1, Zenon DEF CallForward, reqseq
  <2> QED BY <2>1, <2>2, Zenon
<1>7. Service!Open(call) /\ Target(call) = ClientName[b]
  <2>1. answers[a][c] = <<>>
    BY <1>4, SMT DEF Unanswered
  <2>2. Outcome[a][c] = <<>>
    BY <2>1, MappingIs, ShownIs, Zenon
  <2>3. Service!Open([sender |-> a, cliid |-> c])
    BY <1>4, <2>2, OpenIs, Zenon
  <2> QED BY <1>3, <1>4, <1>6, <2>3, Zenon
<1>8. AcceptedCalls' = AcceptedCalls \cup {call} /\ Outcome' = Outcome
  <2>1. Outcome' = Outcome
    BY <1>1, SMT DEF Outcome
  <2>2. AcceptedCalls' = AcceptedCalls \cup {call}
    BY <1>5, SMT DEF AcceptedCalls
  <2> QED BY <2>1, <2>2, Zenon
<1>9. \A e \in Adapter : \A k \in Holding[e] : k \in DOMAIN forwarded
  BY Zenon DEF CallsInv, GivenFits, Holding
<1>10. \A e \in Adapter : HeldCalls[e] = {forwarded[k] : k \in Holding[e]}
  BY MappingIs, Zenon
<1>11. CASE incoming' = incoming
  <2>1. Holding' = Holding
    BY <1>1, <1>11, HoldingOther, Zenon
  <2>2. HeldCalls' = HeldCalls
    BY <1>5, <1>9, <2>1, HeldSame, Zenon
  <2>3. Service!Accept(call, b)
    BY <1>1, <1>4, <1>7, <1>8, <2>2, Zenon DEF Service!Accept, Target
  <2> QED BY <2>3, Zenon DEF Service!Next, Service!Call
<1>12. CASE incoming' = [incoming EXCEPT ![b] = incoming[b] \cup {n}]
  <2>1. \A e \in Adapter : \A k : k \in Holding'[e] <=> k \in Holding[e] \/ (e = b /\ k = n)
    BY <1>1, <1>12, HoldingMore, Zenon
  <2>2. HeldCalls' = [HeldCalls EXCEPT ![b] = @ \cup {call}]
    <3>1. HeldCalls = [e \in Adapter |-> HeldCalls[e]] /\ HeldCalls' = [e \in Adapter |-> HeldCalls'[e]]
      BY MappingIs, MappingNext, Zenon
    <3>2. \A e \in Adapter : HeldCalls'[e] = {forwarded'[k] : k \in Holding'[e]}
      BY MappingNext, Zenon
    <3>3. \A k \in Holding[b] : forwarded'[k] = forwarded[k]
      BY <1>5, <1>9, Zenon
    <3>4. HeldCalls'[b] = HeldCalls[b] \cup {call}
      <4>1. \A k : k \in Holding'[b] <=> k \in Holding[b] \/ k = n
        BY <2>1, Zenon
      <4>2. {forwarded'[k] : k \in Holding'[b]} = {forwarded[k] : k \in Holding[b]} \cup {call}
        BY <1>5, <3>3, <4>1, ImageMore, SMTT(30)
      <4> QED BY <1>10, <3>2, <4>2, Zenon
    <3>5. ASSUME NEW e \in Adapter, e # b PROVE HeldCalls'[e] = HeldCalls[e]
      <4>1. \A k : k \in Holding'[e] <=> k \in Holding[e]
        BY <2>1, <3>5, Zenon
      <4>2. Holding'[e] = Holding[e] /\ \A k \in Holding[e] : forwarded'[k] = forwarded[k]
        BY <1>5, <1>9, <4>1, Zenon
      <4>3. {forwarded'[k] : k \in Holding'[e]} = {forwarded[k] : k \in Holding[e]}
        BY <4>2, SMT
      <4> QED BY <1>10, <3>2, <4>3, Zenon
    <3> QED BY <3>1, <3>4, <3>5, Zenon
  <2>3. Service!Accept(call, b)
    BY <1>1, <1>4, <1>7, <1>8, <2>2, Zenon DEF Service!Accept, Target
  <2> QED BY <2>3, Zenon DEF Service!Next, Service!Call
<1> QED BY <1>6, <1>11, <1>12, Zenon

\* Every step of the service is one of CallService, or shows nothing.
LEMMA SimulateStep ==
  ASSUME RegistryInv, CallsInv, [Next]_vars
  PROVE  [Service!Next]_(Service!vars)
<1>0. TypeInv
  BY Zenon DEF RegistryInv
<1>1. ASSUME UNCHANGED queueVars, UNCHANGED <<callVars, asked, incoming, answers>>
      PROVE  [Service!Next]_(Service!vars)
  <2>1. Waiting' = Waiting
    BY <1>1, WaitingSame, Zenon
  <2>2. Holding' = Holding
    BY <1>1, <2>1, HoldingSame, Zenon
  <2> QED BY <1>1, <2>2, Stutters, Zenon
<1>2. ASSUME NEW p \in Packet, p.cmd # "reply", put(p),
             UNCHANGED <<pending_cmds, it, callVars, asked, incoming, answers>>
      PROVE  [Service!Next]_(Service!vars)
  <2>1. Waiting' = Waiting \cup {p}
    BY <1>0, <1>2, WaitingPut, Zenon
  <2>2. \A q : q.cmd = "reply" => (q \in Waiting' <=> q \in Waiting)
    BY <1>2, <2>1, Zenon
  <2>3. Holding' = Holding
    BY <1>2, <2>2, HoldingSame, Zenon
  <2> QED BY <1>2, <2>3, Stutters, Zenon
<1>3. CASE UNCHANGED vars
  BY <1>1, <1>3, Zenon DEF vars
<1>4. ASSUME NEW a \in Adapter, Connect(a) PROVE [Service!Next]_(Service!vars)
  <2> DEFINE p == [cmd |-> "auth", sender |-> a]
  <2>1. p \in Packet /\ p.cmd # "reply"
    BY Zenon DEF Packet
  <2>2. put(p) /\ UNCHANGED <<pending_cmds, it, callVars, asked, incoming, answers>>
    BY <1>4, Zenon DEF Connect
  <2> HIDE DEF p
  <2> QED BY <1>2, <2>1, <2>2, Zenon
<1>5. ASSUME NEW a \in Adapter, PollErase(a) PROVE [Service!Next]_(Service!vars)
  <2>1. CASE info[a] = "null"
    BY <1>1, <1>5, <2>1, Zenon DEF PollErase, erase_adapter
  <2>2. CASE info[a] # "null"
    <3> DEFINE p == [cmd |-> "erase", sender |-> a]
    <3>1. p \in Packet /\ p.cmd # "reply"
      BY Zenon DEF Packet
    <3>2. put(p) /\ UNCHANGED <<pending_cmds, it, callVars, asked, incoming, answers>>
      BY <1>5, <2>2, Zenon DEF PollErase, erase_adapter
    <3> HIDE DEF p
    <3> QED BY <1>2, <3>1, <3>2, Zenon
  <2> QED BY <2>1, <2>2, Zenon
<1>6. CASE \/ \E a \in Adapter : Disconnect(a) \/ PollClose(a)
           \/ Exit \/ Close \/ Tick \/ DiscardBegin \/ DiscardEnd \/ DiscardCrash
  BY <1>1, <1>6, Zenon DEF Disconnect, PollClose, Exit, Close, Tick, DiscardBegin, DiscardEnd,
    DiscardCrash
<1>7. CASE Splice
  <2>1. Waiting' = Waiting
    BY <1>0, <1>7, WaitingSplice, Zenon
  <2>2. UNCHANGED <<callVars, asked, incoming, answers>>
    BY <1>7, Zenon DEF Splice
  <2>3. Holding' = Holding
    BY <2>1, <2>2, HoldingSame, Zenon
  <2> QED BY <2>2, <2>3, Stutters, Zenon
<1>8. CASE Handle
  <2>1. CASE UNCHANGED <<callVars, incoming, answers>>
    BY <1>0, <1>8, <2>1, SimulateOther, Zenon
  <2>2. CASE CallUnknown \/ CallForward \/ \E i \in 1..Len(pending_calls) : ReplyForward(i)
    BY <1>0, <1>8, <2>2, SimulateUnknown, SimulateAccepted, SimulateReplied, Zenon
  <2> QED BY <1>8, <2>1, <2>2, HandleOther, Zenon
<1> QED
  BY <1>0, <1>3, <1>4, <1>5, <1>6, <1>7, <1>8, SimulateSend, SimulateReply, SimulateDiscard,
    Zenon DEF Next, DispatcherStep, PollStep

\* The initial states of the service are those of CallService.
LEMMA SimulateInit == Init => Service!Init
<1> SUFFICES ASSUME Init PROVE Service!Init
  BY Zenon
<1>1. /\ cmd_packets = <<>> /\ pending_cmds = <<>> /\ it = 0 /\ forwarded = <<>>
      /\ \A b \in Adapter : incoming[b] = {} /\ \A c \in CallId : answers[b][c] = <<>>
  BY Zenon DEF Init
<1>2. Waiting = {}
  BY <1>1, SMT DEF Waiting
<1>3. \A b : Replied(b) = {}
  BY <1>2, RepliedIs, SMT
<1>4. AcceptedCalls = {}
  BY <1>1, SMT DEF AcceptedCalls
<1>5. HeldCalls = [b \in Adapter |-> {}]
  <2>1. \A b \in Adapter : incoming[b] \cup Replied(b) = {}
    BY <1>1, <1>3, Zenon
  <2>2. \A b \in Adapter : {forwarded[k] : k \in incoming[b] \cup Replied(b)} = {}
    BY <2>1, SMT
  <2> QED BY <2>2, Zenon DEF HeldCalls
<1>6. Outcome = [a \in Adapter |-> [c \in CallId |-> <<>>]]
  <2>1. \A a \in Adapter, c \in CallId : Shown(answers[a][c]) = <<>>
    BY <1>1, ShownIs, Zenon
  <2>2. Outcome = [a \in Adapter |-> [c \in CallId |-> Shown(answers[a][c])]]
    BY Zenon DEF Outcome, Shown
  <2>3. \A a \in Adapter : [c \in CallId |-> Shown(answers[a][c])] = [c \in CallId |-> <<>>]
    BY <2>1, Zenon
  <2> QED BY <2>2, <2>3, Zenon
<1>7. asked = [a \in Adapter |-> <<>>]
  BY Zenon DEF Init
<1> QED BY <1>4, <1>5, <1>6, <1>7, Zenon DEF Service!Init

\* handle_call_req, handle_reply_req, discard_pending_calls, lost writes and
\* departing clients, in whatever order the threads run, behave like the
\* abstract service: a call is accepted by at most one client, one that has the
\* id it names, and its caller is told one outcome at most.
THEOREM ServiceImplementsCalls == Spec => ImplementsCallService
<1>1. RegistryInv /\ CallsInv /\ [Next]_vars => [Service!Next]_(Service!vars)
  BY SimulateStep, Zenon
<1> QED BY <1>1, SimulateInit, CallsInvariant, PTL DEF Spec, ImplementsCallService, Service!Spec
=============================================================================
