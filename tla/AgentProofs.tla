---------------------------- MODULE AgentProofs -----------------------------
(***************************************************************************)
(* Proofs about Agent: one connection at a time, the subscriptions that a  *)
(* new connection has, and what has ended when close returns.              *)
(***************************************************************************)
EXTENDS Agent, FiniteSetTheorems, WellFoundedInduction, TLAPS

\* The run thread has no client, or one that is not in gabages yet.
Between == {"off", "begin", "check", "connect", "retry", "ended"}
Fresh   == {"auth", "ready", "init", "dangling", "set"}

\* The list gabages, up to the last connection.
Collected ==
  /\ run \notin Fresh \cup {"crashed"} /\ used > 0 => used \in gabages
  /\ run \in Fresh \cup {"wait", "woken"} => used > 0
  /\ run = "joining" => pos \in gabages
  /\ run # "off" => start # "no"

\* The connections that are not closed.
Open ==
  /\ sock \subseteq {used}
  /\ run \in Between => sock = {}
  /\ run \in {"cleaning", "joining"} => \A c \in sock : c > pos

\* The receiving threads that have ended.
Ended ==
  /\ \A c \in Conn : c > used => recv[c] = "none"
  /\ \A c \in Conn : c < used => recv[c] = "done"
  /\ run \in Between /\ used > 0 => recv[used] = "done"
  /\ run = "cleaning" /\ used > 0 /\ pos >= used => recv[used] = "done"

\* The client that operations are made with.
Current ==
  /\ run \notin {"wait", "woken"} => flora_cli = NoCli
  /\ flora_cli \in {NoCli, used}
  /\ run = "wait" => flora_cli = used
  /\ \A t \in Thread : arg[t].cli <= used
  /\ run \in Fresh => \A t \in Thread : arg[t].cli # used
  /\ \A t \in Thread : pc[t] = "unsubscribe" /\ arg[t].cli = used => arg[t].name \notin kept
  /\ \A t \in Thread : pc[t] \in {"subscribe", "unsubscribe"} => arg[t].name \in Name

\* What init_cli has repeated.
Repeated ==
  /\ run = "dangling" => kept = {}
  /\ run = "init" /\ Writable(used) =>
       \A n \in kept : n <= pos => n \in told[used]
  /\ run \in {"set", "wait"} /\ Writable(used) => kept \subseteq told[used]

Closed == (\E t \in App : pc[t] = "closed") => run = "ended"

AgentInv ==
  TypeOK /\ Collected /\ Open /\ Ended /\ Current /\ Repeated /\ Closed
-----------------------------------------------------------------------------
(***************************************************************************)
(* Naturals: the least element that CHOOSE finds, and small facts.         *)
(***************************************************************************)
Less == {ss \in Nat \X Nat : ss[1] < ss[2]}

LEMMA LessWellFounded == IsWellFoundedOn(Less, Nat)
BY NatLessThanWellFounded, Zenon DEF OpToRel, Less

LEMMA LessIs == \A k, m \in Nat : k < m => <<k, m>> \in Less
BY SMT DEF Less

LEMMA Ordered == \A k, m \in Nat : ~(k < m) => m <= k
BY SMT

LEMMA LeastOf ==
  ASSUME NEW S, S \subseteq Nat, S # {}
  PROVE  \E m \in S : \A k \in S : m <= k
<1>1. PICK m \in S : \A k \in S : ~(<<k, m>> \in Less)
  BY LessWellFounded, WFMin, Zenon
<1> QED BY <1>1, LessIs, Ordered, Zenon
-----------------------------------------------------------------------------
(***************************************************************************)
(* Steps of receiving threads and operations: what they leave to the run   *)
(* thread.                                                                 *)
(***************************************************************************)
Places == {"idle", "subscribe", "unsubscribe", "post", "econn", "close",
           "closing", "detached", "join", "closed"}

OpsOK ==
  /\ pc \in [Thread -> Places]
  /\ arg \in [Thread -> [cli : Conn \cup {NoCli}, name : 0..MaxName]]
  /\ \A t \in Thread : pc[t] \notin {"idle", "econn", "close", "join", "closed"}
                        => arg[t].cli # NoCli

Did(t, where, c, n) ==
  /\ pc'[t] = where /\ arg'[t].cli = c /\ arg'[t].name = n
  /\ \A u \in Thread : u # t => pc'[u] = pc[u] /\ arg'[u] = arg[u]

LEMMA AtIs ==
  ASSUME OpsOK, NEW t \in Thread, NEW where, NEW c, NEW n, At(t, where, c, n)
  PROVE  Did(t, where, c, n)
<1>1. DOMAIN pc = Thread /\ DOMAIN arg = Thread
  BY Zenon DEF OpsOK
<1>2. /\ pc'[t] = where /\ arg'[t] = [cli |-> c, name |-> n]
      /\ \A u \in Thread : u # t => pc'[u] = pc[u] /\ arg'[u] = arg[u]
  BY <1>1, Zenon DEF At
<1>3. [cli |-> c, name |-> n].cli = c /\ [cli |-> c, name |-> n].name = n
  BY SMT
<1> QED BY <1>2, <1>3, Zenon DEF Did

LEMMA AtTyped ==
  ASSUME OpsOK, NEW t \in Thread, NEW where \in Places, NEW c \in Conn \cup {NoCli},
         NEW n \in 0..MaxName, At(t, where, c, n),
         where \notin {"idle", "econn", "close", "join", "closed"} => c # NoCli
  PROVE  OpsOK'
<1>1. [cli |-> c, name |-> n] \in [cli : Conn \cup {NoCli}, name : 0..MaxName]
  BY SMT
<1>2. pc' \in [Thread -> Places]
  BY Zenon DEF OpsOK, At
<1>3. arg' \in [Thread -> [cli : Conn \cup {NoCli}, name : 0..MaxName]]
  BY <1>1, Zenon DEF OpsOK, At
<1>4. ASSUME NEW u \in Thread, pc'[u] \notin {"idle", "econn", "close", "join", "closed"}
      PROVE  arg'[u].cli # NoCli
  <2>1. Did(t, where, c, n)
    BY AtIs, Zenon
  <2>2. CASE u = t
    BY <1>4, <2>1, <2>2, Zenon DEF Did
  <2>3. CASE u # t
    BY <1>4, <2>1, <2>3, Zenon DEF Did, OpsOK
  <2> QED BY <2>2, <2>3, Zenon
<1> QED BY <1>2, <1>3, <1>4, Zenon DEF OpsOK

LEMMA DoneTyped ==
  ASSUME OpsOK, NEW t \in Thread, Done(t)
  PROVE  OpsOK'
<1>1. 0 \in 0..MaxName /\ NoCli \in Conn \cup {NoCli}
  BY AgentAssumption, SMT
<1> QED BY <1>1, AtTyped, Zenon DEF Done, Places
-----------------------------------------------------------------------------
\* The steps of the receiving threads and of the operations.
Other ==
  \/ \E c \in Conn : RecvStep(c) \/ RecvMessage(c) \/ Breaks(c)
  \/ \E t \in Thread : OpStep(t) \/ Begin(t)
  \/ UNCHANGED vars

\* What they leave alone, and what only gets less.
Lasting ==
  /\ UNCHANGED <<used, gabages, pos, start, ccb>>
  /\ sock' \subseteq sock /\ peer' \subseteq peer /\ kept' \subseteq kept

Mapped ==
  /\ handlers' \subseteq Name /\ kept' \subseteq handlers' /\ working' \in BOOLEAN
  /\ cg_mutex' \in Thread \cup {Run, NoOne} /\ ops' \in 0..MaxOps

\* How they move the run thread.
Steered ==
  /\ \/ run' = run
     \/ run = "wait" /\ run' = "woken"
     \/ run = "retry" /\ run' = "clean"
     \/ run = "init" /\ run' = "dangling" /\ kept' = {}
  /\ flora_cli' = flora_cli \/ (flora_cli' = NoCli /\ run' # "wait")

Heard ==
  /\ recv' \in [Conn -> {"none", "read", "callback", "iclose", "close", "tell", "done"}]
  /\ \A c \in Conn : recv'[c] = recv[c] \/ recv[c] \notin {"none", "done"}

LEMMA OneMore ==
  ASSUME ops \in 0..MaxOps, ops < MaxOps, ops' = ops + 1
  PROVE  ops' \in 0..MaxOps
BY AgentAssumption, SMT

LEMMA OtherStep ==
  ASSUME TypeOK, Other
  PROVE  Lasting /\ Mapped /\ Steered /\ Heard
<1> USE DEF agentVars, runVars, connVars, opVars, TypeOK, Lasting,
  Mapped, Steered, Heard
<1>1. ASSUME NEW c \in Conn, RecvEnd(c) PROVE Lasting /\ Mapped /\ Steered /\ Heard
  BY <1>1, Zenon DEF RecvEnd
<1>2. ASSUME NEW c \in Conn, RecvIclose(c) PROVE Lasting /\ Mapped /\ Steered /\ Heard
  BY <1>2, Zenon DEF RecvIclose
<1>3. ASSUME NEW c \in Conn, RecvClose(c) PROVE Lasting /\ Mapped /\ Steered /\ Heard
  BY <1>3, Zenon DEF RecvClose
<1>4. ASSUME NEW c \in Conn, RecvTell(c) PROVE Lasting /\ Mapped /\ Steered /\ Heard
  BY <1>4, Zenon DEF RecvTell, Notified
<1>5. ASSUME NEW c \in Conn, CallbackReturn(c) PROVE Lasting /\ Mapped /\ Steered /\ Heard
  BY <1>5, Zenon DEF CallbackReturn
<1>6. ASSUME NEW c \in Conn, RecvMessage(c) PROVE Lasting /\ Mapped /\ Steered /\ Heard
  BY <1>6, Zenon DEF RecvMessage
<1>7. ASSUME NEW c \in Conn, Breaks(c) PROVE Lasting /\ Mapped /\ Steered /\ Heard
  BY <1>7, Zenon DEF Breaks
<1>8. ASSUME NEW t \in Thread, Request(t) PROVE Lasting /\ Mapped /\ Steered /\ Heard
  BY <1>8, Zenon DEF Request
<1>9. ASSUME NEW t \in Thread, PostSent(t) PROVE Lasting /\ Mapped /\ Steered /\ Heard
  BY <1>9, Zenon DEF PostSent
<1>10. ASSUME NEW t \in Thread, destroy_client(t) PROVE Lasting /\ Mapped /\ Steered /\ Heard
  BY <1>10, Zenon DEF destroy_client, Notified
<1>11. ASSUME NEW t \in Thread, CloseClient(t) PROVE Lasting /\ Mapped /\ Steered /\ Heard
  BY <1>11, Zenon DEF CloseClient
<1>12. ASSUME NEW t \in Thread, CloseJoined(t) PROVE Lasting /\ Mapped /\ Steered /\ Heard
  BY <1>12, Zenon DEF CloseJoined
<1>13. ASSUME NEW t \in Thread, CloseDetached(t) PROVE Lasting /\ Mapped /\ Steered /\ Heard
  BY <1>13, Zenon DEF CloseDetached
<1>14. ASSUME NEW t \in Thread, CloseReturn(t) PROVE Lasting /\ Mapped /\ Steered /\ Heard
  BY <1>14, Zenon DEF CloseReturn
<1>15. ASSUME NEW t \in Thread, NEW n \in Name, subscribe(t, n) PROVE Lasting /\ Mapped /\ Steered /\ Heard
  BY <1>15, OneMore, Zenon DEF subscribe, Idle, Raced, StillKept
<1>16. ASSUME NEW t \in Thread, NEW n \in Name, unsubscribe(t, n) PROVE Lasting /\ Mapped /\ Steered /\ Heard
  BY <1>16, OneMore, Zenon DEF unsubscribe, Idle, Raced, StillKept
<1>17. ASSUME NEW t \in Thread, post(t) PROVE Lasting /\ Mapped /\ Steered /\ Heard
  BY <1>17, OneMore, Zenon DEF post, Idle
<1>18. ASSUME NEW t \in Thread, close(t) PROVE Lasting /\ Mapped /\ Steered /\ Heard
  BY <1>18, OneMore, Zenon DEF close, Idle, Notified, Raced
<1>19. CASE UNCHANGED vars
  BY <1>19, Zenon DEF vars
<1> QED BY <1>1, <1>2, <1>3, <1>4, <1>5, <1>6, <1>7, <1>8, <1>9, <1>10, <1>11, <1>12, <1>13,
  <1>14, <1>15, <1>16, <1>17, <1>18, <1>19, Zenon
  DEF Other, RecvStep, OpStep, Begin

\* What the services are told: nothing of kept is taken back.
Said ==
  /\ told' \in [Conn -> SUBSET Name]
  /\ used \in Conn => \A n \in kept' : n \in told[used] => n \in told'[used]

LEMMA SaidStep ==
  ASSUME TypeOK, Current, kept' \subseteq kept, Other
  PROVE  Said
<1> USE DEF agentVars, runVars, connVars, opVars
<1>1. ASSUME NEW c \in Conn, RecvEnd(c) PROVE Said
  BY <1>1, Zenon DEF RecvEnd, TypeOK, Said
<1>2. ASSUME NEW c \in Conn, RecvIclose(c) PROVE Said
  BY <1>2, Zenon DEF RecvIclose, TypeOK, Said
<1>3. ASSUME NEW c \in Conn, RecvClose(c) PROVE Said
  BY <1>3, Zenon DEF RecvClose, TypeOK, Said
<1>4. ASSUME NEW c \in Conn, RecvTell(c) PROVE Said
  BY <1>4, Zenon DEF RecvTell, TypeOK, Said
<1>5. ASSUME NEW c \in Conn, CallbackReturn(c) PROVE Said
  BY <1>5, Zenon DEF CallbackReturn, TypeOK, Said
<1>6. ASSUME NEW c \in Conn, RecvMessage(c) PROVE Said
  BY <1>6, Zenon DEF RecvMessage, TypeOK, Said
<1>7. ASSUME NEW c \in Conn, Breaks(c) PROVE Said
  BY <1>7, Zenon DEF Breaks, TypeOK, Said
<1>8. ASSUME NEW t \in Thread, Request(t) PROVE Said
  <2>1. /\ told \in [Conn -> SUBSET Name] /\ arg[t].cli \in Conn \cup {NoCli} /\ kept' = kept
        /\ arg[t].name \in 0..MaxName /\ handlers \subseteq Name /\ kept \subseteq handlers
        /\ arg[t].cli # NoCli
    BY <1>8, SMT DEF Request, TypeOK
  <2>2. CASE told' = told
    BY <2>1, <2>2, Zenon DEF Said
  <2>3. CASE /\ pc[t] = "subscribe" /\ told' = [told EXCEPT ![arg[t].cli] = @ \cup {arg[t].name}]
    <3>1. arg[t].name \in Name
      BY <2>3, Zenon DEF Current
    <3> QED BY <2>1, <2>3, <3>1, Zenon DEF Said
  <2>4. CASE /\ pc[t] = "unsubscribe" /\ told' = [told EXCEPT ![arg[t].cli] = @ \ {arg[t].name}]
    <3>1. arg[t].cli = used => arg[t].name \notin kept
      BY <2>4, Zenon DEF Current
    <3> QED BY <2>1, <2>4, <3>1, Zenon DEF Said
  <2> QED BY <1>8, <2>2, <2>3, <2>4, Zenon DEF Request
<1>9. ASSUME NEW t \in Thread, PostSent(t) PROVE Said
  BY <1>9, Zenon DEF PostSent, TypeOK, Said
<1>10. ASSUME NEW t \in Thread, destroy_client(t) PROVE Said
  BY <1>10, Zenon DEF destroy_client, TypeOK, Said
<1>11. ASSUME NEW t \in Thread, CloseClient(t) PROVE Said
  BY <1>11, Zenon DEF CloseClient, TypeOK, Said
<1>12. ASSUME NEW t \in Thread, CloseJoined(t) PROVE Said
  BY <1>12, Zenon DEF CloseJoined, TypeOK, Said
<1>13. ASSUME NEW t \in Thread, CloseDetached(t) PROVE Said
  BY <1>13, Zenon DEF CloseDetached, TypeOK, Said
<1>14. ASSUME NEW t \in Thread, CloseReturn(t) PROVE Said
  BY <1>14, Zenon DEF CloseReturn, TypeOK, Said
<1>15. ASSUME NEW t \in Thread, NEW n \in Name, subscribe(t, n) PROVE Said
  BY <1>15, Zenon DEF subscribe, TypeOK, Said
<1>16. ASSUME NEW t \in Thread, NEW n \in Name, unsubscribe(t, n) PROVE Said
  BY <1>16, Zenon DEF unsubscribe, TypeOK, Said
<1>17. ASSUME NEW t \in Thread, post(t) PROVE Said
  BY <1>17, Zenon DEF post, TypeOK, Said
<1>18. ASSUME NEW t \in Thread, close(t) PROVE Said
  BY <1>18, Zenon DEF close, TypeOK, Said
<1>19. CASE UNCHANGED vars
  BY <1>19, Zenon DEF vars, TypeOK, Said
<1> QED BY <1>1, <1>2, <1>3, <1>4, <1>5, <1>6, <1>7, <1>8, <1>9, <1>10, <1>11, <1>12, <1>13,
  <1>14, <1>15, <1>16, <1>17, <1>18, <1>19, Zenon
  DEF Other, RecvStep, OpStep, Begin

\* An operation takes the client it finds, or gives it up.
Takes(t) ==
  \E where \in Places, c \in {NoCli, flora_cli, arg[t].cli}, n \in 0..MaxName :
    /\ At(t, where, c, n)
    /\ where \notin {"idle", "econn", "close", "join", "closed"} => c # NoCli
    /\ where = "unsubscribe" => n \notin kept'
    /\ where \in {"subscribe", "unsubscribe"} => n \in Name
    /\ where = "closed" => run = "ended"

LEMMA Zeros ==
  /\ 0 \in 0..MaxName /\ (\A n \in Name : n \in 0..MaxName) /\ NoCli \notin Conn
  /\ \A t \in Thread : t # NoCli
<1>1. 0 \in 0..MaxName /\ (\A n \in Name : n \in 0..MaxName) /\ NoCli \notin Conn
  BY AgentAssumption, SMT DEF Name, Conn, NoCli
<1>2. \A t \in App : t # 0
  BY AgentAssumption, SMT
<1> QED BY <1>1, <1>2, Zenon DEF Thread, NoCli

LEMMA DoneTakes ==
  ASSUME NEW t \in Thread, Done(t)
  PROVE  Takes(t)
BY Zeros, Zenon DEF Done, Takes, Places

LEMMA TakesStep ==
  ASSUME TypeOK, NEW t \in Thread, OpStep(t) \/ Begin(t)
  PROVE  Takes(t)
<1>1. CASE Request(t) \/ destroy_client(t)
  BY <1>1, DoneTakes, Zenon DEF Request, destroy_client
<1>2. CASE PostSent(t)
  <2>1. CASE At(t, "econn", NoCli, 0)
    BY <2>1, Zeros, Zenon DEF Takes, Places
  <2> QED BY <1>2, <2>1, DoneTakes, Zenon DEF PostSent
<1>3. CASE CloseClient(t)
  <2> DEFINE c == arg[t].cli
  <2>1. CASE c \in Conn \ {t} /\ At(t, "closing", c, 0)
    BY <2>1, Zeros, Zenon DEF Takes, Places
  <2>2. CASE c = t /\ At(t, "detached", c, 0)
    BY <2>2, Zeros, Zenon DEF Takes, Places
  <2>3. CASE At(t, "join", c, 0)
    BY <2>3, Zeros, Zenon DEF Takes, Places
  <2> QED BY <1>3, <2>1, <2>2, <2>3, Zenon DEF CloseClient
<1>4. CASE CloseJoined(t) \/ CloseDetached(t)
  <2>1. At(t, "join", NoCli, 0)
    BY <1>4, Zenon DEF CloseJoined, CloseDetached
  <2> QED BY <2>1, Zeros, Zenon DEF Takes, Places
<1>5. CASE CloseReturn(t)
  <2>1. At(t, "closed", NoCli, 0) /\ run = "ended"
    BY <1>5, Zenon DEF CloseReturn, RunJoined
  <2> QED BY <2>1, Zeros, Zenon DEF Takes, Places
<1>6. ASSUME NEW n \in Name, subscribe(t, n) PROVE Takes(t)
  <2>1. CASE At(t, "subscribe", flora_cli, n) /\ flora_cli # NoCli
    BY <2>1, Zeros, Zenon DEF Takes, Places
  <2> QED BY <1>6, <2>1, DoneTakes, Zenon DEF subscribe
<1>7. ASSUME NEW n \in Name, unsubscribe(t, n) PROVE Takes(t)
  <2>1. CASE At(t, "unsubscribe", flora_cli, n) /\ flora_cli # NoCli
    <3>1. n \notin kept'
      BY <1>7, Zenon DEF unsubscribe, StillKept, TypeOK
    <3> QED BY <2>1, <3>1, Zeros, Zenon DEF Takes, Places
  <2> QED BY <1>7, <2>1, DoneTakes, Zenon DEF unsubscribe
<1>8. CASE post(t)
  <2>1. CASE At(t, "post", flora_cli, 0) /\ flora_cli # NoCli
    BY <2>1, Zeros, Zenon DEF Takes, Places
  <2> QED BY <1>8, <2>1, DoneTakes, Zenon DEF post
<1>9. CASE close(t)
  <2>1. CASE At(t, "close", flora_cli, 0)
    BY <2>1, Zeros, Zenon DEF Takes, Places
  <2> QED BY <1>9, <2>1, DoneTakes, Zenon DEF close
<1> QED BY <1>1, <1>2, <1>3, <1>4, <1>5, <1>6, <1>7, <1>8, <1>9, Zenon DEF OpStep, Begin

\* What becomes of the operations.
Asked ==
  /\ OpsOK'
  /\ \A t \in Thread :
       /\ arg'[t].cli \in {arg[t].cli, NoCli, flora_cli}
       /\ pc'[t] = "unsubscribe" =>
            (pc[t] = "unsubscribe" /\ arg'[t] = arg[t]) \/ arg'[t].name \notin kept'
       /\ pc'[t] \in {"subscribe", "unsubscribe"} =>
            (pc[t] = pc'[t] /\ arg'[t] = arg[t]) \/ arg'[t].name \in Name
       /\ pc'[t] = "closed" => pc[t] = "closed" \/ run = "ended"

LEMMA AskedStep ==
  ASSUME TypeOK, Other
  PROVE  Asked
<1>1. OpsOK /\ flora_cli \in Conn \cup {NoCli}
  BY Zenon DEF TypeOK, OpsOK, Places
<1>2. ASSUME NEW t \in Thread, Takes(t) PROVE Asked
  <2>1. PICK where \in Places, c \in {NoCli, flora_cli, arg[t].cli}, n \in 0..MaxName :
          /\ At(t, where, c, n)
          /\ where \notin {"idle", "econn", "close", "join", "closed"} => c # NoCli
          /\ where = "unsubscribe" => n \notin kept'
          /\ where \in {"subscribe", "unsubscribe"} => n \in Name
          /\ where = "closed" => run = "ended"
    BY <1>2, Zenon DEF Takes
  <2>2. Did(t, where, c, n)
    BY <1>1, <2>1, AtIs, Zenon
  <2>3. arg[t].cli \in Conn \cup {NoCli}
    BY <1>1, SMT DEF OpsOK
  <2>4. OpsOK'
    BY <1>1, <2>1, <2>3, AtTyped, Zenon
  <2>5. ASSUME NEW u \in Thread
        PROVE  /\ arg'[u].cli \in {arg[u].cli, NoCli, flora_cli}
               /\ pc'[u] = "unsubscribe" =>
                    (pc[u] = "unsubscribe" /\ arg'[u] = arg[u]) \/ arg'[u].name \notin kept'
               /\ pc'[u] \in {"subscribe", "unsubscribe"} =>
                    (pc[u] = pc'[u] /\ arg'[u] = arg[u]) \/ arg'[u].name \in Name
               /\ pc'[u] = "closed" => pc[u] = "closed" \/ run = "ended"
    <3>1. CASE u = t
      BY <2>1, <2>2, <3>1, Zenon DEF Did
    <3>2. CASE u # t
      BY <2>2, <3>2, Zenon DEF Did
    <3> QED BY <3>1, <3>2, Zenon
  <2> QED BY <2>4, <2>5, Zenon DEF Asked
<1>3. ASSUME NEW c \in Conn, RecvStep(c) \/ RecvMessage(c) \/ Breaks(c) PROVE UNCHANGED <<pc, arg>>
  BY <1>3, Zenon DEF RecvStep, RecvEnd, RecvIclose, RecvClose, RecvTell, CallbackReturn,
    RecvMessage, Breaks, opVars
<1>4. CASE UNCHANGED <<pc, arg>>
  BY <1>1, <1>4, Zenon DEF Asked, OpsOK
<1> QED BY <1>2, <1>3, <1>4, TakesStep, Zenon DEF Other, vars, opVars
-----------------------------------------------------------------------------
(***************************************************************************)
(* Each conjunct is kept by the steps of receiving threads and operations. *)
(***************************************************************************)
LEMMA OtherKeeps ==
  ASSUME AgentInv, Other
  PROVE  AgentInv'
<1>1. Lasting /\ Mapped /\ Steered /\ Heard /\ Said /\ Asked
  BY OtherStep, SaidStep, AskedStep, Zenon DEF AgentInv, Lasting
<1>2. TypeOK'
  <2>1. /\ run' \in {"off", "begin", "check", "connect", "auth", "ready", "init", "dangling", "set",
                     "wait", "woken", "retry", "clean", "cleaning", "joining", "ended", "crashed"}
        /\ flora_cli' \in Conn \cup {NoCli}
    BY <1>1, Zenon DEF Steered, AgentInv, TypeOK
  <2>2. /\ pos' \in 0..MaxName + MaxConns + 1 /\ gabages' \subseteq 1..used'
        /\ start' \in {"no", "wait", "done"} /\ used' \in 0..MaxConns
        /\ peer' \subseteq 1..used' /\ sock' \subseteq 1..used' /\ ccb' \subseteq 1..used'
    BY <1>1, Zenon DEF Lasting, AgentInv, TypeOK
  <2> QED BY <1>1, <2>1, <2>2, Zenon DEF Mapped, Heard, Said, Asked, OpsOK, Places, TypeOK
<1>3. Collected'
  BY <1>1, Zenon DEF AgentInv, Lasting, Steered, Collected, Fresh
<1>4. Open'
  BY <1>1, Zenon DEF AgentInv, Lasting, Steered, Open, Between
<1>5. Ended'
  <2>1. used \in Nat /\ (used > 0 => used \in Conn)
    BY AgentAssumption, SMT DEF AgentInv, TypeOK, Conn
  <2>2. \A c \in Conn : recv[c] \in {"none", "done"} => recv'[c] = recv[c]
    BY <1>1, Zenon DEF Heard
  <2> QED BY <1>1, <2>1, <2>2, Zenon DEF AgentInv, Lasting, Steered, Ended, Between
<1>6. Current'
  <2>1. used \in Nat /\ NoCli <= used /\ used <= used
    BY AgentAssumption, SMT DEF AgentInv, TypeOK, NoCli
  <2>2. flora_cli \in {NoCli, used} /\ flora_cli' \in {NoCli, used}
    BY <1>1, Zenon DEF AgentInv, Current, Steered
  <2>3. ASSUME NEW t \in Thread PROVE arg'[t].cli <= used
    BY <1>1, <2>1, <2>2, Zenon DEF AgentInv, Current, Asked
  <2>4. ASSUME run' \in Fresh, NEW t \in Thread PROVE arg'[t].cli # used
    <3>1. run \in Fresh
      BY <1>1, <2>4, Zenon DEF Steered, Fresh
    <3>2. flora_cli = NoCli /\ used # NoCli /\ arg[t].cli # used
      <4>1. used > 0 /\ flora_cli = NoCli /\ arg[t].cli # used
        BY <3>1, Zenon DEF AgentInv, Current, Collected, Fresh
      <4> QED BY <2>1, <4>1, SMT DEF NoCli
    <3> QED BY <1>1, <3>2, Zenon DEF Asked
  <2>5. ASSUME NEW t \in Thread, pc'[t] = "unsubscribe", arg'[t].cli = used
        PROVE  arg'[t].name \notin kept'
    BY <1>1, <2>5, Zenon DEF Asked, AgentInv, Current, Lasting
  <2>6. ASSUME NEW t \in Thread, pc'[t] \in {"subscribe", "unsubscribe"}
        PROVE  arg'[t].name \in Name
    BY <1>1, <2>6, Zenon DEF Asked, AgentInv, Current
  <2>7. /\ run' \notin {"wait", "woken"} => flora_cli' = NoCli
        /\ run' = "wait" => flora_cli' = used
    BY <1>1, Zenon DEF AgentInv, Current, Steered
  <2> QED BY <1>1, <2>2, <2>3, <2>4, <2>5, <2>6, <2>7, Zenon DEF Current, Lasting
<1>7. Repeated'
  <2>1. ASSUME Writable(used)', run' \in {"init", "dangling", "set", "wait"}
        PROVE  Writable(used) /\ used \in Conn
    <3>1. Writable(used) /\ used \in 1..used /\ used \in 0..MaxConns
      BY <1>1, <2>1, Zenon DEF Writable, Lasting, AgentInv, TypeOK
    <3> QED BY <3>1, AgentAssumption, SMT DEF Conn
  <2>2. ASSUME Writable(used)', run' = "init", NEW n \in kept', n <= pos
        PROVE  n \in told'[used]
    <3>1. run = "init" /\ n \in kept
      BY <1>1, <2>2, Zenon DEF Steered, Lasting
    <3>2. n \in told[used]
      BY <2>1, <2>2, <3>1, Zenon DEF AgentInv, Repeated
    <3> QED BY <1>1, <2>1, <2>2, <3>2, Zenon DEF Said
  <2>3. ASSUME Writable(used)', run' \in {"set", "wait"}, NEW n \in kept'
        PROVE  n \in told'[used]
    <3>1. run \in {"set", "wait"} /\ n \in kept
      BY <1>1, <2>3, Zenon DEF Steered, Lasting
    <3>2. n \in told[used]
      BY <2>1, <2>3, <3>1, Zenon DEF AgentInv, Repeated
    <3> QED BY <1>1, <2>1, <2>3, <3>2, Zenon DEF Said
  <2>4. used' = used /\ pos' = pos
    BY <1>1, Zenon DEF Lasting
  <2>5. run' = "dangling" => kept' = {}
    BY <1>1, Zenon DEF Steered, Lasting, AgentInv, Repeated
  <2> QED BY <2>2, <2>3, <2>4, <2>5, Zenon DEF Repeated
<1>8. Closed'
  BY <1>1, Zenon DEF AgentInv, Closed, Asked, Steered, Thread
<1> QED BY <1>2, <1>3, <1>4, <1>5, <1>6, <1>7, <1>8, Zenon DEF AgentInv
-----------------------------------------------------------------------------
(***************************************************************************)
(* The steps of the run thread.                                            *)
(***************************************************************************)
LEMMA Bounds ==
  ASSUME TypeOK
  PROVE  /\ used \in Nat /\ (used > 0 => used \in 1..used /\ used \in Conn /\ ~(0 >= used))
         /\ 0 \in 0..MaxName + MaxConns + 1
         /\ \A n \in Name : ~(n <= 0) /\ n \in 0..MaxName + MaxConns + 1
         /\ \A c \in 1..used : c \in Conn /\ c > 0 /\ c \in 0..MaxName + MaxConns + 1
<1>1. used \in 0..MaxConns
  BY Zenon DEF TypeOK
<1> QED BY <1>1, AgentAssumption, SMT DEF Name, Conn

LEMMA StartKeeps ==
  ASSUME AgentInv, Start
  PROVE  AgentInv'
<1> USE DEF Start, agentVars, runVars, connVars, opVars, vars, AgentInv
<1>1. TypeOK'
  BY Zenon DEF TypeOK, StartNotified
<1>2. Collected'
  BY Zenon DEF Collected, StartNotified, Fresh
<1>3. Open'
  BY Zenon DEF Collected, Open, Between
<1>4. Ended'
  BY Zenon DEF Collected, Ended, Between
<1>5. Current'
  BY Zenon DEF Collected, Current, Fresh
<1>6. Repeated'
  BY Zenon DEF Repeated, Writable
<1>7. Closed'
  BY Zenon DEF Collected, Closed
<1> QED BY <1>1, <1>2, <1>3, <1>4, <1>5, <1>6, <1>7, Zenon

LEMMA RunBeginKeeps ==
  ASSUME AgentInv, RunBegin
  PROVE  AgentInv'
<1> USE DEF RunBegin, agentVars, runVars, connVars, opVars, vars, AgentInv
<1>1. TypeOK'
  BY Zenon DEF TypeOK, StartNotified
<1>2. Collected'
  BY Zenon DEF Collected, StartNotified, Fresh
<1>3. Open'
  BY Zenon DEF Open, Between
<1>4. Ended'
  BY Zenon DEF Ended, Between
<1>5. Current'
  BY Zenon DEF Current, Fresh
<1>6. Repeated'
  BY Zenon DEF Repeated, Writable
<1>7. Closed'
  BY Zenon DEF Closed
<1> QED BY <1>1, <1>2, <1>3, <1>4, <1>5, <1>6, <1>7, Zenon

LEMMA RunCheckKeeps ==
  ASSUME AgentInv, RunCheck
  PROVE  AgentInv'
<1> USE DEF RunCheck, agentVars, runVars, connVars, opVars, vars, AgentInv
<1>1. TypeOK'
  BY Zenon DEF TypeOK, StartNotified
<1>2. Collected'
  BY Zenon DEF Collected, StartNotified, Fresh
<1>3. Open'
  BY Zenon DEF Open, Between
<1>4. Ended'
  BY Zenon DEF Ended, Between
<1>5. Current'
  BY Zenon DEF Current, Fresh
<1>6. Repeated'
  BY Zenon DEF Repeated, Writable
<1>7. Closed'
  BY Zenon DEF Closed
<1> QED BY <1>1, <1>2, <1>3, <1>4, <1>5, <1>6, <1>7, Zenon

LEMMA ConnectFailsKeeps ==
  ASSUME AgentInv, ConnectFails
  PROVE  AgentInv'
<1> USE DEF ConnectFails, agentVars, runVars, connVars, opVars, vars, AgentInv
<1>1. TypeOK'
  BY Zenon DEF TypeOK, StartNotified
<1>2. Collected'
  BY Zenon DEF Collected, StartNotified, Fresh
<1>3. Open'
  BY Zenon DEF Open, Between
<1>4. Ended'
  BY Zenon DEF Ended, Between
<1>5. Current'
  BY Zenon DEF Current, Fresh
<1>6. Repeated'
  BY Zenon DEF Repeated, Writable
<1>7. Closed'
  BY Zenon DEF Closed
<1> QED BY <1>1, <1>2, <1>3, <1>4, <1>5, <1>6, <1>7, Zenon

LEMMA RetryTimeoutKeeps ==
  ASSUME AgentInv, RetryTimeout
  PROVE  AgentInv'
<1> USE DEF RetryTimeout, agentVars, runVars, connVars, opVars, vars, AgentInv
<1>1. TypeOK'
  BY Zenon DEF TypeOK, StartNotified
<1>2. Collected'
  BY Zenon DEF Collected, StartNotified, Fresh
<1>3. Open'
  BY Zenon DEF Open, Between
<1>4. Ended'
  BY Zenon DEF Ended, Between
<1>5. Current'
  BY Zenon DEF Current, Fresh
<1>6. Repeated'
  BY Zenon DEF Repeated, Writable
<1>7. Closed'
  BY Zenon DEF Closed
<1> QED BY <1>1, <1>2, <1>3, <1>4, <1>5, <1>6, <1>7, Zenon

LEMMA ConnectReturnKeeps ==
  ASSUME AgentInv, ConnectReturn
  PROVE  AgentInv'
<1> USE DEF ConnectReturn, agentVars, runVars, connVars, opVars, vars, AgentInv
<1>1. TypeOK'
  BY Bounds, Zenon DEF TypeOK, Collected, Fresh
<1>2. Collected'
  BY Zenon DEF Collected, StartNotified, Fresh
<1>3. Open'
  BY Zenon DEF Open, Between
<1>4. Ended'
  BY Zenon DEF Ended, Between
<1>5. Current'
  BY Zenon DEF Current, Fresh
<1>6. Repeated'
  BY Zenon DEF Repeated, Writable
<1>7. Closed'
  BY Zenon DEF Closed
<1> QED BY <1>1, <1>2, <1>3, <1>4, <1>5, <1>6, <1>7, Zenon

LEMMA InitBeginKeeps ==
  ASSUME AgentInv, InitBegin
  PROVE  AgentInv'
<1> USE DEF InitBegin, agentVars, runVars, connVars, opVars, vars, AgentInv
<1>1. TypeOK'
  BY Bounds, Zenon DEF TypeOK
<1>2. Collected'
  BY Zenon DEF Collected, StartNotified, Fresh
<1>3. Open'
  BY Zenon DEF Open, Between
<1>4. Ended'
  BY Zenon DEF Ended, Between
<1>5. Current'
  BY Zenon DEF Current, Fresh
<1>6. Repeated'
  <2>1. \A n \in handlers : ~(n <= 0)
    BY Bounds, Zenon DEF TypeOK
  <2> QED BY <2>1, Zenon DEF Repeated
<1>7. Closed'
  BY Zenon DEF Closed
<1> QED BY <1>1, <1>2, <1>3, <1>4, <1>5, <1>6, <1>7, Zenon

LEMMA InitCrashKeeps ==
  ASSUME AgentInv, InitCrash
  PROVE  AgentInv'
<1> USE DEF InitCrash, agentVars, runVars, connVars, opVars, vars, AgentInv
<1>1. TypeOK'
  BY Zenon DEF TypeOK, StartNotified
<1>2. Collected'
  BY Zenon DEF Collected, StartNotified, Fresh
<1>3. Open'
  BY Zenon DEF Open, Between
<1>4. Ended'
  BY Zenon DEF Ended, Between
<1>5. Current'
  BY Zenon DEF Current, Fresh
<1>6. Repeated'
  BY Zenon DEF Repeated, Writable
<1>7. Closed'
  BY Zenon DEF Closed
<1> QED BY <1>1, <1>2, <1>3, <1>4, <1>5, <1>6, <1>7, Zenon

LEMMA InitSkipsKeeps ==
  ASSUME AgentInv, InitSkips
  PROVE  AgentInv'
<1> USE DEF InitSkips, agentVars, runVars, connVars, opVars, vars, AgentInv
<1>a. pos' \in 0..MaxName + MaxConns + 1
  <2>1. PICK p \in pos..MaxName : pos' = p
    BY Zenon
  <2> QED BY <2>1, AgentAssumption, SMT DEF TypeOK
<1>1. TypeOK'
  BY <1>a, Zenon DEF TypeOK
<1>2. Collected'
  BY Zenon DEF Collected, StartNotified, Fresh
<1>3. Open'
  BY Zenon DEF Open, Between
<1>4. Ended'
  BY Zenon DEF Ended, Between
<1>5. Current'
  BY Zenon DEF Current, Fresh
<1>6. Repeated'
  BY Zenon DEF Repeated, Writable
<1>7. Closed'
  BY Zenon DEF Closed
<1> QED BY <1>1, <1>2, <1>3, <1>4, <1>5, <1>6, <1>7, Zenon

LEMMA SetClientKeeps ==
  ASSUME AgentInv, SetClient
  PROVE  AgentInv'
<1> USE DEF SetClient, agentVars, runVars, connVars, opVars, vars, AgentInv
<1>1. TypeOK'
  <2>1. used \in Conn /\ used \in 1..used
    BY Bounds, Zenon DEF Collected, Fresh
  <2> QED BY <2>1, Zenon DEF TypeOK, StartNotified
<1>2. Collected'
  BY Zenon DEF Collected, StartNotified, Fresh
<1>3. Open'
  BY Zenon DEF Open, Between
<1>4. Ended'
  BY Zenon DEF Ended, Between
<1>5. Current'
  BY Zenon DEF Current, Fresh
<1>6. Repeated'
  BY Zenon DEF Repeated, Writable
<1>7. Closed'
  BY Zenon DEF Closed
<1> QED BY <1>1, <1>2, <1>3, <1>4, <1>5, <1>6, <1>7, Zenon

LEMMA SpuriousKeeps ==
  ASSUME AgentInv, Spurious
  PROVE  AgentInv'
<1> USE DEF Spurious, agentVars, runVars, connVars, opVars, vars, AgentInv
<1>1. TypeOK'
  BY Zenon DEF TypeOK, StartNotified
<1>2. Collected'
  BY Zenon DEF Collected, StartNotified, Fresh
<1>3. Open'
  BY Zenon DEF Open, Between
<1>4. Ended'
  BY Zenon DEF Ended, Between
<1>5. Current'
  BY Zenon DEF Current, Fresh
<1>6. Repeated'
  BY Zenon DEF Repeated, Writable
<1>7. Closed'
  BY Zenon DEF Closed
<1> QED BY <1>1, <1>2, <1>3, <1>4, <1>5, <1>6, <1>7, Zenon

LEMMA RunWokenKeeps ==
  ASSUME AgentInv, RunWoken
  PROVE  AgentInv'
<1> USE DEF RunWoken, agentVars, runVars, connVars, opVars, vars, AgentInv
<1>1. TypeOK'
  BY Zenon DEF TypeOK, StartNotified
<1>2. Collected'
  BY Zenon DEF Collected, StartNotified, Fresh
<1>3. Open'
  BY Zenon DEF Open, Between
<1>4. Ended'
  BY Zenon DEF Ended, Between
<1>5. Current'
  BY Zenon DEF Current, Fresh
<1>6. Repeated'
  BY Zenon DEF Repeated, Writable
<1>7. Closed'
  BY Zenon DEF Closed
<1> QED BY <1>1, <1>2, <1>3, <1>4, <1>5, <1>6, <1>7, Zenon

LEMMA CleanBeginKeeps ==
  ASSUME AgentInv, CleanBegin
  PROVE  AgentInv'
<1> USE DEF CleanBegin, agentVars, runVars, connVars, opVars, vars, AgentInv
<1>1. TypeOK'
  BY Bounds, Zenon DEF TypeOK
<1>2. Collected'
  BY Zenon DEF Collected, StartNotified, Fresh
<1>3. Open'
  <2>1. \A c \in sock : c > 0
    BY Bounds, Zenon DEF TypeOK
  <2> QED BY <2>1, Zenon DEF Open, Between
<1>4. Ended'
  BY Bounds, Zenon DEF Ended, Between
<1>5. Current'
  BY Zenon DEF Current, Fresh
<1>6. Repeated'
  BY Zenon DEF Repeated, Writable
<1>7. Closed'
  BY Zenon DEF Closed
<1> QED BY <1>1, <1>2, <1>3, <1>4, <1>5, <1>6, <1>7, Zenon

LEMMA CleanJoinKeeps ==
  ASSUME AgentInv, CleanJoin
  PROVE  AgentInv'
<1> USE DEF CleanJoin, agentVars, runVars, connVars, opVars, vars, AgentInv
<1>1. TypeOK'
  BY Zenon DEF TypeOK, StartNotified
<1>2. Collected'
  BY Zenon DEF Collected, StartNotified, Fresh
<1>3. Open'
  BY Zenon DEF Open, Between
<1>4. Ended'
  <2>1. pos \in 1..used /\ recv[pos] = "done"
    BY Zenon DEF Collected, TypeOK
  <2>2. pos >= used => pos = used
    BY <2>1, Bounds, SMT
  <2> QED BY <2>1, <2>2, Zenon DEF Ended, Between
<1>5. Current'
  BY Zenon DEF Current, Fresh
<1>6. Repeated'
  BY Zenon DEF Repeated, Writable
<1>7. Closed'
  BY Zenon DEF Closed
<1> QED BY <1>1, <1>2, <1>3, <1>4, <1>5, <1>6, <1>7, Zenon
LEMMA ConnectAuthKeeps ==
  ASSUME AgentInv, ConnectAuth
  PROVE  AgentInv'
<1> USE DEF ConnectAuth, agentVars, runVars, connVars, opVars, vars, AgentInv
<1>a. sock = {} /\ (used > 0 => recv[used] = "done")
  BY Zenon DEF Open, Ended, Between
<1>b. used \in 0..MaxConns /\ used < MaxConns /\ used' = used + 1 /\ MaxConns \in Nat
  BY AgentAssumption, Zenon DEF TypeOK
<1>c. /\ used' \in Conn /\ used' > 0 /\ used' \in 1..used' /\ used' \in 0..MaxConns
      /\ \A c \in 1..used : c \in 1..used'
  BY <1>b, SMT DEF Conn
<1>1. TypeOK'
  <2>1. peer \subseteq 1..used /\ sock \subseteq 1..used /\ ccb \subseteq 1..used /\ gabages \subseteq 1..used
    BY Zenon DEF TypeOK
  <2>2. /\ peer' \subseteq 1..used' /\ sock' \subseteq 1..used'
        /\ ccb' \subseteq 1..used' /\ gabages' \subseteq 1..used'
    BY <2>1, <1>c, Zenon
  <2>3. recv' \in [Conn -> {"none", "read", "callback", "iclose", "close", "tell", "done"}]
    BY Zenon DEF TypeOK
  <2> QED BY <2>2, <2>3, <1>c, Zenon DEF TypeOK
<1>2. Collected'
  BY <1>c, Zenon DEF Collected, Fresh
<1>3. Open'
  BY <1>a, Zenon DEF Open, Between
<1>4. Ended'
  <2>1. DOMAIN recv = Conn
    BY Zenon DEF TypeOK
  <2>2. \A c \in Conn : c # used' => recv'[c] = recv[c]
    BY <2>1, Zenon
  <2>3. \A c \in Conn : c > used' => c # used' /\ c > used
    BY <1>c, <1>b, SMT DEF Conn
  <2>4. \A c \in Conn : c < used' => c # used' /\ (c < used \/ (c = used /\ used > 0))
    BY <1>c, <1>b, SMT DEF Conn
  <2> QED BY <2>2, <2>3, <2>4, Zenon DEF Ended, Between
<1>5. Current'
  <2>1. flora_cli = NoCli /\ \A t \in Thread : arg[t].cli <= used
    BY Zenon DEF Current
  <2>2. \A t \in Thread : arg[t].cli \in Nat
    BY SMT DEF TypeOK, Conn, NoCli
  <2>3. \A k \in Nat : k <= used => k <= used' /\ k # used'
    BY <1>b, SMT
  <2> QED BY <2>1, <2>2, <2>3, Zenon DEF Current, Fresh
<1>6. Repeated'
  BY Zenon DEF Repeated, Writable
<1>7. Closed'
  BY Zenon DEF Closed
<1> QED BY <1>1, <1>2, <1>3, <1>4, <1>5, <1>6, <1>7, Zenon

LEMMA InitNextKeeps ==
  ASSUME AgentInv, InitNext
  PROVE  AgentInv'
<1> USE DEF InitNext, agentVars, runVars, connVars, opVars, vars, AgentInv
<1> DEFINE First == CHOOSE m \in Ahead : \A k \in Ahead : m <= k
<1>a. Name \subseteq Nat /\ 0..MaxName + MaxConns + 1 \subseteq Nat
  BY AgentAssumption, SMT DEF Name
<1>b. Ahead # {} => First \in Ahead /\ \A k \in Ahead : First <= k
  <2>1. Ahead \subseteq Nat
    BY <1>a, Zenon DEF Ahead, TypeOK
  <2> QED BY <2>1, LeastOf, Zenon
<1>c. /\ Ahead # {} => First \in Name /\ \A k \in Ahead : First <= k
      /\ used \in Conn
  BY <1>b, Bounds, Zenon DEF Ahead, TypeOK, Collected, Fresh
<1> HIDE DEF First
<1>1. TypeOK'
  <2>1. CASE Ahead = {}
    BY <2>1, Zenon DEF TypeOK
  <2>2. CASE Ahead # {}
    <3>1. told' \in [Conn -> SUBSET Name]
      <4>1. told \in [Conn -> SUBSET Name] /\ told[used] \cup {First} \in SUBSET Name
        BY <1>c, <2>2, Zenon DEF TypeOK
      <4>2. told' = told \/ told' = [told EXCEPT ![used] = told[used] \cup {First}]
        BY <2>2, Zenon DEF First
      <4> QED BY <4>1, <4>2, Zenon
    <3> QED BY <1>c, <2>2, <3>1, Bounds, Zenon DEF TypeOK, First
  <2> QED BY <2>1, <2>2, Zenon
<1>2. Collected'
  BY Zenon DEF Collected, StartNotified, Fresh
<1>3. Open'
  BY Zenon DEF Open, Between
<1>4. Ended'
  BY Zenon DEF Ended, Between
<1>5. Current'
  BY Zenon DEF Current, Fresh
<1>6. Repeated'
  <2>1. kept \subseteq Nat /\ pos \in Nat /\ kept \subseteq handlers /\ handlers \subseteq Nat
    BY <1>a, Zenon DEF TypeOK
  <2>2. CASE Ahead = {}
    <3>1. \A k \in kept : ~(k > pos)
      BY <2>1, <2>2, Zenon DEF Ahead
    <3>2. \A k \in kept : k <= pos
      BY <2>1, <3>1, SMT
    <3> QED BY <2>2, <3>2, Zenon DEF Repeated, Writable
  <2>3. CASE Ahead # {}
    <3>1. ASSUME Writable(used)', NEW k \in kept, k <= First PROVE k \in told'[used]
      <4>1. Writable(used) /\ told' = [told EXCEPT ![used] = @ \cup {First}]
        BY <1>c, <2>3, <3>1, Zenon DEF Writable, First
      <4>2. told'[used] = told[used] \cup {First}
        BY <1>c, <4>1, Zenon DEF TypeOK
      <4>3. CASE k > pos
        <5>1. First <= k
          BY <1>c, <2>1, <2>3, <4>3, Zenon DEF Ahead
        <5>2. k = First
          BY <1>c, <2>1, <2>3, <3>1, <5>1, SMT DEF Name
        <5> QED BY <4>2, <5>2, Zenon
      <4>4. CASE ~(k > pos)
        <5>1. k <= pos
          BY <2>1, <4>4, SMT
        <5> QED BY <4>1, <4>2, <5>1, Zenon DEF Repeated
      <4> QED BY <4>3, <4>4, Zenon
    <3>2. run' = "init" /\ pos' = First /\ kept' = kept /\ used' = used
      BY <2>3, Zenon DEF First
    <3> QED BY <3>1, <3>2, Zenon DEF Repeated
  <2> QED BY <2>2, <2>3, Zenon
<1>7. Closed'
  BY Zenon DEF Closed
<1> QED BY <1>1, <1>2, <1>3, <1>4, <1>5, <1>6, <1>7, Zenon

LEMMA CleanNextKeeps ==
  ASSUME AgentInv, CleanNext
  PROVE  AgentInv'
<1> USE DEF CleanNext, agentVars, runVars, connVars, opVars, vars, AgentInv
<1> DEFINE left  == {c \in gabages : c > pos}
<1> DEFINE Least == CHOOSE d \in left : \A e \in left : d <= e
<1>a. 1..used \subseteq Nat /\ gabages \subseteq 1..used /\ 0..MaxName + MaxConns + 1 \subseteq Nat
  <2>1. 1..used \subseteq Nat /\ 0..MaxName + MaxConns + 1 \subseteq Nat
    BY Bounds, AgentAssumption, SMT
  <2> QED BY <2>1, Zenon DEF TypeOK
<1>b. left # {} => Least \in left /\ \A e \in left : Least <= e
  <2>1. left \subseteq Nat
    BY <1>a, Zenon
  <2> QED BY <2>1, LeastOf, Zenon
<1>c. \A c \in sock : c \in left
  <2>1. \A c \in sock : c = used /\ c > pos /\ c \in 1..used
    BY Zenon DEF Open, TypeOK
  <2>2. \A c \in sock : used > 0
    BY <2>1, Bounds, Zenon
  <2> QED BY <2>1, <2>2, Zenon DEF Collected, Fresh
<1> HIDE DEF left, Least
<1>1. TypeOK'
  <2>1. sock' \subseteq sock
    BY Zenon
  <2>2. pos' \in 0..MaxName + MaxConns + 1
    <3>1. CASE left = {}
      BY <3>1, Zenon DEF left, TypeOK
    <3>2. CASE left # {}
      BY <1>b, <3>2, Bounds, Zenon DEF left, Least, TypeOK
    <3> QED BY <3>1, <3>2, Zenon
  <2> QED BY <2>1, <2>2, Zenon DEF TypeOK
<1>2. Collected'
  <2>1. run' = "joining" => pos' \in gabages
    BY <1>b, Zenon DEF left, Least
  <2> QED BY <2>1, Zenon DEF Collected, Fresh
<1>3. Open'
  <2>1. CASE left = {}
    <3>1. sock = {}
      BY <1>c, <2>1, Zenon DEF Open
    <3> QED BY <2>1, <3>1, Zenon DEF left, Open, Between
  <2>2. CASE left # {}
    <3>1. sock' = sock \ {Least} /\ pos' = Least /\ run' = "joining" /\ used' = used
      BY <2>2, Zenon DEF left, Least
    <3>2. ASSUME NEW e \in sock' PROVE e > Least
      <4>1. e \in left /\ e # Least
        BY <1>c, <3>1, <3>2, Zenon
      <4>2. Least <= e /\ e \in Nat /\ Least \in Nat
        BY <1>b, <1>a, <4>1, Zenon DEF left
      <4> QED BY <4>1, <4>2, SMT
    <3> QED BY <3>1, <3>2, Zenon DEF Open, Between
  <2> QED BY <2>1, <2>2, Zenon
<1>4. Ended'
  <2>1. CASE left = {}
    <3>1. used > 0 => pos >= used
      <4>1. used > 0 => ~(used > pos)
        BY <2>1, Zenon DEF left, Collected, Fresh
      <4>2. used \in Nat /\ pos \in Nat
        BY <1>a, Bounds, Zenon DEF TypeOK
      <4> QED BY <4>1, <4>2, SMT
    <3> QED BY <2>1, <3>1, Zenon DEF left, Ended, Between
  <2>2. CASE left # {}
    BY <2>2, Zenon DEF left, Ended, Between
  <2> QED BY <2>1, <2>2, Zenon
<1>5. Current'
  BY Zenon DEF Current, Fresh
<1>6. Repeated'
  BY Zenon DEF Repeated, Writable
<1>7. Closed'
  BY Zenon DEF Closed
<1> QED BY <1>1, <1>2, <1>3, <1>4, <1>5, <1>6, <1>7, Zenon
-----------------------------------------------------------------------------
LEMMA AgentInit == Init => AgentInv
<1> SUFFICES ASSUME Init PROVE AgentInv
  OBVIOUS
<1> USE DEF Init
<1>1. /\ 0 \in Nat /\ ~(0 > 0) /\ NoCli <= 0 /\ 0 \in 0..MaxName + MaxConns + 1
      /\ 0 \in 0..MaxConns /\ 0 \in 0..MaxOps /\ 0 \in 0..MaxName
      /\ \A c \in Conn : ~(c < 0)
  BY AgentAssumption, SMT DEF NoCli, Conn
<1>2. /\ Nothing \in [cli : Conn \cup {NoCli}, name : 0..MaxName]
      /\ Nothing.cli = NoCli /\ Nothing.name = 0
  BY <1>1, SMT DEF Nothing
<1>3. \A t \in Thread : pc[t] = "idle" /\ arg[t] = Nothing
  BY Zenon
<1>4. TypeOK
  BY <1>1, <1>2, <1>3, Zenon DEF TypeOK
<1>5. Collected /\ Open /\ Ended
  BY <1>1, Zenon DEF Collected, Open, Ended, Fresh, Between
<1>6. Current
  BY <1>1, <1>2, <1>3, Zenon DEF Current, Fresh
<1>7. Repeated /\ Closed
  BY <1>3, Zenon DEF Repeated, Closed, Thread
<1> QED BY <1>4, <1>5, <1>6, <1>7, Zenon DEF AgentInv

LEMMA AgentStep == AgentInv /\ [Next]_vars => AgentInv'
<1> SUFFICES ASSUME AgentInv, [Next]_vars PROVE AgentInv'
  OBVIOUS
<1>1. CASE Start \/ RunStep \/ ConnectFails \/ ConnectAuth \/ InitCrash \/ Spurious
  BY <1>1, StartKeeps, RunBeginKeeps, RunCheckKeeps, ConnectReturnKeeps, InitBeginKeeps,
    InitNextKeeps, InitSkipsKeeps, SetClientKeeps, RunWokenKeeps, RetryTimeoutKeeps, CleanBeginKeeps,
    CleanNextKeeps, CleanJoinKeeps, ConnectFailsKeeps, ConnectAuthKeeps, InitCrashKeeps,
    SpuriousKeeps, Zenon DEF RunStep
<1>2. CASE Other
  BY <1>2, OtherKeeps, Zenon
<1> QED BY <1>1, <1>2, Zenon DEF Next, Other

\* The inductive invariant of the agent holds in every reachable state.
THEOREM AgentInvariant == Spec => []AgentInv
BY AgentInit, AgentStep, PTL DEF Spec

\* The variables of the agent and of its clients keep their types: an operation that
\* goes on to use a client has one.
THEOREM AgentTypes == Spec => []TypeOK
<1>1. AgentInv => TypeOK
  BY Zenon DEF AgentInv
<1> QED BY <1>1, AgentInvariant, PTL

\* run closes a connection (clean_gabages) before it makes the next, for any number
\* of connections, operations and spurious wakeups.
THEOREM ConnectionsOne == Spec => []OneConnection
<1>1. ASSUME AgentInv PROVE OneConnection
  <2>1. sock = {} \/ sock = {used}
    BY <1>1, Zenon DEF AgentInv, Open
  <2>2. Cardinality({}) = 0 /\ Cardinality({used}) = 1
    BY FS_EmptySet, FS_Singleton, Zenon
  <2>3. Cardinality(sock) \in {0, 1}
    BY <2>1, <2>2, Zenon
  <2> QED BY <2>3, SMT DEF OneConnection
<1> QED BY <1>1, AgentInvariant, PTL

\* init_cli tells the service of every handler that stays in the map, if the map is
\* not changed while it goes through it without conn_mutex, and what is subscribed
\* and unsubscribed on this and on older connections takes none of them back.
THEOREM SubscriptionsRepeated == Spec => []HandlersRepeated
<1>1. AgentInv => HandlersRepeated
  BY Zenon DEF AgentInv, Current, Repeated, HandlersRepeated
<1> QED BY <1>1, AgentInvariant, PTL

\* When close has returned to the application, run has ended and no receiving thread
\* of any of its clients is left.
THEOREM CloseQuiet == Spec => []ClosedIsQuiet
<1>1. ASSUME AgentInv, NEW t \in App, pc[t] = "closed"
      PROVE  run = "ended" /\ \A c \in Conn : recv[c] \in {"none", "done"}
  <2>1. run = "ended"
    BY <1>1, Zenon DEF AgentInv, Closed
  <2>2. used \in 0..MaxConns
    BY <1>1, Zenon DEF AgentInv, TypeOK
  <2>3. \A c \in Conn : c > used \/ c < used \/ (c = used /\ used > 0)
    BY <2>2, AgentAssumption, SMT DEF Conn
  <2> QED BY <1>1, <2>1, <2>3, Zenon DEF AgentInv, Ended, Between
<1>2. AgentInv => ClosedIsQuiet
  BY <1>1, Zenon DEF ClosedIsQuiet
<1> QED BY <1>2, AgentInvariant, PTL
=============================================================================
