----------------------------- MODULE PollProofs -----------------------------
(***************************************************************************)
(* Proofs about Poll: active_adapters is in order of the last reads and    *)
(* has every connection that is watched, so that only silent clients are   *)
(* shut down.                                                              *)
(***************************************************************************)
EXTENDS Poll, FiniteSetTheorems, SequenceTheorems, WellFoundedInduction, TLAPS

Entry == [adapter : Conn, age : Age]

\* The list as a sequence s.
Falling(s)   == \A i, j \in 1..Len(s) : i < j => s[i].age >= s[j].age
Distinct(s)  == \A i, j \in 1..Len(s) : s[i].adapter = s[j].adapter => i = j
Holds(s, c)  == \E i \in 1..Len(s) : s[i].adapter = c

\* What it has to do with the connections.
Listed  == \A c \in Open \ shut : Holds(active, c)
Entered == \A i \in 1..Len(active) : conn[active[i].adapter] \in {"open", "deleted"}
Aged    == \A i \in 1..Len(active) :
             active[i].adapter \in Open => active[i].age = quiet[active[i].adapter]

PollInv ==
  TypeOK /\ Falling(active) /\ Distinct(active) /\ Listed /\ Entered /\ Aged
-----------------------------------------------------------------------------
(***************************************************************************)
(* The least of a set of numbers, and the size of a set.                   *)
(***************************************************************************)
Less == {ss \in Nat \X Nat : ss[1] < ss[2]}

LEMMA LessWellFounded == IsWellFoundedOn(Less, Nat)
BY NatLessThanWellFounded, Zenon DEF OpToRel, Less

LEMMA LessIs == \A k, m \in Nat : k < m => <<k, m>> \in Less
BY SMT DEF Less

LEMMA NotLess == \A k, m \in Nat : ~(k < m) => m <= k
BY SMT

LEMMA LeastOf ==
  ASSUME NEW S, S \subseteq Nat, S # {}
  PROVE  \E m \in S : \A k \in S : m <= k
<1>1. PICK m \in S : \A k \in S : ~(<<k, m>> \in Less)
  BY LessWellFounded, WFMin, Zenon
<1> QED BY <1>1, LessIs, NotLess, Zenon

LEMMA SizeOf ==
  ASSUME NEW n \in Nat
  PROVE  IsFiniteSet(1..n) /\ Cardinality(1..n) = n
<1>1. 1 \in Int /\ n \in Int /\ (IF 1 > n THEN 0 ELSE n - 1 + 1) = n
  BY SMT
<1> QED BY <1>1, FS_Interval, Zenon
-----------------------------------------------------------------------------
(***************************************************************************)
(* Lists: t is drawn from s, in the order of s.                            *)
(***************************************************************************)
Drawn(t, s, f) ==
  /\ f \in [1..Len(t) -> 1..Len(s)]
  /\ \A i, j \in 1..Len(t) : i < j => f[i] < f[j]
  /\ \A i \in 1..Len(t) : t[i] = s[f[i]]

LEMMA Increasing ==
  ASSUME NEW m \in Nat, NEW n \in Nat, NEW f \in [1..m -> 1..n],
         \A i, j \in 1..m : i < j => f[i] < f[j]
  PROVE  \A i, j \in 1..m : f[i] = f[j] => i = j
BY SMT

LEMMA DrawnKeeps ==
  ASSUME NEW s \in Seq(Entry), NEW t \in Seq(Entry), NEW f, Drawn(t, s, f),
         Falling(s), Distinct(s)
  PROVE  /\ Falling(t) /\ Distinct(t)
         /\ \A i \in 1..Len(t) : \E k \in 1..Len(s) : t[i] = s[k]
<1>1. Len(s) \in Nat /\ Len(t) \in Nat
  BY LenProperties, Zenon
<1>2. \A i, j \in 1..Len(t) : f[i] = f[j] => i = j
  BY <1>1, Increasing, Zenon DEF Drawn
<1>3. \A i \in 1..Len(t) : f[i] \in 1..Len(s) /\ t[i] = s[f[i]]
  BY Zenon DEF Drawn
<1>4. Falling(t)
  BY <1>3, Zenon DEF Drawn, Falling
<1>5. ASSUME NEW i \in 1..Len(t), NEW j \in 1..Len(t), t[i].adapter = t[j].adapter
      PROVE  i = j
  <2>1. f[i] \in 1..Len(s) /\ f[j] \in 1..Len(s) /\ s[f[i]].adapter = s[f[j]].adapter
    BY <1>3, <1>5, Zenon
  <2>2. f[i] = f[j]
    BY <2>1, Zenon DEF Distinct
  <2> QED BY <1>2, <2>2, Zenon
<1> QED BY <1>3, <1>4, <1>5, Zenon DEF Distinct

\* The list without its first k entries.
Cut(s, k) == SubSeq(s, k + 1, Len(s))

LEMMA CutIs ==
  ASSUME NEW S, NEW s \in Seq(S), NEW k \in 0..Len(s)
  PROVE  /\ Cut(s, k) \in Seq(S) /\ Len(Cut(s, k)) = Len(s) - k
         /\ \A i \in 1..Len(s) - k : Cut(s, k)[i] = s[k + i]
BY SMT DEF Cut

LEMMA CutDrawn ==
  ASSUME NEW s \in Seq(Entry), NEW k \in 0..Len(s)
  PROVE  /\ Cut(s, k) \in Seq(Entry)
         /\ Drawn(Cut(s, k), s, [i \in 1..Len(s) - k |-> k + i])
         /\ \A i \in 1..Len(s) : i \in 1..k \/ \E j \in 1..Len(Cut(s, k)) : Cut(s, k)[j] = s[i]
<1> DEFINE t == Cut(s, k)
           f == [i \in 1..Len(s) - k |-> k + i]
<1>1. t \in Seq(Entry) /\ Len(t) = Len(s) - k /\ \A i \in 1..Len(s) - k : t[i] = s[k + i]
  BY CutIs, Zenon
<1>2. Len(s) \in Nat /\ k \in 0..Len(s)
  BY LenProperties, Zenon
<1>3. /\ \A i \in 1..Len(s) - k : k + i \in 1..Len(s)
      /\ \A i, j \in 1..Len(s) - k : i < j => k + i < k + j
      /\ \A i \in 1..Len(s) : i \in 1..k \/ (i - k \in 1..Len(s) - k /\ k + (i - k) = i)
  BY <1>2, SMT
<1>4. \A i \in 1..Len(s) : i \in 1..k \/ \E j \in 1..Len(t) : t[j] = s[i]
  BY <1>1, <1>3, Zenon
<1>5. Drawn(t, s, f)
  BY <1>1, <1>3, Zenon DEF Drawn
<1> QED BY <1>1, <1>4, <1>5, Zenon

LEMMA RemoveAtIs ==
  ASSUME NEW S, NEW s \in Seq(S), NEW m \in 1..Len(s)
  PROVE  /\ RemoveAt(s, m) \in Seq(S) /\ Len(RemoveAt(s, m)) = Len(s) - 1
         /\ \A i \in 1..Len(s) - 1 : RemoveAt(s, m)[i] = s[IF i < m THEN i ELSE i + 1]
<1> DEFINE a == SubSeq(s, 1, m - 1)
           b == SubSeq(s, m + 1, Len(s))
<1>1. /\ a \in Seq(S) /\ Len(a) = m - 1 /\ \A i \in 1..m - 1 : a[i] = s[i]
      /\ b \in Seq(S) /\ Len(b) = Len(s) - m /\ \A i \in 1..Len(s) - m : b[i] = s[m + i]
  BY SMT
<1>2. RemoveAt(s, m) = a \o b
  BY Zenon DEF RemoveAt
<1> HIDE DEF a, b
<1>3. /\ a \o b \in Seq(S) /\ Len(a \o b) = Len(a) + Len(b)
      /\ \A i \in 1..Len(a) + Len(b) : (a \o b)[i] = IF i <= Len(a) THEN a[i] ELSE b[i - Len(a)]
  BY <1>1, ConcatProperties, Zenon
<1>4. Len(s) \in Nat
  BY LenProperties, Zenon
<1>5. ASSUME NEW i \in 1..Len(s) - 1 PROVE (a \o b)[i] = s[IF i < m THEN i ELSE i + 1]
  <2>1. CASE i < m
    BY <1>1, <1>3, <1>4, <2>1, SMT
  <2>2. CASE ~(i < m)
    <3>1. /\ i \in 1..Len(a) + Len(b) /\ ~(i <= Len(a)) /\ i - Len(a) \in 1..Len(s) - m
          /\ m + (i - Len(a)) = i + 1
      BY <1>1, <1>4, <2>2, SMT
    <3> QED BY <1>1, <1>3, <2>2, <3>1, Zenon
  <2> QED BY <2>1, <2>2, Zenon
<1>6. Len(a) + Len(b) = Len(s) - 1
  BY <1>1, <1>4, SMT
<1> QED BY <1>2, <1>3, <1>5, <1>6, Zenon

LEMMA RemoveDrawn ==
  ASSUME NEW s \in Seq(Entry), NEW m \in 1..Len(s)
  PROVE  /\ RemoveAt(s, m) \in Seq(Entry)
         /\ Drawn(RemoveAt(s, m), s, [i \in 1..Len(s) - 1 |-> IF i < m THEN i ELSE i + 1])
         /\ \A i \in 1..Len(RemoveAt(s, m)) : \E k \in 1..Len(s) : k # m /\ RemoveAt(s, m)[i] = s[k]
         /\ \A k \in 1..Len(s) :
              k = m \/ \E i \in 1..Len(RemoveAt(s, m)) : RemoveAt(s, m)[i] = s[k]
<1> DEFINE t == RemoveAt(s, m)
           p(i) == IF i < m THEN i ELSE i + 1
           f == [i \in 1..Len(s) - 1 |-> p(i)]
<1>1. t \in Seq(Entry) /\ Len(t) = Len(s) - 1 /\ \A i \in 1..Len(s) - 1 : t[i] = s[p(i)]
  BY RemoveAtIs, Zenon
<1>2. Len(s) \in Nat /\ m \in 1..Len(s)
  BY LenProperties, Zenon
<1>3. /\ \A i \in 1..Len(s) - 1 : p(i) \in 1..Len(s) /\ p(i) # m
      /\ \A i, j \in 1..Len(s) - 1 : i < j => p(i) < p(j)
      /\ \A k \in 1..Len(s) : k = m \/ \E i \in 1..Len(s) - 1 : p(i) = k
  <2>1. \A i \in 1..Len(s) - 1 : p(i) \in 1..Len(s) /\ p(i) # m
    BY <1>2, SMT
  <2>2. \A i, j \in 1..Len(s) - 1 : i < j => p(i) < p(j)
    BY <1>2, SMT
  <2>3. ASSUME NEW k \in 1..Len(s), k # m PROVE \E i \in 1..Len(s) - 1 : p(i) = k
    <3>1. CASE k < m
      <4>1. k \in 1..Len(s) - 1 /\ p(k) = k
        BY <1>2, <3>1, SMT
      <4> QED BY <4>1, Zenon
    <3>2. CASE ~(k < m)
      <4>1. k - 1 \in 1..Len(s) - 1 /\ p(k - 1) = k
        BY <1>2, <2>3, <3>2, SMT
      <4> QED BY <4>1, Zenon
    <3> QED BY <3>1, <3>2, Zenon
  <2> QED BY <2>1, <2>2, <2>3, Zenon
<1> HIDE DEF t, p
<1>4. Drawn(t, s, f)
  BY <1>1, <1>3, Zenon DEF Drawn
<1>5. \A i \in 1..Len(t) : \E k \in 1..Len(s) : k # m /\ t[i] = s[k]
  BY <1>1, <1>3, Zenon
<1>6. \A k \in 1..Len(s) : k = m \/ \E i \in 1..Len(t) : t[i] = s[k]
  BY <1>1, <1>3, Zenon
<1> QED BY <1>1, <1>4, <1>5, <1>6, Zenon DEF t, p

\* do_read: the entry of c is removed.
Removed(t, c) ==
  /\ t \in Seq(Entry) /\ Falling(t) /\ Distinct(t)
  /\ \A i \in 1..Len(t) : t[i].adapter # c /\ \E k \in 1..Len(active) : t[i] = active[k]
  /\ \A k \in 1..Len(active) : active[k].adapter # c => \E i \in 1..Len(t) : t[i] = active[k]

LEMMA WithoutIs ==
  ASSUME active \in Seq(Entry), Falling(active), Distinct(active), NEW c
  PROVE  Removed(Without(c), c)
<1> DEFINE I == {i \in 1..Len(active) : active[i].adapter = c}
<1>1. CASE I = {}
  <2>1. Without(c) = active
    BY <1>1, Zenon DEF Without, RemoveFirstMatch
  <2> QED BY <1>1, <2>1, Zenon DEF Removed
<1>2. CASE I # {}
  <2> DEFINE m == CHOOSE x \in I : \A y \in I : x <= y
  <2>1. Len(active) \in Nat
    BY LenProperties, Zenon
  <2>2. I \subseteq Nat
    BY <2>1, SMT
  <2>3. m \in 1..Len(active) /\ active[m].adapter = c
    BY <1>2, <2>2, LeastOf, Zenon
  <2>4. Without(c) = RemoveAt(active, m)
    BY <1>2, Zenon DEF Without, RemoveFirstMatch, SelectInSeq, Min
  <2> HIDE DEF m
  <2> DEFINE t == RemoveAt(active, m)
  <2>5. /\ t \in Seq(Entry)
        /\ \E f : Drawn(t, active, f)
        /\ \A i \in 1..Len(t) : \E k \in 1..Len(active) : k # m /\ t[i] = active[k]
        /\ \A k \in 1..Len(active) : k = m \/ \E i \in 1..Len(t) : t[i] = active[k]
    BY <2>3, RemoveDrawn, Zenon
  <2>6. Falling(t) /\ Distinct(t)
    BY <2>5, DrawnKeeps, Zenon
  <2>7. \A k \in 1..Len(active) : k # m => active[k].adapter # c
    BY <2>3, Zenon DEF Distinct
  <2> HIDE DEF t
  <2>8. \A i \in 1..Len(t) : t[i].adapter # c
    BY <2>5, <2>7, Zenon
  <2>9. \A k \in 1..Len(active) : active[k].adapter # c => \E i \in 1..Len(t) : t[i] = active[k]
    BY <2>3, <2>5, Zenon
  <2>10. Removed(t, c)
    BY <2>5, <2>6, <2>8, <2>9, Zenon DEF Removed
  <2> QED BY <2>4, <2>10, Zenon DEF t
<1> QED BY <1>1, <1>2, Zenon

\* do_accept, and the second half of do_read that succeeds: c enters at the end.
Enter(t, c) == Append(t, [adapter |-> c, age |-> 0])

Entering(u, t, c) ==
  /\ u \in Seq(Entry) /\ Falling(u) /\ Distinct(u)
  /\ \A i \in 1..Len(u) : (u[i].adapter = c /\ u[i].age = 0) \/ \E k \in 1..Len(t) : u[i] = t[k]
  /\ \A k \in 1..Len(t) : \E i \in 1..Len(u) : u[i] = t[k]
  /\ Holds(u, c)

LEMMA EnterIs ==
  ASSUME NEW t \in Seq(Entry), NEW c \in Conn, Falling(t), Distinct(t), ~Holds(t, c)
  PROVE  Entering(Enter(t, c), t, c)
<1> DEFINE e == [adapter |-> c, age |-> 0]
           u == Enter(t, c)
           n == Len(t)
<1>1. e \in Entry /\ e.adapter = c /\ e.age = 0
  BY PollAssumption, SMT DEF Entry, Age
<1>2. n \in Nat
  BY LenProperties, Zenon
<1>3. /\ u \in Seq(Entry) /\ Len(u) = n + 1 /\ u[n + 1] = e
      /\ \A i \in 1..n : u[i] = t[i]
  BY <1>1, AppendProperties, SMT DEF Enter
<1>4. /\ \A i \in 1..n + 1 : i = n + 1 \/ i \in 1..n
      /\ n + 1 \in 1..n + 1 /\ ~(n + 1 < n + 1)
      /\ \A i \in 1..n : i \in 1..n + 1 /\ ~(n + 1 < i)
  BY <1>2, SMT
<1>5. \A i \in 1..n : t[i].age \in Nat /\ t[i].age >= 0 /\ t[i].adapter # c
  <2>1. \A i \in 1..n : t[i] \in Entry
    BY ElementOfSeq, Zenon
  <2>2. \A x \in Entry : x.age \in Nat /\ x.age >= 0
    BY PollAssumption, SMT DEF Entry, Age
  <2> QED BY <2>1, <2>2, Zenon DEF Holds
<1> HIDE DEF e, u, n
<1>6. ASSUME NEW i \in 1..Len(u), NEW j \in 1..Len(u), i < j PROVE u[i].age >= u[j].age
  <2>1. i \in 1..n
    BY <1>3, <1>4, <1>6, Zenon
  <2>2. CASE j \in 1..n
    BY <1>3, <1>6, <2>1, <2>2, Zenon DEF Falling, n
  <2>3. CASE j = n + 1
    BY <1>1, <1>3, <1>5, <2>1, <2>3, Zenon
  <2> QED BY <1>3, <1>4, <2>2, <2>3, Zenon
<1>7. Distinct(u)
  <2> SUFFICES ASSUME NEW i \in 1..Len(u), NEW j \in 1..Len(u), u[i].adapter = u[j].adapter
               PROVE  i = j
    BY Zenon DEF Distinct
  <2>1. CASE i \in 1..n /\ j \in 1..n
    BY <1>3, <2>1, Zenon DEF Distinct, n
  <2>2. CASE i = n + 1 /\ j \in 1..n
    BY <1>1, <1>3, <1>5, <2>2, Zenon
  <2>3. CASE i \in 1..n /\ j = n + 1
    BY <1>1, <1>3, <1>5, <2>3, Zenon
  <2>4. CASE i = n + 1 /\ j = n + 1
    BY <2>4, Zenon
  <2>5. /\ i = n + 1 \/ i \in 1..n
        /\ j = n + 1 \/ j \in 1..n
    BY <1>3, <1>4, Zenon
  <2> QED BY <2>1, <2>2, <2>3, <2>4, <2>5, Zenon
<1>8. \A i \in 1..Len(u) : (u[i].adapter = c /\ u[i].age = 0) \/ \E k \in 1..n : u[i] = t[k]
  BY <1>1, <1>3, <1>4, Zenon
<1>9. (\A k \in 1..n : \E i \in 1..Len(u) : u[i] = t[k]) /\ Holds(u, c)
  BY <1>1, <1>3, <1>4, Zenon DEF Holds
<1> QED BY <1>3, <1>6, <1>7, <1>8, <1>9, Zenon DEF Entering, Falling, u, n

\* A list of different adapters is no longer than there are connections.
LEMMA LengthBound ==
  ASSUME NEW s \in Seq(Entry), Distinct(s)
  PROVE  Len(s) <= MaxConns
<1> SUFFICES ASSUME ~(Len(s) <= MaxConns) PROVE FALSE
  OBVIOUS
<1> DEFINE h == [i \in 1..Len(s) |-> s[i].adapter]
<1>1. Len(s) \in Nat /\ MaxConns \in Nat
  BY LenProperties, PollAssumption, Zenon
<1>2. MaxConns < Len(s)
  BY <1>1, SMT
<1>3. /\ IsFiniteSet(1..Len(s)) /\ Cardinality(1..Len(s)) = Len(s)
      /\ IsFiniteSet(Conn) /\ Cardinality(Conn) = MaxConns
  BY <1>1, SizeOf, Zenon DEF Conn
<1>4. \A x \in Entry : x.adapter \in Conn
  BY SMT DEF Entry
<1>5. h \in [1..Len(s) -> Conn]
  BY <1>4, ElementOfSeq, Zenon
<1>6. Cardinality(Conn) < Cardinality(1..Len(s))
  BY <1>2, <1>3, Zenon
<1> HIDE DEF h
<1>7. \E i, j \in 1..Len(s) : i # j /\ h[i] = h[j]
  BY <1>3, <1>5, <1>6, FS_PigeonHole, Zenon
<1> QED BY <1>7, Zenon DEF Distinct, h

\* The entries that shutdown_timeout_adapter removes are the first ones.
LEMMA OverdueIs ==
  ASSUME active \in Seq(Entry)
  PROVE  Cardinality(Overdue) \in 0..Len(active) /\ Overdue = 1..Cardinality(Overdue)
<1> DEFINE n == Len(active)
           S == {i \in 1..n + 1 : i \notin Overdue}
           late(j) == active[j].age >= beep_timeout
<1>1. n \in Nat /\ DOMAIN active = 1..n
  BY LenProperties, Zenon
<1>2. S \subseteq Nat /\ n + 1 \in 1..n + 1 /\ n + 1 \notin 1..n
  BY <1>1, SMT
<1>3. n + 1 \in S
  BY <1>1, <1>2, Zenon DEF Overdue
<1>4. PICK m \in S : \A k \in S : m <= k
  BY <1>2, <1>3, LeastOf, Zenon
<1>5. /\ m \in 1..n + 1 /\ m - 1 \in Nat /\ m - 1 \in 0..n
      /\ \A i \in 1..m - 1 : i \in 1..n + 1 /\ ~(m <= i)
      /\ \A i \in 1..n : i \in 1..m - 1 \/ (m \in 1..n /\ \A j \in 1..m : j \in 1..i)
  BY <1>1, <1>4, SMT
<1>6. \A i \in 1..m - 1 : i \in Overdue
  BY <1>4, <1>5, Zenon
<1>7. m \notin Overdue
  BY <1>4, Zenon
<1>8. \A i \in Overdue : i \in 1..n /\ \A j \in 1..i : late(j)
  BY <1>1, Zenon DEF Overdue
<1>9. \A i \in Overdue : i \in 1..m - 1
  <2>1. \A i \in 1..n : (\A j \in 1..i : late(j)) => i \in Overdue
    BY <1>1, Zenon DEF Overdue
  <2> HIDE DEF late
  <2> QED BY <1>5, <1>7, <1>8, <2>1, Zenon
<1>10. Overdue = 1..m - 1
  BY <1>6, <1>9, Zenon
<1>11. Cardinality(1..m - 1) = m - 1
  BY <1>5, SizeOf, Zenon
<1> QED BY <1>5, <1>10, <1>11, Zenon
-----------------------------------------------------------------------------
(***************************************************************************)
(* The types, in parts.                                                    *)
(***************************************************************************)
CtlOK ==
  /\ {started, listen_fd} \subseteq BOOLEAN
  /\ starter \in {"idle", "wait"} /\ stopper \in {"idle", "join"} /\ starts \in 0..MaxStarts
  /\ thread \in {"off", "begin", "top", "select", "ready", "timeout", "error", "loop",
                 "release", "ended", "deaf", "lost"}
  /\ left \in Age \cup {Never} /\ rfds \subseteq {Listen} \cup Fd
  /\ unread \cup eof \cup unmapped \subseteq Conn

ConnOK ==
  /\ conn \in [Conn -> {"none", "backlog", "open", "deleted"}]
  /\ fd \in [Conn -> Fd \cup {0}]
  /\ \A c, d \in Conn : conn[c] = "open" /\ conn[d] = "open" /\ c # d => fd[c] # fd[d]
  /\ shut \subseteq Conn /\ quiet \in [Conn -> Age]

ListInv ==
  /\ active \in Seq(Entry) /\ Falling(active) /\ Distinct(active)
  /\ Listed /\ Entered /\ Aged

LEMMA InvParts == PollInv <=> CtlOK /\ ConnOK /\ ListInv
<1>1. PollInv => CtlOK /\ ConnOK /\ ListInv
  BY Zenon DEF PollInv, TypeOK, CtlOK, ConnOK, ListInv, Entry
<1>2. ASSUME CtlOK, ConnOK, ListInv PROVE PollInv
  <2>1. Len(active) <= MaxConns
    BY <1>2, LengthBound, Zenon DEF ListInv
  <2>2. unread \cup eof \cup unmapped \cup shut \subseteq Conn
    BY <1>2, Zenon DEF CtlOK, ConnOK
  <2> QED BY <1>2, <2>1, <2>2, Zenon DEF PollInv, TypeOK, CtlOK, ConnOK, ListInv, Entry
<1> QED BY <1>1, <1>2, Zenon

\* Steps that leave the list and the open connections alone.
LEMMA SameList ==
  ASSUME ConnOK, ListInv, UNCHANGED <<fd, shut, active, quiet>>,
         \/ conn' = conn
         \/ \E c \in Conn : conn[c] = "none" /\ conn' = [conn EXCEPT ![c] = "backlog"]
         \/ conn' = [c \in Conn |-> IF conn[c] = "backlog" THEN "deleted" ELSE conn[c]]
  PROVE  ConnOK' /\ ListInv'
<1>1. conn' \in [Conn -> {"none", "backlog", "open", "deleted"}]
  BY Zenon DEF ConnOK
<1>2. \A c \in Conn : /\ conn'[c] = "open" <=> conn[c] = "open"
                      /\ conn[c] = "deleted" => conn'[c] = "deleted"
  BY Zenon DEF ConnOK
<1>3. Open' = Open
  BY <1>2, Zenon DEF Open
<1>4. \A i \in 1..Len(active) : active[i].adapter \in Conn
  <2>1. \A x \in Entry : x.adapter \in Conn
    BY SMT DEF Entry
  <2> QED BY <2>1, ElementOfSeq, Zenon DEF ListInv
<1>5. ConnOK'
  BY <1>1, <1>2, Zenon DEF ConnOK
<1>6. Listed'
  BY <1>3, Zenon DEF ListInv, Listed
<1>7. Aged'
  BY <1>3, Zenon DEF ListInv, Aged
<1>8. Entered'
  BY <1>2, <1>4, Zenon DEF ListInv, Entered
<1> QED BY <1>5, <1>6, <1>7, <1>8, Zenon DEF ListInv

\* Ages.
LEMMA Ages ==
  /\ 0 \in Age /\ \A a \in Age : Older(a) \in Age
  /\ \A a, b \in Age : a >= b => Older(a) >= Older(b)
  /\ \A a \in Age \cup {Never} : (IF a > 0 THEN a - 1 ELSE a) \in Age \cup {Never}
  /\ \A a \in Age : beep_timeout - a < 0 \/ beep_timeout - a \in Age
BY PollAssumption, SMT DEF Age, Never, Older

LEMMA EntryIs == \A x \in Entry : x.adapter \in Conn /\ x.age \in Age
BY SMT DEF Entry

LEMMA ActiveIs ==
  ASSUME active \in Seq(Entry)
  PROVE  /\ \A i \in 1..Len(active) : active[i] \in Entry
         /\ \A i \in 1..Len(active) : active[i].adapter \in Conn /\ active[i].age \in Age
         /\ active # <<>> => active[1].age \in Age
<1>1. \A i \in 1..Len(active) : active[i] \in Entry
  BY ElementOfSeq, Zenon
<1>2. active # <<>> => 1 \in 1..Len(active)
  BY SMT
<1> QED BY <1>1, <1>2, EntryIs, Zenon

LEMMA CtlStep ==
  ASSUME PollInv, [Next]_vars
  PROVE  CtlOK'
<1> USE DEF CtlOK, ctlVars, pollVars, connVars, timeVars
<1>0. CtlOK /\ ConnOK /\ active \in Seq(Entry)
  BY InvParts, Zenon DEF ListInv
<1>a. Never \in Age \cup {Never}
  BY Zenon
<1>1. CASE start
  <2>1. starts' \in 0..MaxStarts
    BY <1>0, <1>1, PollAssumption, SMT DEF start
  <2> QED BY <1>0, <1>1, <2>1, Zenon DEF start
<1>2. CASE stop
  BY <1>0, <1>2, Zenon DEF stop
<1>3. CASE StopReturns
  BY <1>0, <1>3, Zenon DEF StopReturns
<1>4. CASE Tick
  BY <1>0, <1>4, Ages, Zenon DEF Tick
<1>5. ASSUME NEW c \in Conn, Connect(c) \/ ClientSends(c) \/ ClientCloses(c) \/ DispatcherCloses(c)
      PROVE  CtlOK'
  BY <1>0, <1>5, Zenon DEF Connect, ClientSends, ClientCloses, DispatcherCloses
<1>6. CASE RunBegin
  <2>1. active # <<>> => obtain_timeout < 0 \/ obtain_timeout \in Age
    BY <1>0, ActiveIs, Ages, Zenon DEF obtain_timeout
  <2>2. left' \in Age \cup {Never}
    BY <1>0, <1>6, <2>1, Zenon DEF RunBegin
  <2> QED BY <1>0, <1>6, <2>2, Zenon DEF RunBegin
<1>7. CASE SelectBegin
  <2>1. active # <<>> => obtain_timeout < 0 \/ obtain_timeout \in Age
    BY <1>0, ActiveIs, Ages, Zenon DEF obtain_timeout
  <2>2. left' \in Age \cup {Never}
    BY <1>7, <2>1, Zenon DEF SelectBegin
  <2> QED BY <1>0, <1>7, <2>2, Zenon DEF SelectBegin
<1>8. CASE SelectReady
  <2>1. Readable \subseteq {Listen} \cup Fd
    BY <1>0, Zenon DEF Readable, ConnOK, Open, Listen
  <2> QED BY <1>0, <1>8, <2>1, Zenon DEF SelectReady
<1>9. CASE SelectTimeout
  BY <1>0, <1>9, Zenon DEF SelectTimeout
<1>10. CASE Polled
  BY <1>0, <1>10, Zenon DEF Polled
<1>11. CASE LoopEnd
  BY <1>0, <1>11, Zenon DEF LoopEnd
<1>12. CASE Accept
  BY <1>0, <1>12, Zenon DEF Accept
<1>13. CASE AcceptFails
  BY <1>0, <1>13, Zenon DEF AcceptFails
<1>14. CASE Release
  BY <1>0, <1>14, Zenon DEF Release, delete_adapters
<1>15. ASSUME NEW c \in Conn, Read(c) PROVE CtlOK'
  BY <1>0, <1>15, Zenon DEF Read
<1>16. ASSUME NEW c \in Conn, ReadFails(c) PROVE CtlOK'
  BY <1>0, <1>16, Zenon DEF ReadFails, delete_adapters
<1>17. CASE UNCHANGED vars
  BY <1>0, <1>17, Zenon DEF vars
<1> QED BY <1>1, <1>2, <1>3, <1>4, <1>5, <1>6, <1>7, <1>8, <1>9, <1>10, <1>11, <1>12, <1>13,
  <1>14, <1>15, <1>16, <1>17, Zenon DEF Next, PollStep

-----------------------------------------------------------------------------
(***************************************************************************)
(* The steps that change the list or the open connections.                 *)
(***************************************************************************)
LEMMA TickKeeps ==
  ASSUME ConnOK, ListInv, Tick
  PROVE  ConnOK' /\ ListInv'
<1>1. active \in Seq(Entry) /\ Len(active) \in Nat /\ DOMAIN active = 1..Len(active)
  BY LenProperties, Zenon DEF ListInv
<1>2. active' = [i \in 1..Len(active) |-> [active[i] EXCEPT !.age = Older(active[i].age)]]
  BY <1>1, Zenon DEF Tick
<1>3. ASSUME NEW x \in Entry
      PROVE  /\ [x EXCEPT !.age = Older(x.age)] \in Entry
             /\ [x EXCEPT !.age = Older(x.age)].adapter = x.adapter
             /\ [x EXCEPT !.age = Older(x.age)].age = Older(x.age)
  <2>1. Older(x.age) \in Age
    BY EntryIs, Ages, Zenon
  <2> HIDE DEF Older
  <2> QED BY <2>1, SMT DEF Entry
<1>4. \A i \in 1..Len(active) : active[i] \in Entry /\ active[i].age \in Age /\ active[i].adapter \in Conn
  BY <1>1, ActiveIs, Zenon
<1>5. \A i \in 1..Len(active) : /\ active'[i] \in Entry
                                /\ active'[i].adapter = active[i].adapter
                                /\ active'[i].age = Older(active[i].age)
  BY <1>2, <1>3, <1>4, Zenon
<1>6. active' \in Seq(Entry) /\ Len(active') = Len(active)
  <2>1. active' \in [1..Len(active) -> Entry]
    BY <1>2, <1>3, <1>4, Zenon
  <2> QED BY <1>1, <2>1, SMT
<1>7. conn' = conn /\ fd' = fd /\ shut' = shut /\ Open' = Open
  BY Zenon DEF Tick, connVars, Open
<1>8. quiet' = [c \in Conn |-> IF c \in Open THEN Older(quiet[c]) ELSE quiet[c]]
  BY Zenon DEF Tick
<1>9. ConnOK'
  <2>1. quiet' \in [Conn -> Age]
    BY <1>8, Ages, Zenon DEF ConnOK
  <2> QED BY <1>7, <2>1, Zenon DEF ConnOK
<1>10. Falling(active')
  BY <1>4, <1>5, <1>6, Ages, Zenon DEF ListInv, Falling
<1>11. Distinct(active')
  BY <1>5, <1>6, Zenon DEF ListInv, Distinct
<1>12. Listed'
  <2>1. \A c \in Open : Holds(active, c) => Holds(active', c)
    BY <1>5, <1>6, Zenon DEF Holds
  <2> QED BY <1>7, <2>1, Zenon DEF ListInv, Listed
<1>13. Entered'
  BY <1>5, <1>6, <1>7, Zenon DEF ListInv, Entered
<1>14. ASSUME NEW i \in 1..Len(active), active'[i].adapter \in Open
       PROVE  active'[i].age = quiet'[active'[i].adapter]
  <2>1. active[i].adapter \in Open /\ active[i].age = quiet[active[i].adapter]
    BY <1>5, <1>14, Zenon DEF ListInv, Aged
  <2> QED BY <1>4, <1>5, <1>8, <2>1, Zenon
<1>15. Aged'
  BY <1>6, <1>7, <1>14, Zenon DEF Aged
<1> QED BY <1>6, <1>9, <1>10, <1>11, <1>12, <1>13, <1>15, Zenon DEF ListInv

LEMMA PolledKeeps ==
  ASSUME ConnOK, ListInv, Polled
  PROVE  ConnOK' /\ ListInv'
<1> DEFINE k == Cardinality(Overdue)
<1>1. active \in Seq(Entry)
  BY Zenon DEF ListInv
<1>2. k \in 0..Len(active) /\ Overdue = 1..k
  BY <1>1, OverdueIs, Zenon
<1>3. active' = Cut(active, k)
  BY Zenon DEF Polled, Cut
<1> HIDE DEF k
<1>4. /\ active' \in Seq(Entry) /\ \E f : Drawn(active', active, f)
      /\ \A i \in 1..Len(active) : i \in 1..k \/ \E j \in 1..Len(active') : active'[j] = active[i]
  BY <1>1, <1>2, <1>3, CutDrawn, Zenon
<1>5. /\ Falling(active') /\ Distinct(active')
      /\ \A i \in 1..Len(active') : \E j \in 1..Len(active) : active'[i] = active[j]
  BY <1>1, <1>4, DrawnKeeps, Zenon DEF ListInv
<1>6. /\ conn' = conn /\ fd' = fd /\ quiet' = quiet /\ Open' = Open
      /\ shut' = shut \cup {c \in Open : \E i \in Overdue : fd[active[i].adapter] = fd[c]}
  BY Zenon DEF Polled, connVars, Open
<1>7. ConnOK'
  BY <1>6, Zenon DEF ConnOK, Open
<1>8. ASSUME NEW c \in Open, c \notin shut' PROVE Holds(active', c)
  <2>1. PICK i \in 1..Len(active) : active[i].adapter = c
    BY <1>6, <1>8, Zenon DEF ListInv, Listed, Holds
  <2>2. i \notin Overdue
    BY <1>6, <1>8, <2>1, Zenon
  <2> QED BY <1>2, <1>4, <2>1, <2>2, Zenon DEF Holds
<1>9. Listed'
  BY <1>6, <1>8, Zenon DEF Listed
<1>10. Entered'
  BY <1>5, <1>6, Zenon DEF ListInv, Entered
<1>11. Aged'
  BY <1>5, <1>6, Zenon DEF ListInv, Aged
<1> QED BY <1>4, <1>5, <1>7, <1>9, <1>10, <1>11, Zenon DEF ListInv

\* There is a descriptor left for one more connection.
LEMMA FreeFd ==
  ASSUME ConnOK, NEW c \in Conn, c \notin Open
  PROVE  LET free == Fd \ {fd[d] : d \in Open} IN
         (CHOOSE f \in free : \A g \in free : f <= g) \in free
<1> DEFINE free == Fd \ {fd[d] : d \in Open}
           h == [f \in Fd |-> CHOOSE d \in Open : fd[d] = f]
           Rest == Conn \ {c}
<1>1. Fd \subseteq Nat
  BY PollAssumption, SMT DEF Fd
<1>2. ASSUME free = {} PROVE FALSE
  <2>1. \A f \in Fd : h[f] \in Open /\ fd[h[f]] = f
    BY <1>2, Zenon
  <2>2. h \in [Fd -> Rest]
    BY <2>1, Zenon DEF Open
  <2>3. /\ IsFiniteSet(Fd) /\ Cardinality(Fd) = MaxConns
        /\ IsFiniteSet(Conn) /\ Cardinality(Conn) = MaxConns /\ MaxConns \in Nat
    BY PollAssumption, SizeOf, Zenon DEF Fd, Conn
  <2>4. IsFiniteSet(Rest) /\ Cardinality(Rest) = Cardinality(Conn) - 1
    BY <2>3, FS_RemoveElement, Zenon
  <2>5. Cardinality(Rest) < Cardinality(Fd)
    BY <2>3, <2>4, SMT
  <2> HIDE DEF h, Rest
  <2>6. \E f, g \in Fd : f # g /\ h[f] = h[g]
    BY <2>2, <2>3, <2>4, <2>5, FS_PigeonHole, Zenon
  <2> QED BY <2>1, <2>6, Zenon
<1>3. free \subseteq Nat /\ free # {}
  BY <1>1, <1>2, Zenon
<1> HIDE DEF free
<1>4. \E f \in free : \A g \in free : f <= g
  BY <1>3, LeastOf, Zenon
<1>5. (CHOOSE f \in free : \A g \in free : f <= g) \in free
  BY <1>4, Zenon
<1> QED BY <1>5, Zenon DEF free

LEMMA AcceptKeeps ==
  ASSUME ConnOK, ListInv, Accept
  PROVE  ConnOK' /\ ListInv'
<1> DEFINE free == Fd \ {fd[d] : d \in Open}
           f == CHOOSE f1 \in free : \A g \in free : f1 <= g
<1>1. PICK c \in Conn : /\ conn[c] = "backlog"
                        /\ conn' = [conn EXCEPT ![c] = "open"]
                        /\ fd' = [fd EXCEPT ![c] = f]
                        /\ active' = Append(active, [adapter |-> c, age |-> 0])
                        /\ quiet' = [quiet EXCEPT ![c] = 0]
  BY Zenon DEF Accept
<1>2. c \notin Open
  BY <1>1, Zenon DEF Open
<1>3. f \in Fd /\ \A d \in Open : fd[d] # f
  <2>1. f \in free
    BY <1>2, FreeFd, Zenon
  <2> QED BY <2>1, Zenon
<1> HIDE DEF f
<1>4. /\ \A d \in Conn : d # c => conn'[d] = conn[d] /\ fd'[d] = fd[d] /\ quiet'[d] = quiet[d]
      /\ conn'[c] = "open" /\ fd'[c] = f /\ quiet'[c] = 0
  BY <1>1, Zenon DEF ConnOK
<1>5. Open' = Open \cup {c} /\ shut' = shut
  <2>1. \A d \in Conn : conn'[d] = "open" <=> conn[d] = "open" \/ d = c
    BY <1>4, Zenon
  <2>2. Open' = Open \cup {c}
    BY <2>1, Zenon DEF Open
  <2> QED BY <2>2, Zenon DEF Accept
<1>6. ConnOK'
  <2>1. /\ conn' \in [Conn -> {"none", "backlog", "open", "deleted"}]
        /\ fd' \in [Conn -> Fd \cup {0}] /\ quiet' \in [Conn -> Age] /\ shut' \subseteq Conn
    BY <1>1, <1>3, <1>5, Ages, Zenon DEF ConnOK
  <2>2. ASSUME NEW a \in Conn, NEW b \in Conn, conn'[a] = "open", conn'[b] = "open", a # b
        PROVE  fd'[a] # fd'[b]
    <3>1. CASE a = c
      BY <1>3, <1>4, <2>2, <3>1, Zenon DEF Open
    <3>2. CASE b = c
      BY <1>3, <1>4, <2>2, <3>2, Zenon DEF Open
    <3>3. CASE a # c /\ b # c
      BY <1>4, <2>2, <3>3, Zenon DEF ConnOK
    <3> QED BY <3>1, <3>2, <3>3, Zenon
  <2> QED BY <2>1, <2>2, Zenon DEF ConnOK
<1>7. ~Holds(active, c)
  BY <1>1, Zenon DEF ListInv, Entered, Holds
<1>8. Entering(active', active, c)
  BY <1>1, <1>7, EnterIs, Zenon DEF ListInv, Enter
<1>9. \A i \in 1..Len(active) : active[i].adapter \in Conn /\ active[i].adapter # c
  BY <1>7, ActiveIs, Zenon DEF ListInv, Holds
<1>10. Listed'
  <2>1. ASSUME NEW d \in Open, d \notin shut PROVE Holds(active', d)
    <3>1. PICK k \in 1..Len(active) : active[k].adapter = d
      BY <2>1, Zenon DEF ListInv, Listed, Holds
    <3>2. PICK i \in 1..Len(active') : active'[i] = active[k]
      BY <1>8, Zenon DEF Entering
    <3> QED BY <3>1, <3>2, Zenon DEF Holds
  <2>2. Holds(active', c)
    BY <1>8, Zenon DEF Entering
  <2> QED BY <1>5, <2>1, <2>2, Zenon DEF Listed
<1>11. ASSUME NEW i \in 1..Len(active') PROVE conn'[active'[i].adapter] \in {"open", "deleted"}
  <2>1. CASE active'[i].adapter = c
    BY <1>4, <2>1, Zenon
  <2>2. ASSUME NEW k \in 1..Len(active), active'[i] = active[k]
        PROVE  conn'[active'[i].adapter] \in {"open", "deleted"}
    <3>1. active[k].adapter \in Conn /\ active[k].adapter # c
      BY <1>9, Zenon
    <3>2. conn'[active[k].adapter] = conn[active[k].adapter]
      BY <1>4, <3>1, Zenon
    <3> QED BY <2>2, <3>2, Zenon DEF ListInv, Entered
  <2> QED BY <1>8, <2>1, <2>2, Zenon DEF Entering
<1>12. ASSUME NEW i \in 1..Len(active'), active'[i].adapter \in Open'
       PROVE  active'[i].age = quiet'[active'[i].adapter]
  <2>1. CASE active'[i].adapter = c /\ active'[i].age = 0
    BY <1>4, <2>1, Zenon
  <2>2. ASSUME NEW k \in 1..Len(active), active'[i] = active[k]
        PROVE  active'[i].age = quiet'[active'[i].adapter]
    <3>1. active[k].adapter \in Conn /\ active[k].adapter # c
      BY <1>9, Zenon
    <3>2. quiet'[active[k].adapter] = quiet[active[k].adapter] /\ active[k].adapter \in Open
      BY <1>5, <1>4, <1>12, <2>2, <3>1, Zenon
    <3> QED BY <2>2, <3>2, Zenon DEF ListInv, Aged
  <2> QED BY <1>8, <2>1, <2>2, Zenon DEF Entering
<1>13. Aged'
  BY <1>12, Zenon DEF Aged
<1>14. Entered'
  BY <1>11, Zenon DEF Entered
<1> QED BY <1>6, <1>8, <1>10, <1>13, <1>14, Zenon DEF ListInv, Entering

LEMMA ReadKeeps ==
  ASSUME ConnOK, ListInv, NEW c \in Conn, Read(c)
  PROVE  ConnOK' /\ ListInv'
<1>1. /\ active' = Refreshed(c) /\ quiet' = [quiet EXCEPT ![c] = 0] /\ c \in Open
      /\ conn' = conn /\ fd' = fd /\ shut' = shut /\ Open' = Open
  BY Zenon DEF Read, Reached, Open
<1>2. quiet'[c] = 0 /\ \A d \in Conn : d # c => quiet'[d] = quiet[d]
  BY <1>1, Zenon DEF ConnOK
<1>3. ConnOK'
  BY <1>1, Ages, Zenon DEF ConnOK
<1>4. active \in Seq(Entry) /\ DOMAIN active = 1..Len(active)
  BY LenProperties, Zenon DEF ListInv
<1>5. \A i \in 1..Len(active) : active[i].adapter \in Conn
  BY <1>4, ActiveIs, Zenon
<1>6. CASE ~Holds(active, c)
  <2>1. active' = active
    BY <1>1, <1>4, <1>6, Zenon DEF Refreshed, Holds
  <2>2. Aged'
    <3>1. \A i \in 1..Len(active) : quiet'[active[i].adapter] = quiet[active[i].adapter]
      BY <1>2, <1>5, <1>6, Zenon DEF Holds
    <3> QED BY <1>1, <2>1, <3>1, Zenon DEF ListInv, Aged
  <2> QED BY <1>1, <1>3, <2>1, <2>2, Zenon DEF ListInv, Listed, Entered
<1>7. CASE Holds(active, c)
  <2>1. active' = Enter(Without(c), c)
    BY <1>1, <1>4, <1>7, Zenon DEF Refreshed, Holds, Enter
  <2>2. Removed(Without(c), c)
    BY WithoutIs, Zenon DEF ListInv
  <2> DEFINE t == Without(c)
  <2> HIDE DEF t
  <2>3. Entering(active', t, c)
    <3>1. t \in Seq(Entry) /\ Falling(t) /\ Distinct(t) /\ ~Holds(t, c)
      BY <2>2, Zenon DEF Removed, Holds, t
    <3> QED BY <2>1, <3>1, EnterIs, Zenon DEF t
  <2>4. ASSUME NEW i \in 1..Len(active')
        PROVE  \/ active'[i].adapter = c /\ active'[i].age = 0
               \/ \E k \in 1..Len(active) : active'[i] = active[k] /\ active[k].adapter # c
    <3>1. \A j \in 1..Len(t) : t[j].adapter # c /\ \E k \in 1..Len(active) : t[j] = active[k]
      BY <2>2, Zenon DEF Removed, t
    <3>2. \/ active'[i].adapter = c /\ active'[i].age = 0
          \/ \E j \in 1..Len(t) : active'[i] = t[j]
      BY <2>3, Zenon DEF Entering
    <3> QED BY <3>1, <3>2, Zenon
  <2>5. ASSUME NEW d \in Open, d \notin shut PROVE Holds(active', d)
    <3>1. CASE d = c
      BY <2>3, <3>1, Zenon DEF Entering
    <3>2. CASE d # c
      <4>1. PICK k \in 1..Len(active) : active[k].adapter = d
        BY <2>5, Zenon DEF ListInv, Listed, Holds
      <4>2. PICK i \in 1..Len(t) : t[i] = active[k]
        BY <2>2, <3>2, <4>1, Zenon DEF Removed, t
      <4>3. PICK j \in 1..Len(active') : active'[j] = t[i]
        BY <2>3, <4>2, Zenon DEF Entering
      <4> QED BY <4>1, <4>2, <4>3, Zenon DEF Holds
    <3> QED BY <3>1, <3>2, Zenon
  <2>6. Listed'
    BY <1>1, <2>5, Zenon DEF Listed
  <2>7. Entered'
    BY <1>1, <2>4, Zenon DEF ListInv, Entered, Open
  <2>8. ASSUME NEW i \in 1..Len(active'), active'[i].adapter \in Open
        PROVE  active'[i].age = quiet'[active'[i].adapter]
    <3>1. CASE active'[i].adapter = c /\ active'[i].age = 0
      BY <1>2, <3>1, Zenon
    <3>2. ASSUME NEW k \in 1..Len(active), active'[i] = active[k], active[k].adapter # c
          PROVE  active'[i].age = quiet'[active'[i].adapter]
      <4>1. quiet'[active[k].adapter] = quiet[active[k].adapter]
        BY <1>2, <1>5, <3>2, Zenon
      <4> QED BY <2>8, <3>2, <4>1, Zenon DEF ListInv, Aged
    <3> QED BY <2>4, <3>1, <3>2, Zenon
  <2>9. Aged'
    BY <1>1, <2>8, Zenon DEF Aged
  <2> QED BY <1>3, <2>3, <2>6, <2>7, <2>9, Zenon DEF ListInv, Entering
<1> QED BY <1>6, <1>7, Zenon

LEMMA DeletedIs ==
  ASSUME ConnOK, NEW cs, cs \subseteq Open, delete_adapters(cs), fd' = fd
  PROVE  /\ ConnOK' /\ Open' = Open \ cs /\ shut' = shut \ cs
         /\ \A d \in Conn : d \notin cs => conn'[d] = conn[d] /\ quiet'[d] = quiet[d]
         /\ \A d \in cs : conn'[d] = "deleted"
<1>1. /\ \A d \in Conn : d \notin cs => conn'[d] = conn[d] /\ quiet'[d] = quiet[d]
      /\ \A d \in cs : conn'[d] = "deleted"
  BY Zenon DEF delete_adapters, Open
<1>2. Open' = Open \ cs
  BY <1>1, Zenon DEF Open
<1>3. shut' = shut \ cs
  BY Zenon DEF delete_adapters
<1>4. /\ conn' \in [Conn -> {"none", "backlog", "open", "deleted"}]
      /\ quiet' \in [Conn -> Age]
  BY Ages, Zenon DEF delete_adapters, ConnOK
<1>5. \A a \in Conn : conn'[a] = "open" => conn[a] = "open"
  BY <1>1, Zenon
<1>6. ConnOK'
  BY <1>3, <1>4, <1>5, Zenon DEF ConnOK
<1> QED BY <1>1, <1>2, <1>3, <1>6, Zenon

LEMMA ReadFailsKeeps ==
  ASSUME ConnOK, ListInv, NEW c \in Conn, ReadFails(c)
  PROVE  ConnOK' /\ ListInv'
<1>1. {c} \subseteq Open /\ delete_adapters({c}) /\ fd' = fd /\ active' = Without(c)
  BY Zenon DEF ReadFails, Reached
<1>2. /\ ConnOK' /\ Open' = Open \ {c} /\ shut' = shut \ {c}
      /\ \A d \in Conn : d \notin {c} => conn'[d] = conn[d] /\ quiet'[d] = quiet[d]
  BY <1>1, DeletedIs, Zenon
<1>3. Removed(active', c)
  BY <1>1, WithoutIs, Zenon DEF ListInv
<1>4. \A i \in 1..Len(active) : active[i].adapter \in Conn
  BY ActiveIs, Zenon DEF ListInv
<1>5. ASSUME NEW d \in Open', d \notin shut' PROVE Holds(active', d)
  <2>1. PICK k \in 1..Len(active) : active[k].adapter = d
    BY <1>2, <1>5, Zenon DEF ListInv, Listed, Holds
  <2> QED BY <1>2, <1>3, <1>5, <2>1, Zenon DEF Removed, Holds
<1>6. Listed'
  BY <1>5, Zenon DEF Listed
<1>7. ASSUME NEW i \in 1..Len(active')
      PROVE  \E k \in 1..Len(active) :
               /\ active'[i] = active[k] /\ conn'[active[k].adapter] = conn[active[k].adapter]
               /\ quiet'[active[k].adapter] = quiet[active[k].adapter]
  <2>1. active'[i].adapter # c /\ \E k \in 1..Len(active) : active'[i] = active[k]
    BY <1>3, Zenon DEF Removed
  <2>2. PICK k \in 1..Len(active) : active'[i] = active[k]
    BY <2>1, Zenon
  <2>3. active[k].adapter \in Conn /\ active[k].adapter \notin {c}
    BY <1>4, <2>1, <2>2, Zenon
  <2> QED BY <1>2, <2>2, <2>3, Zenon
<1>8. Entered'
  BY <1>7, Zenon DEF ListInv, Entered
<1>9. ASSUME NEW i \in 1..Len(active'), active'[i].adapter \in Open'
      PROVE  active'[i].age = quiet'[active'[i].adapter]
  <2>1. PICK k \in 1..Len(active) :
          active'[i] = active[k] /\ quiet'[active[k].adapter] = quiet[active[k].adapter]
    BY <1>7, Zenon
  <2>2. active[k].adapter \in Open
    BY <1>2, <1>9, <2>1, Zenon
  <2> QED BY <2>1, <2>2, Zenon DEF ListInv, Aged
<1>10. Aged'
  BY <1>9, Zenon DEF Aged
<1> QED BY <1>2, <1>3, <1>6, <1>8, <1>10, Zenon DEF ListInv, Removed

LEMMA ReleaseKeeps ==
  ASSUME ConnOK, ListInv, Release
  PROVE  ConnOK' /\ ListInv'
<1>1. delete_adapters(Open) /\ fd' = fd /\ active' = active
  BY Zenon DEF Release
<1>2. /\ ConnOK' /\ Open' = {}
      /\ \A d \in Conn : d \notin Open => conn'[d] = conn[d]
      /\ \A d \in Open : conn'[d] = "deleted"
  BY <1>1, DeletedIs, Zenon
<1>3. \A i \in 1..Len(active) : active[i].adapter \in Conn
  BY ActiveIs, Zenon DEF ListInv
<1>4. Listed' /\ Aged'
  BY <1>2, Zenon DEF Listed, Aged
<1>5. Entered'
  BY <1>1, <1>2, <1>3, Zenon DEF ListInv, Entered
<1> QED BY <1>1, <1>2, <1>4, <1>5, Zenon DEF ListInv
-----------------------------------------------------------------------------
LEMMA PollInit == Init => PollInv
<1> SUFFICES ASSUME Init PROVE PollInv
  OBVIOUS
<1> USE DEF Init
<1>1. 0 \in 0..MaxStarts /\ 0 \in Age
  BY PollAssumption, Ages, SMT
<1>2. CtlOK
  BY <1>1, Zenon DEF CtlOK
<1>3. ConnOK
  BY <1>1, Zenon DEF ConnOK
<1>4. active \in Seq(Entry) /\ 1..Len(active) = {}
  BY SMT
<1>5. ListInv
  BY <1>4, Zenon DEF ListInv, Falling, Distinct, Listed, Entered, Aged, Open
<1> QED BY <1>2, <1>3, <1>5, InvParts, Zenon

LEMMA PollStepKeeps == PollInv /\ [Next]_vars => PollInv'
<1> SUFFICES ASSUME PollInv, [Next]_vars PROVE PollInv'
  OBVIOUS
<1>1. CtlOK' /\ ConnOK /\ ListInv
  BY CtlStep, InvParts, Zenon
<1> USE DEF ctlVars, pollVars, connVars, timeVars
<1>2. ASSUME \/ start \/ stop \/ StopReturns \/ RunBegin \/ SelectBegin \/ SelectReady
             \/ SelectTimeout \/ LoopEnd \/ AcceptFails \/ UNCHANGED vars
      PROVE  ConnOK' /\ ListInv'
  BY <1>1, <1>2, SameList, Zenon DEF start, stop, StopReturns, RunBegin, SelectBegin,
    SelectReady, SelectTimeout, LoopEnd, AcceptFails, vars
<1>3. ASSUME NEW c \in Conn, Connect(c) \/ ClientSends(c) \/ ClientCloses(c) \/ DispatcherCloses(c)
      PROVE  ConnOK' /\ ListInv'
  BY <1>1, <1>3, SameList, Zenon DEF Connect, ClientSends, ClientCloses, DispatcherCloses
<1>4. ASSUME Tick \/ Polled \/ Accept \/ Release \/ \E c \in Conn : Read(c) \/ ReadFails(c)
      PROVE  ConnOK' /\ ListInv'
  BY <1>1, <1>4, TickKeeps, PolledKeeps, AcceptKeeps, ReleaseKeeps, ReadKeeps, ReadFailsKeeps,
    Zenon
<1>5. ConnOK' /\ ListInv'
  BY <1>2, <1>3, <1>4, Zenon DEF Next, PollStep
<1>6. (PollInv <=> CtlOK /\ ConnOK /\ ListInv)'
  BY InvParts, PTL
<1> QED BY <1>1, <1>5, <1>6, Zenon

\* The inductive invariant of the poll holds in every reachable state.
THEOREM PollInvariant == Spec => []PollInv
BY PollInit, PollStepKeeps, PTL DEF Spec

\* The variables of the poll keep their types: in particular no two open connections
\* have the same descriptor.
THEOREM PollTypes == Spec => []TypeOK
<1>1. PollInv => TypeOK
  BY Zenon DEF PollInv
<1> QED BY <1>1, PollInvariant, PTL

\* do_accept and do_read keep active_adapters in the order of the last reads, with
\* one entry for each connection that has not been shut down, through any number of
\* connections, reads, failures and restarts: shutdown_timeout_adapter may stop at
\* the first entry that is not overdue.
THEOREM OldestInFront == Spec => []FrontIsOldest
<1>1. ASSUME PollInv PROVE FrontIsOldest
  <2>1. active \in Seq(Entry) /\ DOMAIN active = 1..Len(active) /\ ListInv
    BY <1>1, InvParts, LenProperties, Zenon DEF ListInv
  <2>2. ASSUME NEW c \in Open, c \notin shut
        PROVE  Cardinality({i \in DOMAIN active : active[i].adapter = c}) = 1
    <3>1. PICK k \in 1..Len(active) : active[k].adapter = c
      BY <2>1, <2>2, Zenon DEF ListInv, Listed, Holds
    <3>2. {i \in DOMAIN active : active[i].adapter = c} = {k}
      BY <2>1, <3>1, Zenon DEF ListInv, Distinct
    <3> QED BY <3>2, FS_Singleton, Zenon
  <2> QED BY <2>1, <2>2, Zenon DEF FrontIsOldest, ListInv, Falling
<1> QED BY <1>1, PollInvariant, PTL

\* shutdown_timeout_adapter shuts down a client that has been silent for
\* beep_timeout, or one that has the descriptor of an entry left by an earlier start.
THEOREM ShutForSilence == Spec => OnlySilentShut
<1> DEFINE Why(c) == \/ quiet[c] >= beep_timeout
                     \/ \E i \in DOMAIN active :
                          active[i].adapter \notin Open /\ fd[active[i].adapter] = fd[c]
<1>1. ASSUME PollInv, Polled, NEW c \in shut' \ shut PROVE Why(c)
  <2>1. ConnOK /\ ListInv /\ active \in Seq(Entry) /\ DOMAIN active = 1..Len(active)
    BY <1>1, InvParts, LenProperties, Zenon DEF ListInv
  <2>2. PICK i \in Overdue : c \in Open /\ fd[active[i].adapter] = fd[c]
    BY <1>1, Zenon DEF Polled
  <2>3. i \in 1..Len(active) /\ i \in 1..i /\ \A j \in 1..i : active[j].age >= beep_timeout
    <3>1. i \in 1..Len(active) /\ \A j \in 1..i : active[j].age >= beep_timeout
      BY <2>1, <2>2, Zenon DEF Overdue
    <3>2. i \in 1..i
      BY <3>1, LenProperties, SMT
    <3> QED BY <3>1, <3>2, Zenon
  <2>4. CASE active[i].adapter \in Open
    <3>1. active[i].adapter = c
      BY <2>1, <2>2, <2>4, Zenon DEF ConnOK, Open
    <3>2. active[i].age = quiet[c] /\ active[i].age >= beep_timeout
      BY <2>1, <2>3, <2>4, <3>1, Zenon DEF ListInv, Aged
    <3> QED BY <3>2, Zenon
  <2> QED BY <2>1, <2>2, <2>3, <2>4, Zenon
<1>2. ASSUME [Next]_vars, ~Polled PROVE shut' \subseteq shut
  BY <1>2, Zenon DEF Next, PollStep, vars, timeVars, start, stop, StopReturns, Tick, Connect,
    ClientSends, ClientCloses, DispatcherCloses, RunBegin, SelectBegin, SelectReady,
    SelectTimeout, LoopEnd, Accept, AcceptFails, Read, ReadFails, Release, delete_adapters
<1>3. ASSUME PollInv, [Next]_vars PROVE [\A c \in shut' \ shut : Why(c)]_vars
  BY <1>1, <1>2, <1>3, Zenon
<1> QED BY <1>3, PollInvariant, PTL DEF Spec, OnlySilentShut
=============================================================================
