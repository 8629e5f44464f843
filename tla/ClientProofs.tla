---------------------------- MODULE ClientProofs ----------------------------
(***************************************************************************)
(* Proofs about Client: what its threads write to the connection, and what *)
(* its callers and callbacks are given.                                    *)
(***************************************************************************)
EXTENDS Client, FiniteSetTheorems, TLAPS

\* A request of this thread has been written.
Wrote(t) == \E i \in 1..Len(sent) : sent[i].by = t

\* Connecting, up to the start of the keepalive thread.
Early == at["main"] \in {"auth", "auth_send", "auth_wait", "auth_wake", "connecting"}

Phases ==
  /\ Early => /\ \A t \in App : pc[t] = "idle"
              /\ ka = "off" /\ at["recv"] \notin {"reply", "reply_send"}
  /\ \A t \in App : pc[t] = "crashed" => at["recv"] = "crashed"
  /\ disconnects = 0 \/ at["recv"] = "done"

\* What is in sbuffer is what the holder of send_mutex has put there.
Holder(t) == pc[t] \in {"register", "send"}

Buffer ==
  /\ at["main"] = "auth_send" => sbuffer.by = "auth"
  /\ at["recv"] = "reply_send" => send_mutex = "recv" /\ sbuffer.by = "reply"
  /\ ka = "ping_send" => send_mutex = "ka" /\ sbuffer.by = "ping"
  /\ \A t \in App : Holder(t) =>
       send_mutex = t /\ sbuffer.by = t /\ (t \in Caller => sbuffer.id = reqseq)

\* Requests are written once, by the thread that made them.
Unwritten(t) == pc[t] \in {"idle", "register", "send"} \/ result[t] = "einval"
IsWritten(t) == pc[t] \in {"check", "wait", "woken"} \/ result[t] \in Answer \cup {"etimeout"}

Written ==
  /\ \A t \in App : Unwritten(t) => ~Wrote(t)
  /\ \A t \in App : IsWritten(t) => Wrote(t)
  /\ \A t \in App : result[t] # NoAnswer => pc[t] \in {"done", "crashed"}
  /\ \A i, j \in 1..Len(sent) : sent[i].by = sent[j].by /\ sent[i].by \in App => i = j

\* A request in the list is that of a thread inside of call, or was not written.
Listed ==
  \A t \in Blocking \cap pending :
    \/ pc[t] \in {"send", "check", "wait", "woken", "crashed"}
    \/ pc[t] = "done" /\ ~Wrote(t)

\* n is the number of a call of t.
Sends(s, n, t) == \E i \in 1..Len(s) : s[i].by = t /\ s[i].id = n
Numbered(f, s, n, t) == (n # 0 /\ f[t] = n) \/ Sends(s, n, t)

Numbers ==
  /\ \A t \in Caller, n \in Nat : Numbered(id, sent, n, t) => 0 < n /\ n <= reqseq
  /\ \A t, u \in Caller, n \in Nat :
       Numbered(id, sent, n, t) /\ Numbered(id, sent, n, u) => t = u
  /\ \A t, u \in Caller : Holder(t) /\ u # t => ~Numbered(id, sent, reqseq, u)
  /\ \A t \in Caller : Holder(t) => reqseq > 0

\* The callback of a call is in one place.
Awaited(t) == t \in pending \/ \E w \in Thread : t \in cbs[w]

Tokens ==
  \A t \in Async :
    /\ Len(called[t]) <= 1
    /\ called[t] # <<>> \/ Awaited(t) => pc[t] \notin {"idle", "register"}
    /\ Awaited(t) => called[t] = <<>>
    /\ t \in pending => \A w \in Thread : t \notin cbs[w]
    /\ \A v, w \in Thread : t \in cbs[v] /\ t \in cbs[w] => v = w

\* A reply on its way is the answer to the call that has its number.
Genuine(s, a, m) ==
  /\ m.cmd = "reply" => \E t \in Caller : Sends(s, m.id, t) /\ a[t] = m.code
  /\ m.cmd = "auth" => m.code \in {"success", "edupid"}

Replies == \A i \in 1..Len(inbox) : Genuine(sent, answer, inbox[i])

Given ==
  /\ at["recv"] = "answer" => \A t \in cbs["recv"] : err = answer[t] /\ err # NoAnswer
  /\ at["recv"] \in {"tell_auth", "iclose", "close", "drain", "callbacks"} => err \in Reason
  /\ AnswersBelong

ClientInv ==
  /\ TypeOK /\ Phases /\ Buffer /\ Written /\ Listed /\ Numbers /\ Tokens
  /\ Replies /\ Given
-----------------------------------------------------------------------------
(***************************************************************************)
(* Which actions change what.                                              *)
(***************************************************************************)
ReadsInbox ==
  \/ RecvAuth \/ RecvReplyLate \/ (\E t \in Blocking : RecvReplyBlocking(t))
  \/ (\E t \in Async : RecvReplyAsync(t)) \/ RecvCall

ChangesSent == AuthSent \/ ReplySend \/ PingSend \/ (\E t \in App : Sent(t))

ChangesBuffer ==
  \/ AuthBegin \/ ReplyBegin \/ ReplySend \/ PingBegin \/ PingSend
  \/ \E t \in App : Reject(t) \/ Serialize(t) \/ Sent(t) \/ NotSent(t)

ChangesRequests ==
  \/ \E w \in Thread : Drain(w)
  \/ \E t \in Blocking : RecvReplyBlocking(t) \/ Check(t) \/ Timeout(t)
  \/ \E t \in Async : RecvReplyAsync(t)
  \/ \E t \in Caller : Register(t)

ChangesPc ==
  \/ Crash \/ (\E w \in Thread : Drain(w))
  \/ \E t \in Blocking : RecvReplyBlocking(t) \/ Check(t) \/ Timeout(t)
  \/ \E t \in Caller : Register(t)
  \/ \E t \in App : Reject(t) \/ Serialize(t) \/ Sent(t) \/ NotSent(t)

ChangesResult ==
  \/ \E t \in Blocking : Check(t) \/ Timeout(t)
  \/ \E t \in App : Reject(t) \/ Sent(t) \/ NotSent(t)

ChangesCalls ==
  \/ \E w \in Thread : Drain(w) \/ (\E t \in Async : CallClosed(w, t))
  \/ \E t \in Async : RecvReplyAsync(t) \/ CallAnswered(t)

ChangesAuth ==
  \/ AuthBegin \/ AuthNotSent \/ AuthEnd \/ SetCallback \/ Join \/ TellAuth \/ RecvAuth

ChangesKeepalive ==
  \/ StartKeepalive \/ Crash \/ (\E w \in Thread : CloseNotify(w))
  \/ KeepaliveCheck \/ KeepaliveTimeout \/ PingBegin \/ PingSend

Frames ==
  /\ UNCHANGED inbox \/ ReadsInbox \/ Service \/ CallClient
  /\ UNCHANGED sent \/ ChangesSent
  /\ UNCHANGED <<send_mutex, sbuffer, reqseq>> \/ ChangesBuffer
  /\ UNCHANGED reqVars \/ ChangesRequests
  /\ UNCHANGED pc \/ ChangesPc
  /\ UNCHANGED result \/ ChangesResult
  /\ UNCHANGED filled \/ \E t \in Blocking : RecvReplyBlocking(t)
  /\ UNCHANGED <<called, cbs>> \/ ChangesCalls
  /\ UNCHANGED err \/ RecvEnded \/ \E t \in Async : RecvReplyAsync(t)
  /\ UNCHANGED disconnects \/ Tell
  /\ UNCHANGED answer \/ Service
  /\ UNCHANGED incoming \/ CallClient
  /\ UNCHANGED authVars \/ ChangesAuth
  /\ UNCHANGED ka \/ ChangesKeepalive
  /\ UNCHANGED <<sock_ready, peer>> \/ Breaks \/ \E w \in Thread : CloseConn(w)

LEMMA FrameStep == ASSUME [Next]_vars PROVE Frames
<1> USE DEF connVars, sendVars, reqVars, authVars, threadVars, appVars, svcVars, Service,
  Frames, ReadsInbox, ChangesSent, ChangesBuffer, ChangesRequests, ChangesPc, ChangesResult,
  ChangesCalls, ChangesAuth, ChangesKeepalive
<1>1. CASE AuthBegin
  BY <1>1, Zenon DEF AuthBegin
<1>2. CASE AuthSent
  BY <1>2, Zenon DEF AuthSent
<1>3. CASE AuthNotSent
  BY <1>3, Zenon DEF AuthNotSent
<1>4. CASE AuthEnd
  BY <1>4, Zenon DEF AuthEnd
<1>5. CASE StartKeepalive
  BY <1>5, Zenon DEF StartKeepalive
<1>6. CASE SetCallback
  BY <1>6, Zenon DEF SetCallback
<1>7. CASE Join
  BY <1>7, Zenon DEF Join
<1>8. CASE Destroy
  BY <1>8, Zenon DEF Destroy
<1>9. ASSUME NEW w \in Thread, CloseCheck(w) PROVE Frames
  BY <1>9, Zenon DEF CloseCheck
<1>10. ASSUME NEW w \in Thread, CloseConn(w) PROVE Frames
  BY <1>10, Zenon DEF CloseConn
<1>11. ASSUME NEW w \in Thread, Drain(w) PROVE Frames
  BY <1>11, Zenon DEF Drain
<1>12. ASSUME NEW w \in Thread, CloseNotify(w) PROVE Frames
  BY <1>12, Zenon DEF CloseNotify
<1>13. ASSUME NEW w \in Thread, NEW t \in Async, CallClosed(w, t) PROVE Frames
  BY <1>13, Zenon DEF CallClosed
<1>14. CASE RecvEnter
  BY <1>14, Zenon DEF RecvEnter
<1>15. CASE RecvEnd
  BY <1>15, Zenon DEF RecvEnd
<1>16. CASE RecvEnded
  BY <1>16, Zenon DEF RecvEnded
<1>17. CASE TellAuth
  BY <1>17, Zenon DEF TellAuth
<1>18. CASE Crash
  BY <1>18, Zenon DEF Crash
<1>19. CASE RecvAuth
  BY <1>19, Zenon DEF RecvAuth
<1>20. CASE RecvReplyLate
  BY <1>20, Zenon DEF RecvReplyLate
<1>21. ASSUME NEW t \in Blocking, RecvReplyBlocking(t) PROVE Frames
  BY <1>21, Zenon DEF RecvReplyBlocking
<1>22. ASSUME NEW t \in Async, RecvReplyAsync(t) PROVE Frames
  BY <1>22, Zenon DEF RecvReplyAsync
<1>23. ASSUME NEW t \in Async, CallAnswered(t) PROVE Frames
  BY <1>23, Zenon DEF CallAnswered
<1>24. CASE RecvCall
  BY <1>24, Zenon DEF RecvCall
<1>25. CASE ReplyBegin
  BY <1>25, Zenon DEF ReplyBegin
<1>26. CASE ReplySend
  BY <1>26, Zenon DEF ReplySend
<1>27. CASE Tell
  BY <1>27, Zenon DEF Tell
<1>28. CASE KeepaliveCheck
  BY <1>28, Zenon DEF KeepaliveCheck
<1>29. CASE KeepaliveTimeout
  BY <1>29, Zenon DEF KeepaliveTimeout
<1>30. CASE PingBegin
  BY <1>30, Zenon DEF PingBegin
<1>31. CASE PingSend
  BY <1>31, Zenon DEF PingSend
<1>32. ASSUME NEW t \in App, Reject(t) PROVE Frames
  BY <1>32, Zenon DEF Reject
<1>33. ASSUME NEW t \in App, Serialize(t) PROVE Frames
  BY <1>33, Zenon DEF Serialize
<1>34. ASSUME NEW t \in Caller, Register(t) PROVE Frames
  BY <1>34, Zenon DEF Register
<1>35. ASSUME NEW t \in App, Sent(t) PROVE Frames
  BY <1>35, Zenon DEF Sent
<1>36. ASSUME NEW t \in App, NotSent(t) PROVE Frames
  BY <1>36, Zenon DEF NotSent
<1>37. ASSUME NEW t \in Blocking, Check(t) PROVE Frames
  BY <1>37, Zenon DEF Check
<1>38. ASSUME NEW t \in Blocking, Timeout(t) PROVE Frames
  BY <1>38, Zenon DEF Timeout
<1>39. CASE Breaks
  BY <1>39, Zenon DEF Breaks
<1>40. ASSUME NEW code \in {"success", "edupid"}, AnswerAuth(code) PROVE Frames
  BY <1>40, Zenon DEF Post, AnswerAuth
<1>41. ASSUME NEW t \in Caller, NEW code \in Answer, AnswerCall(t, code) PROVE Frames
  BY <1>41, Zenon DEF Post, AnswerCall
<1>42. CASE CallClient
  BY <1>42, Zenon DEF Post, CallClient
<1>43. CASE UNCHANGED vars
  BY <1>43, Zenon DEF vars
<1>44. CASE AuthInvalid
  BY <1>44, Zenon DEF AuthInvalid
<1>45. CASE AuthSpurious
  BY <1>45, Zenon DEF AuthSpurious
<1> QED BY <1>1, <1>2, <1>3, <1>4, <1>5, <1>6, <1>7, <1>8, <1>9, <1>10, <1>11, <1>12,
  <1>13, <1>14, <1>15, <1>16, <1>17, <1>18, <1>19, <1>20, <1>21, <1>22, <1>23, <1>24,
  <1>25, <1>26, <1>27, <1>28, <1>29, <1>30, <1>31, <1>32, <1>33, <1>34, <1>35, <1>36,
  <1>37, <1>38, <1>39, <1>40, <1>41, <1>42, <1>43, <1>44, <1>45, Zenon
  DEF Next, MainStep, RecvStep, KeepaliveStep, AppStep, Iclose, Thread, App, Caller

\* The places of the connecting and of the receiving thread (TypeOK).
AtOK ==
  /\ DOMAIN at = Thread
  /\ at["main"] \in {"auth", "auth_send", "auth_wait", "auth_wake", "connecting",
       "set_callback", "connected", "iclose", "close", "drain", "callbacks",
       "join", "closed", "failed", "crashed"}
  /\ at["recv"] \in {"recv", "read", "answer", "reply", "reply_send", "ended",
       "tell_auth", "crashed", "iclose", "close", "drain", "callbacks", "tell",
       "done"}

\* recv_loop has been left.
Ending == at["recv"] \in {"tell_auth", "iclose", "close", "drain", "callbacks"}

Moves ==
  /\ Early' => Early
  /\ at'["recv"] \in {"reply", "reply_send"} =>
       at["recv"] \in {"reply", "reply_send"} \/ at'["main"] = "connected"
  /\ at["recv"] \in {"crashed", "done"} => at'["recv"] = at["recv"]
  /\ at'["main"] = "auth_send" => at["main"] = "auth_send" \/ AuthBegin
  /\ at'["recv"] = "reply_send" => at["recv"] = "reply_send" \/ ReplyBegin
  /\ at'["recv"] = "answer" => at["recv"] = "answer" \/ (\E t \in Async : RecvReplyAsync(t))
  /\ Ending' => Ending \/ RecvEnded
  /\ ka' = "ping_send" => ka = "ping_send" \/ PingBegin
  /\ Early' /\ ka = "off" => ka' = "off"

LEMMA GoIs ==
  ASSUME DOMAIN at = Thread, NEW x
  PROVE  /\ Go("main", x) => at'["main"] = x /\ at'["recv"] = at["recv"] /\ DOMAIN at' = Thread
         /\ Go("recv", x) => at'["recv"] = x /\ at'["main"] = at["main"] /\ DOMAIN at' = Thread
BY Zenon DEF Go, Thread

LEMMA BothAre ==
  ASSUME NEW x, NEW y, at' = [main |-> x, recv |-> y]
  PROVE  at'["recv"] = y /\ at'["main"] = x /\ DOMAIN at' = Thread
BY SMT DEF Thread

\* How the threads move.
LEMMA MoveStep == ASSUME AtOK, [Next]_vars PROVE AtOK' /\ Moves
<1> USE DEF connVars, sendVars, reqVars, authVars, threadVars, appVars, svcVars,
  AtOK, Moves, Early, Ending
<1>1. CASE AuthBegin
  BY <1>1, GoIs, Zenon DEF AuthBegin
<1>2. CASE AuthSent
  BY <1>2, GoIs, Zenon DEF AuthSent
<1>3. CASE AuthNotSent
  BY <1>3, GoIs, Zenon DEF AuthNotSent
<1>4. CASE AuthEnd
  BY <1>4, GoIs, Zenon DEF AuthEnd
<1>5. CASE StartKeepalive
  BY <1>5, GoIs, Zenon DEF StartKeepalive
<1>6. CASE SetCallback
  BY <1>6, GoIs, Zenon DEF SetCallback
<1>7. CASE Join
  BY <1>7, GoIs, Zenon DEF Join
<1>8. CASE Destroy
  BY <1>8, GoIs, Zenon DEF Destroy
<1>9. ASSUME NEW w \in Thread, CloseCheck(w) PROVE AtOK' /\ Moves
  <2>1. CASE w = "main"
    BY <1>9, <2>1, GoIs, Zenon DEF CloseCheck
  <2>2. CASE w = "recv"
    <3>1. at["recv"] = "iclose" /\ (Go("recv", "close") \/ Go("recv", "done")) /\ ka' = ka
      BY <1>9, <2>2, Zenon DEF CloseCheck
    <3> QED BY <3>1, GoIs, Zenon
  <2> QED BY <2>1, <2>2, Zenon DEF Thread
<1>10. ASSUME NEW w \in Thread, CloseConn(w) PROVE AtOK' /\ Moves
  <2>1. CASE w = "main"
    BY <1>10, <2>1, GoIs, Zenon DEF CloseConn
  <2>2. CASE w = "recv"
    BY <1>10, <2>2, GoIs, Zenon DEF CloseConn
  <2> QED BY <2>1, <2>2, Zenon DEF Thread
<1>11. ASSUME NEW w \in Thread, Drain(w) PROVE AtOK' /\ Moves
  <2>1. CASE w = "main"
    BY <1>11, <2>1, GoIs, Zenon DEF Drain
  <2>2. CASE w = "recv"
    BY <1>11, <2>2, GoIs, Zenon DEF Drain
  <2> QED BY <2>1, <2>2, Zenon DEF Thread
<1>12. ASSUME NEW w \in Thread, CloseNotify(w) PROVE AtOK' /\ Moves
  <2>1. CASE w = "main"
    BY <1>12, <2>1, GoIs, Zenon DEF KeepaliveWoken, CloseNotify
  <2>2. CASE w = "recv"
    <3>1. /\ at["recv"] = "callbacks" /\ Go("recv", "tell")
          /\ ka' = IF ka = "wait" THEN "check" ELSE ka
      BY <1>12, <2>2, Zenon DEF KeepaliveWoken, CloseNotify
    <3> QED BY <3>1, GoIs, Zenon
  <2> QED BY <2>1, <2>2, Zenon DEF Thread
<1>13. ASSUME NEW w \in Thread, NEW t \in Async, CallClosed(w, t) PROVE AtOK' /\ Moves
  BY <1>13, GoIs, Zenon DEF CallClosed, Thread
<1>14. CASE RecvEnter
  BY <1>14, GoIs, Zenon DEF RecvEnter
<1>15. CASE RecvEnd
  BY <1>15, GoIs, Zenon DEF RecvEnd
<1>16. CASE RecvEnded
  BY <1>16, GoIs, Zenon DEF RecvEnded
<1>17. CASE TellAuth
  BY <1>17, BothAre, Zenon DEF TellAuth
<1>18. CASE Crash
  BY <1>18, GoIs, Zenon DEF Crash, Thread
<1>19. CASE RecvAuth
  BY <1>19, BothAre, Zenon DEF AuthTold, Received, RecvAuth
<1>20. CASE RecvReplyLate
  BY <1>20, GoIs, Zenon DEF Received, RecvReplyLate
<1>21. ASSUME NEW t \in Blocking, RecvReplyBlocking(t) PROVE AtOK' /\ Moves
  BY <1>21, GoIs, Zenon DEF Received, RecvReplyBlocking
<1>22. ASSUME NEW t \in Async, RecvReplyAsync(t) PROVE AtOK' /\ Moves
  BY <1>22, GoIs, Zenon DEF Received, RecvReplyAsync
<1>23. ASSUME NEW t \in Async, CallAnswered(t) PROVE AtOK' /\ Moves
  BY <1>23, GoIs, Zenon DEF CallAnswered
<1>24. CASE RecvCall
  BY <1>24, GoIs, Zenon DEF Received, RecvCall
<1>25. CASE ReplyBegin
  BY <1>25, GoIs, Zenon DEF ReplyBegin
<1>26. CASE ReplySend
  BY <1>26, GoIs, Zenon DEF ReplySend
<1>27. CASE Tell
  BY <1>27, GoIs, Zenon DEF Tell
<1>28. CASE KeepaliveCheck
  BY <1>28, GoIs, Zenon DEF KeepaliveCheck
<1>29. CASE KeepaliveTimeout
  BY <1>29, GoIs, Zenon DEF KeepaliveTimeout
<1>30. CASE PingBegin
  BY <1>30, GoIs, Zenon DEF PingBegin
<1>31. CASE PingSend
  BY <1>31, GoIs, Zenon DEF PingSend
<1>32. ASSUME NEW t \in App, Reject(t) PROVE AtOK' /\ Moves
  BY <1>32, GoIs, Zenon DEF Reject
<1>33. ASSUME NEW t \in App, Serialize(t) PROVE AtOK' /\ Moves
  BY <1>33, GoIs, Zenon DEF Serialize
<1>34. ASSUME NEW t \in Caller, Register(t) PROVE AtOK' /\ Moves
  BY <1>34, GoIs, Zenon DEF Register
<1>35. ASSUME NEW t \in App, Sent(t) PROVE AtOK' /\ Moves
  BY <1>35, GoIs, Zenon DEF Sent
<1>36. ASSUME NEW t \in App, NotSent(t) PROVE AtOK' /\ Moves
  BY <1>36, GoIs, Zenon DEF NotSent
<1>37. ASSUME NEW t \in Blocking, Check(t) PROVE AtOK' /\ Moves
  BY <1>37, GoIs, Zenon DEF Check
<1>38. ASSUME NEW t \in Blocking, Timeout(t) PROVE AtOK' /\ Moves
  BY <1>38, GoIs, Zenon DEF Timeout
<1>39. CASE Breaks
  BY <1>39, GoIs, Zenon DEF Breaks
<1>40. ASSUME NEW code \in {"success", "edupid"}, AnswerAuth(code) PROVE AtOK' /\ Moves
  BY <1>40, GoIs, Zenon DEF Post, AnswerAuth
<1>41. ASSUME NEW t \in Caller, NEW code \in Answer, AnswerCall(t, code) PROVE AtOK' /\ Moves
  BY <1>41, GoIs, Zenon DEF Post, AnswerCall
<1>42. CASE CallClient
  BY <1>42, GoIs, Zenon DEF Post, CallClient
<1>43. CASE UNCHANGED vars
  BY <1>43, Zenon DEF vars
<1>44. CASE AuthInvalid
  BY <1>44, GoIs, Zenon DEF AuthInvalid
<1>45. CASE AuthSpurious
  BY <1>45, GoIs, Zenon DEF AuthSpurious
<1> QED BY <1>1, <1>2, <1>3, <1>4, <1>5, <1>6, <1>7, <1>8, <1>9, <1>10, <1>11, <1>12,
  <1>13, <1>14, <1>15, <1>16, <1>17, <1>18, <1>19, <1>20, <1>21, <1>22, <1>23, <1>24,
  <1>25, <1>26, <1>27, <1>28, <1>29, <1>30, <1>31, <1>32, <1>33, <1>34, <1>35, <1>36,
  <1>37, <1>38, <1>39, <1>40, <1>41, <1>42, <1>43, <1>44, <1>45, Zenon
  DEF Next, MainStep, RecvStep, KeepaliveStep, AppStep, Iclose, Thread, App, Caller, Service
-----------------------------------------------------------------------------
(***************************************************************************)
(* Application threads, and the phases of a client.                        *)
(***************************************************************************)
PcMoves(t) ==
  \/ pc'[t] = pc[t]
  \/ pc[t] = "wait" /\ pc'[t] = "woken"
  \/ Crash /\ pc'[t] = "crashed"
  \/ Reject(t) \/ Serialize(t) \/ Sent(t) \/ NotSent(t)
  \/ t \in Caller /\ Register(t)
  \/ t \in Blocking /\ (Check(t) \/ Timeout(t))

LEMMA Members ==
  /\ \A t \in Caller : t \in App
  /\ \A t \in Blocking : t \in Caller /\ t \notin Async
  /\ \A t \in Async : t \in Caller /\ t \notin Blocking
  /\ \A t \in App : t \notin {"auth", "ping", "reply", "recv", "ka", NoOne}
BY ClientAssumption, Zenon DEF Caller, App, NoOne

LEMMA Typed ==
  ASSUME TypeOK
  PROVE  /\ AtOK /\ DOMAIN pc = App /\ DOMAIN result = App
         /\ inbox \in Seq(Resp) /\ sent \in Seq(Message) /\ sbuffer \in Message
         /\ reqseq \in Nat /\ id \in [Caller -> Nat] /\ pending \subseteq Caller
         /\ cbs \in [Thread -> SUBSET Async]
         /\ called \in [Async -> Seq(Reason \cup Answer)]
         /\ answer \in [Caller -> Answer \cup {NoAnswer}]
         /\ filled \in [Blocking -> BOOLEAN]
         /\ rcode \in [Blocking -> Answer \cup {NoAnswer}]
BY Zenon DEF TypeOK, AtOK

LEMMA PcStep ==
  ASSUME DOMAIN pc = App, [Next]_vars, NEW t \in App
  PROVE  PcMoves(t)
<1>1. CASE Crash
  BY <1>1, Zenon DEF Crash, PcMoves
<1>2. ASSUME NEW w \in Thread, Drain(w) PROVE PcMoves(t)
  BY <1>2, Zenon DEF Drain, Woken, PcMoves
<1>3. ASSUME NEW u \in Blocking, RecvReplyBlocking(u) PROVE PcMoves(t)
  BY <1>3, Zenon DEF RecvReplyBlocking, Woken, PcMoves
<1>4. ASSUME NEW u \in Blocking, Check(u) \/ Timeout(u), u # t PROVE PcMoves(t)
  BY <1>4, Zenon DEF Check, Timeout, Return, PcMoves
<1>5. ASSUME NEW u \in Caller, Register(u), u # t PROVE PcMoves(t)
  BY <1>5, Zenon DEF Register, PcMoves
<1>6. ASSUME NEW u \in App, Reject(u) \/ Serialize(u) \/ Sent(u) \/ NotSent(u), u # t
      PROVE  PcMoves(t)
  BY <1>6, Zenon DEF Reject, Serialize, Sent, NotSent, PcMoves
<1>7. CASE UNCHANGED pc
  BY <1>7, Zenon DEF PcMoves
<1>8. UNCHANGED pc \/ ChangesPc
  BY FrameStep, Zenon DEF Frames
<1> QED BY <1>1, <1>2, <1>3, <1>4, <1>5, <1>6, <1>7, <1>8, Zenon DEF ChangesPc, PcMoves

\* What PcMoves says of the places of a thread.
LEMMA PcPlaces ==
  ASSUME DOMAIN pc = App, NEW t \in App, PcMoves(t)
  PROVE  /\ pc[t] = "idle" => pc'[t] = "idle" \/ at["main"] = "connected" \/ Crash
         /\ pc'[t] = "crashed" => pc[t] = "crashed" \/ Crash
         /\ pc'[t] = "idle" => pc[t] = "idle"
         /\ pc'[t] = "register" => pc[t] = "register" \/ (t \in Caller /\ Serialize(t))
         /\ pc'[t] = "send" => \/ pc[t] = "send" \/ (t \in Caller /\ Register(t))
                               \/ Serialize(t)
         /\ pc'[t] \in {"check", "wait", "woken"} =>
              pc[t] \in {"check", "wait", "woken"} \/ (t \in Blocking /\ Sent(t))
<1>1. CASE Reject(t) \/ Serialize(t)
  BY <1>1, Zenon DEF Reject, Serialize, Start
<1>2. CASE Sent(t) \/ NotSent(t)
  BY <1>2, Zenon DEF Sent, NotSent
<1>3. CASE t \in Caller /\ Register(t)
  BY <1>3, Zenon DEF Register
<1>4. CASE t \in Blocking /\ (Check(t) \/ Timeout(t))
  BY <1>4, Zenon DEF Check, Timeout, Return
<1>5. CASE \/ pc'[t] = pc[t] \/ (pc[t] = "wait" /\ pc'[t] = "woken")
           \/ (Crash /\ pc'[t] = "crashed")
  BY <1>5, Zenon
<1> QED BY <1>1, <1>2, <1>3, <1>4, <1>5, Zenon DEF PcMoves

LEMMA PhasesStep == ASSUME ClientInv, [Next]_vars PROVE Phases'
<1>1. AtOK /\ DOMAIN pc = App /\ Phases
  BY Typed, Zenon DEF ClientInv
<1>2. Moves
  BY <1>1, MoveStep, Zenon
<1>3. ASSUME Crash PROVE ~Early' /\ at'["recv"] = "crashed"
  BY <1>3, Zenon DEF Crash, Early, Thread
<1>4. ASSUME Early' PROVE Early /\ at["main"] # "connected" /\ ~Crash
  BY <1>2, <1>3, <1>4, Zenon DEF Moves, Early
<1>5. ASSUME Early', NEW t \in App PROVE pc'[t] = "idle"
  <2>1. pc[t] = "idle"
    BY <1>1, <1>4, <1>5, Zenon DEF Phases
  <2> QED BY <1>1, <1>4, <1>5, <2>1, PcStep, PcPlaces, Zenon
<1>6. ASSUME Early' PROVE ka' = "off" /\ at'["recv"] \notin {"reply", "reply_send"}
  BY <1>1, <1>2, <1>4, <1>6, Zenon DEF Moves, Phases, Early
<1>7. ASSUME NEW t \in App, pc'[t] = "crashed" PROVE at'["recv"] = "crashed"
  <2>1. pc[t] = "crashed" \/ Crash
    BY <1>1, <1>7, PcStep, PcPlaces, Zenon
  <2> QED BY <1>1, <1>2, <1>3, <2>1, Zenon DEF Moves, Phases
<1>8. disconnects' = 0 \/ at'["recv"] = "done"
  <2>1. CASE Tell
    BY <1>1, <2>1, GoIs, Zenon DEF Tell, AtOK
  <2>2. CASE disconnects' = disconnects
    BY <1>1, <1>2, <2>2, Zenon DEF Moves, Phases
  <2> QED BY <2>1, <2>2, FrameStep, Zenon DEF Frames
<1> QED BY <1>5, <1>6, <1>7, <1>8, Zenon DEF Phases
-----------------------------------------------------------------------------
(***************************************************************************)
(* The buffer, and what is written.                                        *)
(***************************************************************************)

\* send_mutex is free when a thread takes it, and no other thread gives it back.
LEMMA BufferStep == ASSUME ClientInv, [Next]_vars PROVE Buffer'
<1>1. AtOK /\ DOMAIN pc = App /\ Phases /\ Buffer
  BY Typed, Zenon DEF ClientInv
<1>2. Moves
  BY <1>1, MoveStep, Zenon
<1>3. UNCHANGED <<send_mutex, sbuffer, reqseq>> \/ ChangesBuffer
  BY FrameStep, Zenon DEF Frames
<1>4. ASSUME at'["main"] = "auth_send" PROVE sbuffer'.by = "auth"
  <2>1. CASE AuthBegin
    BY <2>1, Zenon DEF AuthBegin
  <2>2. CASE at["main"] = "auth_send"
    <3>1. /\ ka = "off" /\ at["recv"] \notin {"reply", "reply_send"}
          /\ \A t \in App : pc[t] = "idle"
      BY <1>1, <2>2, Zenon DEF Phases, Early
    <3>2. ~AuthBegin /\ ~ReplyBegin /\ ~ReplySend /\ ~PingBegin /\ ~PingSend
      BY <2>2, <3>1, Zenon DEF AuthBegin, ReplyBegin, ReplySend, PingBegin, PingSend
    <3>3. \A t \in App : ~Reject(t) /\ ~Serialize(t) /\ ~Sent(t) /\ ~NotSent(t)
      BY <2>2, <3>1, Zenon DEF Reject, Serialize, Start, Sent, NotSent
    <3>4. sbuffer' = sbuffer
      BY <1>3, <3>2, <3>3, Zenon DEF ChangesBuffer
    <3> QED BY <1>1, <2>2, <3>4, Zenon DEF Buffer
  <2> QED BY <1>2, <1>4, <2>1, <2>2, Zenon DEF Moves
<1>5. ASSUME send_mutex # NoOne
      PROVE  \/ UNCHANGED <<send_mutex, sbuffer, reqseq>> \/ AuthBegin
             \/ ReplySend \/ PingSend \/ (\E t \in App : Sent(t) \/ NotSent(t))
  <2>1. ~ReplyBegin /\ ~PingBegin /\ \A t \in App : ~Reject(t) /\ ~Serialize(t)
    BY <1>5, Zenon DEF ReplyBegin, PingBegin, Reject, Serialize, SendLocked
  <2> QED BY <1>3, <2>1, Zenon DEF ChangesBuffer
<1>6. ASSUME ~Early PROVE ~AuthBegin
  BY <1>6, Zenon DEF AuthBegin, Early
<1>7. /\ ReplySend => send_mutex = "recv" /\ at["recv"] = "reply_send" /\ at'["recv"] = "recv"
      /\ PingSend => send_mutex = "ka" /\ ka = "ping_send" /\ ka' = "check"
      /\ \A t \in App : Sent(t) \/ NotSent(t) => send_mutex = t /\ ~Holder(t)'
  <2>1. ReplySend => send_mutex = "recv" /\ at["recv"] = "reply_send" /\ at'["recv"] = "recv"
    BY <1>1, GoIs, Zenon DEF ReplySend, Buffer, AtOK
  <2>2. PingSend => send_mutex = "ka" /\ ka = "ping_send" /\ ka' = "check"
    BY <1>1, Zenon DEF PingSend, Buffer
  <2>3. ASSUME NEW t \in App, Sent(t) \/ NotSent(t) PROVE send_mutex = t /\ ~Holder(t)'
    BY <1>1, <2>3, Zenon DEF Sent, NotSent, Buffer, Holder
  <2> QED BY <2>1, <2>2, <2>3, Zenon
<1>8. ASSUME at'["recv"] = "reply_send" PROVE send_mutex' = "recv" /\ sbuffer'.by = "reply"
  <2>1. CASE ReplyBegin
    BY <2>1, Zenon DEF ReplyBegin
  <2>2. CASE at["recv"] = "reply_send"
    <3>1. send_mutex = "recv" /\ sbuffer.by = "reply" /\ ~Early
      BY <1>1, <2>2, Zenon DEF Buffer, Phases
    <3>2. send_mutex # NoOne /\ send_mutex # "ka" /\ \A t \in App : send_mutex # t
      BY <3>1, Members, Zenon DEF NoOne
    <3>3. UNCHANGED <<send_mutex, sbuffer>>
      BY <1>5, <1>6, <1>7, <1>8, <3>1, <3>2, Zenon
    <3> QED BY <3>1, <3>3, Zenon
  <2> QED BY <1>2, <1>8, <2>1, <2>2, Zenon DEF Moves
<1>9. ASSUME ka' = "ping_send" PROVE send_mutex' = "ka" /\ sbuffer'.by = "ping"
  <2>1. CASE PingBegin
    BY <2>1, Zenon DEF PingBegin
  <2>2. CASE ka = "ping_send"
    <3>1. send_mutex = "ka" /\ sbuffer.by = "ping" /\ ~Early
      BY <1>1, <2>2, Zenon DEF Buffer, Phases
    <3>2. send_mutex # NoOne /\ send_mutex # "recv" /\ \A t \in App : send_mutex # t
      BY <3>1, Members, Zenon DEF NoOne
    <3>3. UNCHANGED <<send_mutex, sbuffer>>
      BY <1>5, <1>6, <1>7, <1>9, <3>1, <3>2, Zenon
    <3> QED BY <3>1, <3>3, Zenon
  <2> QED BY <1>2, <1>9, <2>1, <2>2, Zenon DEF Moves
<1>10. ASSUME NEW t \in App, Holder(t)'
       PROVE  /\ send_mutex' = t /\ sbuffer'.by = t
              /\ t \in Caller => sbuffer'.id = reqseq'
  <2>1. CASE Serialize(t)
    BY <2>1, Zenon DEF Serialize
  <2>2. CASE Holder(t)
    <3>1. /\ send_mutex = t /\ sbuffer.by = t /\ (t \in Caller => sbuffer.id = reqseq)
          /\ ~Early
      BY <1>1, <2>2, Zenon DEF Buffer, Phases, Holder
    <3>2. send_mutex # NoOne /\ send_mutex # "ka" /\ send_mutex # "recv"
      BY <3>1, Members, Zenon DEF NoOne
    <3>3. UNCHANGED <<send_mutex, sbuffer, reqseq>>
      BY <1>5, <1>6, <1>7, <1>10, <3>1, <3>2, Zenon
    <3> QED BY <3>1, <3>3, Zenon
  <2> QED BY <1>1, <1>10, <2>1, <2>2, PcStep, PcPlaces, Zenon DEF Holder, Register
<1> QED BY <1>4, <1>8, <1>9, <1>10, Zenon DEF Buffer

\* What is appended to sent is the buffer of the thread that sends.
LEMMA SentStep ==
  ASSUME ClientInv, [Next]_vars
  PROVE  /\ \/ sent' = sent /\ \A t \in App : ~Sent(t)
            \/ /\ sent' = Append(sent, sbuffer)
               /\ \/ sbuffer.by \notin App /\ \A t \in App : ~Sent(t)
                  \/ sbuffer.by \in App /\ Sent(sbuffer.by)
         /\ \A t \in App : Sent(t) => pc[t] = "send" /\ sbuffer.by = t
<1>1. AtOK /\ DOMAIN pc = App /\ Phases /\ Buffer
  BY Typed, Zenon DEF ClientInv
<1>2. UNCHANGED sent \/ ChangesSent
  BY FrameStep, Zenon DEF Frames
<1>3. \A t \in App : Sent(t) => pc[t] = "send" /\ sbuffer.by = t
  BY <1>1, Zenon DEF Sent, Buffer, Holder
<1>4. ASSUME NEW t \in App, Sent(t)
      PROVE  sent' = Append(sent, sbuffer) /\ sbuffer.by \in App /\ Sent(sbuffer.by)
  <2>1. sbuffer.by = t /\ sbuffer.by # "ping"
    BY <1>3, <1>4, Members, Zenon
  <2> QED BY <1>4, <2>1, Zenon DEF Sent, Transmit
<1>5. CASE AuthSent
  <2>1. sbuffer.by = "auth"
    BY <1>1, <1>5, Zenon DEF AuthSent, Buffer
  <2>2. sbuffer.by \notin App /\ sent' = Append(sent, sbuffer)
    BY <1>5, <2>1, Members, Zenon DEF AuthSent, Transmit
  <2> QED BY <1>3, <2>2, Zenon
<1>6. CASE ReplySend
  <2>1. sbuffer.by = "reply"
    BY <1>1, <1>6, Zenon DEF ReplySend, Buffer
  <2>2. sbuffer.by \notin App /\ (sent' = Append(sent, sbuffer) \/ sent' = sent)
    BY <1>6, <2>1, Members, Zenon DEF ReplySend, Transmit
  <2> QED BY <1>3, <2>2, Zenon
<1>7. CASE PingSend
  <2>1. sbuffer.by = "ping"
    BY <1>1, <1>7, Zenon DEF PingSend, Buffer
  <2>2. sbuffer.by \notin App /\ sent' = sent
    BY <1>7, <2>1, Members, Zenon DEF PingSend, Transmit
  <2> QED BY <1>3, <2>2, Zenon
<1>8. CASE sent' = sent /\ \A t \in App : ~Sent(t)
  BY <1>3, <1>8, Zenon
<1> QED BY <1>2, <1>3, <1>4, <1>5, <1>6, <1>7, <1>8, Zenon DEF ChangesSent

\* r is the sequence s with one more element m.
Longer(r, s, m) ==
  /\ r[Len(s) + 1] = m
  /\ \A i \in 1..Len(s) : i \in 1..Len(r) /\ r[i] = s[i]
  /\ \A i \in 1..Len(r) : i \in 1..Len(s) \/ i = Len(s) + 1
  /\ Len(s) + 1 \in 1..Len(r)

LEMMA Appended ==
  ASSUME NEW S, NEW s \in Seq(S), NEW m \in S
  PROVE  Longer(Append(s, m), s, m) /\ Append(s, m) # s
BY SMT DEF Longer

\* What has been written of a thread grows by the send of that thread only.
LEMMA WritesStep ==
  ASSUME ClientInv, [Next]_vars, NEW t \in App
  PROVE  /\ Wrote(t)' <=> Wrote(t) \/ Sent(t)
         /\ \A n : Sends(sent', n, t) <=> Sends(sent, n, t) \/ (Sent(t) /\ n = sbuffer.id)
<1>1. sent \in Seq(Message) /\ sbuffer \in Message
  BY Typed, Zenon DEF ClientInv
<1>2. CASE sent' = sent /\ ~Sent(t)
  BY <1>2, Zenon DEF Wrote, Sends
<1>3. ASSUME sent' = Append(sent, sbuffer), Sent(t) <=> sbuffer.by = t
      PROVE  /\ Wrote(t)' <=> Wrote(t) \/ Sent(t)
             /\ \A n : Sends(sent', n, t) <=> Sends(sent, n, t) \/ (Sent(t) /\ n = sbuffer.id)
  <2>1. /\ sent'[Len(sent) + 1] = sbuffer
        /\ \A i \in 1..Len(sent) : i \in 1..Len(sent') /\ sent'[i] = sent[i]
        /\ \A i \in 1..Len(sent') : i \in 1..Len(sent) \/ i = Len(sent) + 1
        /\ Len(sent) + 1 \in 1..Len(sent')
    <3>1. Longer(sent', sent, sbuffer)
      BY <1>1, <1>3, Appended, Zenon
    <3> QED BY <3>1, Zenon DEF Longer
  <2> QED BY <1>3, <2>1, Zenon DEF Wrote, Sends
<1>4. \/ sent' = sent /\ ~Sent(t)
      \/ sent' = Append(sent, sbuffer) /\ (Sent(t) <=> sbuffer.by = t)
  BY SentStep, Zenon
<1> QED BY <1>2, <1>3, <1>4, Zenon

LEMMA WroteStep ==
  ASSUME ClientInv, [Next]_vars, NEW t \in App
  PROVE  Wrote(t)' <=> Wrote(t) \/ Sent(t)
BY WritesStep, Zenon

LEMMA SendsStep ==
  ASSUME ClientInv, [Next]_vars, NEW t \in App, NEW n
  PROVE  Sends(sent', n, t) <=> Sends(sent, n, t) \/ (Sent(t) /\ n = sbuffer.id)
BY WritesStep, SMT

\* What the request of a thread returns, and when.
ResultMoves(t) ==
  \/ result'[t] = result[t]
  \/ Reject(t) /\ result'[t] = "einval"
  \/ Sent(t) /\ t \notin Blocking /\ result'[t] = "success"
  \/ NotSent(t) /\ result'[t] = "econn"
  \/ t \in Blocking /\ (Check(t) \/ Timeout(t)) /\ pc'[t] = "done" /\ result'[t] # "einval"

LEMMA ResultStep ==
  ASSUME TypeOK, [Next]_vars, NEW t \in App
  PROVE  ResultMoves(t)
<1>1. DOMAIN pc = App /\ DOMAIN result = App
  BY Typed, Zenon
<1>2. UNCHANGED result \/ ChangesResult
  BY FrameStep, Zenon DEF Frames
<1>3. ASSUME NEW u \in Blocking, u # t, Check(u) \/ Timeout(u) PROVE ResultMoves(t)
  BY <1>1, <1>3, Zenon DEF Check, Timeout, Return, ResultMoves
<1>4. ASSUME NEW u \in App, u # t, Reject(u) \/ Sent(u) \/ NotSent(u) PROVE ResultMoves(t)
  BY <1>1, <1>4, Zenon DEF Reject, Sent, NotSent, ResultMoves
<1>5. CASE t \in Blocking /\ Check(t)
  <2>1. rcode[t] # "einval"
    BY <1>5, Zenon DEF TypeOK, Answer, NoAnswer
  <2>2. close_reason # "einval"
    BY Zenon DEF TypeOK, Reason
  <2> QED BY <1>1, <1>5, <2>1, <2>2, Zenon DEF Check, Return, ResultMoves
<1>6. CASE t \in Blocking /\ Timeout(t)
  BY <1>1, <1>6, Zenon DEF Timeout, Return, ResultMoves
<1>7. CASE Reject(t) \/ Sent(t) \/ NotSent(t)
  BY <1>1, <1>7, Zenon DEF Reject, Sent, NotSent, ResultMoves
<1>8. CASE UNCHANGED result
  BY <1>8, Zenon DEF ResultMoves
<1> QED BY <1>2, <1>3, <1>4, <1>5, <1>6, <1>7, <1>8, Zenon DEF ChangesResult

\* A request that has returned stays returned.
LEMMA PcDone ==
  ASSUME DOMAIN pc = App, NEW t \in App, PcMoves(t), pc[t] \in {"done", "crashed"}
  PROVE  pc'[t] \in {"done", "crashed"}
BY Zenon DEF PcMoves, Reject, Serialize, Start, Sent, NotSent, Register, Check, Timeout

LEMMA PcSent ==
  ASSUME DOMAIN pc = App, NEW t \in App, Sent(t)
  PROVE  pc[t] = "send" /\ pc'[t] \in {"check", "done"}
BY Zenon DEF Sent

\* The fourth conjunct of Written.
SentOnce == \A i, j \in 1..Len(sent) : sent[i].by = sent[j].by /\ sent[i].by \in App => i = j

LEMMA SentOnceStep == ASSUME ClientInv, [Next]_vars PROVE SentOnce'
<1>1. sent \in Seq(Message) /\ sbuffer \in Message /\ Written
  BY Typed, Zenon DEF ClientInv
<1>2. CASE sent' = sent
  BY <1>1, <1>2, Zenon DEF Written, SentOnce
<1>3. CASE sent' = Append(sent, sbuffer)
  <2>1. /\ sent'[Len(sent) + 1] = sbuffer
        /\ \A i \in 1..Len(sent) : i \in 1..Len(sent') /\ sent'[i] = sent[i]
        /\ \A i \in 1..Len(sent') : i \in 1..Len(sent) \/ i = Len(sent) + 1
    <3>1. Longer(sent', sent, sbuffer)
      BY <1>1, <1>3, Appended, Zenon
    <3> QED BY <3>1, Zenon DEF Longer
  <2>2. \A t \in App : Sent(t) => ~Wrote(t)
    BY <1>1, SentStep, Zenon DEF Written, Unwritten
  <2>3. ASSUME NEW i \in 1..Len(sent), sent[i].by = sbuffer.by, sbuffer.by \in App
        PROVE  FALSE
    <3>1. sent' # sent
      BY <1>1, <1>3, Appended, Zenon
    <3>2. Sent(sbuffer.by)
      BY <2>3, <3>1, SentStep, Zenon
    <3> QED BY <2>2, <2>3, <3>2, Zenon DEF Wrote
  <2> QED BY <1>1, <2>1, <2>3, Zenon DEF Written, SentOnce
<1> QED BY <1>2, <1>3, SentStep, Zenon

LEMMA WrittenStep == ASSUME ClientInv, [Next]_vars PROVE Written'
<1>1. TypeOK /\ DOMAIN pc = App /\ Written
  BY Typed, Zenon DEF ClientInv
<1>2. ASSUME NEW t \in App, Unwritten(t)' PROVE ~Wrote(t)'
  <2>1. PcMoves(t) /\ ResultMoves(t)
    BY <1>1, PcStep, ResultStep, Zenon
  <2>2. CASE pc'[t] \in {"idle", "register", "send"}
    <3>1. pc[t] \in {"idle", "register", "send"}
      BY <1>1, <2>1, <2>2, PcPlaces, Zenon DEF Serialize, Start, Register
    <3>2. ~Sent(t)
      BY <1>1, <2>2, PcSent, Zenon
    <3> QED BY <1>1, <3>1, <3>2, WroteStep, Zenon DEF Written, Unwritten
  <2>3. CASE result'[t] = "einval"
    <3>1. CASE Reject(t)
      <4>1. pc[t] = "idle"
        BY <3>1, Zenon DEF Reject, Start
      <4> QED BY <1>1, <4>1, PcSent, WroteStep, Zenon DEF Written, Unwritten
    <3>2. CASE result[t] = "einval"
      <4>1. pc[t] \in {"done", "crashed"}
        BY <1>1, <3>2, Zenon DEF Written, NoAnswer
      <4> QED BY <1>1, <3>2, <4>1, PcSent, WroteStep, Zenon DEF Written, Unwritten
    <3> QED BY <2>1, <2>3, <3>1, <3>2, Zenon DEF ResultMoves
  <2> QED BY <1>2, <2>2, <2>3, Zenon DEF Unwritten
<1>3. ASSUME NEW t \in App, IsWritten(t)' PROVE Wrote(t)'
  <2>1. PcMoves(t) /\ ResultMoves(t)
    BY <1>1, PcStep, ResultStep, Zenon
  <2>2. CASE IsWritten(t) \/ Sent(t)
    BY <1>1, <2>2, WroteStep, Zenon DEF Written
  <2>3. CASE pc'[t] \in {"check", "wait", "woken"}
    BY <1>1, <2>1, <2>2, <2>3, PcPlaces, Zenon DEF IsWritten
  <2>4. CASE result'[t] \in Answer \cup {"etimeout"}
    <3>1. result'[t] # "einval" /\ result'[t] # "econn"
      BY <2>4, Zenon DEF Answer
    <3>2. CASE Check(t) \/ Timeout(t)
      <4>1. IsWritten(t)
        BY <3>2, Zenon DEF Check, Timeout, IsWritten
      <4> QED BY <2>2, <4>1, Zenon
    <3>3. CASE result'[t] = result[t]
      <4>1. IsWritten(t)
        BY <2>4, <3>3, Zenon DEF IsWritten
      <4> QED BY <2>2, <4>1, Zenon
    <3> QED BY <2>1, <2>2, <3>1, <3>2, <3>3, Zenon DEF ResultMoves
  <2> QED BY <1>3, <2>3, <2>4, Zenon DEF IsWritten
<1>4. ASSUME NEW t \in App, result'[t] # NoAnswer PROVE pc'[t] \in {"done", "crashed"}
  <2>1. PcMoves(t) /\ ResultMoves(t)
    BY <1>1, PcStep, ResultStep, Zenon
  <2>2. CASE result'[t] = result[t]
    BY <1>1, <1>4, <2>1, <2>2, PcDone, Zenon DEF Written
  <2>3. CASE Reject(t) \/ NotSent(t) \/ (Sent(t) /\ t \notin Blocking)
    BY <1>1, <2>3, Zenon DEF Reject, NotSent, Sent
  <2> QED BY <2>1, <2>2, <2>3, Zenon DEF ResultMoves
<1> QED BY <1>2, <1>3, <1>4, SentOnceStep, Zenon DEF Written, SentOnce

\* How a request gets into the list and out of it.
LEMMA PendingStep ==
  ASSUME [Next]_vars, NEW t \in Caller, t \in pending'
  PROVE  \/ t \in pending \/ Register(t)
<1>1. UNCHANGED reqVars \/ ChangesRequests
  BY FrameStep, Zenon DEF Frames
<1>2. ASSUME NEW w \in Thread, Drain(w) PROVE t \in pending
  BY <1>2, Zenon DEF Drain
<1>3. ASSUME NEW u \in Blocking, RecvReplyBlocking(u) \/ Check(u) \/ Timeout(u)
      PROVE  t \in pending
  BY <1>3, Zenon DEF RecvReplyBlocking, Check, Timeout, Return, Erased
<1>4. ASSUME NEW u \in Async, RecvReplyAsync(u) PROVE t \in pending
  BY <1>4, Zenon DEF RecvReplyAsync, AnsweredRemoved
<1>5. ASSUME NEW u \in Caller, Register(u), u # t PROVE t \in pending
  BY <1>5, Zenon DEF Register
<1>6. CASE UNCHANGED reqVars
  BY <1>6, Zenon DEF reqVars
<1> QED BY <1>1, <1>2, <1>3, <1>4, <1>5, <1>6, Zenon DEF ChangesRequests

LEMMA ListedStep == ASSUME ClientInv, [Next]_vars PROVE Listed'
<1>1. DOMAIN pc = App /\ Listed
  BY Typed, Zenon DEF ClientInv
<1> SUFFICES ASSUME NEW t \in Blocking, t \in pending'
             PROVE  \/ pc'[t] \in {"send", "check", "wait", "woken", "crashed"}
                    \/ pc'[t] = "done" /\ ~Wrote(t)'
  BY Zenon DEF Listed
<1>2. t \in Caller /\ t \in App
  BY Members, Zenon
<1>3. PcMoves(t)
  BY <1>1, <1>2, PcStep, Zenon
<1>4. CASE Register(t)
  BY <1>1, <1>2, <1>4, Zenon DEF Register
<1>5. CASE t \in pending
  <2>1. \/ pc[t] \in {"send", "check", "wait", "woken", "crashed"}
        \/ pc[t] = "done" /\ ~Wrote(t)
    BY <1>1, <1>5, Zenon DEF Listed
  <2>2. CASE Sent(t)
    BY <1>1, <1>2, <2>2, Zenon DEF Sent
  <2>3. CASE NotSent(t)
    <3>1. pc[t] = "send" /\ pc'[t] = "done"
      BY <1>1, <1>2, <2>3, Zenon DEF NotSent
    <3>2. ~Sent(t)
      BY <1>1, <1>2, <3>1, Zenon DEF Sent
    <3>3. ~Wrote(t)
      BY <1>2, <3>1, Zenon DEF ClientInv, Written, Unwritten
    <3> QED BY <1>2, <3>1, <3>2, <3>3, WroteStep, Zenon
  <2>4. CASE Check(t) \/ Timeout(t)
    BY <1>1, <1>2, <2>4, Zenon DEF Check, Timeout, Return, Erased
  <2>5. CASE pc[t] = "wait" /\ pc'[t] = "woken"
    BY <2>5, Zenon
  <2>6. CASE pc'[t] = "crashed"
    BY <2>6, Zenon
  <2>7. CASE pc'[t] = pc[t] /\ ~Sent(t)
    BY <1>2, <2>1, <2>7, WroteStep, Zenon
  <2>8. ~Reject(t) /\ ~Serialize(t) /\ ~Register(t)
    BY <2>1, Zenon DEF Reject, Serialize, Start, Register
  <2> QED BY <1>3, <2>2, <2>3, <2>4, <2>5, <2>6, <2>7, <2>8, Zenon DEF PcMoves
<1> QED BY <1>2, <1>4, <1>5, PendingStep, Zenon
-----------------------------------------------------------------------------
(***************************************************************************)
(* The numbers of the calls.                                               *)
(***************************************************************************)

\* The thread that has send_mutex is the only one that gets a number.
LEMMA HolderStep ==
  ASSUME ClientInv, [Next]_vars
  PROVE  /\ \A t, u \in App : Holder(t) /\ Holder(u) => t = u
         /\ \A t \in App : Holder(t) => send_mutex = t /\ send_mutex # NoOne /\ reqseq' = reqseq
         /\ \A t \in App : Holder(t)' => Holder(t) \/ (Serialize(t) /\ send_mutex = NoOne)
         /\ reqseq' = reqseq \/ reqseq' = reqseq + 1
<1>1. DOMAIN pc = App /\ Buffer
  BY Typed, Zenon DEF ClientInv
<1>2. UNCHANGED <<send_mutex, sbuffer, reqseq>> \/ ChangesBuffer
  BY FrameStep, Zenon DEF Frames
<1>3. ASSUME NEW t \in App, Holder(t) PROVE send_mutex = t /\ send_mutex # NoOne
  BY <1>1, <1>3, Members, Zenon DEF Buffer, NoOne
<1>4. \/ reqseq' = reqseq
      \/ send_mutex = NoOne /\ reqseq' = reqseq + 1
  <2>1. ASSUME NEW t \in App, Reject(t) \/ Serialize(t)
        PROVE  send_mutex = NoOne /\ (reqseq' = reqseq \/ reqseq' = reqseq + 1)
    BY <2>1, Zenon DEF Reject, Serialize, SendLocked, NextSeq
  <2>2. ASSUME NEW t \in App, Sent(t) \/ NotSent(t) PROVE reqseq' = reqseq
    BY <2>2, Zenon DEF Sent, NotSent
  <2>3. CASE AuthBegin \/ ReplyBegin \/ ReplySend \/ PingBegin \/ PingSend
    BY <2>3, Zenon DEF AuthBegin, ReplyBegin, ReplySend, PingBegin, PingSend
  <2> QED BY <1>2, <2>1, <2>2, <2>3, Zenon DEF ChangesBuffer
<1>5. ASSUME NEW t \in App, Holder(t)' PROVE Holder(t) \/ (Serialize(t) /\ send_mutex = NoOne)
  BY <1>1, <1>5, PcStep, PcPlaces, Zenon DEF Holder, Register, Serialize, SendLocked
<1> QED BY <1>3, <1>4, <1>5, Zenon

LEMMA IdStep ==
  ASSUME TypeOK, [Next]_vars, NEW t \in Caller
  PROVE  id'[t] = id[t] \/ id'[t] = 0 \/ (Register(t) /\ id'[t] = reqseq)
<1>1. DOMAIN id = Caller
  BY Typed, Zenon
<1>2. UNCHANGED reqVars \/ ChangesRequests
  BY FrameStep, Zenon DEF Frames
<1>3. ASSUME NEW w \in Thread, Drain(w) PROVE id'[t] = id[t]
  BY <1>3, Zenon DEF Drain
<1>4. ASSUME NEW u \in Blocking, RecvReplyBlocking(u) PROVE id'[t] = id[t] \/ id'[t] = 0
  BY <1>1, <1>4, Zenon DEF RecvReplyBlocking
<1>5. ASSUME NEW u \in Blocking, Check(u) \/ Timeout(u) PROVE id'[t] = id[t]
  BY <1>5, Zenon DEF Check, Timeout
<1>6. ASSUME NEW u \in Async, RecvReplyAsync(u) PROVE id'[t] = id[t]
  BY <1>6, Zenon DEF RecvReplyAsync
<1>7. ASSUME NEW u \in Caller, Register(u)
      PROVE  id'[t] = id[t] \/ (Register(t) /\ id'[t] = reqseq)
  BY <1>1, <1>7, Zenon DEF Register
<1>8. CASE UNCHANGED reqVars
  BY <1>8, Zenon DEF reqVars
<1> QED BY <1>2, <1>3, <1>4, <1>5, <1>6, <1>7, <1>8, Zenon DEF ChangesRequests

LEMMA NumberedStep ==
  ASSUME ClientInv, [Next]_vars, NEW t \in Caller, NEW n, Numbered(id', sent', n, t)
  PROVE  Numbered(id, sent, n, t) \/ (Holder(t) /\ n = reqseq)
<1>1. TypeOK /\ Buffer /\ t \in App
  BY Members, Zenon DEF ClientInv
<1>2. CASE Sends(sent', n, t)
  <2>1. Sends(sent, n, t) \/ (Sent(t) /\ n = sbuffer.id)
    BY <1>1, <1>2, SendsStep, SMT
  <2>2. Sent(t) => Holder(t) /\ sbuffer.id = reqseq
    BY <1>1, Zenon DEF Sent, Holder, Buffer
  <2> QED BY <2>1, <2>2, Zenon DEF Numbered
<1>3. CASE n # 0 /\ id'[t] = n
  <2>1. Register(t) => Holder(t)
    BY Zenon DEF Register, Holder
  <2> QED BY <1>1, <1>3, <2>1, IdStep, Zenon DEF Numbered
<1> QED BY <1>2, <1>3, Zenon DEF Numbered

LEMMA Succ ==
  ASSUME NEW n \in Nat
  PROVE  /\ n + 1 > 0 /\ ~(n + 1 <= n) /\ n + 1 \in Nat
         /\ \A k \in Nat : k <= n => k <= n + 1
         /\ n <= n /\ (n > 0 => 0 < n)
BY SMT

LEMMA NumbersStep == ASSUME ClientInv, [Next]_vars PROVE Numbers'
<1>1. Numbers /\ reqseq \in Nat /\ \A t \in Caller : t \in App
  BY Typed, Members, Zenon DEF ClientInv
<1>2. /\ \A t, u \in Caller : Holder(t) /\ Holder(u) => t = u
      /\ \A t \in Caller : Holder(t) => send_mutex = t /\ send_mutex # NoOne /\ reqseq' = reqseq
      /\ \A t \in Caller : Holder(t)' => Holder(t) \/ (Serialize(t) /\ send_mutex = NoOne)
      /\ reqseq' = reqseq \/ reqseq' = reqseq + 1
  BY <1>1, HolderStep, Zenon
<1>3. ASSUME NEW t \in Caller, NEW n \in Nat, Numbered(id', sent', n, t)
      PROVE  Numbered(id, sent, n, t) \/ (Holder(t) /\ n = reqseq)
  BY <1>3, NumberedStep, SMT
<1>4. \A t \in Caller : Serialize(t) => reqseq' = reqseq + 1
  BY Zenon DEF Serialize, NextSeq
<1>5. ASSUME NEW t \in Caller, NEW n \in Nat, Numbered(id', sent', n, t)
      PROVE  0 < n /\ n <= reqseq'
  <2>1. 0 < n /\ n <= reqseq
    BY <1>1, <1>3, <1>5, Succ, Zenon DEF Numbers
  <2> QED BY <1>1, <1>2, <2>1, Succ, SMT
<1>6. ASSUME NEW t \in Caller, NEW u \in Caller, NEW n \in Nat,
             Numbered(id', sent', n, t), Numbered(id', sent', n, u)
      PROVE  t = u
  <2>1. /\ Numbered(id, sent, n, t) \/ (Holder(t) /\ n = reqseq)
        /\ Numbered(id, sent, n, u) \/ (Holder(u) /\ n = reqseq)
    BY <1>3, <1>6, Zenon
  <2> QED BY <1>1, <1>2, <2>1, Zenon DEF Numbers
<1>7. ASSUME NEW t \in Caller, NEW u \in Caller, Holder(t)', u # t
      PROVE  ~Numbered(id', sent', reqseq', u)
  <2>1. CASE Holder(t)
    <3>1. reqseq' = reqseq /\ ~Numbered(id, sent, reqseq, u) /\ ~Holder(u)
      BY <1>1, <1>2, <1>7, <2>1, Zenon DEF Numbers
    <3> QED BY <1>1, <1>3, <3>1, Zenon
  <2>2. CASE Serialize(t) /\ send_mutex = NoOne
    <3>1. reqseq' = reqseq + 1 /\ ~Holder(u)
      BY <1>1, <1>2, <1>4, <2>2, Zenon
    <3>2. reqseq' \in Nat /\ ~(reqseq' <= reqseq)
      BY <1>1, <3>1, Succ, Zenon
    <3>3. ~Numbered(id, sent, reqseq', u)
      BY <1>1, <3>2, Zenon DEF Numbers
    <3> QED BY <1>3, <3>1, <3>2, <3>3, Zenon
  <2> QED BY <1>2, <1>7, <2>1, <2>2, Zenon
<1>8. ASSUME NEW t \in Caller, Holder(t)' PROVE reqseq' > 0
  <2>1. CASE Holder(t)
    <3>1. reqseq' = reqseq
      BY <1>2, <2>1, Zenon
    <3> QED BY <1>1, <2>1, <3>1, Zenon DEF Numbers
  <2>2. CASE Serialize(t)
    <3>1. reqseq' = reqseq + 1
      BY <1>4, <2>2, Zenon
    <3> QED BY <1>1, <3>1, Succ, Zenon
  <2> QED BY <1>2, <1>8, <2>1, <2>2, Zenon
<1> QED BY <1>5, <1>6, <1>7, <1>8, Zenon DEF Numbers
-----------------------------------------------------------------------------
(***************************************************************************)
(* Callbacks.                                                              *)
(***************************************************************************)
Kept(t) ==
  /\ called'[t] = called[t] /\ (t \in pending' => t \in pending)
  /\ \A w \in Thread : t \in cbs'[w] => t \in cbs[w]

Taken(t) ==
  /\ called'[t] = called[t] /\ t \in pending /\ t \notin pending'
  /\ \E w \in Thread : \A v \in Thread : t \in cbs'[v] => v = w \/ t \in cbs[v]

Called(t) ==
  /\ pending' = pending /\ \E x : called'[t] = Append(called[t], x)
  /\ \E w \in Thread : t \in cbs[w] /\ t \notin cbs'[w]
  /\ \A w \in Thread : t \in cbs'[w] => t \in cbs[w]

\* A callback is registered, taken from the list, or called.
LEMMA CallStep ==
  ASSUME TypeOK, [Next]_vars, NEW t \in Async
  PROVE  Kept(t) \/ Taken(t) \/ Called(t) \/ (Register(t) /\ called' = called /\ cbs' = cbs)
<1>1. DOMAIN cbs = Thread /\ DOMAIN called = Async
  BY Typed, Zenon
<1>2. UNCHANGED reqVars \/ ChangesRequests
  BY FrameStep, Zenon DEF Frames
<1>3. UNCHANGED <<called, cbs>> \/ ChangesCalls
  BY FrameStep, Zenon DEF Frames
<1>4. ASSUME NEW w \in Thread, Drain(w) PROVE Kept(t) \/ Taken(t)
  <2>1. /\ called' = called /\ cbs'[w] = pending \cap Async /\ pending' = pending \ Async
        /\ \A v \in Thread : v # w => cbs'[v] = cbs[v]
    BY <1>1, <1>4, Zenon DEF Drain, Drained
  <2> QED BY <2>1, Zenon DEF Kept, Taken
<1>5. ASSUME NEW w \in Thread, NEW u \in Async, CallClosed(w, u) PROVE Kept(t) \/ Called(t)
  <2>1. /\ pending' = pending /\ cbs'[w] = cbs[w] \ {u} /\ u \in cbs[w]
        /\ \A v \in Thread : v # w => cbs'[v] = cbs[v]
    BY <1>1, <1>5, Zenon DEF CallClosed, reqVars
  <2>2. CASE u = t
    <3>1. called'[t] = Append(called[t], CloseErr(w))
      BY <1>1, <1>5, <2>2, Zenon DEF CallClosed
    <3> QED BY <2>1, <2>2, <3>1, Zenon DEF Called
  <2>3. CASE u # t
    <3>1. called'[t] = called[t]
      BY <1>1, <1>5, <2>3, Zenon DEF CallClosed
    <3> QED BY <2>1, <3>1, Zenon DEF Kept
  <2> QED BY <2>2, <2>3, Zenon
<1>6. ASSUME NEW u \in Async, RecvReplyAsync(u) PROVE Kept(t) \/ Taken(t)
  <2>1. /\ pending' = pending \ {u} /\ cbs'["recv"] = {u} /\ u \in pending /\ called' = called
        /\ \A v \in Thread : v # "recv" => cbs'[v] = cbs[v]
    BY <1>1, <1>6, Zenon DEF RecvReplyAsync, AnsweredRemoved, Matching, appVars, Thread
  <2>2. CASE u = t
    BY <2>1, <2>2, Zenon DEF Taken, Thread
  <2>3. CASE u # t
    BY <2>1, <2>3, Zenon DEF Kept
  <2> QED BY <2>2, <2>3, Zenon
<1>7. ASSUME NEW u \in Async, CallAnswered(u) PROVE Kept(t) \/ Called(t)
  <2>1. /\ pending' = pending /\ cbs'["recv"] = {} /\ u \in cbs["recv"]
        /\ \A v \in Thread : v # "recv" => cbs'[v] = cbs[v]
    BY <1>1, <1>7, Zenon DEF CallAnswered, reqVars, Thread
  <2>2. CASE u = t
    <3>1. called'[t] = Append(called[t], err)
      BY <1>1, <1>7, <2>2, Zenon DEF CallAnswered
    <3> QED BY <2>1, <2>2, <3>1, Zenon DEF Called, Thread
  <2>3. CASE u # t
    <3>1. called'[t] = called[t]
      BY <1>1, <1>7, <2>3, Zenon DEF CallAnswered
    <3> QED BY <2>1, <3>1, Zenon DEF Kept
  <2> QED BY <2>2, <2>3, Zenon
<1>8. ASSUME NEW u \in Caller, Register(u)
      PROVE  Kept(t) \/ (Register(t) /\ called' = called /\ cbs' = cbs)
  BY <1>8, Zenon DEF Register, Kept, threadVars
<1>9. ASSUME NEW u \in Blocking, RecvReplyBlocking(u) \/ Check(u) \/ Timeout(u) PROVE Kept(t)
  BY <1>9, Zenon DEF RecvReplyBlocking, Check, Timeout, Return, Erased, Kept, threadVars
<1>10. CASE UNCHANGED reqVars /\ UNCHANGED <<called, cbs>>
  BY <1>10, Zenon DEF reqVars, Kept
<1> QED BY <1>2, <1>3, <1>4, <1>5, <1>6, <1>7, <1>8, <1>9, <1>10, Zenon
  DEF ChangesRequests, ChangesCalls

LEMMA Lengths ==
  ASSUME NEW S, NEW s \in Seq(S), NEW x
  PROVE  (s = <<>> => Len(Append(s, x)) <= 1) /\ Append(s, x) # <<>>
BY SMT

LEMMA TokensStep == ASSUME ClientInv, [Next]_vars PROVE Tokens'
<1>1. TypeOK /\ Tokens /\ DOMAIN pc = App
  BY Typed, Zenon DEF ClientInv
<1> SUFFICES ASSUME NEW t \in Async
             PROVE  /\ Len(called'[t]) <= 1
                    /\ called'[t] # <<>> \/ Awaited(t)' => pc'[t] \notin {"idle", "register"}
                    /\ Awaited(t)' => called'[t] = <<>>
                    /\ t \in pending' => \A w \in Thread : t \notin cbs'[w]
                    /\ \A v, w \in Thread : t \in cbs'[v] /\ t \in cbs'[w] => v = w
  BY Zenon DEF Tokens
<1>2. t \in App /\ t \in Caller
  BY Members, Zenon
<1>3. pc[t] \notin {"idle", "register"} => pc'[t] \notin {"idle", "register"}
  BY <1>1, <1>2, PcStep, PcPlaces, Zenon DEF Serialize, Start
<1>4. /\ Len(called[t]) <= 1
      /\ called[t] # <<>> \/ Awaited(t) => pc[t] \notin {"idle", "register"}
      /\ Awaited(t) => called[t] = <<>>
      /\ t \in pending => \A w \in Thread : t \notin cbs[w]
      /\ \A v, w \in Thread : t \in cbs[v] /\ t \in cbs[w] => v = w
  BY <1>1, Zenon DEF Tokens
<1>5. CASE Kept(t)
  <2>1. Awaited(t)' => Awaited(t)
    BY <1>5, Zenon DEF Kept, Awaited
  <2> QED BY <1>3, <1>4, <1>5, <2>1, Zenon DEF Kept
<1>6. CASE Taken(t)
  <2>1. Awaited(t)
    BY <1>6, Zenon DEF Taken, Awaited
  <2> QED BY <1>3, <1>4, <1>6, <2>1, Zenon DEF Taken
<1>7. CASE Called(t)
  <2>1. Awaited(t) /\ t \notin pending'
    BY <1>4, <1>7, Zenon DEF Called, Awaited
  <2>2. \A w \in Thread : t \notin cbs'[w]
    BY <1>4, <1>7, Zenon DEF Called
  <2>3. ~Awaited(t)'
    BY <2>1, <2>2, Zenon DEF Awaited
  <2>4. called[t] \in Seq(Reason \cup Answer)
    BY <1>1, Typed, Zenon
  <2>5. PICK x : called'[t] = Append(called[t], x)
    BY <1>7, Zenon DEF Called
  <2>6. Len(called'[t]) <= 1
    BY <1>4, <2>1, <2>4, <2>5, Lengths, Zenon
  <2> QED BY <1>3, <1>4, <2>1, <2>2, <2>3, <2>6, Zenon
<1>8. CASE Register(t) /\ called' = called /\ cbs' = cbs
  <2>1. pc[t] = "register" /\ pc'[t] = "send"
    BY <1>1, <1>2, <1>8, Zenon DEF Register
  <2>2. called[t] = <<>> /\ \A w \in Thread : t \notin cbs[w]
    BY <1>4, <2>1, Zenon DEF Awaited
  <2> QED BY <1>4, <1>8, <2>1, <2>2, Zenon
<1> QED BY <1>1, <1>5, <1>6, <1>7, <1>8, CallStep, Zenon
-----------------------------------------------------------------------------
(***************************************************************************)
(* Replies, and what is handed to callers.                                 *)
(***************************************************************************)

\* An answer is given once.
LEMMA AnswerStep ==
  ASSUME TypeOK, [Next]_vars, NEW t \in Caller, answer[t] # NoAnswer
  PROVE  answer'[t] = answer[t]
<1>1. DOMAIN answer = Caller
  BY Typed, Zenon
<1>2. ASSUME NEW u \in Caller, NEW code \in Answer, AnswerCall(u, code) PROVE answer'[t] = answer[t]
  BY <1>1, <1>2, Zenon DEF AnswerCall
<1>3. ASSUME NEW code \in {"success", "edupid"}, AnswerAuth(code) PROVE answer' = answer
  BY <1>3, Zenon DEF AnswerAuth, svcVars
<1>4. UNCHANGED answer \/ Service
  BY FrameStep, Zenon DEF Frames
<1> QED BY <1>2, <1>3, <1>4, Zenon DEF Service

LEMMA GenuineStep ==
  ASSUME ClientInv, [Next]_vars, NEW m \in Resp, Genuine(sent, answer, m)
  PROVE  Genuine(sent', answer', m)
<1>1. TypeOK /\ \A t \in Caller : t \in App
  BY Members, Zenon DEF ClientInv
<1>2. m.code # NoAnswer
  BY SMT DEF Resp, Answer, NoAnswer
<1>3. ASSUME NEW t \in Caller, Sends(sent, m.id, t), answer[t] = m.code
      PROVE  Sends(sent', m.id, t) /\ answer'[t] = m.code
  <2>1. answer'[t] = m.code
    BY <1>1, <1>2, <1>3, AnswerStep, Zenon
  <2>2. Sends(sent', m.id, t)
    BY <1>1, <1>3, SendsStep, SMT
  <2> QED BY <2>1, <2>2, Zenon
<1> QED BY <1>3, Zenon DEF Genuine

LEMMA TailIs ==
  ASSUME NEW S, NEW s \in Seq(S), s # <<>>
  PROVE  /\ Tail(s) \in Seq(S) /\ Head(s) \in S /\ 1 \in 1..Len(s) /\ s[1] = Head(s)
         /\ \A i \in 1..Len(Tail(s)) : i + 1 \in 1..Len(s) /\ Tail(s)[i] = s[i + 1]
BY SMT

LEMMA AppendIs ==
  ASSUME NEW S, NEW s \in Seq(S), NEW m \in S
  PROVE  Append(s, m) \in Seq(S)
BY SMT

LEMMA ElementIs ==
  ASSUME NEW S, NEW s \in Seq(S), NEW i \in 1..Len(s)
  PROVE  s[i] \in S
BY SMT

\* What is put in the inbox, and what is taken from it.
LEMMA InboxStep ==
  ASSUME ClientInv, [Next]_vars
  PROVE  \/ inbox' = inbox
         \/ inbox # <<>> /\ inbox' = Tail(inbox)
         \/ \E m \in Resp : Genuine(sent', answer', m) /\ inbox' = Append(inbox, m)
<1>1. TypeOK /\ sent \in Seq(Message) /\ answer \in [Caller -> Answer \cup {NoAnswer}]
  BY Typed, Zenon DEF ClientInv
<1>2. UNCHANGED inbox \/ ReadsInbox \/ Service \/ CallClient
  BY FrameStep, Zenon DEF Frames
<1>3. CASE ReadsInbox
  BY <1>3, Zenon DEF ReadsInbox, RecvAuth, RecvReplyLate, RecvReplyBlocking, RecvReplyAsync,
    RecvCall, Received
<1>4. ASSUME NEW code \in {"success", "edupid"}, AnswerAuth(code)
      PROVE  \E m \in Resp : Genuine(sent', answer', m) /\ inbox' = Append(inbox, m)
  <2> DEFINE m == [cmd |-> "auth", id |-> 0, code |-> code]
  <2>1. inbox' = Append(inbox, m)
    BY <1>4, Zenon DEF AnswerAuth, Post
  <2>2. m \in Resp /\ m.cmd = "auth" /\ m.code = code
    BY SMT DEF Resp, Answer
  <2>3. Genuine(sent', answer', m)
    BY <2>2, SMT DEF Genuine
  <2> QED BY <2>1, <2>2, <2>3, Zenon
<1>5. CASE CallClient
  <2> DEFINE m == [cmd |-> "call", id |-> 0, code |-> "success"]
  <2>1. inbox' = Append(inbox, m)
    BY <1>5, Zenon DEF CallClient, Post
  <2>2. m \in Resp /\ m.cmd = "call"
    BY SMT DEF Resp, Answer
  <2>3. Genuine(sent', answer', m)
    BY <2>2, SMT DEF Genuine
  <2> QED BY <2>1, <2>2, <2>3, Zenon
<1>6. ASSUME NEW t \in Caller, NEW code \in Answer, AnswerCall(t, code)
      PROVE  \E m \in Resp : Genuine(sent', answer', m) /\ inbox' = Append(inbox, m)
  <2>1. PICK i \in 1..Len(sent) :
          sent[i].by = t /\ Post([cmd |-> "reply", id |-> sent[i].id, code |-> code])
    BY <1>6, Zenon DEF AnswerCall
  <2> DEFINE m == [cmd |-> "reply", id |-> sent[i].id, code |-> code]
  <2>2. inbox' = Append(inbox, m) /\ sent' = sent
    BY <2>1, Zenon DEF Post
  <2>3. sent[i] \in Message
    BY <1>1, ElementIs, Zenon
  <2>4. m \in Resp /\ m.cmd = "reply" /\ m.code = code /\ m.id = sent[i].id
    BY <2>3, SMT DEF Resp, Message
  <2>5. answer'[t] = code
    BY <1>1, <1>6, Zenon DEF AnswerCall
  <2>6. Sends(sent', m.id, t)
    BY <2>1, <2>2, <2>4, Zenon DEF Sends
  <2>7. Genuine(sent', answer', m)
    <3> HIDE DEF m
    <3> QED BY <2>2, <2>4, <2>5, <2>6, Zenon DEF Genuine
  <2> QED BY <2>2, <2>4, <2>7, Zenon
<1> QED BY <1>2, <1>3, <1>4, <1>5, <1>6, Zenon DEF Service

LEMMA RepliesStep == ASSUME ClientInv, [Next]_vars PROVE Replies' /\ inbox' \in Seq(Resp)
<1>1. inbox \in Seq(Resp) /\ Replies
  BY Typed, Zenon DEF ClientInv
<1>2. ASSUME NEW i \in 1..Len(inbox) PROVE Genuine(sent', answer', inbox[i])
  <2>1. inbox[i] \in Resp /\ Genuine(sent, answer, inbox[i])
    BY <1>1, ElementIs, Zenon DEF Replies
  <2> QED BY <2>1, GenuineStep, SMT
<1>3. CASE inbox' = inbox
  BY <1>1, <1>2, <1>3, Zenon DEF Replies
<1>4. CASE inbox # <<>> /\ inbox' = Tail(inbox)
  <2>1. /\ inbox' \in Seq(Resp)
        /\ \A i \in 1..Len(inbox') : i + 1 \in 1..Len(inbox) /\ inbox'[i] = inbox[i + 1]
    BY <1>1, <1>4, TailIs, Zenon
  <2> QED BY <1>2, <2>1, Zenon DEF Replies
<1>5. ASSUME NEW m \in Resp, Genuine(sent', answer', m), inbox' = Append(inbox, m)
      PROVE  Replies' /\ inbox' \in Seq(Resp)
  <2>1. inbox' \in Seq(Resp) /\ Longer(inbox', inbox, m)
    BY <1>1, <1>5, AppendIs, Appended, Zenon
  <2>2. /\ inbox'[Len(inbox) + 1] = m
        /\ \A i \in 1..Len(inbox) : inbox'[i] = inbox[i]
        /\ \A i \in 1..Len(inbox') : i \in 1..Len(inbox) \/ i = Len(inbox) + 1
    BY <2>1, Zenon DEF Longer
  <2> QED BY <1>2, <1>5, <2>1, <2>2, Zenon DEF Replies
<1> QED BY <1>3, <1>4, <1>5, InboxStep, SMT

\* The reply that has the number of a pending call is the answer to that call.
LEMMA ReplyBelongs ==
  ASSUME ClientInv, Received("reply"), NEW t \in Caller, t \in Matching(Head(inbox).id)
  PROVE  /\ answer[t] = Head(inbox).code /\ Head(inbox).code \in Answer
         /\ Wrote(t)
<1>1. /\ inbox \in Seq(Resp) /\ Replies /\ Numbers
      /\ answer \in [Caller -> Answer \cup {NoAnswer}]
  BY Typed, Zenon DEF ClientInv
<1>2. inbox # <<>> /\ Head(inbox).cmd = "reply"
  BY Zenon DEF Received
<1>3. Head(inbox) \in Resp /\ Genuine(sent, answer, Head(inbox))
  BY <1>1, <1>2, TailIs, Zenon DEF Replies
<1>4. PICK u \in Caller : Sends(sent, Head(inbox).id, u) /\ answer[u] = Head(inbox).code
  BY <1>2, <1>3, Zenon DEF Genuine
<1>5. PICK n \in Nat : n = Head(inbox).id
  BY <1>3, SMT DEF Resp
<1>6. Numbered(id, sent, n, u) /\ 0 < n
  BY <1>1, <1>4, <1>5, Zenon DEF Numbers, Numbered
<1>7. n # 0 /\ id[t] = n
  <2>1. n # 0
    BY <1>6, SMT
  <2> QED BY <1>5, <2>1, Zenon DEF Matching
<1>8. Numbered(id, sent, n, t)
  BY <1>7, Zenon DEF Numbered
<1>9. t = u
  BY <1>1, <1>6, <1>8, Zenon DEF Numbers
<1>10. answer[t] = Head(inbox).code /\ Wrote(t)
  BY <1>4, <1>9, Zenon DEF Sends, Wrote
<1>11. Head(inbox).code # NoAnswer
  BY <1>3, SMT DEF Resp, Answer, NoAnswer
<1>12. answer[t] \in Answer \cup {NoAnswer}
  BY <1>1, Zenon
<1> QED BY <1>10, <1>11, <1>12, Zenon

LEMMA AnswerIs ==
  ASSUME NEW x \in Answer
  PROVE  x # NoAnswer
BY Zenon DEF Answer, NoAnswer

LEMMA AnsweringStep ==
  ASSUME ClientInv, [Next]_vars, at'["recv"] = "answer"
  PROVE  \A t \in cbs'["recv"] : err' = answer'[t] /\ err' # NoAnswer
<1>1. AtOK /\ TypeOK /\ Given /\ cbs \in [Thread -> SUBSET Async]
  BY Typed, Zenon DEF ClientInv
<1>2. \A t \in Async : t \in Caller
  BY Members, Zenon
<1>3. ASSUME NEW t \in Async, RecvReplyAsync(t)
      PROVE  \A u \in cbs'["recv"] : err' = answer'[u] /\ err' # NoAnswer
  <2>1. /\ Received("reply") /\ t \in Matching(Head(inbox).id) /\ err' = Head(inbox).code
        /\ cbs'["recv"] = {t} /\ answer' = answer
    BY <1>1, <1>3, Zenon DEF RecvReplyAsync, svcVars, Thread
  <2>2. answer[t] = Head(inbox).code /\ Head(inbox).code \in Answer
    BY <1>2, <2>1, ReplyBelongs, Zenon
  <2> QED BY <2>1, <2>2, AnswerIs, Zenon
<1>4. CASE at["recv"] = "answer" /\ ~\E t \in Async : RecvReplyAsync(t)
  <2>1. ~RecvEnded
    BY <1>4, Zenon DEF RecvEnded
  <2>2. err' = err
    BY <1>4, <2>1, FrameStep, Zenon DEF Frames
  <2>3. UNCHANGED <<called, cbs>> \/ ChangesCalls
    BY FrameStep, Zenon DEF Frames
  <2>4. ASSUME NEW w \in Thread, Drain(w) \/ \E t \in Async : CallClosed(w, t)
        PROVE  cbs'["recv"] = cbs["recv"]
    <3>1. w = "main"
      BY <1>4, <2>4, Zenon DEF Drain, CallClosed, Thread
    <3> QED BY <1>1, <2>4, <3>1, Zenon DEF Drain, Drained, CallClosed, Thread
  <2>5. ASSUME NEW t \in Async, CallAnswered(t) PROVE FALSE
    <3>1. at'["recv"] = "recv"
      BY <1>1, <2>5, GoIs, Zenon DEF CallAnswered, AtOK
    <3> QED BY <3>1, Zenon
  <2>6. cbs'["recv"] = cbs["recv"]
    BY <1>4, <2>3, <2>4, <2>5, Zenon DEF ChangesCalls
  <2>7. \A t \in cbs["recv"] : t \in Caller /\ err = answer[t] /\ answer[t] # NoAnswer
    BY <1>1, <1>2, <1>4, Zenon DEF Given, Thread
  <2> QED BY <1>1, <2>2, <2>6, <2>7, AnswerStep, Zenon
<1> QED BY <1>1, <1>3, <1>4, MoveStep, Zenon DEF Moves

LEMMA EndingStep ==
  ASSUME ClientInv, [Next]_vars, Ending'
  PROVE  err' \in Reason
<1>1. AtOK /\ Given
  BY Typed, Zenon DEF ClientInv
<1>2. CASE RecvEnded
  BY <1>2, Zenon DEF RecvEnded, EndErr, Reason
<1>3. CASE Ending
  <2>1. ~RecvEnded /\ ~\E t \in Async : RecvReplyAsync(t)
    BY <1>3, Zenon DEF RecvEnded, RecvReplyAsync, Received, Ending
  <2>2. err' = err
    BY <2>1, FrameStep, Zenon DEF Frames
  <2> QED BY <1>1, <1>3, <2>2, Zenon DEF Given, Ending
<1> QED BY <1>1, <1>2, <1>3, MoveStep, Zenon DEF Moves

\* A callback is called with the answer to its call or the reason of the end.
LEMMA CalledStep ==
  ASSUME ClientInv, [Next]_vars, NEW t \in Async
  PROVE  \/ called'[t] = called[t]
         \/ \E x \in (Reason \cup {answer'[t]}) \cap (Reason \cup Answer) :
              called'[t] = Append(called[t], x)
<1>1. /\ AtOK /\ TypeOK /\ Given /\ cbs \in [Thread -> SUBSET Async] /\ DOMAIN called = Async
      /\ answer \in [Caller -> Answer \cup {NoAnswer}]
  BY Typed, Zenon DEF ClientInv
<1>2. t \in Caller
  BY Members, Zenon
<1>3. UNCHANGED <<called, cbs>> \/ ChangesCalls
  BY FrameStep, Zenon DEF Frames
<1>4. ASSUME NEW w \in Thread, Drain(w) PROVE called' = called
  BY <1>4, Zenon DEF Drain
<1>5. ASSUME NEW u \in Async, RecvReplyAsync(u) PROVE called' = called
  BY <1>5, Zenon DEF RecvReplyAsync, appVars
<1>6. ASSUME NEW w \in Thread, NEW u \in Async, CallClosed(w, u), u # t
      PROVE  called'[t] = called[t]
  BY <1>1, <1>6, Zenon DEF CallClosed
<1>7. ASSUME NEW u \in Async, CallAnswered(u), u # t PROVE called'[t] = called[t]
  BY <1>1, <1>7, Zenon DEF CallAnswered
<1>8. ASSUME NEW w \in Thread, CallClosed(w, t)
      PROVE  \E x \in (Reason \cup {answer'[t]}) \cap (Reason \cup Answer) :
               called'[t] = Append(called[t], x)
  <2>1. called'[t] = Append(called[t], CloseErr(w)) /\ at[w] = "callbacks"
    BY <1>1, <1>8, Zenon DEF CallClosed
  <2>2. CloseErr(w) \in Reason
    <3>1. CASE w = "main"
      BY <3>1, Zenon DEF CloseErr, Reason
    <3>2. CASE w = "recv"
      <4>1. err \in Reason
        BY <1>1, <2>1, <3>2, Zenon DEF Given
      <4> QED BY <3>2, <4>1, Zenon DEF CloseErr
    <3> QED BY <3>1, <3>2, Zenon DEF Thread
  <2> QED BY <2>1, <2>2, Zenon
<1>9. ASSUME CallAnswered(t)
      PROVE  \E x \in (Reason \cup {answer'[t]}) \cap (Reason \cup Answer) :
               called'[t] = Append(called[t], x)
  <2>1. /\ called'[t] = Append(called[t], err) /\ at["recv"] = "answer"
        /\ t \in cbs["recv"] /\ answer' = answer
    BY <1>1, <1>9, Zenon DEF CallAnswered, svcVars
  <2>2. err = answer[t] /\ err # NoAnswer
    BY <1>1, <2>1, Zenon DEF Given
  <2>3. err \in Answer
    BY <1>1, <1>2, <2>2, Zenon
  <2> QED BY <2>1, <2>2, <2>3, Zenon
<1> QED BY <1>3, <1>4, <1>5, <1>6, <1>7, <1>8, <1>9, Zenon DEF ChangesCalls

\* A blocking call is given the answer to its own call.
LEMMA FilledStep ==
  ASSUME ClientInv, [Next]_vars, NEW t \in Blocking
  PROVE  \/ filled'[t] = filled[t] /\ rcode'[t] = rcode[t]
         \/ /\ RecvReplyBlocking(t) /\ rcode'[t] = answer[t]
            /\ filled'[t] = (filled[t] \/ answer[t] = "success")
            /\ answer[t] # NoAnswer /\ answer' = answer
<1>1. TypeOK /\ DOMAIN filled = Blocking /\ DOMAIN rcode = Blocking /\ t \in Caller
  BY Typed, Members, Zenon DEF ClientInv
<1>2. CASE RecvReplyBlocking(t)
  <2>1. /\ Received("reply") /\ t \in Matching(Head(inbox).id)
        /\ rcode'[t] = Head(inbox).code
        /\ filled'[t] = (filled[t] \/ Head(inbox).code = "success")
        /\ answer' = answer
    BY <1>1, <1>2, Zenon DEF RecvReplyBlocking, svcVars
  <2>2. answer[t] = Head(inbox).code /\ Head(inbox).code \in Answer
    BY <1>1, <2>1, ReplyBelongs, Zenon
  <2> QED BY <1>2, <2>1, <2>2, AnswerIs, Zenon
<1>3. ASSUME NEW u \in Blocking, u # t, RecvReplyBlocking(u)
      PROVE  filled'[t] = filled[t] /\ rcode'[t] = rcode[t]
  BY <1>1, <1>3, Zenon DEF RecvReplyBlocking
<1>4. ASSUME ~\E u \in Blocking : RecvReplyBlocking(u)
      PROVE  filled' = filled /\ rcode' = rcode
  <2>1. filled' = filled
    BY <1>4, FrameStep, Zenon DEF Frames
  <2>2. UNCHANGED reqVars \/ ChangesRequests
    BY FrameStep, Zenon DEF Frames
  <2>3. ASSUME NEW w \in Thread, Drain(w) PROVE rcode' = rcode
    BY <2>3, Zenon DEF Drain
  <2>4. ASSUME NEW u \in Blocking, Check(u) \/ Timeout(u) PROVE rcode' = rcode
    BY <2>4, Zenon DEF Check, Timeout
  <2>5. ASSUME NEW u \in Async, RecvReplyAsync(u) PROVE rcode' = rcode
    BY <2>5, Zenon DEF RecvReplyAsync
  <2>6. ASSUME NEW u \in Caller, Register(u) PROVE rcode' = rcode
    BY <2>6, Zenon DEF Register
  <2>7. UNCHANGED reqVars => rcode' = rcode
    BY Zenon DEF reqVars
  <2> QED BY <1>4, <2>1, <2>2, <2>3, <2>4, <2>5, <2>6, <2>7, Zenon DEF ChangesRequests
<1> QED BY <1>2, <1>3, <1>4, Zenon

LEMMA GivenStep == ASSUME ClientInv, [Next]_vars PROVE Given'
<1>1. /\ TypeOK /\ AnswersBelong /\ called \in [Async -> Seq(Reason \cup Answer)]
      /\ answer \in [Caller -> Answer \cup {NoAnswer}] /\ filled \in [Blocking -> BOOLEAN]
  BY Typed, Zenon DEF ClientInv, Given
<1>2. ASSUME NEW t \in Async
      PROVE  \A i \in 1..Len(called'[t]) : called'[t][i] \in Reason \cup {answer'[t]}
  <2>1. t \in Caller /\ called[t] \in Seq(Reason \cup Answer)
    BY <1>1, Members, Zenon
  <2>2. ASSUME NEW i \in 1..Len(called[t]) PROVE called[t][i] \in Reason \cup {answer'[t]}
    <3>1. called[t][i] \in Reason \cup {answer[t]} /\ called[t][i] \in Reason \cup Answer
      BY <1>1, <2>1, <2>2, ElementIs, Zenon DEF AnswersBelong
    <3> QED BY <1>1, <2>1, <3>1, AnswerStep, AnswerIs, Zenon
  <2>3. CASE called'[t] = called[t]
    BY <2>2, <2>3, Zenon
  <2>4. ASSUME NEW x \in (Reason \cup {answer'[t]}) \cap (Reason \cup Answer),
               called'[t] = Append(called[t], x)
        PROVE  \A i \in 1..Len(called'[t]) : called'[t][i] \in Reason \cup {answer'[t]}
    <3>1. Longer(called'[t], called[t], x)
      BY <2>1, <2>4, Appended, Zenon
    <3>2. /\ called'[t][Len(called[t]) + 1] = x
          /\ \A i \in 1..Len(called[t]) : called'[t][i] = called[t][i]
          /\ \A i \in 1..Len(called'[t]) : i \in 1..Len(called[t]) \/ i = Len(called[t]) + 1
      BY <3>1, Zenon DEF Longer
    <3> QED BY <2>2, <2>4, <3>2, Zenon
  <2> QED BY <2>3, <2>4, CalledStep, Zenon
<1>3. ASSUME NEW t \in Blocking
      PROVE  (filled'[t] => answer'[t] = "success") /\ rcode'[t] \in {NoAnswer, answer'[t]}
  <2>1. /\ t \in Caller /\ (filled[t] => answer[t] = "success")
        /\ rcode[t] \in {NoAnswer, answer[t]}
    BY <1>1, <1>3, Members, Zenon DEF AnswersBelong
  <2>2. CASE filled'[t] = filled[t] /\ rcode'[t] = rcode[t]
    <3>1. CASE answer[t] # NoAnswer
      BY <1>1, <2>1, <2>2, <3>1, AnswerStep, Zenon
    <3>2. CASE answer[t] = NoAnswer
      BY <2>1, <2>2, <3>2, Zenon DEF NoAnswer
    <3> QED BY <3>1, <3>2, Zenon
  <2>3. CASE /\ rcode'[t] = answer[t] /\ filled'[t] = (filled[t] \/ answer[t] = "success")
             /\ answer' = answer
    BY <2>1, <2>3, Zenon
  <2> QED BY <2>2, <2>3, FilledStep, Zenon
<1>4. AnswersBelong'
  BY <1>2, <1>3, Zenon DEF AnswersBelong
<1> QED BY <1>4, AnsweringStep, EndingStep, Zenon DEF Given, Ending
-----------------------------------------------------------------------------
(***************************************************************************)
(* Types.                                                                  *)
(***************************************************************************)
Places == {"idle", "register", "send", "check", "wait", "woken", "done", "crashed"}
Codes  == Reason \cup Answer \cup {"einval", "etimeout", NoAnswer}

LEMMA BuffersTyped ==
  ASSUME ClientInv, [Next]_vars
  PROVE  /\ sent' \in Seq(Message) /\ reqseq' \in Nat /\ sbuffer' \in Message
         /\ send_mutex' \in App \cup {"recv", "ka", NoOne}
<1>1. /\ sent \in Seq(Message) /\ reqseq \in Nat /\ sbuffer \in Message
      /\ send_mutex \in App \cup {"recv", "ka", NoOne}
  BY Zenon DEF ClientInv, TypeOK
<1>2. sent' \in Seq(Message)
  BY <1>1, SentStep, AppendIs, Zenon
<1>3. reqseq' \in Nat
  BY <1>1, HolderStep, Succ, Zenon
<1>4. UNCHANGED <<send_mutex, sbuffer, reqseq>> \/ ChangesBuffer
  BY FrameStep, Zenon DEF Frames
<1>5. /\ [by |-> "auth", id |-> 0] \in Message /\ [by |-> "reply", id |-> 0] \in Message
      /\ [by |-> "ping", id |-> 0] \in Message
      /\ \A t \in App, n \in Nat : [by |-> t, id |-> n] \in Message
  BY SMT DEF Message
<1>6. ASSUME NEW t \in App, Serialize(t) PROVE sbuffer' \in Message /\ send_mutex' = t
  <2>1. \/ sbuffer' = [by |-> t, id |-> reqseq']
        \/ sbuffer' = [by |-> t, id |-> 0]
    BY <1>6, Zenon DEF Serialize
  <2>2. 0 \in Nat /\ send_mutex' = t
    BY <1>6, SMT DEF Serialize
  <2> QED BY <1>3, <1>5, <2>1, <2>2, Zenon
<1>7. ASSUME NEW t \in App, Reject(t) \/ Sent(t) \/ NotSent(t)
      PROVE  sbuffer' = sbuffer /\ send_mutex' \in {send_mutex, NoOne}
  BY <1>7, Zenon DEF Reject, Sent, NotSent
<1>8. CASE AuthBegin \/ ReplyBegin \/ ReplySend \/ PingBegin \/ PingSend
  BY <1>1, <1>2, <1>3, <1>5, <1>8, Zenon DEF AuthBegin, ReplyBegin, ReplySend, PingBegin, PingSend
<1> QED BY <1>1, <1>2, <1>3, <1>4, <1>6, <1>7, <1>8, Zenon DEF ChangesBuffer

LEMMA RequestsTyped ==
  ASSUME ClientInv, [Next]_vars
  PROVE  /\ pending' \subseteq Caller /\ id' \in [Caller -> Nat]
         /\ rcode' \in [Blocking -> Answer \cup {NoAnswer}]
         /\ close_reason' \in Reason \cup {"success"}
<1>1. /\ pending \subseteq Caller /\ id \in [Caller -> Nat] /\ reqseq \in Nat /\ 0 \in Nat
      /\ rcode \in [Blocking -> Answer \cup {NoAnswer}]
      /\ close_reason \in Reason \cup {"success"} /\ Given
  BY SMT DEF ClientInv, TypeOK
<1>2. UNCHANGED reqVars \/ ChangesRequests
  BY FrameStep, Zenon DEF Frames
<1>3. ASSUME NEW w \in Thread, Drain(w)
      PROVE  /\ pending' \subseteq pending /\ id' = id /\ rcode' = rcode
             /\ close_reason' \in Reason
  <2>1. CASE w = "main"
    BY <1>3, <2>1, Zenon DEF Drain, CloseErr, Reason
  <2>2. CASE w = "recv"
    <3>1. at["recv"] = "drain" /\ close_reason' = err
      BY <1>3, <2>2, Zenon DEF Drain, CloseErr
    <3>2. err \in Reason
      BY <1>1, <3>1, Zenon DEF Given
    <3> QED BY <1>3, <3>1, <3>2, Zenon DEF Drain
  <2> QED BY <2>1, <2>2, Zenon DEF Thread
<1>4. ASSUME NEW t \in Blocking, RecvReplyBlocking(t)
      PROVE  /\ pending' = pending /\ id' \in [Caller -> Nat] /\ close_reason' = close_reason
             /\ rcode' \in [Blocking -> Answer \cup {NoAnswer}]
  <2>1. /\ Received("reply") /\ t \in Matching(Head(inbox).id)
        /\ rcode' = [rcode EXCEPT ![t] = Head(inbox).code] /\ id' = [id EXCEPT ![t] = 0]
        /\ pending' = pending /\ close_reason' = close_reason
    BY <1>4, Zenon DEF RecvReplyBlocking
  <2>2. Head(inbox).code \in Answer
    BY <2>1, ReplyBelongs, Members, Zenon
  <2> QED BY <1>1, <2>1, <2>2, Zenon
<1>5. ASSUME NEW t \in Blocking, Check(t) \/ Timeout(t)
      PROVE  /\ pending' \subseteq pending /\ id' = id /\ rcode' = rcode
             /\ close_reason' = close_reason
  BY <1>5, Zenon DEF Check, Timeout, Return, Erased
<1>6. ASSUME NEW t \in Async, RecvReplyAsync(t)
      PROVE  /\ pending' \subseteq pending /\ id' = id /\ rcode' = rcode
             /\ close_reason' = close_reason
  BY <1>6, Zenon DEF RecvReplyAsync, AnsweredRemoved
<1>7. ASSUME NEW t \in Caller, Register(t)
      PROVE  /\ pending' \subseteq Caller /\ id' \in [Caller -> Nat] /\ rcode' = rcode
             /\ close_reason' = close_reason
  BY <1>1, <1>7, Zenon DEF Register
<1>8. UNCHANGED reqVars =>
        pending' = pending /\ id' = id /\ rcode' = rcode /\ close_reason' = close_reason
  BY Zenon DEF reqVars
<1> QED BY <1>1, <1>2, <1>3, <1>4, <1>5, <1>6, <1>7, <1>8, Zenon DEF ChangesRequests

LEMMA AuthTyped ==
  ASSUME ClientInv, [Next]_vars
  PROVE  /\ auth_result' \in BOOLEAN /\ ares' \in {"success", "eauth", "edupid"}
         /\ after_auth' \in BOOLEAN /\ cli_callback' \in BOOLEAN
         /\ sock_ready' \in BOOLEAN /\ peer' \in BOOLEAN
<1>1. /\ auth_result \in BOOLEAN /\ ares \in {"success", "eauth", "edupid"}
      /\ after_auth \in BOOLEAN /\ cli_callback \in BOOLEAN
      /\ sock_ready \in BOOLEAN /\ peer \in BOOLEAN
      /\ inbox \in Seq(Resp) /\ Replies
  BY Zenon DEF ClientInv, TypeOK
<1>2. UNCHANGED authVars \/ ChangesAuth
  BY FrameStep, Zenon DEF Frames
<1>3. UNCHANGED <<sock_ready, peer>> \/ Breaks \/ \E w \in Thread : CloseConn(w)
  BY FrameStep, Zenon DEF Frames
<1>4. sock_ready' \in BOOLEAN /\ peer' \in BOOLEAN
  BY <1>1, <1>3, Zenon DEF Breaks, CloseConn
<1>5. CASE AuthBegin \/ AuthNotSent \/ AuthEnd \/ SetCallback \/ Join \/ TellAuth
  BY <1>1, <1>4, <1>5, Zenon DEF AuthBegin, AuthNotSent, AuthEnd, SetCallback, Join, TellAuth
<1>6. CASE RecvAuth
  <2>1. inbox # <<>> /\ Head(inbox).cmd = "auth" /\ ares' = Head(inbox).code
    BY <1>6, Zenon DEF RecvAuth, Received
  <2>2. Genuine(sent, answer, Head(inbox))
    BY <1>1, <2>1, TailIs, Zenon DEF Replies
  <2>3. ares' \in {"success", "edupid"}
    BY <2>1, <2>2, Zenon DEF Genuine
  <2> QED BY <1>1, <1>4, <1>6, <2>3, Zenon DEF RecvAuth
<1>7. CASE UNCHANGED authVars
  BY <1>1, <1>4, <1>7, Zenon DEF authVars
<1> QED BY <1>2, <1>5, <1>6, <1>7, Zenon DEF ChangesAuth

LEMMA KeepaliveTyped ==
  ASSUME TypeOK, [Next]_vars
  PROVE  ka' \in {"off", "check", "wait", "ping", "ping_send", "done", "crashed"}
<1>1. ka \in {"off", "check", "wait", "ping", "ping_send", "done", "crashed"}
  BY Zenon DEF TypeOK
<1>2. UNCHANGED ka \/ ChangesKeepalive
  BY FrameStep, Zenon DEF Frames
<1>3. CASE \E w \in Thread : CloseNotify(w)
  BY <1>1, <1>3, Zenon DEF CloseNotify, KeepaliveWoken
<1> QED BY <1>1, <1>2, <1>3, Zenon DEF ChangesKeepalive, StartKeepalive, Crash, KeepaliveCheck,
  KeepaliveTimeout, PingBegin, PingSend

LEMMA CallbacksTyped ==
  ASSUME ClientInv, [Next]_vars
  PROVE  /\ err' \in Reason \cup Answer /\ cbs' \in [Thread -> SUBSET Async]
         /\ called' \in [Async -> Seq(Reason \cup Answer)]
<1>1. /\ TypeOK /\ err \in Reason \cup Answer /\ cbs \in [Thread -> SUBSET Async]
      /\ called \in [Async -> Seq(Reason \cup Answer)]
  BY Zenon DEF ClientInv, TypeOK
<1>2. err' \in Reason \cup Answer
  <2>1. ASSUME NEW t \in Async, RecvReplyAsync(t) PROVE err' \in Answer
    <3>1. Received("reply") /\ t \in Matching(Head(inbox).id) /\ err' = Head(inbox).code
      BY <2>1, Zenon DEF RecvReplyAsync
    <3> QED BY <3>1, ReplyBelongs, Members, Zenon
  <2>2. RecvEnded => err' \in Reason
    BY Zenon DEF RecvEnded, EndErr, Reason
  <2> QED BY <1>1, <2>1, <2>2, FrameStep, Zenon DEF Frames
<1>3. UNCHANGED <<called, cbs>> \/ ChangesCalls
  BY FrameStep, Zenon DEF Frames
<1>4. ASSUME NEW w \in Thread, Drain(w)
      PROVE  called' = called /\ cbs' \in [Thread -> SUBSET Async]
  BY <1>1, <1>4, Zenon DEF Drain, Drained
<1>5. ASSUME NEW w \in Thread, NEW t \in Async, CallClosed(w, t)
      PROVE  cbs' \in [Thread -> SUBSET Async] /\ DOMAIN called' = Async
  <2>1. cbs[w] \ {t} \in SUBSET Async
    BY <1>1, <1>5, Zenon
  <2> QED BY <1>1, <1>5, <2>1, Zenon DEF CallClosed
<1>6. ASSUME NEW t \in Async, RecvReplyAsync(t)
      PROVE  called' = called /\ cbs' \in [Thread -> SUBSET Async]
  BY <1>1, <1>6, Zenon DEF RecvReplyAsync, appVars, Thread
<1>7. ASSUME NEW t \in Async, CallAnswered(t)
      PROVE  cbs' \in [Thread -> SUBSET Async] /\ DOMAIN called' = Async
  BY <1>1, <1>7, Zenon DEF CallAnswered, Thread
<1>8. /\ cbs' \in [Thread -> SUBSET Async] /\ DOMAIN called' = Async
      /\ called' = [t \in DOMAIN called' |-> called'[t]]
  <2>1. cbs' \in [Thread -> SUBSET Async] /\ DOMAIN called' = Async
    BY <1>1, <1>3, <1>4, <1>5, <1>6, <1>7, Zenon DEF ChangesCalls
  <2>2. called = [t \in DOMAIN called |-> called[t]]
    BY <1>1, Zenon
  <2>3. \/ called' = called
        \/ \E t \in Async : \E x : called' = [called EXCEPT ![t] = x]
    BY <1>3, <1>4, <1>6, Zenon DEF ChangesCalls, CallClosed, CallAnswered
  <2> QED BY <2>1, <2>2, <2>3, SMT
<1>9. ASSUME NEW t \in Async PROVE called'[t] \in Seq(Reason \cup Answer)
  <2>1. called[t] \in Seq(Reason \cup Answer)
    BY <1>1, Zenon
  <2> QED BY <2>1, CalledStep, AppendIs, Zenon
<1> QED BY <1>2, <1>8, <1>9, Zenon

LEMMA RequestersTyped ==
  ASSUME ClientInv, [Next]_vars
  PROVE  /\ pc' \in [App -> Places] /\ result' \in [App -> Codes]
         /\ filled' \in [Blocking -> BOOLEAN]
<1>1. /\ pc \in [App -> Places] /\ result \in [App -> Codes] /\ filled \in [Blocking -> BOOLEAN]
      /\ rcode \in [Blocking -> Answer \cup {NoAnswer}]
      /\ close_reason \in Reason \cup {"success"} /\ \A t \in Blocking : t \in App
      /\ \A t \in Caller : t \in App
  BY Members, Zenon DEF ClientInv, TypeOK, Places, Codes
<1>2. pc' \in [App -> Places]
  <2>1. UNCHANGED pc \/ ChangesPc
    BY FrameStep, Zenon DEF Frames
  <2>2. Woken \in [App -> Places]
    BY <1>1, Zenon DEF Woken, Places
  <2>3. CASE Crash \/ (\E w \in Thread : Drain(w)) \/ \E t \in Blocking : RecvReplyBlocking(t)
    BY <2>2, <2>3, Zenon DEF Crash, Drain, RecvReplyBlocking, Places
  <2>4. \A t \in App, x \in Places : [pc EXCEPT ![t] = x] \in [App -> Places]
    BY <1>1, Zenon
  <2>5. ASSUME NEW t \in Blocking, Check(t) \/ Timeout(t) PROVE pc' \in [App -> Places]
    <3>1. pc' = [pc EXCEPT ![t] = "done"] \/ pc' = [pc EXCEPT ![t] = "wait"]
      BY <2>5, Zenon DEF Check, Timeout, Return
    <3> QED BY <1>1, <2>4, <3>1, Zenon DEF Places
  <2>6. ASSUME NEW t \in Caller, Register(t) PROVE pc' \in [App -> Places]
    <3>1. pc' = [pc EXCEPT ![t] = "send"]
      BY <2>6, Zenon DEF Register
    <3> QED BY <1>1, <2>4, <3>1, Zenon DEF Places
  <2>7. ASSUME NEW t \in App, Reject(t) \/ Serialize(t) \/ Sent(t) \/ NotSent(t)
        PROVE  pc' \in [App -> Places]
    <3>1. \/ pc' = [pc EXCEPT ![t] = "done"] \/ pc' = [pc EXCEPT ![t] = "check"]
          \/ pc' = [pc EXCEPT ![t] = "register"] \/ pc' = [pc EXCEPT ![t] = "send"]
      BY <2>7, Zenon DEF Reject, Serialize, Sent, NotSent
    <3>2. {"done", "check", "register", "send"} \subseteq Places
      BY Zenon DEF Places
    <3>3. PICK x \in {"done", "check", "register", "send"} : pc' = [pc EXCEPT ![t] = x]
      BY <3>1, Zenon
    <3> QED BY <2>4, <3>2, <3>3, Zenon
  <2> QED BY <1>1, <2>1, <2>3, <2>5, <2>6, <2>7, Zenon DEF ChangesPc
<1>3. result' \in [App -> Codes]
  <2>1. UNCHANGED result \/ ChangesResult
    BY FrameStep, Zenon DEF Frames
  <2>2. \A t \in App, x \in Codes : [result EXCEPT ![t] = x] \in [App -> Codes]
    BY <1>1, Zenon
  <2>3. ASSUME NEW t \in Blocking, Check(t) \/ Timeout(t) PROVE result' \in [App -> Codes]
    <3>1. \/ result' = result \/ result' = [result EXCEPT ![t] = rcode[t]]
          \/ result' = [result EXCEPT ![t] = close_reason]
          \/ result' = [result EXCEPT ![t] = "etimeout"]
      BY <2>3, Zenon DEF Check, Timeout, Return
    <3>2. rcode[t] \in Codes /\ close_reason \in Codes /\ "etimeout" \in Codes
      BY <1>1, <2>3, Zenon DEF Codes, Answer
    <3> QED BY <1>1, <2>2, <3>1, <3>2, Zenon
  <2>4. ASSUME NEW t \in App, Reject(t) \/ Sent(t) \/ NotSent(t) PROVE result' \in [App -> Codes]
    <3>1. \/ result' = [result EXCEPT ![t] = "einval"] \/ result' = [result EXCEPT ![t] = "econn"]
          \/ result' = [result EXCEPT ![t] = IF t \in Blocking THEN @ ELSE "success"]
      BY <2>4, Zenon DEF Reject, Sent, NotSent
    <3>2. /\ "einval" \in Codes /\ "econn" \in Codes
          /\ (IF t \in Blocking THEN result[t] ELSE "success") \in Codes
      BY <1>1, Zenon DEF Codes, Answer, Reason
    <3> QED BY <2>2, <3>1, <3>2, Zenon
  <2> QED BY <1>1, <2>1, <2>3, <2>4, Zenon DEF ChangesResult
<1>4. filled' \in [Blocking -> BOOLEAN]
  <2>1. UNCHANGED filled \/ \E t \in Blocking : RecvReplyBlocking(t)
    BY FrameStep, Zenon DEF Frames
  <2>2. ASSUME NEW t \in Blocking, RecvReplyBlocking(t) PROVE filled' \in [Blocking -> BOOLEAN]
    BY <1>1, <2>2, Zenon DEF RecvReplyBlocking
  <2> QED BY <1>1, <2>1, <2>2, Zenon
<1> QED BY <1>2, <1>3, <1>4, Zenon

LEMMA ServiceTyped ==
  ASSUME ClientInv, [Next]_vars
  PROVE  /\ disconnects' \in 0..1 /\ incoming' \in 0..MaxCalls
         /\ answer' \in [Caller -> Answer \cup {NoAnswer}]
<1>1. /\ disconnects \in 0..1 /\ incoming \in 0..MaxCalls /\ Phases
      /\ answer \in [Caller -> Answer \cup {NoAnswer}]
  BY Zenon DEF ClientInv, TypeOK
<1>2. disconnects' \in 0..1
  <2>1. CASE Tell
    <3>1. disconnects = 0
      BY <1>1, <2>1, Zenon DEF Tell, Phases
    <3>2. disconnects' = disconnects + 1 \/ disconnects' = disconnects
      BY <2>1, Zenon DEF Tell, Told
    <3> QED BY <3>1, <3>2, SMT
  <2> QED BY <1>1, <2>1, FrameStep, Zenon DEF Frames
<1>3. incoming' \in 0..MaxCalls
  <2>1. CASE CallClient
    <3>1. incoming < MaxCalls /\ incoming' = incoming + 1
      BY <2>1, Zenon DEF CallClient
    <3> QED BY <1>1, <3>1, ClientAssumption, SMT
  <2> QED BY <1>1, <2>1, FrameStep, Zenon DEF Frames
<1>4. answer' \in [Caller -> Answer \cup {NoAnswer}]
  <2>1. ASSUME NEW t \in Caller, NEW code \in Answer, AnswerCall(t, code)
        PROVE  answer' \in [Caller -> Answer \cup {NoAnswer}]
    BY <1>1, <2>1, Zenon DEF AnswerCall
  <2>2. ASSUME NEW code \in {"success", "edupid"}, AnswerAuth(code) PROVE answer' = answer
    BY <2>2, Zenon DEF AnswerAuth, svcVars
  <2> QED BY <1>1, <2>1, <2>2, FrameStep, Zenon DEF Frames, Service
<1> QED BY <1>2, <1>3, <1>4, Zenon

LEMMA TypeStep == ASSUME ClientInv, [Next]_vars PROVE TypeOK'
<1>1. TypeOK
  BY Zenon DEF ClientInv
<1>2. AtOK'
  BY <1>1, Typed, MoveStep, Zenon
<1>3. inbox' \in Seq(Resp)
  BY RepliesStep, Zenon
<1>4. ka' \in {"off", "check", "wait", "ping", "ping_send", "done", "crashed"}
  BY <1>1, KeepaliveTyped, Zenon
<1> QED BY <1>2, <1>3, <1>4, BuffersTyped, RequestsTyped, AuthTyped, CallbacksTyped,
  RequestersTyped, ServiceTyped, Zenon DEF TypeOK, AtOK, Places, Codes
-----------------------------------------------------------------------------
(***************************************************************************)
(* The invariant and what follows from it.                                 *)
(***************************************************************************)
LEMMA ClientInit == ASSUME Init PROVE ClientInv
<1>1. TypeOK
  <2>1. [by |-> NoOne, id |-> 0] \in Message /\ incoming \in 0..MaxCalls /\ disconnects \in 0..1
    BY ClientAssumption, SMT DEF Init, Message
  <2>2. inbox \in Seq(Resp) /\ sent \in Seq(Message) /\ <<>> \in Seq(Reason \cup Answer) /\ 0 \in Nat
    BY SMT DEF Init
  <2>3. at["main"] = "auth" /\ at["recv"] = "recv" /\ DOMAIN at = Thread
    BY SMT DEF Init, Thread
  <2> QED BY <2>1, <2>2, <2>3, Zenon DEF Init, TypeOK, Reason, Answer, NoAnswer, NoOne
<1>2. Len(sent) = 0 /\ Len(inbox) = 0 /\ \A t \in Async : Len(called[t]) = 0
  BY SMT DEF Init
<1>3. \A i : i \notin 1..0
  BY SMT
<1>4. /\ \A i : i \notin 1..Len(sent)
      /\ \A i : i \notin 1..Len(inbox)
      /\ \A t \in Async : \A i : i \notin 1..Len(called[t])
  BY <1>2, <1>3, Zenon
<1>5. at["main"] = "auth" /\ at["recv"] = "recv"
  BY SMT DEF Init
<1>6. Phases /\ Buffer
  BY <1>5, Zenon DEF Init, Phases, Buffer, Holder
<1>7. Written /\ Listed
  BY <1>4, Zenon DEF Init, Written, Listed, Unwritten, IsWritten, Wrote, NoAnswer, Answer
<1>8. Numbers
  <2>1. \A t \in Caller, n \in Nat : ~Numbered(id, sent, n, t)
    BY <1>4, Zenon DEF Init, Numbered, Sends
  <2>2. \A t \in Caller : ~Holder(t)
    BY Members, Zenon DEF Init, Holder
  <2> QED BY <2>1, <2>2, Zenon DEF Numbers
<1>9. Tokens
  <2>1. \A t \in Async : Len(called[t]) <= 1 /\ called[t] = <<>> /\ ~Awaited(t)
    BY SMT DEF Init, Awaited
  <2> QED BY <2>1, Zenon DEF Tokens, Awaited
<1>10. Replies
  BY <1>4, Zenon DEF Replies
<1>11. Given
  BY <1>4, <1>5, Zenon DEF Init, Given, AnswersBelong
<1> QED BY <1>1, <1>6, <1>7, <1>8, <1>9, <1>10, <1>11, Zenon DEF ClientInv

\* Every step of every thread of a client keeps ClientInv.
THEOREM ClientInvariant == Spec => []ClientInv
<1>1. ASSUME ClientInv, [Next]_vars PROVE ClientInv'
  BY <1>1, TypeStep, PhasesStep, BufferStep, WrittenStep, ListedStep, NumbersStep, TokensStep,
    RepliesStep, GivenStep, Zenon DEF ClientInv
<1> QED BY <1>1, ClientInit, PTL DEF Spec

\* The state of a client is what TypeOK says, for any number of threads.
THEOREM ClientTypes == Spec => []TypeOK
<1>1. ClientInv => TypeOK
  BY Zenon DEF ClientInv
<1> QED BY <1>1, ClientInvariant, PTL

\* SocketConn::send writes what the thread itself has put in sbuffer, once
\* (Client::send_mutex): a request that is not sent or not valid is never on the
\* connection, and one that is waited for is there once.
THEOREM RequestsIntact == Spec => []SentIntact
<1>1. ASSUME ClientInv PROVE SentIntact
  <2> SUFFICES ASSUME NEW t \in App
               PROVE  /\ Unwritten(t) => Times(t) = 0
                      /\ IsWritten(t) => Times(t) = 1
    BY Zenon DEF SentIntact, Unwritten, IsWritten
  <2>1. Written
    BY <1>1, Zenon DEF ClientInv
  <2> DEFINE W == {i \in 1..Len(sent) : sent[i].by = t}
  <2>2. ASSUME Unwritten(t) PROVE Times(t) = 0
    <3>1. W = {}
      BY <2>1, <2>2, Zenon DEF Written, Wrote
    <3> QED BY <3>1, FS_EmptySet, Zenon DEF Times
  <2>3. ASSUME IsWritten(t) PROVE Times(t) = 1
    <3>1. PICK i \in 1..Len(sent) : sent[i].by = t
      BY <2>1, <2>3, Zenon DEF Written, Wrote
    <3>2. W = {i}
      BY <2>1, <3>1, Zenon DEF Written
    <3> QED BY <3>2, FS_Singleton, Zenon DEF Times
  <2> QED BY <2>2, <2>3, Zenon
<1> QED BY <1>1, ClientInvariant, PTL

\* However the reply (handle_reply), iclose of the receiving thread and iclose of the
\* destroying thread interleave, a callback is called once at most.
THEOREM CallbackOnce == Spec => []CalledOnce
<1>1. ClientInv => CalledOnce
  BY Zenon DEF ClientInv, Tokens, CalledOnce
<1> QED BY <1>1, ClientInvariant, PTL

\* A callback or a Response is given the answer to its own call, or the reason of
\* the end.
THEOREM RepliesBelong == Spec => []AnswersBelong
<1>1. ClientInv => AnswersBelong
  BY Zenon DEF ClientInv, Given
<1> QED BY <1>1, ClientInvariant, PTL

\* A Response is written to only while its caller is inside of Client::call: a call
\* that has returned is out of pending_requests, or was never written.
THEOREM ResponseInUse == Spec => NoWriteAfterReturn
<1>1. ASSUME ClientInv, [Next]_vars, NEW t \in Blocking, filled'[t] # filled[t]
      PROVE  pc[t] \in {"check", "wait", "woken"}
  <2>1. RecvReplyBlocking(t)
    BY <1>1, FilledStep, Zenon
  <2>2. Received("reply") /\ t \in Matching(Head(inbox).id) /\ t \in pending
    BY <2>1, Zenon DEF RecvReplyBlocking, Matching
  <2>3. Wrote(t) /\ t \in App
    BY <1>1, <2>2, ReplyBelongs, Members, Zenon
  <2>4. pc[t] \in {"send", "check", "wait", "woken", "crashed"}
    BY <1>1, <2>2, <2>3, Zenon DEF ClientInv, Listed
  <2>5. pc[t] # "send"
    BY <1>1, <2>3, Zenon DEF ClientInv, Written, Unwritten
  <2>6. pc[t] # "crashed"
    BY <1>1, <2>2, <2>3, Zenon DEF ClientInv, Phases, Received
  <2> QED BY <2>4, <2>5, <2>6, Zenon
<1>2. ASSUME ClientInv, [Next]_vars
      PROVE  [\A t \in Blocking : filled'[t] # filled[t] => pc[t] \in {"check", "wait", "woken"}]_vars
  BY <1>1, <1>2, Zenon
<1> QED BY <1>2, ClientInvariant, PTL DEF Spec, NoWriteAfterReturn
=============================================================================
