------------------------------- MODULE Client -------------------------------
(***************************************************************************)
(* The threads of one client: flora::internal::Client (src/src/cli.cc) over *)
(* a SocketConn (src/src/sock-conn.cc).  The thread that connects and later *)
(* destroys the client, the receiving thread, the keepalive thread and the *)
(* threads of the application that call, each one call or one post, share  *)
(* the send buffer, the list of pending requests and the connection.       *)
(*                                                                         *)
(* What is done under one hold of req_mutex is one step.  send_mutex is    *)
(* held over several steps and is a variable.                              *)
(***************************************************************************)
EXTENDS Naturals, Sequences, FiniteSets

CONSTANTS
  Blocking,    \* application threads that make a blocking call
  Async,       \* application threads that make a call with a callback
  Posting,     \* application threads that subscribe, declare or post
  Tcp,         \* whether the uri is tcp: a send may outlive the peer
  Disturbed,   \* whether connect may be disturbed: the connection breaks before it
               \* returns, or its wait of acond ends by itself
  MaxCalls     \* bound: calls of other clients to this one

ASSUME ClientAssumption ==
  /\ Blocking \cap Async = {} /\ (Blocking \cup Async) \cap Posting = {}
  /\ (Blocking \cup Async \cup Posting) \cap {"auth", "ping", "reply", "recv", "ka", "none"} = {}
  /\ Tcp \in BOOLEAN /\ Disturbed \in BOOLEAN /\ MaxCalls \in Nat

VARIABLES
  sock_ready,   \* SocketConn::sock_ready
  peer,         \* whether the service has its end of the connection open
  inbox,        \* messages of the service that have not been read
  sent,         \* messages the client has written
  send_mutex,   \* the thread that holds Client::send_mutex
  sbuffer,      \* the message in Client::sbuffer
  reqseq,       \* Client::reqseq
  pending,      \* the threads whose requests are in pending_requests
  id,           \* PendingRequest::id of each
  rcode,        \* PendingRequest::rcode of each
  close_reason, \* Client::close_reason
  auth_result,  \* whether Client::auth_result is set
  ares,         \* the result in the AuthResult
  after_auth,   \* cmd_handler = &Client::handle_cmd_after_auth
  cli_callback, \* whether Client::cli_callback is set
  at,           \* where the connecting and the receiving thread are
  err,          \* recv_loop's err, or the code it is handing to a callback
  cbs,          \* the callbacks each of them has taken and has to call
  ka,           \* where the keepalive thread is
  pc,           \* where each application thread is
  result,       \* what each application thread's request has returned
  filled,       \* whether the Response of a blocking call has been filled
  called,       \* the codes each callback has been called with
  disconnects,  \* calls of ClientCallback::disconnected
  answer,       \* what the service has answered to each call
  incoming      \* calls of other clients so far

connVars   == <<sock_ready, peer, inbox, sent>>
sendVars   == <<send_mutex, sbuffer, reqseq>>
reqVars    == <<pending, id, rcode, close_reason>>
authVars   == <<auth_result, ares, after_auth, cli_callback>>
threadVars == <<at, err, cbs, ka>>
appVars    == <<pc, result, filled, called, disconnects>>
svcVars    == <<answer, incoming>>
vars == <<connVars, sendVars, reqVars, authVars, threadVars, appVars, svcVars>>

Caller == Blocking \cup Async
App    == Caller \cup Posting
Thread == {"main", "recv"}

NoOne    == "none"
NoAnswer == "none"
Answer   == {"success", "enexists"}
Reason   == {"eauth", "econn", "eclosed"}

Message == [by : App \cup {"auth", "ping", "reply", NoOne}, id : Nat]
Resp    == [cmd : {"auth", "reply", "call"}, id : Nat, code : Answer \cup {"edupid"}]

TypeOK ==
  /\ sock_ready \in BOOLEAN /\ peer \in BOOLEAN
  /\ inbox \in Seq(Resp) /\ sent \in Seq(Message)
  /\ send_mutex \in App \cup {"recv", "ka", NoOne} /\ sbuffer \in Message
  /\ reqseq \in Nat
  /\ pending \subseteq Caller /\ id \in [Caller -> Nat]
  /\ rcode \in [Blocking -> Answer \cup {NoAnswer}]
  /\ close_reason \in Reason \cup {"success"}
  /\ auth_result \in BOOLEAN /\ ares \in {"success", "eauth", "edupid"}
  /\ after_auth \in BOOLEAN /\ cli_callback \in BOOLEAN
  /\ at["main"] \in {"auth", "auth_send", "auth_wait", "auth_wake", "connecting",
       "set_callback", "connected", "iclose", "close", "drain", "callbacks",
       "join", "closed", "failed", "crashed"}
  /\ at["recv"] \in {"recv", "read", "answer", "reply", "reply_send", "ended",
       "tell_auth", "crashed", "iclose", "close", "drain", "callbacks", "tell",
       "done"}
  /\ DOMAIN at = Thread
  /\ err \in Reason \cup Answer /\ cbs \in [Thread -> SUBSET Async]
  /\ ka \in {"off", "check", "wait", "ping", "ping_send", "done", "crashed"}
  /\ pc \in [App -> {"idle", "register", "send", "check", "wait", "woken", "done",
                   "crashed"}]
  /\ result \in [App -> Reason \cup Answer \cup {"einval", "etimeout", NoAnswer}]
  /\ filled \in [Blocking -> BOOLEAN]
  /\ called \in [Async -> Seq(Reason \cup Answer)]
  /\ disconnects \in 0..1
  /\ answer \in [Caller -> Answer \cup {NoAnswer}] /\ incoming \in 0..MaxCalls

\* Client::connect has opened the connection and started recv_loop.
Init ==
  /\ sock_ready = TRUE /\ peer = TRUE /\ inbox = <<>> /\ sent = <<>>
  /\ send_mutex = NoOne /\ sbuffer = [by |-> NoOne, id |-> 0] /\ reqseq = 0
  /\ pending = {} /\ id = [t \in Caller |-> 0]
  /\ rcode = [t \in Blocking |-> NoAnswer] /\ close_reason = "success"
  /\ auth_result = FALSE /\ ares = "eauth"
  /\ after_auth = FALSE /\ cli_callback = FALSE
  /\ at = [main |-> "auth", recv |-> "recv"] /\ err = "econn"
  /\ cbs = [w \in Thread |-> {}] /\ ka = "off"
  /\ pc = [t \in App |-> "idle"] /\ result = [t \in App |-> NoAnswer]
  /\ filled = [t \in Blocking |-> FALSE] /\ called = [t \in Async |-> <<>>]
  /\ disconnects = 0 /\ answer = [t \in Caller |-> NoAnswer] /\ incoming = 0

Go(w, where) == at' = [at EXCEPT ![w] = where]
-----------------------------------------------------------------------------
(***************************************************************************)
(* SocketConn::send.  On a tcp socket a write after the peer has gone may  *)
(* succeed.  Pings are not recorded: the service's answers change nothing. *)
(***************************************************************************)
CanSend  == sock_ready /\ (peer \/ Tcp)
CanFail  == ~sock_ready \/ ~peer
Transmit == sent' = IF sbuffer.by = "ping" THEN sent ELSE Append(sent, sbuffer)
-----------------------------------------------------------------------------
(***************************************************************************)
(* The connecting thread: connect and auth.                                *)
(***************************************************************************)

\* The request does not fit in the buffer.
AuthInvalid ==
  /\ at["main"] = "auth"
  /\ Go("main", "iclose")
  /\ UNCHANGED <<connVars, sendVars, reqVars, authVars, err, cbs, ka, appVars, svcVars>>

AuthBegin ==
  /\ at["main"] = "auth"
  /\ auth_result' = TRUE
  /\ sbuffer' = [by |-> "auth", id |-> 0]
  /\ Go("main", "auth_send")
  /\ UNCHANGED <<connVars, send_mutex, reqseq, reqVars, ares, after_auth,
                 cli_callback, err, cbs, ka, appVars, svcVars>>

\* amutex is held from AuthBegin until the wait begins.
AuthSent ==
  /\ at["main"] = "auth_send" /\ CanSend
  /\ Transmit
  /\ Go("main", "auth_wait")
  /\ UNCHANGED <<sock_ready, peer, inbox, sendVars, reqVars, authVars, err, cbs,
                 ka, appVars, svcVars>>

AuthNotSent ==
  /\ at["main"] = "auth_send" /\ CanFail
  /\ auth_result' = FALSE
  /\ Go("main", "iclose")
  /\ UNCHANGED <<connVars, sendVars, reqVars, ares, after_auth, cli_callback, err,
                 cbs, ka, appVars, svcVars>>

\* acond.wait ends without a notification; ares has its first value.
AuthSpurious ==
  /\ at["main"] = "auth_wait" /\ Disturbed
  /\ Go("main", "auth_wake")
  /\ UNCHANGED <<connVars, sendVars, reqVars, authVars, err, cbs, ka, appVars, svcVars>>

AuthEnd ==
  /\ at["main"] = "auth_wake"
  /\ auth_result' = FALSE
  /\ Go("main", IF ares = "success" THEN "connecting" ELSE "iclose")
  /\ UNCHANGED <<connVars, sendVars, reqVars, ares, after_auth, cli_callback, err,
                 cbs, ka, appVars, svcVars>>

StartKeepalive ==
  /\ at["main"] = "connecting"
  /\ ka' = "check"
  /\ Go("main", "set_callback")
  /\ UNCHANGED <<connVars, sendVars, reqVars, authVars, err, cbs, appVars, svcVars>>

SetCallback ==
  /\ at["main"] = "set_callback"
  /\ cli_callback' = TRUE
  /\ Go("main", "connected")
  /\ UNCHANGED <<connVars, sendVars, reqVars, auth_result, ares, after_auth, err,
                 cbs, ka, appVars, svcVars>>

\* The last reference to the client is given up: no application thread is inside
\* of it, and no Reply refers to it.
Destroy ==
  /\ at["main"] = "connected" /\ at["recv"] \notin {"reply", "reply_send"}
  /\ \A t \in App : pc[t] \in {"idle", "done"}
  /\ Go("main", "iclose")
  /\ UNCHANGED <<connVars, sendVars, reqVars, authVars, err, cbs, ka, appVars, svcVars>>

\* close joins both threads.
Join ==
  /\ at["main"] = "join" /\ at["recv"] = "done" /\ ka \in {"off", "done"}
  /\ after_auth' = FALSE
  /\ Go("main", IF ka = "off" THEN "failed" ELSE "closed")
  /\ UNCHANGED <<connVars, sendVars, reqVars, auth_result, ares, cli_callback, err,
                 cbs, ka, appVars, svcVars>>
-----------------------------------------------------------------------------
(***************************************************************************)
(* iclose, run by either thread.                                           *)
(***************************************************************************)
CloseCheck(w) ==
  /\ at[w] = "iclose"
  /\ Go(w, IF sock_ready THEN "close" ELSE IF w = "main" THEN "join" ELSE "done")
  /\ UNCHANGED <<connVars, sendVars, reqVars, authVars, err, cbs, ka, appVars, svcVars>>

CloseConn(w) ==
  /\ at[w] = "close"
  /\ sock_ready' = FALSE
  /\ Go(w, "drain")
  /\ UNCHANGED <<peer, inbox, sent, sendVars, reqVars, authVars, err, cbs, ka,
                 appVars, svcVars>>

Woken_none == pc

\* req_reply_cond.notify_all()
Woken == [t \in App |-> IF pc[t] = "wait" THEN "woken" ELSE pc[t]]

CloseErr(w) == IF w = "main" THEN "eclosed" ELSE err

Drained_dropped(w) == cbs' = cbs

\* The callbacks of pending requests are taken, to be called after the unlock.
Drained(w) == cbs' = [cbs EXCEPT ![w] = pending \cap Async]

Drain(w) ==
  /\ at[w] = "drain"
  /\ close_reason' = CloseErr(w)
  /\ pc' = Woken
  /\ Drained(w)
  /\ pending' = pending \ Async
  /\ Go(w, "callbacks")
  /\ UNCHANGED <<connVars, sendVars, id, rcode, authVars, err, ka, result, filled,
                 called, disconnects, svcVars>>

CallClosed(w, t) ==
  /\ at[w] = "callbacks" /\ t \in cbs[w]
  /\ cbs' = [cbs EXCEPT ![w] = @ \ {t}]
  /\ called' = [called EXCEPT ![t] = Append(@, CloseErr(w))]
  /\ UNCHANGED <<connVars, sendVars, reqVars, authVars, at, err, ka, pc, result,
                 filled, disconnects, svcVars>>

KeepaliveWoken_not == ka

\* ka_cond.notify_one()
KeepaliveWoken == IF ka = "wait" THEN "check" ELSE ka

\* ka_mutex is free unless the keepalive thread checks or pings.
CloseNotify(w) ==
  /\ at[w] = "callbacks" /\ cbs[w] = {}
  /\ ka \in {"off", "wait", "done"}
  /\ ka' = KeepaliveWoken
  /\ Go(w, IF w = "main" THEN "join" ELSE "tell")
  /\ UNCHANGED <<connVars, sendVars, reqVars, authVars, err, cbs, appVars, svcVars>>

Told_active == disconnects

Told == IF cli_callback THEN disconnects + 1 ELSE disconnects

\* The passive part of iclose.
Tell ==
  /\ at["recv"] = "tell"
  /\ disconnects' = Told
  /\ Go("recv", "done")
  /\ UNCHANGED <<connVars, sendVars, reqVars, authVars, err, cbs, ka, pc, result,
                 filled, called, svcVars>>
-----------------------------------------------------------------------------
(***************************************************************************)
(* The receiving thread: recv_loop and the handlers.                       *)
(***************************************************************************)
RecvEnter ==
  /\ at["recv"] = "recv"
  /\ Go("recv", IF sock_ready THEN "read" ELSE "ended")
  /\ UNCHANGED <<connVars, sendVars, reqVars, authVars, err, cbs, ka, appVars, svcVars>>

RecvEnd ==
  /\ at["recv"] = "read"
  /\ ~sock_ready \/ (inbox = <<>> /\ ~peer)
  /\ Go("recv", "ended")
  /\ UNCHANGED <<connVars, sendVars, reqVars, authVars, err, cbs, ka, appVars, svcVars>>

\* recv_loop leaves its loop: auth_result is read without a lock.
EndErr == err' = IF auth_result THEN "eauth" ELSE "econn"

RecvEnded ==
  /\ at["recv"] = "ended"
  /\ EndErr
  /\ Go("recv", IF auth_result THEN "tell_auth" ELSE "iclose")
  /\ UNCHANGED <<connVars, sendVars, reqVars, authVars, cbs, ka, appVars, svcVars>>

\* auth_result is read again, and amutex is taken once auth waits.
TellAuth ==
  /\ at["recv"] = "tell_auth" /\ auth_result
  /\ at["main"] \in {"auth_wait", "auth_wake"}
  /\ at' = [main |-> "auth_wake", recv |-> "iclose"]
  /\ auth_result' = FALSE
  /\ UNCHANGED <<connVars, sendVars, reqVars, ares, after_auth, cli_callback, err,
                 cbs, ka, appVars, svcVars>>

\* Where auth_result is null by now, when it is read again or the answer is stored,
\* the process dies, with all its threads.
Crash ==
  /\ ~auth_result
  /\ \/ at["recv"] = "tell_auth"
     \/ /\ at["recv"] = "read" /\ inbox # <<>> /\ Head(inbox).cmd = "auth"
        /\ sock_ready /\ ~after_auth
  /\ at' = [w \in Thread |-> "crashed"]
  /\ ka' = "crashed"
  /\ pc' = [t \in App |-> "crashed"]
  /\ UNCHANGED <<connVars, sendVars, reqVars, authVars, err, cbs, result, filled,
                 called, disconnects, svcVars>>

Received(cmd) ==
  /\ at["recv"] = "read" /\ inbox # <<>> /\ Head(inbox).cmd = cmd
  /\ inbox' = Tail(inbox)

AuthTold_not == [at EXCEPT !["recv"] = "recv"]

AuthTold == [main |-> "auth_wake", recv |-> "recv"]

\* handle_cmd_before_auth: amutex is free when auth waits.
RecvAuth ==
  /\ ~after_auth /\ at["main"] = "auth_wait"
  /\ Received("auth")
  /\ ares' = Head(inbox).code
  /\ after_auth' = TRUE
  /\ at' = AuthTold
  /\ UNCHANGED <<sock_ready, peer, sent, sendVars, reqVars, auth_result,
                 cli_callback, err, cbs, ka, appVars, svcVars>>

Matching_any(msgid) == pending

\* The pending requests a reply with this id is for.
Matching(msgid) == {t \in pending : id[t] = msgid}

RecvReplyLate ==
  /\ Received("reply")
  /\ Matching(Head(inbox).id) = {}
  /\ Go("recv", "recv")
  /\ UNCHANGED <<sock_ready, peer, sent, sendVars, reqVars, authVars, err, cbs, ka,
                 appVars, svcVars>>

RecvReplyBlocking(t) ==
  /\ Received("reply")
  /\ t \in Matching(Head(inbox).id) \cap Blocking
  /\ id' = [id EXCEPT ![t] = 0]
  /\ rcode' = [rcode EXCEPT ![t] = Head(inbox).code]
  /\ filled' = [filled EXCEPT ![t] = @ \/ Head(inbox).code = "success"]
  /\ pc' = Woken
  /\ Go("recv", "recv")
  /\ UNCHANGED <<sock_ready, peer, sent, sendVars, pending, close_reason, authVars,
                 err, cbs, ka, result, called, disconnects, svcVars>>

AnsweredRemoved_not(t) == pending

AnsweredRemoved(t) == pending \ {t}

RecvReplyAsync(t) ==
  /\ Received("reply")
  /\ t \in Matching(Head(inbox).id) \cap Async
  /\ pending' = AnsweredRemoved(t)
  /\ cbs' = [cbs EXCEPT !["recv"] = {t}]
  /\ err' = Head(inbox).code
  /\ Go("recv", "answer")
  /\ UNCHANGED <<sock_ready, peer, sent, sendVars, id, rcode, close_reason,
                 authVars, ka, appVars, svcVars>>

\* The callback is called after the unlock.
CallAnswered(t) ==
  /\ at["recv"] = "answer" /\ t \in cbs["recv"]
  /\ called' = [called EXCEPT ![t] = Append(@, err)]
  /\ cbs' = [cbs EXCEPT !["recv"] = {}]
  /\ Go("recv", "recv")
  /\ UNCHANGED <<connVars, sendVars, reqVars, authVars, err, ka, pc, result, filled,
                 disconnects, svcVars>>

\* recv_call: the application ends the Reply in its callback.  A Reply made during
\* the destruction has no client to send with.
RecvCall ==
  /\ Received("call")
  /\ Go("recv", IF cli_callback /\ at["main"] = "connected" THEN "reply" ELSE "recv")
  /\ UNCHANGED <<sock_ready, peer, sent, sendVars, reqVars, authVars, err, cbs, ka,
                 appVars, svcVars>>

ReplyBegin ==
  /\ at["recv"] = "reply" /\ send_mutex = NoOne
  /\ send_mutex' = "recv"
  /\ sbuffer' = [by |-> "reply", id |-> 0]
  /\ Go("recv", "reply_send")
  /\ UNCHANGED <<connVars, reqseq, reqVars, authVars, err, cbs, ka, appVars, svcVars>>

ReplySend ==
  /\ at["recv"] = "reply_send"
  /\ (CanSend /\ Transmit) \/ (CanFail /\ UNCHANGED sent)
  /\ send_mutex' = NoOne
  /\ Go("recv", "recv")
  /\ UNCHANGED <<sock_ready, peer, inbox, sbuffer, reqseq, reqVars, authVars, err,
                 cbs, ka, appVars, svcVars>>
-----------------------------------------------------------------------------
(***************************************************************************)
(* The keepalive thread.  It holds ka_mutex except while it waits.         *)
(***************************************************************************)
KeepaliveCheck ==
  /\ ka = "check"
  /\ ka' = IF sock_ready THEN "wait" ELSE "done"
  /\ UNCHANGED <<connVars, sendVars, reqVars, authVars, at, err, cbs, appVars, svcVars>>

KeepaliveTimeout ==
  /\ ka = "wait"
  /\ ka' = "ping"
  /\ UNCHANGED <<connVars, sendVars, reqVars, authVars, at, err, cbs, appVars, svcVars>>

PingBegin ==
  /\ ka = "ping" /\ send_mutex = NoOne
  /\ send_mutex' = "ka"
  /\ sbuffer' = [by |-> "ping", id |-> 0]
  /\ ka' = "ping_send"
  /\ UNCHANGED <<connVars, reqseq, reqVars, authVars, at, err, cbs, appVars, svcVars>>

PingSend ==
  /\ ka = "ping_send"
  /\ (CanSend /\ Transmit) \/ (CanFail /\ UNCHANGED sent)
  /\ send_mutex' = NoOne
  /\ ka' = "check"
  /\ UNCHANGED <<sock_ready, peer, inbox, sbuffer, reqseq, reqVars, authVars, at,
                 err, cbs, appVars, svcVars>>
-----------------------------------------------------------------------------
(***************************************************************************)
(* The application threads: call, and the requests without an answer.      *)
(***************************************************************************)
Start(t) == at["main"] = "connected" /\ pc[t] = "idle"

NextSeq(t) == IF t \in Caller THEN reqseq + 1 ELSE reqseq

\* A request that is not valid, or too big for the buffer.
Reject(t) ==
  /\ Start(t) /\ send_mutex = NoOne
  /\ reqseq' = NextSeq(t)
  /\ result' = [result EXCEPT ![t] = "einval"]
  /\ pc' = [pc EXCEPT ![t] = "done"]
  /\ UNCHANGED <<connVars, send_mutex, sbuffer, reqVars, authVars, threadVars,
                 filled, called, disconnects, svcVars>>

SendLocked_not == FALSE

SendLocked == send_mutex # NoOne

Serialize(t) ==
  /\ Start(t) /\ ~SendLocked
  /\ send_mutex' = t
  /\ reqseq' = NextSeq(t)
  /\ sbuffer' = [by |-> t, id |-> IF t \in Caller THEN reqseq' ELSE 0]
  /\ pc' = [pc EXCEPT ![t] = IF t \in Caller THEN "register" ELSE "send"]
  /\ UNCHANGED <<connVars, reqVars, authVars, threadVars, result, filled, called,
                 disconnects, svcVars>>

Register(t) ==
  /\ pc[t] = "register"
  /\ pending' = pending \cup {t}
  /\ id' = [id EXCEPT ![t] = reqseq]
  /\ pc' = [pc EXCEPT ![t] = "send"]
  /\ UNCHANGED <<connVars, sendVars, rcode, close_reason, authVars, threadVars,
                 result, filled, called, disconnects, svcVars>>

Sent(t) ==
  /\ pc[t] = "send" /\ CanSend
  /\ Transmit
  /\ send_mutex' = NoOne
  /\ pc' = [pc EXCEPT ![t] = IF t \in Blocking THEN "check" ELSE "done"]
  /\ result' = [result EXCEPT ![t] = IF t \in Blocking THEN @ ELSE "success"]
  /\ UNCHANGED <<sock_ready, peer, inbox, sbuffer, reqseq, reqVars, authVars,
                 threadVars, filled, called, disconnects, svcVars>>

\* The request stays in the list.
NotSent(t) ==
  /\ pc[t] = "send" /\ CanFail
  /\ send_mutex' = NoOne
  /\ pc' = [pc EXCEPT ![t] = "done"]
  /\ result' = [result EXCEPT ![t] = "econn"]
  /\ UNCHANGED <<connVars, sbuffer, reqseq, reqVars, authVars, threadVars, filled,
                 called, disconnects, svcVars>>

Erased_not(t) == pending

Erased(t) == pending \ {t}

Return(t, code) ==
  /\ pc' = [pc EXCEPT ![t] = "done"]
  /\ result' = [result EXCEPT ![t] = code]
  /\ pending' = Erased(t)

Check(t) ==
  /\ pc[t] \in {"check", "woken"}
  /\ IF id[t] = 0 THEN Return(t, rcode[t])
     ELSE IF ~sock_ready THEN Return(t, close_reason)
     ELSE pc' = [pc EXCEPT ![t] = "wait"] /\ UNCHANGED <<result, pending>>
  /\ UNCHANGED <<connVars, sendVars, id, rcode, close_reason, authVars, threadVars,
                 filled, called, disconnects, svcVars>>

\* wait_until may report a timeout although the reply has come meanwhile.
Timeout(t) ==
  /\ pc[t] \in {"wait", "woken"}
  /\ Return(t, "etimeout")
  /\ UNCHANGED <<connVars, sendVars, id, rcode, close_reason, authVars, threadVars,
                 filled, called, disconnects, svcVars>>
-----------------------------------------------------------------------------
(***************************************************************************)
(* The service and the network.  A read that times out on a silent tcp     *)
(* connection has the effect of Breaks.                                    *)
(***************************************************************************)
Breaks ==
  /\ peer
  /\ Disturbed \/ at["main"] \notin {"auth", "auth_send", "auth_wait", "auth_wake",
                                     "connecting", "set_callback"}
  /\ peer' = FALSE
  /\ UNCHANGED <<sock_ready, inbox, sent, sendVars, reqVars, authVars, threadVars,
                 appVars, svcVars>>

Post(m) ==
  /\ peer
  /\ inbox' = Append(inbox, m)
  /\ UNCHANGED <<sock_ready, peer, sent, sendVars, reqVars, authVars, threadVars,
                 appVars>>

AnswerAuth(code) ==
  /\ at["main"] = "auth_wait" /\ ~after_auth /\ inbox = <<>>
  /\ Post([cmd |-> "auth", id |-> 0, code |-> code])
  /\ UNCHANGED svcVars

\* The service answers each call once (AtMostOneAnswer of the Dispatcher).
AnswerCall(t, code) ==
  /\ answer[t] = NoAnswer
  /\ \E i \in 1..Len(sent) :
       sent[i].by = t /\ Post([cmd |-> "reply", id |-> sent[i].id, code |-> code])
  /\ answer' = [answer EXCEPT ![t] = code]
  /\ UNCHANGED incoming

CallClient ==
  /\ at["main"] = "connected" /\ incoming < MaxCalls
  /\ Post([cmd |-> "call", id |-> 0, code |-> "success"])
  /\ incoming' = incoming + 1
  /\ UNCHANGED answer
-----------------------------------------------------------------------------
Iclose(w) ==
  \/ CloseCheck(w) \/ CloseConn(w) \/ Drain(w) \/ CloseNotify(w)
  \/ \E t \in Async : CallClosed(w, t)

MainStep ==
  \/ AuthInvalid \/ AuthBegin \/ AuthSent \/ AuthNotSent \/ AuthEnd
  \/ StartKeepalive \/ SetCallback \/ Iclose("main") \/ Join

RecvStep ==
  \/ RecvEnter \/ RecvEnd \/ RecvEnded \/ TellAuth \/ Crash \/ RecvAuth \/ RecvReplyLate
  \/ \E t \in Blocking : RecvReplyBlocking(t)
  \/ \E t \in Async : RecvReplyAsync(t) \/ CallAnswered(t)
  \/ RecvCall \/ ReplyBegin \/ ReplySend \/ Iclose("recv") \/ Tell

KeepaliveStep == KeepaliveCheck \/ PingBegin \/ PingSend

AppStep(t) == Sent(t) \/ NotSent(t) \/ (t \in Caller /\ Register(t))
              \/ (t \in Blocking /\ Check(t))

Service ==
  \/ \E code \in {"success", "edupid"} : AnswerAuth(code)
  \/ \E t \in Caller, code \in Answer : AnswerCall(t, code)

Next ==
  \/ MainStep \/ RecvStep \/ KeepaliveStep \/ Service
  \/ \E t \in App : AppStep(t) \/ Reject(t) \/ Serialize(t)
  \/ \E t \in Blocking : Timeout(t)
  \/ AuthSpurious \/ Destroy \/ KeepaliveTimeout \/ Breaks \/ CallClient

Spec == Init /\ [][Next]_vars

\* The threads keep running and the service answers.  No timeout has to happen,
\* and the application need not start anything.
FairSpec ==
  /\ Spec
  /\ WF_vars(MainStep) /\ SF_vars(RecvStep) /\ SF_vars(KeepaliveStep)
  /\ WF_vars(Service) /\ \A t \in App : WF_vars(AppStep(t))
-----------------------------------------------------------------------------
Times(t) == Cardinality({i \in 1..Len(sent) : sent[i].by = t})

\* Threads share sbuffer: what each of them writes to the socket is the request it
\* has serialized, once, and one that is refused as not valid is not written.
SentIntact ==
  \A t \in App :
    /\ pc[t] \in {"idle", "register", "send"} \/ result[t] = "einval" => Times(t) = 0
    /\ pc[t] \in {"check", "wait", "woken"} \/ result[t] \in Answer \cup {"etimeout"} => Times(t) = 1

\* A callback is called once at most, however the reply, the end of the connection
\* and the destruction of the client interleave.
CalledOnce == \A t \in Async : Len(called[t]) <= 1

\* A callback gets the service's answer to its own call or the reason of the end,
\* and a Response is filled by the answer to its own call.
AnswersBelong ==
  /\ \A t \in Async : \A i \in 1..Len(called[t]) : called[t][i] \in Reason \cup {answer[t]}
  /\ \A t \in Blocking : filled[t] => answer[t] = "success"
  /\ \A t \in Blocking : rcode[t] \in {NoAnswer, answer[t]}

\* The receiving thread writes to the Response of a blocking call only while the
\* caller is inside call: after a timeout the object may be gone.
NoWriteAfterReturn ==
  [][\A t \in Blocking : filled'[t] # filled[t] =>
       pc[t] \in {"check", "wait", "woken"}]_vars

\* Success is returned by a blocking call that has been answered with success.
SuccessMeansReply ==
  \A t \in Blocking : result[t] = "success" => filled[t]

\* A caller that waits is released when the connection is closed, without its
\* timeout having to expire.
Released ==
  \A t \in Blocking : pc[t] = "wait" /\ ~sock_ready ~> pc[t] = "done"

\* A call with a callback that has been accepted is followed by its callback.
CalledBack ==
  \A t \in Async : result[t] = "success" ~> called[t] # <<>>

\* Destroying the client ends: both of its threads can be joined.
DestroyEnds ==
  at["main"] = "iclose" ~> at["main"] \in {"closed", "failed"}

\* connect returns, where nothing disturbs it.
ConnectReturns ==
  at["main"] = "auth" ~> at["main"] \in {"connected", "failed"}

\* The application is told when a connection that connect has returned breaks.
Notified ==
  at["main"] = "connected" /\ ~peer ~> disconnects > 0 \/ at["main"] # "connected"
=============================================================================
