----------------------------- MODULE Dispatcher -----------------------------
(***************************************************************************)
(* The flora service as a whole: the poll thread, the dispatcher thread and *)
(* the clients, with the properties the service is expected to have.       *)
(***************************************************************************)
EXTENDS DispatcherRegistry, DispatcherTopics, DispatcherCalls

PollStep(a) == PollClose(a) \/ PollErase(a)

Handle ==
  \/ CloseSender
  \/ AuthReject \/ AuthMonitor \/ AuthAdapter
  \/ EraseAdapter \/ EraseMonitor
  \/ Subscribe \/ Unsubscribe \/ Post \/ Ping
  \/ DeclareMethod \/ RemoveMethod
  \/ CallUnknown \/ CallForward
  \/ ReplyDropped
  \/ \E i \in 1..Len(pending_calls) : ReplyForward(i) \/ ReplyTooBig(i)

DispatcherStep ==
  \/ Splice \/ Exit \/ Handle
  \/ DiscardBegin \/ DiscardCall \/ DiscardCrash \/ DiscardEnd

Next ==
  \/ \E a \in Adapter :
       \/ Connect(a)
       \/ \E p \in Request(a) : Send(a, p)
       \/ \E svrid \in incoming[a], d \in Data : SendReply(a, svrid, d)
       \/ Disconnect(a)
       \/ PollStep(a)
  \/ DispatcherStep
  \/ Close
  \/ Tick

Spec == Init /\ [][Next]_vars

\* The two threads of the service run, and time passes; clients owe nothing.
FairSpec ==
  /\ Spec
  /\ WF_vars(DispatcherStep)
  /\ \A a \in Adapter : WF_vars(PollStep(a))
  /\ WF_vars(Tick)
-----------------------------------------------------------------------------
(***************************************************************************)
(* Registration.                                                           *)
(***************************************************************************)

\* do_erase_adapter erases what Adapter::info points to and leaves the pointer.
\* Afterwards such a pointer is followed neither through the sender of a packet, nor
\* through named_adapters (handle_call_req), nor through a subscriber or a caller
\* that is not closed (post_msg, handle_reply_req, pending_call_timeout).  The info
\* of the target of a call, which pending_call_timeout reads when the caller does
\* not take its answer, is in place as long as the connection of the target lives;
\* later it need not be (DiscardCrash).
NoDanglingInfo ==
  /\ \A i \in it + 1..Len(pending_cmds) : ~Dangling(pending_cmds[i].sender)
  /\ \A i \in 1..Len(cmd_packets) : ~Dangling(cmd_packets[i].sender)
  /\ \A n \in Name : named_adapters[n] # NoAdapter =>
       named_adapters[n] \in adapter_infos /\ info[named_adapters[n]] = "adapter"
  /\ \A a \in Adapter \ closed :
       /\ \/ \E t \in Topic : subscriptions[t][a] > 0
          \/ \E i \in 1..Len(pending_calls) : pending_calls[i].sender = a
       => info[a] # "null" /\ ~Dangling(a)
  /\ \A i \in 1..Len(pending_calls) :
       Dangling(pending_calls[i].target) => poll[pending_calls[i].target] = "deleted"

SameId(a, b) == ClientName[a] = ClientName[b] /\ ClientName[a] # NoName

\* The ids that monitors use too.
MonitorName == {ClientName[m] : m \in MonitorClient}

\* No two registered clients have the same id (FLORA_CLI_EDUPID), as long as no
\* monitor uses it: do_erase_adapter of a late packet never frees the id of the
\* client that has taken it over.
IdsUnique ==
  \A a, b \in adapter_infos :
    SameId(a, b) /\ ClientName[a] \notin MonitorName => a = b

\* The poll thread has deleted the adapter and nothing is queued that would
\* make the dispatcher forget it.
Abandoned(a) ==
  /\ poll[a] = "deleted"
  /\ \A i \in it + 1..Len(pending_cmds) : pending_cmds[i].sender # a
  /\ \A i \in 1..Len(cmd_packets) : cmd_packets[i].sender # a

\* An id is held, and an entry of adapter_infos or monitors kept, for a client
\* that waited for its authentication only while its connection lives or its
\* erasure is queued (erase_adapter, do_erase_adapter).
PatientForgotten ==
  \A a \in Patient : Abandoned(a) =>
    /\ a \notin adapter_infos \cup monitors
    /\ \A n \in Name : named_adapters[n] # a

\* What a monitor is told (list_all, list_add, list_remove) adds up to
\* adapter_infos: no client is listed twice or left over, and none is missing but
\* those whose message did not fit in the buffer of the server.
MonitorViewExact ==
  \A m \in monitors \ closed : \A a \in Adapter :
    view[m][a] = IF a \in adapter_infos \ untold[m] THEN 1 ELSE 0

\* Dispatcher::close ends the dispatcher thread, whatever is queued or pending.
CloseEnds == ~working ~> ~running
-----------------------------------------------------------------------------
(***************************************************************************)
(* Subscriptions.                                                          *)
(***************************************************************************)

\* Every subscriber is listed once, so a post reaches it once.
NoDuplicateSubscription ==
  \A t \in Topic, a \in Adapter : subscriptions[t][a] <= 1

\* The last persistent message a subscriber was sent is the one the dispatcher
\* keeps, whether it subscribed before or after the post, unless that one did
\* not fit in the buffer.
PersistCoherent ==
  \A t \in Topic, a \in Adapter \ closed :
    /\ subscriptions[t][a] > 0
    /\ persist_msgs[t] \notin {NoData} \cup BigNamed
    => seen[a][t] = persist_msgs[t]

\* A subscriber whose connection lives is dropped only by its own request:
\* neither clear_sub_gabages nor another client's request or death does it.
SubscriberKept ==
  [][\A t \in Topic, a \in Adapter :
       /\ subscriptions[t][a] > 0 /\ a \notin closed
       /\ subscriptions'[t][a] = 0
       => Handling("unsubscribe") /\ Cmd.sender = a /\ Cmd.name = t]_vars
-----------------------------------------------------------------------------
(***************************************************************************)
(* Calls.                                                                  *)
(***************************************************************************)

\* A call is answered at most once: a reply and the timeout of its call, or a
\* reply that comes after it, never both reach the caller.
AtMostOneAnswer ==
  \A a \in Adapter, c \in CallId : Len(answers[a][c]) <= 1

\* The reply that reaches a caller was given to that very call, by the client
\* whose id the caller named, in whatever order replies and timeouts arrive.
AnsweredByTarget ==
  \A a \in Adapter, c \in CallId : \A i \in 1..Len(answers[a][c]) :
    LET ans == answers[a][c][i] IN
    ans.code = "success" =>
      /\ forwarded[ans.svrid] = [sender |-> a, cliid |-> c]
      /\ ClientName[ans.from] = asked[a][c]

\* handle_cmds and discard_pending_calls look at the first pending call only.
\* When any call is overdue, that one is, so none is waited for too long and
\* none is left behind: add_pending_call keeps the list sorted.
OverdueNoticed ==
  LET t == IF tp = NoTime THEN now ELSE tp IN
  (\E i \in 1..Len(pending_calls) : pending_calls[i].discard_tp <= t) => Overdue(t)

\* Every call of a client that stays connected is answered, even if its target
\* dies or never replies, unless the service ends: by Dispatcher::close, or in
\* pending_call_timeout (DiscardCrash).
CallsAnswered ==
  \A a \in Adapter, c \in CallId :
    c <= Len(asked[a]) ~>
      (answers[a][c] # <<>> \/ a \in closed \cup gone \/ ~running)
=============================================================================
