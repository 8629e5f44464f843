--------------------------- MODULE CallRefinement ---------------------------
(***************************************************************************)
(* The service as an implementation of CallService.                        *)
(***************************************************************************)
EXTENDS Dispatcher

\* What is still to be handled: the rest of the batch, and the queue.
Waiting ==
  {pending_cmds[i] : i \in it + 1..Len(pending_cmds)}
    \cup {cmd_packets[i] : i \in 1..Len(cmd_packets)}

\* The calls that a client has replied to, of the replies still to be handled.
Replied(b) == {p.svrid : p \in {q \in Waiting : q.cmd = "reply" /\ q.sender = b}}

AcceptedCalls == {forwarded[k] : k \in DOMAIN forwarded}

HeldCalls == [b \in Adapter |-> {forwarded[k] : k \in incoming[b] \cup Replied(b)}]

Outcome ==
  [a \in Adapter |-> [c \in CallId |->
     [i \in DOMAIN answers[a][c] |->
        [code |-> answers[a][c][i].code, from |-> answers[a][c][i].from]]]]

Service == INSTANCE CallService WITH
  Client <- Adapter, Id <- Name \cup {NoName}, IdOf <- ClientName, NoClient <- NoAdapter,
  accepted <- AcceptedCalls, held <- HeldCalls, outcome <- Outcome

\* The handlers of calls and replies, the discarding of overdue calls, lost writes
\* and departing clients together behave like the abstract service.
ImplementsCallService == Service!Spec
=============================================================================
