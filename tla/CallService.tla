---------------------------- MODULE CallService -----------------------------
(***************************************************************************)
(* What the service promises about method calls, without connections,      *)
(* queues, threads, deadlines and buffers.                                 *)
(*                                                                         *)
(* A call names the id of a client.  It is given to at most one client,    *)
(* which has that id, and is answered at most once: with the reply of that *)
(* very client, with "enexists" if nobody was given it, or with "etimeout" *)
(* if it was accepted.  A reply to a call that has been answered, or whose *)
(* caller is gone, is lost.  A client that is gone gets no answer.         *)
(***************************************************************************)
EXTENDS Naturals, Sequences

CONSTANTS
  Client,  \* callers and callees
  Id,      \* the ids that calls may name
  IdOf,    \* the id of each client
  NoClient,
  CallId   \* the numbers of the calls of one client

VARIABLES
  asked,     \* the id that each call of a client names
  accepted,  \* the calls that a client has been found for
  held,      \* the calls each client has been given and whose reply is not used up
  outcome    \* what each caller has been told about each call

vars == <<asked, accepted, held, outcome>>

Call == [sender : Client, cliid : CallId]

Init ==
  /\ asked = [c \in Client |-> <<>>]
  /\ accepted = {}
  /\ held = [c \in Client |-> {}]
  /\ outcome = [c \in Client |-> [i \in CallId |-> <<>>]]

Asked(call) == call.cliid \in 1..Len(asked[call.sender])

Open(call) == Asked(call) /\ outcome[call.sender][call.cliid] = <<>>

Told(call, code, by) ==
  outcome' = [outcome EXCEPT ![call.sender][call.cliid] = <<[code |-> code, from |-> by]>>]

Ask(c, id) ==
  /\ asked' = [asked EXCEPT ![c] = Append(@, id)]
  /\ UNCHANGED <<accepted, held, outcome>>

\* Nobody has the id, or its client has no such method.
Refuse(call) ==
  /\ Open(call) /\ call \notin accepted
  /\ Told(call, "enexists", NoClient)
  /\ UNCHANGED <<asked, accepted, held>>

\* The request may get lost on its way to the client.
Accept(call, by) ==
  /\ Open(call) /\ call \notin accepted
  /\ asked[call.sender][call.cliid] = IdOf[by]
  /\ accepted' = accepted \cup {call}
  /\ \/ held' = [held EXCEPT ![by] = @ \cup {call}]
     \/ UNCHANGED held
  /\ UNCHANGED <<asked, outcome>>

Succeed(call, by) ==
  /\ call \in held[by] /\ Open(call)
  /\ held' = [held EXCEPT ![by] = @ \ {call}]
  /\ Told(call, "success", by)
  /\ UNCHANGED <<asked, accepted>>

Lose(call, by) ==
  /\ call \in held[by]
  /\ held' = [held EXCEPT ![by] = @ \ {call}]
  /\ UNCHANGED <<asked, accepted, outcome>>

TimeOut(call) ==
  /\ Open(call) /\ call \in accepted
  /\ Told(call, "etimeout", NoClient)
  /\ UNCHANGED <<asked, accepted, held>>

Next ==
  \/ \E c \in Client, id \in Id : Ask(c, id)
  \/ \E call \in Call : Refuse(call) \/ TimeOut(call)
  \/ \E call \in Call, by \in Client : Accept(call, by) \/ Succeed(call, by) \/ Lose(call, by)

Spec == Init /\ [][Next]_vars
=============================================================================
