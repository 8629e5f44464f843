-------------------------- MODULE DispatcherCalls ---------------------------
(***************************************************************************)
(* Methods and calls: handle_declare_method, handle_remove_method,         *)
(* handle_call_req, handle_reply_req and discard_pending_calls in          *)
(* src/src/disp.cc.                                                        *)
(***************************************************************************)
EXTENDS DispatcherCore

DeclareMethod ==
  LET s == Cmd.sender IN
  /\ Accepted("declare")
  /\ declared_methods' = [declared_methods EXCEPT ![s] = @ \cup {Cmd.name}]
  /\ Advance
  /\ UNCHANGED <<closed, info, adapter_infos, monitors, named_adapters,
                 subVars, callVars, wireVars>>

RemoveMethod ==
  LET s == Cmd.sender IN
  /\ Accepted("remove")
  /\ declared_methods' = [declared_methods EXCEPT ![s] = @ \ {Cmd.name}]
  /\ Advance
  /\ UNCHANGED <<closed, info, adapter_infos, monitors, named_adapters,
                 subVars, callVars, wireVars>>

\* named_adapters.find; the empty id is never in the map.
FindNamed(n) == IF n = NoName THEN NoAdapter ELSE named_adapters[n]

Callable(p) ==
  /\ FindNamed(p.target) # NoAdapter
  /\ p.name \in declared_methods[FindNamed(p.target)]

\* One more answer to a call, unless the write does not reach the caller.
Answer(a, cliid, code, from, svrid, failed) ==
  answers' = IF a \in Reached({a}, failed)
             THEN [answers EXCEPT ![a][cliid] =
                     Append(@, [code |-> code, from |-> from, svrid |-> svrid])]
             ELSE answers

\* handle_call_req of a target or method that does not exist.
CallUnknown ==
  LET s == Cmd.sender IN
  /\ Accepted("call") /\ ~Callable(Cmd)
  /\ \E failed \in Failing({s}) :
       /\ Answer(s, Cmd.cliid, "enexists", NoAdapter, 0, failed)
       /\ closed' = closed \cup failed
  /\ Advance
  /\ UNCHANGED <<infoVars, subVars, callVars, authres, incoming, seen, view, untold>>

Deadline(timeout) ==
  now + (IF timeout = 0 THEN DEFAULT_CALL_TIMEOUT ELSE timeout)

\* Mutant: always at the end.
InsertedAt_end(k, t) == k = Len(pending_calls) + 1

\* add_pending_call inserts a call that is discarded at t before the first
\* pending call that is not discarded earlier; there is exactly one such k.
InsertedAt(k, t) ==
  /\ \A i \in 1..k - 1 : pending_calls[i].discard_tp < t
  /\ k <= Len(pending_calls) => pending_calls[k].discard_tp >= t

Inserted(k, pc) ==
  [i \in 1..Len(pending_calls) + 1 |->
     IF i < k THEN pending_calls[i]
     ELSE IF i = k THEN pc ELSE pending_calls[i - 1]]

\* Mutant: the call is left pending.
Removed_not(k) == pending_calls

Removed(k) ==
  [i \in 1..Len(pending_calls) - 1 |->
     IF i < k THEN pending_calls[i] ELSE pending_calls[i + 1]]

\* Dispatcher::reqseq.
reqseq == Len(forwarded)

add_pending_call(p) ==
  LET t == Deadline(p.timeout) IN
  \E k \in 1..Len(pending_calls) + 1 :
    /\ InsertedAt(k, t)
    /\ pending_calls' = Inserted(k, [svrid |-> reqseq + 1, cliid |-> p.cliid,
                                     sender |-> p.sender,
                                     target |-> FindNamed(p.target),
                                     discard_tp |-> t])

\* handle_call_req of an existing method: the call is pending and written to
\* the target, which may be gone by now.  A call that does not fit in the
\* buffer stays pending, and the handler fails, which closes the caller.
CallForward ==
  LET target == FindNamed(Cmd.target)
      to == IF Cmd.data \in BigNamed THEN {} ELSE {target} IN
  /\ Accepted("call") /\ Callable(Cmd)
  /\ forwarded' = Append(forwarded, [sender |-> Cmd.sender, cliid |-> Cmd.cliid])
  /\ add_pending_call(Cmd)
  /\ \E failed \in Failing(to) :
       /\ incoming' = IF target \in Reached(to, failed)
                      THEN [incoming EXCEPT ![target] = @ \cup {reqseq + 1}]
                      ELSE incoming
       /\ closed' = closed \cup failed
                      \cup (IF to = {} THEN {Cmd.sender} ELSE {})
  /\ Advance
  /\ UNCHANGED <<infoVars, subVars, authres, answers, seen, view, untold>>

\* Mutant: any call of the replier.
Matches_target(i, p) == pending_calls[i].target = p.sender

\* The pending call a reply is for.
Matches(i, p) ==
  /\ pending_calls[i].svrid = p.svrid
  /\ pending_calls[i].target = p.sender

\* handle_reply_req of a call that has timed out, or whose caller is closed: the
\* reply is dropped, the pending call left for its timeout.
ReplyDropped ==
  /\ Accepted("reply")
  /\ \A i \in 1..Len(pending_calls) :
       Matches(i, Cmd) => pending_calls[i].sender \in closed
  /\ Advance
  /\ UNCHANGED <<closed, infoVars, subVars, callVars, wireVars>>

\* The pending call a reply is for is the first that matches.
ReplyTo(i) ==
  /\ Accepted("reply")
  /\ Matches(i, Cmd) /\ \A j \in 1..i - 1 : ~Matches(j, Cmd)
  /\ pending_calls[i].sender \notin closed

ReplyForward(i) ==
  LET pc == pending_calls[i] IN
  /\ ReplyTo(i) /\ Cmd.data \notin BigNamed
  /\ \E failed \in Failing({pc.sender}) :
       /\ Answer(pc.sender, pc.cliid, "success", Cmd.sender, Cmd.svrid, failed)
       /\ closed' = closed \cup failed
  /\ pending_calls' = Removed(i)
  /\ Advance
  /\ UNCHANGED <<infoVars, subVars, forwarded, authres, incoming, seen, view, untold>>

\* Mutant: the call is no longer pending.
ReplyTooBig_removed(i) ==
  /\ ReplyTo(i) /\ Cmd.data \in BigNamed
  /\ closed' = closed \cup {Cmd.sender}
  /\ pending_calls' = Removed(i)
  /\ Advance
  /\ UNCHANGED <<infoVars, subVars, forwarded, wireVars>>

\* The reply does not fit in the buffer: the handler fails, which closes the
\* replier; the call is left for its timeout.
ReplyTooBig(i) ==
  /\ ReplyTo(i) /\ Cmd.data \in BigNamed
  /\ closed' = closed \cup {Cmd.sender}
  /\ Advance
  /\ UNCHANGED <<infoVars, subVars, callVars, wireVars>>

Overdue(t) == pending_calls # <<>> /\ Head(pending_calls).discard_tp <= t

\* discard_pending_calls starts, with cmd_mutex held, when nothing is queued; it
\* reads the clock once.
DiscardBegin ==
  /\ LoopTop /\ working /\ cmd_packets = <<>>
  /\ Overdue(now)
  /\ tp' = now
  /\ UNCHANGED <<connVars, closed, infoVars, subVars, queueVars, callVars, now,
                 threadVars, clientVars, wireVars>>

\* One round of its loop: pending_call_timeout of the first pending call.
DiscardCall ==
  LET pc == Head(pending_calls) IN
  /\ running /\ tp # NoTime /\ Overdue(tp)
  /\ \E failed \in Failing({pc.sender}) :
       /\ Answer(pc.sender, pc.cliid, "etimeout", NoAdapter, pc.svrid, failed)
       /\ closed' = closed \cup failed
  /\ pending_calls' = Tail(pending_calls)
  /\ UNCHANGED <<connVars, infoVars, subVars, queueVars, forwarded, now, tp,
                 threadVars, clientVars, authres, incoming, seen, view, untold>>

\* When that write times out, the ids of the caller and of the target are logged.
\* The info of a target that was erased while the call was pending is gone: to read
\* it is undefined, harmless (DiscardCall) or the end of the process, after which
\* nothing is claimed.
DiscardCrash ==
  LET pc == Head(pending_calls) IN
  /\ running /\ tp # NoTime /\ Overdue(tp)
  /\ pc.sender \in Slow \ closed /\ Dangling(pc.target)
  /\ running' = FALSE
  /\ UNCHANGED <<connVars, closed, infoVars, subVars, queueVars, callVars, now, tp,
                 working, clientVars, wireVars>>

DiscardEnd ==
  /\ running /\ tp # NoTime /\ ~Overdue(tp)
  /\ tp' = NoTime
  /\ UNCHANGED <<connVars, closed, infoVars, subVars, queueVars, callVars, now,
                 threadVars, clientVars, wireVars>>

\* Time passes.  It is only ever compared with the pending deadlines, so it
\* stands still when none lies ahead.
Tick ==
  /\ \E i \in 1..Len(pending_calls) : now < pending_calls[i].discard_tp
  /\ now' = now + 1
  /\ UNCHANGED <<connVars, closed, infoVars, subVars, queueVars, callVars, tp,
                 threadVars, clientVars, wireVars>>
=============================================================================
