---------------------------- MODULE MCDispatcher ----------------------------
(***************************************************************************)
(* Instances of Dispatcher for TLC.                                        *)
(***************************************************************************)
EXTENDS CallRefinement, TLC

CONSTANTS a1, a2, a3, n1, n2

\* Registration: two clients want one id, a monitor has an id of its own.
\* Keepalive threads send pings, the monitor's too.
RegistryNames == a1 :> n1 @@ a2 :> n1 @@ a3 :> n2
PingScript == [a \in Adapter |-> {"ping"}]

\* Topics: two subscribers, one of which posts as well.
AnonNames == [a \in Adapter |-> NoName]
TopicScript == a1 :> {"subscribe", "unsubscribe"} @@ a2 :> {"subscribe", "post"}

\* Calls: a caller and a callee.
CallNames == a1 :> NoName @@ a2 :> n1
CallScript == a1 :> {"call"} @@ a2 :> {"declare", "remove"}
ProgressScript == a1 :> {"call"} @@ a2 :> {"declare"}
=============================================================================
