-------------------------- MODULE MCClientReceive ---------------------------
(***************************************************************************)
(* Messages for ClientReceive.  The fields of a message differ from each   *)
(* other, so that none can stand for another.                              *)
(***************************************************************************)
EXTENDS ClientReceive

Message(kind, fields) == [kind |-> kind, fields |-> fields]

MCRequests ==
  { Message("auth", [version |-> 4, extra |-> 1, pid |-> 2, flags |-> 3]),
    Message("post", [msgtype |-> 1, name |-> 2, args |-> 3]),
    Message("call", [name |-> 1, args |-> 5, target |-> 2, id |-> 3, timeout |-> 4]),
    Message("reply", [id |-> 1, code |-> 2, values |-> 3]),
    Message("ping", <<>>) }
  \cup {Message(kind, [name |-> 1]) : kind \in Named}

MCItem(n) == [pid |-> n + 1, flags |-> n + 3, name |-> n + 2, id |-> n]

MCResponses ==
  { Message("auth", [version |-> 4, result |-> 0]),
    Message("post", [msgtype |-> 1, name |-> 2, args |-> 3, tag |-> 4, cliname |-> 5]),
    Message("call", [name |-> 2, args |-> 3, id |-> 1, tag |-> 4, cliname |-> 6]),
    Message("reply", [extra |-> 4, id |-> 1, tag |-> 5, rescode |-> 0, ret_code |-> 2,
                      data |-> 3]),
    Message("reply", [id |-> 1, tag |-> 3, rescode |-> 2]),
    Message("list_all", [items |-> <<MCItem(1), MCItem(5)>>]),
    Message("list_all", [items |-> <<>>]),
    Message("list_add", MCItem(1)),
    Message("list_remove", [id |-> 1]),
    Message("sub_add", [id |-> 1]),
    Message("pong", <<>>) }
=============================================================================
