-------------------------------- MODULE Wire --------------------------------
(***************************************************************************)
(* The messages between clients and service, as they are written and read  *)
(* (src/src/ser-helper.cc, src/src/defs.h).                                *)
(*                                                                         *)
(* A serialized message is the sequence of its fields, each a type and a   *)
(* value, as Caps keeps them: signed and unsigned numbers of 32 bits can   *)
(* be read as each other, anything else only as what was written.  What a  *)
(* serializer writes and what the parser reads are separate tables, each   *)
(* from its own function in the source.                                    *)
(***************************************************************************)
EXTENDS Naturals, Sequences

I == "int"
L == "long"
S == "string"
O == "caps"

\* Caps: write.  The layout gives the type and the name of each field.
Write(layout, m) == [i \in DOMAIN layout |-> <<layout[i][1], m[layout[i][2]]>>]

Failed == [failed |-> TRUE]

\* Caps: read, field by field, from the one after the first skip.  The optional
\* fields that cannot be read are 0, any other makes the parser fail.
Read(layout, optional, skip, caps) ==
  LET Name(i)     == layout[i][2]
      Readable(i) == skip + i \in DOMAIN caps /\ caps[skip + i][1] = layout[i][1]
      Place(n)    == CHOOSE i \in DOMAIN layout : Name(i) = n
  IN  IF \E i \in DOMAIN layout : ~Readable(i) /\ Name(i) \notin optional
      THEN Failed
      ELSE [n \in {Name(i) : i \in DOMAIN layout} |->
              IF Readable(Place(n)) THEN caps[skip + Place(n)][2] ELSE 0]

\* A message whose fields are those of a layout.
Fields(layout) == {layout[i][2] : i \in DOMAIN layout}

Has(m, layout) == m = [n \in Fields(layout) |-> m[n]]
-----------------------------------------------------------------------------
(***************************************************************************)
(* Requests: the commands, RequestSerializer, Dispatcher::msg_handlers and *)
(* RequestParser.                                                          *)
(***************************************************************************)
RequestCmd ==
  [auth |-> 0, subscribe |-> 1, unsubscribe |-> 2, post |-> 3, reply |-> 4,
   declare_method |-> 5, remove_method |-> 6, call |-> 7, ping |-> 8]

Named == {"subscribe", "unsubscribe", "declare_method", "remove_method"}

RequestWritten(kind) ==
  CASE kind = "auth"  -> <<<<I, "version">>, <<S, "extra">>, <<I, "pid">>, <<I, "flags">>>>
    [] kind \in Named -> <<<<S, "name">>>>
    [] kind = "post"  -> <<<<I, "msgtype">>, <<S, "name">>, <<O, "args">>>>
    [] kind = "call"  -> <<<<S, "name">>, <<S, "target">>, <<I, "id">>, <<I, "timeout">>,
                           <<O, "args">>>>
    [] kind = "reply" -> <<<<I, "id">>, <<I, "code">>, <<O, "values">>>>
    [] kind = "ping"  -> <<>>

\* What it can be called for.
IsRequest(q) ==
  /\ q = [kind |-> q.kind, fields |-> q.fields]
  /\ q.kind \in DOMAIN RequestCmd /\ Has(q.fields, RequestWritten(q.kind))

\* RequestSerializer
Request(kind, m) == <<<<I, RequestCmd[kind]>>>> \o Write(RequestWritten(kind), m)

msg_handlers ==
  <<"auth", "subscribe", "unsubscribe", "post", "reply", "declare_method",
    "remove_method", "call", "ping">>

\* Mutant: name and target of a call are exchanged.
RequestRead_swapped(kind) ==
  CASE kind = "call"  -> <<<<S, "target">>, <<S, "name">>, <<I, "id">>, <<I, "timeout">>,
                           <<O, "args">>>>
    [] OTHER -> RequestWritten(kind)

RequestRead(kind) ==
  CASE kind = "auth"  -> <<<<I, "version">>, <<S, "extra">>, <<I, "pid">>, <<I, "flags">>>>
    [] kind \in Named -> <<<<S, "name">>>>
    [] kind = "post"  -> <<<<I, "msgtype">>, <<S, "name">>, <<O, "args">>>>
    [] kind = "call"  -> <<<<S, "name">>, <<S, "target">>, <<I, "id">>, <<I, "timeout">>,
                           <<O, "args">>>>
    [] kind = "reply" -> <<<<I, "id">>, <<I, "code">>, <<O, "values">>>>
    [] kind = "ping"  -> <<>>

\* handle_cmd: the command chooses the handler, which parses the rest.
RequestGot(caps) ==
  LET kind == msg_handlers[caps[1][2] + 1] IN
  [kind |-> kind,
   got  |-> Read(RequestRead(kind), IF kind = "auth" THEN {"pid", "flags"} ELSE {}, 1, caps)]
-----------------------------------------------------------------------------
(***************************************************************************)
(* Responses: ResponseSerializer.                                          *)
(***************************************************************************)
ResponseCmd ==
  [auth |-> 101, post |-> 102, reply |-> 103, call |-> 104, monitor |-> 105, pong |-> 106]

\* The subtypes of CMD_MONITOR_RESP, in their order.
MonitorSubtypes ==
  <<"list_all", "list_add", "list_remove", "sub_all", "sub_add", "sub_remove",
    "decl_all", "decl_add", "decl_remove", "monitor_post", "monitor_call">>

Subtype(kind) == (CHOOSE i \in DOMAIN MonitorSubtypes : MonitorSubtypes[i] = kind) - 1

Monitored == {MonitorSubtypes[i] : i \in DOMAIN MonitorSubtypes}

\* The serializers and the parsers of these return -1.
Unimplemented == {MonitorSubtypes[i] : i \in 4..Len(MonitorSubtypes)}

FLORA_CLI_SUCCESS == 0

\* serialize_monitor_list_item
Item == <<<<I, "id">>, <<I, "pid">>, <<S, "name">>, <<I, "flags">>>>

Result == <<<<I, "ret_code">>, <<O, "data">>, <<S, "extra">>>>

ResponseWritten(kind, m) ==
  CASE kind = "auth" -> <<<<I, "result">>, <<I, "version">>>>
    [] kind = "post" -> <<<<I, "msgtype">>, <<S, "name">>, <<O, "args">>, <<L, "tag">>,
                          <<S, "cliname">>>>
    [] kind = "call" -> <<<<I, "id">>, <<S, "name">>, <<O, "args">>, <<L, "tag">>,
                          <<S, "cliname">>>>
    [] kind = "reply" -> <<<<I, "id">>, <<I, "rescode">>>>
                           \o (IF m.rescode = FLORA_CLI_SUCCESS THEN Result ELSE <<>>)
                           \o <<<<L, "tag">>>>
    [] kind = "list_remove" -> <<<<I, "id">>>>
    [] kind = "pong" -> <<>>

\* What it can be called for; a list of clients is a sequence of items.
IsList(items) ==
  /\ Len(items) \in Nat /\ items = [i \in 1..Len(items) |-> items[i]]
  /\ \A i \in 1..Len(items) : Has(items[i], Item)

IsResponse(r) ==
  /\ r = [kind |-> r.kind, fields |-> r.fields]
  /\ \/ r.kind \in Unimplemented
     \/ r.kind = "list_all" /\ r.fields = [items |-> r.fields.items] /\ IsList(r.fields.items)
     \/ r.kind = "list_add" /\ Has(r.fields, Item)
     \/ /\ r.kind \in {"auth", "post", "call", "reply", "list_remove", "pong"}
        /\ Has(r.fields, ResponseWritten(r.kind, r.fields))

Command(kind) ==
  IF kind \in DOMAIN ResponseCmd THEN <<<<I, ResponseCmd[kind]>>>>
  ELSE <<<<I, ResponseCmd.monitor>>, <<I, Subtype(kind)>>>>

\* ResponseSerializer; not for the unimplemented ones.
Response(kind, m) ==
  Command(kind) \o
  CASE kind = "list_all" -> <<<<I, Len(m.items)>>>>
                              \o [i \in DOMAIN m.items |-> <<O, Write(Item, m.items[i])>>]
    [] kind = "list_add" -> <<<<O, Write(Item, m)>>>>
    [] OTHER -> Write(ResponseWritten(kind, m), m)
-----------------------------------------------------------------------------
(***************************************************************************)
(* ResponseParser; one operator for each parser that is more than a list   *)
(* of fields.                                                              *)
(***************************************************************************)
parse_reply(caps) ==
  LET head == Read(<<<<I, "id">>, <<I, "rescode">>>>, {}, 1, caps) IN
  IF head = Failed THEN Failed
  ELSE Read(<<<<I, "id">>, <<I, "rescode">>>>
              \o (IF head.rescode = FLORA_CLI_SUCCESS THEN Result ELSE <<>>)
              \o <<<<L, "tag">>>>, {}, 1, caps)

\* The fields of the nested caps that follow the size, as many as there are.
parse_monitor_list_all(caps) ==
  LET size  == IF 3 \in DOMAIN caps /\ caps[3][1] = I THEN caps[3][2] ELSE 0
      subs  == {i \in 4..Len(caps) : \A j \in 4..i : caps[j][1] = O}
      items == [i \in 1..Len(caps) - 3 |-> Read(Item, {}, 0, caps[i + 3][2])]
  IN  IF 3 \notin DOMAIN caps \/ caps[3][1] # I THEN Failed
      ELSE IF size = 0 THEN [items |-> <<>>]
      ELSE IF subs # 4..size + 3 \/ \E i \in DOMAIN items : items[i] = Failed THEN Failed
      ELSE [items |-> items]

parse_monitor_list_add(caps) ==
  IF 3 \notin DOMAIN caps \/ caps[3][1] # O THEN Failed ELSE Read(Item, {}, 0, caps[3][2])

ResponseRead(kind) ==
  CASE kind = "auth" -> <<<<I, "result">>, <<I, "version">>>>
    [] kind = "post" -> <<<<I, "msgtype">>, <<S, "name">>, <<O, "args">>, <<L, "tag">>,
                          <<S, "cliname">>>>
    [] kind = "call" -> <<<<I, "id">>, <<S, "name">>, <<O, "args">>, <<L, "tag">>,
                          <<S, "cliname">>>>
    [] kind = "pong" -> <<>>

\* The kind of a response, by its command and subtype.
ResponseKind(caps) ==
  IF caps[1][2] = ResponseCmd.monitor THEN MonitorSubtypes[caps[2][2] + 1]
  ELSE CHOOSE k \in DOMAIN ResponseCmd : ResponseCmd[k] = caps[1][2]

\* ResponseParser, by the handler that the client chooses.
ResponseGot(caps) ==
  LET kind == ResponseKind(caps) IN
  CASE kind = "reply"         -> parse_reply(caps)
    [] kind = "list_all"      -> parse_monitor_list_all(caps)
    [] kind = "list_add"      -> parse_monitor_list_add(caps)
    [] kind = "list_remove"   -> Read(<<<<I, "id">>>>, {}, 2, caps)
    [] kind \in Unimplemented -> Failed
    [] OTHER                  -> Read(ResponseRead(kind), {}, 1, caps)
=============================================================================
