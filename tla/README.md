# flora: a TLA+ model of the message service

flora is a message bus between processes.  A *service* accepts connections on a
unix or TCP socket; *clients* authenticate with an optional id, subscribe to
named messages, post messages, declare methods and call the methods of other
clients.  This directory models the service and the client library, states what
they promise, checks the promises with TLC on small instances and proves most of
the safety properties with TLAPS for every instance.

## The system

| part | source | model |
| --- | --- | --- |
| Dispatcher: command queue, handlers, pending calls | `src/src/disp.cc`, `disp.h`, `adap.h` | `DispatcherCore`, `DispatcherRegistry`, `DispatcherTopics`, `DispatcherCalls`, `Dispatcher` |
| what the Dispatcher promises about calls | the same | `CallService` (abstract), `CallRefinement` (the mapping) |
| SocketPoll: the thread that accepts, reads and deletes connections | `src/src/sock-poll.cc` | `Poll`; as the dispatcher sees it, `DispatcherCore` |
| BeepSocketPoll: keepalive of TCP connections | `src/src/beep-sock-poll.h` | `Poll` |
| SocketAdapter: the server end of a connection | `src/src/sock-adap.cc` | `SocketAdapter` (reading frames), `DispatcherCore` (closing, failing writes) |
| Client, SocketConn: the client library | `src/src/cli.cc`, `sock-conn.cc` | `Client` (its threads), `ClientReceive` (its receive buffer and handlers); its role in the protocol in `DispatcherCore` |
| Agent: a client that reconnects | `src/src/flora-agent.cc` | `Agent` |
| Serialization | `src/src/ser-helper.cc`, `defs.h` | `Wire` |
| C interfaces, Android binding, monitor screen, file log, examples | ... | no: no state of their own |

Two threads run in the service.  The *poll thread* reads requests and queues
them (`Dispatcher::put`); when a connection ends it closes the adapter and
queues its erasure (`delete_adapter`, `erase_adapter`).  The *dispatcher thread*
takes everything queued as one batch and runs one handler per packet
(`handle_cmds`, `handle_cmd`); when the queue is empty it answers overdue calls
with a timeout (`discard_pending_calls`) and waits.

A client has a *receiving thread* (`recv_loop`) and a *keepalive thread*
(`keepalive_loop`); any number of application threads make requests, and one of
them connects and later destroys the client.  An *agent* owns a thread of its own
(`run`) that connects one client after the other and repeats the subscriptions of
the application on each.

## State and steps

### The service

The variables of `DispatcherCore` keep the names of the members they model
(`adapter_infos`, `named_adapters`, `subscriptions`, `persist_msgs`,
`pending_calls`, `cmd_packets`, ...).  A few are about the two ends of a
connection: `poll` is the adapter's life in the poll thread, `gone` says that the
client has closed its end, `closed` that the service has closed its own.  The
variables `authres`, `incoming`, `answers`, `seen` and `view` record what has been
written to each client, and `untold` the clients whose message to a monitor did not
fit in the buffer; no handler reads them, they are what the properties speak about.  `forwarded` lists the calls that were given a number by `++reqseq`.

| code | action |
| --- | --- |
| `do_accept`, then the client's authentication | `Connect` |
| `do_read`, `put` | `Send`, `SendReply` |
| the client ends | `Disconnect` |
| `delete_adapter`: close, then `erase_adapter` | `PollClose`, `PollErase` |
| `handle_cmds`: splice, exit, iteration | `Splice`, `Exit`, `Advance` in every handler |
| `handle_cmd` closing the sender | `CloseSender` |
| `handle_auth_req`, `add_adapter`, `add_monitor` | `AuthReject`, `AuthAdapter`, `AuthMonitor` |
| `do_erase_adapter`, `check_subscriptions`, `clear_sub_gabages` | `EraseAdapter`, `EraseMonitor` |
| `handle_subscribe_req`, `handle_unsubscribe_req`, `handle_post_req`, `handle_ping_req` | `Subscribe`, `Unsubscribe`, `Post`, `Ping` |
| `handle_declare_method`, `handle_remove_method` | `DeclareMethod`, `RemoveMethod` |
| `handle_call_req` | `CallUnknown`, `CallForward` |
| `handle_reply_req` | `ReplyDropped`, `ReplyForward`, `ReplyTooBig` |
| `discard_pending_calls`, with `cmd_mutex` held | `DiscardBegin`, `DiscardCall`, `DiscardCrash`, `DiscardEnd` |
| `Dispatcher::close` | `Close` |

One handler is one step.  What a handler shares with the poll thread is the queue,
`closed` and `info`; a handler that is overtaken by `PollClose` half way has the
effect of one whose writes fail, which is one of its outcomes (`Failing`).  The
two halves of `delete_adapter` are two steps, since the dispatcher may run in
between, and every round of `discard_pending_calls` is one, since clients and poll
thread go on (but cannot queue anything) while it writes.

Abstractions.  Payloads are model values of three sizes: those that can be
forwarded, those that cannot when the sender's id is added (`BigNamed`), and those
that cannot at all (`BigAnon`).  A list of subscribers is a bag, since its order
is not visible.  A write reaches its recipient, or fails and closes it; it may fail
for clients that are gone or that do not read (`Slow`).  Which lists of clients fit in
the buffer when they are written to a monitor, and which single clients do, are
constants (`ListFits`, `AddFits`); what does not fit is not written and nobody is told
(`write_monitor_list`, `write_monitor_list_add`).  `DiscardCrash` is the outcome of
`pending_call_timeout` when it reads the erased info of a target.  Whether ten seconds have
passed since the last command (`check_subscriptions`) is free.  The clock advances
only while a pending deadline lies ahead, because it is compared with nothing else.
A weak reference has expired when neither the poll thread nor the queue, the batch,
the ids or the pending calls refer to the adapter (`Expired`).

Not modelled: malformed messages; the reuse of the address of a freed adapter; a
monitor that leaves before it is authenticated (its address stays in `monitors`,
what follows is undefined; `ConstantsAssumption` makes monitors *patient*); 32-bit
wrap-around of `reqseq`; construction and destruction of the Dispatcher.

### The server end of a connection

`SocketAdapter` models `read`, `next_frame` and the loop of `do_read` that drives
them, at the level of bytes.  A byte is its position in the stream the client has
written, so a header is recognised when the bytes at `frame_begin` are those that
begin a frame (`Announced`, for `Caps::binary_info`).  `ReadSome(c)` reads any
number of bytes there is room for, `Success`, `NoMore` and `FrameFails` are the
outcomes of one round of the loop, `ReadFails` and `FrameFails` end with the
deletion of the adapter and record why.  `Close`, by the dispatcher, may come
between any two of these steps.  (In the code it may also come in the middle of
one, when the buffer is unmapped under the poll thread: that is undefined and not
modelled.)

### The client

`Client` models one client and its threads.  `at` is where the connecting and the
receiving thread are (both may run `iclose`), `ka` the keepalive thread, `pc` the
application threads, each of which makes one request: a blocking call, a call with
a callback, or a request without an answer (`subscribe`, `unsubscribe`,
`declare_method`, `remove_method` and `post` are alike).

| code | action |
| --- | --- |
| `auth` | `AuthInvalid`, `AuthBegin`, `AuthSent`, `AuthNotSent`, `AuthSpurious`, `AuthEnd` |
| the rest of `connect` | `StartKeepalive`, `SetCallback` |
| `~Client`, `close` | `Destroy`, `Join` |
| `iclose`, statement by statement | `CloseCheck`, `CloseConn`, `Drain`, `CallClosed`, `CloseNotify`, `Tell` |
| `recv_loop` and its end | `RecvEnter`, `RecvEnd`, `RecvEnded`, `TellAuth`, `Crash` |
| `handle_cmd_before_auth`, `handle_cmd_after_auth` | `RecvAuth`, `RecvReply...`, `CallAnswered`, `RecvCall` |
| `send_reply`, `ping` | `ReplyBegin`, `ReplySend`, `PingBegin`, `PingSend` |
| `keepalive_loop` | `KeepaliveCheck`, `KeepaliveTimeout` |
| the two `call`s and the other requests | `Reject`, `Serialize`, `Register`, `Sent`, `NotSent`, `Check`, `Timeout` |

A stretch of code under one hold of `req_mutex` is one step; `send_mutex`, which is
held while a request is serialized, registered and written, is a variable, and so
is the buffer it protects.  `amutex` is held by `auth` until it waits, `ka_mutex` by
the keepalive thread except while it waits: the guards of the steps that lock them
say so.  Messages arrive whole.  The service answers an authentication, each call
once, and may end the connection (`Breaks`, which also stands for a read timeout on
TCP).  A dereference of `auth_result` before `auth` has set it or after `auth` has
withdrawn it is `Crash`.  A blocking call that has been notified but does not run yet
(`pc = "woken"`) may still time out.  With `Disturbed` the connection may break before
`connect` has returned, and the wait of `auth`, which has no condition, may end by
itself.
The application keeps to the warning of `docs/client.md` not to destroy the client
in a callback.  Posts, pongs and monitor messages are handed to callbacks without
any change of state and are left out.

### What a client receives

`ClientReceive` models `recv_loop` and `handle_received` at the level of bytes, as
`SocketAdapter` does for the server: `Recv(n)` is a read of any size there is room
for, `Handle` one round of the loop over complete messages, `MoveRest` its end (the
rest goes to the front of `rbuffer`), and `BufferFull`, `RecvEnd` and the failures of
`Handle` end the thread.  A message consists of a kind and fields; `Wire` says which
fields each serializer writes and which each parser reads, in two tables that come
from different functions of the source, with the reading rules of the Caps library
(`Write`, `Read`, external).  The handlers are `before_auth` and `after_auth`; `given`
records what they hand to the callbacks.  `Ask` sends a request through
`RequestSerializer`, `msg_handlers` and `RequestParser`.

### The poll of the service

`Poll` models `SocketPoll::start`, `stop` and `run` with the keepalive of
`BeepSocketPoll`.  `active` is the list `active_adapters`, `quiet` the true time since
the last read of each connection; time is kept as ages, cut off where an entry is
overdue, so that it needs no bound.  Descriptors are reused as the system does, the
lowest free one first.

| code | action |
| --- | --- |
| `start`, `stop` up to the join, and after it | `start`, `stop`, `StopReturns` |
| the beginning of `run` | `RunBegin` |
| `do_poll`: `obtain_timeout` and `select` | `SelectBegin`, `SelectReady`, `SelectTimeout` |
| `shutdown_timeout_adapter` and what `run` does next | `Polled` |
| the loop over the descriptors | `Accept`, `AcceptFails`, `Read`, `ReadFails`, `LoopEnd` |
| the end of `run` | `Release` |

`stop` may overtake the beginning of `run`, which then finds no listening socket:
`max_fd` is 0 and `select` waits for no descriptor.  `active_adapters` is not emptied at
the end of `run`, so that entries of an earlier start remain.  If there are none, the
`select` of a poll that was overtaken has no timeout either (`thread = "lost"`);
otherwise it ends with an error or waits for the first of them (`thread = "deaf"`).

### The agent

`Agent` models `start(false)`, the run thread, the requests and `close`, over clients
that are reduced to what an agent sees of them: a connection (`peer`, `sock`), a
receiving thread (`recv`), whether `cli_callback` is set (`ccb`) and what the service
has been told on it (`told`).

| code | action |
| --- | --- |
| `start` | `Start`, `RunBegin` |
| `run` and `Client::connect` | `RunCheck`, `ConnectFails`, `RetryTimeout`, `ConnectAuth`, `ConnectReturn`, `SetClient`, `RunWoken`, `Spurious` |
| `init_cli` | `InitBegin`, `InitNext`, `InitSkips`, `InitCrash` |
| `clean_gabages` | `CleanBegin`, `CleanNext`, `CleanJoin` |
| receiving threads and callbacks | `RecvMessage`, `CallbackReturn`, `RecvEnd`, `RecvIclose`, `RecvClose`, `RecvTell`, `Breaks` |
| `subscribe`, `unsubscribe` and their like, `post`, `call` | `subscribe`, `unsubscribe`, `Request`, `post`, `PostSent`, `destroy_client` |
| `close` | `close`, `CloseClient`, `CloseJoined`, `CloseDetached`, `CloseReturn` |

One hold of `conn_mutex` is one step; `cg_mutex` is a variable.  `init_cli` walks the
maps without a lock: when a handler is added or removed meanwhile (`Raced`), the
iterator may pass over any of the names that are left (`InitSkips`) or read what has
been freed (`InitCrash`).

### The promise about calls

`CallService` says what a caller may rely on, without connections, queues, threads,
deadlines and buffers: a call is given to at most one client, which has the id that
the call names, and is answered at most once, by the reply of that client, with
`enexists` if nobody was given it, or with `etimeout` if somebody was.
`CallRefinement` maps the service to it: accepted calls are those in `forwarded`, a
client holds the calls that were written to it and those whose replies are still in
the queue, and an outcome is what was written to the caller.

## Runs

Deadlock is not checked: clients may stop.  `registry`, `topics`, `calls` and
`progress` instantiate `MCDispatcher`, `receive` instantiates `MCClientReceive`, the
others the modules themselves.

| run | instance | checks |
| --- | --- | --- |
| `registry` | two clients that want one id, one of them impatient, a slow monitor to which lists of one client fit and the addition of the second does not, endless keepalive pings | `TypeOK`, `IdsUnique`, `PatientForgotten`, `MonitorViewExact` |
| `topics` | two subscribers, one posting, two requests each, one payload too big, one slow | `NoDuplicateSubscription`, `PersistCoherent`, `SubscriberKept` |
| `calls` | a caller with two calls of different timeouts, both of which may leave; the callee declares, removes and replies late | `NoDanglingInfo`, `AtMostOneAnswer`, `AnsweredByTarget`, `OverdueNoticed` |
| `progress` | a slow caller, a callee that may reply with too much, `close` at any time, fairness | `CallsAnswered`, `CloseEnds`, `ImplementsCallService` |
| `framing` | `SocketAdapter`: three frames of 2, 3, 5 or 6 bytes, a buffer of 5, a header of 2, fairness | `TypeOK`, `DeliveredIntact`, `NothingStranded`, `DroppedForCause`, `FrameArrives` |
| `client` | `Client`: a blocking call, a call with a callback, a post, a call of another client, a connection that may break at any time | `SentIntact`, `CalledOnce`, `AnswersBelong`, `NoWriteAfterReturn` |
| `client_progress` | `Client`: both kinds of calls, breaks after `connect` has returned, fairness | `Released`, `CalledBack`, `DestroyEnds`, `ConnectReturns`, `Notified` |
| `receive` | `ClientReceive`: three messages of eleven forms, of 2, 3, 5 or 6 bytes, a buffer of 5, a monitor or not, fairness | `GivenIntact`, `RequestIntact`, `AllGiven` |
| `agent` | `Agent`: two application threads, two handlers, two connections that may break at any time, two operations (`close` is one of them), fairness | `HandlersRepeated`, `OneConnection`, `ClosedIsQuiet`, `Reconnects`, `CloseReturns` |
| `poll` | `Poll`: two connections, two starts, `beep_timeout` of 2, fairness | `FrontIsOldest`, `OnlySilentShut`, `SilentDropped`, `StopEnds` |
| `agent_stuck` | `Agent`: one thread, one handler, one connection, fairness | `StaysConnected` fails |
| `success_without_reply` | `Client`: one blocking call | `SuccessMeansReply` fails |

Bounds.  Every connection is used once, so three connections are enough for an id
to be taken, released and taken over while a packet of its former holder is queued.
`MaxSend` bounds the requests of a client: two are enough for subscribe and
unsubscribe, for two calls whose deadlines are in the opposite order of their
making, and for a late reply to the first that meets the second.
`CLEAR_SUBSCRIPTION_THRESHOLD` is 2 instead of 50, so that both outcomes occur.
In `framing` and `receive` the lengths lie below, at and above the buffer size, and
three messages are enough for the buffer to hold the end of one, a whole one and the
beginning of a third.  In `client` one thread of each kind is enough for every pair
of threads to meet, since requests of one kind interact only through `sbuffer` and
their ids.  In `agent` two connections are enough for one to be lost and replaced
while operations still hold the first.  In `poll` two connections are enough for one
to be read while the other is silent, and a second start for an entry of the first
to meet a descriptor that is used again.  The proofs remove the bounds from the
safety properties.

Fairness.  In the service (`FairSpec` of `Dispatcher`) the two threads keep running
and time passes; nothing is assumed of clients.  Weak fairness is enough since each
thread is a loop that stays enabled while it has work.  `SocketAdapter` and
`ClientReceive` assume the same of the thread that reads, `Poll` of the poll thread,
of time and of a `stop` whose join is over.  In `Client` the threads keep running and
the service answers (as `CallsAnswered` says); the receiving and the keepalive thread
compete for `send_mutex`, and strong fairness says that a thread that asks for a
mutex again and again gets it.  No timeout is assumed to expire and no application
thread to start, so `Released` and `DestroyEnds` hold by notification alone.  In
`Agent` threads keep running, callbacks return, the service accepts a connection in
the end (strong fairness of `ConnectAuth`), and `cg_mutex` is given to whoever asks for
it again and again.

## What the runs found

* **`success_without_reply`.**  `iclose` closes the connection (`cli.cc:361`) before
  it sets `close_reason` (`cli.cc:365`).  A blocking call that finds the connection
  closed in between returns 0, that is `FLORA_CLI_SUCCESS`, with an empty response.
* **`agent_stuck`.**  `run` waits on `conn_cond` without a condition
  (`flora-agent.cc:163`).  A connection that ends between `connect` and the wait has
  been reported before the wait begins; the agent stays with the dead client until a
  request of the application fails.  `Reconnects` therefore starts from a
  disconnection that is reported during the wait.

Where a property has a condition, the code needs it:

* `NoDanglingInfo` lets the info of the target of a pending call be gone once the
  connection of the target has been deleted.  `pending_call_timeout` reads it to log
  that the caller could not be told (`disp.cc:140-143`), after `do_erase_adapter` may
  have erased it (`disp.cc:242`): `DiscardCrash`.  `CallsAnswered` therefore ends when
  the service does.
* `MonitorViewExact` leaves out the clients in `untold`: when a list or an addition does
  not fit in the buffer, `write_monitor_list` and `write_monitor_list_add` return
  without a word (`disp.cc:637-638`, `disp.cc:648-649`), and the monitor stays connected.
* `IdsUnique` leaves out ids that monitors use: `do_erase_adapter` releases the id of a
  monitor (`disp.cc:231-233`), which `add_monitor` never took.
* `PatientForgotten` is about patient clients: `erase_adapter` ignores an adapter
  whose authentication has not been handled (`disp.cc:170`); it is registered
  afterwards and keeps its id.
* `CallsAnswered` is checked with `Endless = {}`: `handle_cmds` discards overdue calls
  only when the batch it spliced is empty (`disp.cc:86-88`), so that clients that
  never stop sending can keep an overdue caller waiting.
* `Notified` starts when `connect` has returned: `connect` sets `cli_callback` last
  (`cli.cc:125`), and a connection that breaks just before is not reported.
* `ConnectReturns` is checked with `Disturbed = FALSE`: if the connection breaks
  while `auth` runs, `recv_loop` may use an `auth_result` that is gone
  (`cli.cc:165-170`, `Crash`), or find it not yet set, and `auth` then waits for ever.
* `OnlySilentShut` allows for the entries an earlier start has left
  (`beep-sock-poll.h:162`), `StopEnds` for a `stop` that overtakes the beginning of `run`
  and finds no such entry (`sock-poll.cc:64`).
* `HandlersRepeated` says nothing when the maps change while `init_cli` goes through them
  (`flora-agent.cc:158`), and nothing of a handler added while it runs, which neither
  thread sends.
* `CloseReturns` is about `close` called by a thread of the application while the run
  thread is not between its test of `working` and the end of its wait with a connection.
  In between the notification of `close` (`flora-agent.cc:187`) is lost, and `close`
  waits for a run thread that nobody wakes.  To a callback `close` never returns: it
  joins the run thread (`flora-agent.cc:200-201`), which joins the thread of the callback
  in `clean_gabages`; `test_invoke_in_callback` (`examples/all-demos.cc:385-397`) calls
  it that way.
* `ClosedIsQuiet` says nothing of a `close` that finds `working` unset.

## Proofs

A theorem holds for every value of the constants that the `ASSUME` of its component
allows (`ConstantsAssumption`, `SizesAssumption`, `ClientAssumption`, `AgentAssumption`,
`PollAssumption`, `ReceiveAssumption`): any number of clients, ids, topics, threads,
handlers, connections and requests, any buffer sizes and timeouts, and any messages
that have the fields of their kind (`IsRequest`, `IsResponse`).  Each invariant below was checked with
TLC on the instance of the run before it was proved.

| module | theorem | establishes |
| --- | --- | --- |
| `DispatcherProofs` | `TypeCorrect`, `InfoInPlace`, `IdsStayUnique`, `PatientClientsForgotten` | `TypeOK`, `NoDanglingInfo`, `IdsUnique`, `PatientForgotten` |
| `TopicsProofs` | `MonitorsSeeAll`, `SubscribersListedOnce`, `SubscribersUpToDate`, `SubscribersKept` | `MonitorViewExact`, `NoDuplicateSubscription`, `PersistCoherent`, `SubscriberKept` |
| `CallsProofs` | `CallsAnsweredOnce`, `CallsAnsweredByTarget`, `OverdueCallsNoticed`, `ServiceImplementsCalls` | `AtMostOneAnswer`, `AnsweredByTarget`, `OverdueNoticed`, `ImplementsCallService` |
| `FramingProofs` | `FramingTypes`, `FramesIntact`, `NoneStranded`, `DropsJustified` | `TypeOK`, `DeliveredIntact`, `NothingStranded`, `DroppedForCause` |
| `ClientProofs` | `ClientTypes`, `RequestsIntact`, `CallbackOnce`, `RepliesBelong`, `ResponseInUse` | `TypeOK`, `SentIntact`, `CalledOnce`, `AnswersBelong`, `NoWriteAfterReturn` |
| `ReceiveProofs` | `MessagesGivenIntact`, `RequestsReadIntact`, `ReceiveTypes` | `GivenIntact`, `RequestIntact`, `TypeOK` |
| `ReceiveProofs` | `RequestsReadBack`, `ResponsesReadBack`, `NoneRefused` | reading what was written gives it back; `handle_received` refuses no message of the service |
| `AgentProofs` | `AgentTypes`, `ConnectionsOne`, `SubscriptionsRepeated`, `CloseQuiet` | `TypeOK`, `OneConnection`, `HandlersRepeated`, `ClosedIsQuiet` |
| `PollProofs` | `PollTypes`, `OldestInFront`, `ShutForSilence` | `TypeOK`, `FrontIsOldest`, `OnlySilentShut` |

**Registration** (`DispatcherProofs`).  `TypeInv` adds to `TypeOK` that a client has made
no more calls than it has sent requests, which keeps call numbers within their bound.
None of the three other properties is inductive.  The argument (`RegistryInv`) is about
the packets of one client:

* `Ordered`: its authentication is the first of its packets still to be handled,
  its erasure the last (`put` appends, the splice keeps the order, and the poll
  thread deletes a connection once).
* `LifeCycle`: a client whose authentication is queued has no info yet; one whose
  erasure is queued has been deleted; one whose info dangles has been deleted and
  has no packet left.
* `InfoFits`, `NamesFit`, `NamesHeld`: how `info`, the two maps and `named_adapters`
  agree; only ids used by a monitor may be held by nobody while a client has them.
* `Users`: whoever subscribes, calls or is called has been registered.
* `PatientLife`: a patient client that is closed has no authentication queued, and
  one that is deleted but registered has its erasure queued.

The proof has one lemma for each group of steps; lemmas on the queue (`PutQueue`,
`SpliceQueue`, `HandleQueue`) say what a step does to the packets that are left.

**Topics and monitors** (`TopicsProofs`).  With `RegistryInv`, the three invariants are
inductive together (`TopicsInv`): an expired reference belongs to a closed adapter
(`ExpiredClosed`), so a collection of subscribers drops nobody who is connected, and an
adapter that is registered or erased is told to every monitor that is not closed, or
enters its `untold`.

**Calls** (`CallsProofs`).  `CallsInv` follows a call from its packet to `pending_calls` and to its answer: packets that wait are different calls or replies
(`AllDistinct`), a call that waits has been neither accepted nor answered
(`CallsFresh`), a call is accepted once (`AcceptedOnce`), is held by a client that has
the id it names and replies once (`GivenFits`), is not answered while it is pending
(`PendingFits`), and is answered once and by its target (`AnswersFit`).  `Sorted` is the
order of `pending_calls`.  From the same invariant every step of the service is a step
of `CallService` or leaves its state alone.

**Frames** (`FramingProofs`).  `FramingInv` adds where the bytes are: the frames lie in
the stream one after the other (`Laid`), the first byte not delivered begins the next
frame (`Placed`), the buffer holds the last bytes read in order (`Content`), and
between two calls of `do_read` it has room (`Waiting`): what is left is shorter than
a header, or part of a frame that fits.  Hence a read of nothing really is the end
of the stream, and a header is always found where it is looked for (`HeaderFound`).

**The client** (`ClientProofs`).  `ClientInv` says that what is in `sbuffer` was put there
by the holder of `send_mutex` (`Buffer`), that each thread's request is written once and
when (`Written`), that a request in the list belongs to a thread inside of `call` or was
never written (`Listed`), that call numbers do not repeat (`Numbers`), that a callback
waits in one place only (`Tokens`), and that a reply under way answers the call with
its number (`Replies`, `Given`).  `Listed` is why a Response is written only while its
caller waits.

**Messages** (`ReceiveProofs`).  The first half is about `Wire` alone.  `WriteIs` says
what a serializer leaves in a Caps, and `ReadsBack` that a parser which expects the
same fields in the same order gets their values.  From there each kind of message has a
lemma: its command, and for monitors its subtype, lead to its own handler
(`DirectCommand`, `ListingCommand`), and the handler reads what was written; a reply is
read in the two forms that its code announces (`ReplyReadBack`), a list of clients
item by item for any length (`ListAllReadBack`).  The second half is the receiving
thread.  `ReceiveInv` says that messages lie in the stream one after the other (`Laid`),
the answer to `auth` first and those for the callbacks only once `connect` has returned
(`Kinds`), that `rbuffer` holds the last bytes taken, in order (`Content`), and that for
some h the first h messages have been handled: `off` is where the next one begins,
the client is authorized if h > 0, and it has been given as many messages as are
expected among them (`Progress`).  So `binary_info` finds the next message and no other
(`NextFound`), and no message is refused (`Accepted`).

**The agent** (`AgentProofs`).  `AgentInv` says that a client that is no longer fresh is
in `gabages` (`Collected`), that only the last connection is open and none is while
the next is being made (`Open`), that the receiving threads of the earlier ones have
ended (`Ended`), which client operations can hold (`Current`), and what `init_cli` has
repeated up to its iterator (`Repeated`).

**The poll** (`PollProofs`).  `PollInv` says that the ages in `active_adapters` fall
(`Falling`), that an adapter is in it once (`Distinct`), that every open connection not
yet shut down is in it (`Listed`), and that the age of its entry is the true time since
its last read (`Aged`).  That a free descriptor exists when `do_accept` needs one is a
pigeonhole argument on the connections.

Only model-checked is everything about progress, which is beyond the prover:
`CallsAnswered`, `CloseEnds`, `FrameArrives`, `Released`, `CalledBack`, `DestroyEnds`,
`ConnectReturns`, `Notified`, `AllGiven`, `Reconnects`, `CloseReturns`, `SilentDropped`,
`StopEnds`.

## Not modelled

* Construction and destruction of the Dispatcher, where the buffer is unmapped before
  the thread is joined; `SocketAdapter::close` in the middle of a read of the poll
  thread: data races whose outcome is undefined.
* Writes that write a part of a message only, and malformed messages: what follows is
  for the Caps library to refuse, which is not part of the repository.
* The opening of sockets, failures of system calls there, and descriptors beyond
  `FD_SETSIZE`.
* `Agent::start(true)`, which runs the same loop in the thread of its caller; a `Reply`
  that outlives its client.
* The join of one receiving thread by `clean_gabages` and the thread that `close`
  detaches at the same time, and the read of the socket without a lock in
  `get_socket`: both are undefined.
* The C interfaces and the Android binding, which forward to the C++ objects; the log,
  the examples and the screen of the monitor tool.
