# A TLA+ model of libipc

libipc lets programs on one machine exchange messages over Unix sockets. The
repository holds the library in C (`src/`), examples and tests of it, a rewrite
in Zig (`zig-impl/src/`) with its daemons (`zig-impl/apps/`), and an application
in Crystal. This directory models the C library and its main examples, and the
Zig library with its three servers.

## Inventory

| component | state | operations | hard part |
|---|---|---|---|
| context (`communication.c`, `context.c`, `ipc.h`) | arrays `cinfos` and `pollfd`, `tx`, `switchdb` | `ipc_server_init`, `ipc_connection`, `ipc_connection_switched`, `ipc_add_fd`, `ipc_write`, `ipc_close`, `ipc_del`, `ipc_close_all`, `ipc_wait_event` | descriptor numbers are reused; entries are moved on removal; peers act between `poll(2)` and the operation it announced |
| messages to send (`message.c`) | array of messages | `ipc_messages_add`, `ipc_messages_del`, `ipc_remove_messages_for_fd` | removal reorders the array, also under a loop over it |
| switching (`network.c`) | records of two descriptors and four callbacks | `ipc_switching_add`, `_del`, `_callbacks`, `fd_switching_read`, `fd_switching_write` | either end may leave; the record and both connections have to go together |
| timer (`communication.c`) | `*timer` of the application | the arithmetic around `poll(2)` | time that runs out in a call that returns another event |
| framing (`message.c`, `usocket.c`) | the buffer of `usock_recv` | `ipc_message_format`, `_format_read`, `_format_write`, `usock_recv`, `usock_send` | a stream has no message boundaries |
| Unix sockets, service path (`usocket.c`, `service_path.c`, `fs.c`) | the run-time directory and the file of a service | `usock_init`, `usock_remove`, `usock_connect`, `directory_setup_`, `mkdir_p_` | several processes share the file system and die at any step |
| lookup and passing of descriptors (`ipc_contact_ipcd`, `ipc_provide_fd`, `ipc_receive_fd`) | descriptors in flight | a request to `ipcd`, an answer, a descriptor | steps that fail half-way; answer and descriptor in one stream |
| examples (`pongd.c`, `pong.c`, `pongspam.c`, `simple-tcpd.c`) | a context, a count of clients | echo, a burst of messages per line | an error of one client reaches the loop that serves them all |
| Zig library (`context.zig`, `switch.zig`, `message.zig`, ...) | the same as the C context, as array lists and a hash map | the same | the same, with other mistakes possible |
| Zig programs (`ipcd.zig`, `tcpd.zig`, `pongd.zig`) | a context, connections being set up | lookup, proxying, echo | failures between steps, handlers that block |
| errors, printing, utilities; bindings; `authd` | | | |

Components interact through the context: the application calls the library, the
library calls the kernel, and peers act on the kernel's objects. No program has
threads, so interference comes from the peers only, at any moment, and shows at
the next system call; the file system is shared by all processes.

What makes each part correct: every connection of the context has an open
descriptor of its own; a message goes to the connection it was meant for, at
most once, and is dropped only with its connection or its peer; switched ends
and their records come and go together; what one end says reaches the other;
every call of `ipc_wait_event` says what happened; the timer rings; what is read
from a stream was written to it; a service starts again after a death and is
reachable while it is up; a lookup that fails leads to the local service.
`PROJECT.json` lists, under `hazards`, where the code puts these at risk.

## Modules

The C library:

* `IpcMessages`: the list of messages to send. `ipc_messages_add` copies the
  payload the way `strncpy` does, `ipc_messages_del` moves the last element into
  the hole, and `ipc_remove_messages_for_fd` is given in closed form.
* `RemovalLoop`: the loop of `ipc_remove_messages_for_fd`, one iteration per
  step, against that closed form.
* `IpcSwitching`: the switching records.
* `Kernel` (external): descriptor table, sockets, `poll(2)`. Every opened file has
  an identity, which its descriptor number does not have.
* `IpcContext`: the context and the application around it. The variable `ctx` is
  `struct ipc_ctx` with `cinfos` and `pollfd` as one sequence `conns`; `event` is
  the event without its index; `files` is the descriptor table. `ipc_wait_event`
  takes two steps, `PollReady` (up to the return of `poll(2)`, whose report is
  `revents`) and one of the actions of `Serve` (the first ready connection), so
  that peers act in between. The operations that the code calls on a context are
  operators on `ctx` with the code's names, composed by the actions in the
  code's order. `HandleEvent` is the application looking at the event.
* `MCIpcContext`: instances for TLC.
* `EventTimer`: the timer alone, with scaled units of time.
* `Framing`: a writer and a reader of one stream of bytes. `Recv(n)` is one
  `recv(2)` of the loop of `usock_recv` with what follows it; `cuts` are the places
  at which the kernel may end a `recv(2)` early.
* `ServicePath`, `MCServicePath`: servers and clients that share the run-time
  directory, one system call per step.
* `Lookup`: one client of `ipcd`, one system call per step; `conv` and `chan` are the
  conversation, `fds` what the client has open and where it leads.
* `Echo`: `pongd`, `pong` and `pongspam` as processes, over two queues for each
  connection. It reuses `IpcMessages`.

The Zig implementation:

* `ZigContext`: `context.zig` and `switch.zig`, with the same `Kernel` and list of
  messages. `wait_event` is split at `poll(2)` as in `IpcContext`.
* `ZigPrograms`: `pongd`, `tcpd` and `ipcd` as handlers of the events of
  `ZigContext`; `prog` says which one runs. A handler that reads from a socket
  blocks there, and nothing else is served meanwhile.

What a context promises:

* `Outbox`: an abstract specification without descriptors or arrays. A
  connection is opened, loses its peer, is closed; a message scheduled for it is
  written once, to it, or dropped when the connection is closed or has lost its
  peer.
* `IpcOutbox` instantiates it for `IpcContext`, `ZigPrograms` for the Zig context.
  In both mappings a connection is the file behind the descriptor, so the reuse
  of a number is invisible to `Outbox`: this is what the implementations have to
  get right.

The theorems are in `IpcMessagesProofs`, `RemovalLoopProofs`, `IpcContextProofs` (the
context and its refinement of `Outbox`), `NumericProofs` (`EventTimer` and `Framing`),
`ServicePathProofs`, `LookupProofs`, `EchoProofs` and `ZigProofs`.

### What is assumed of the application and the kernel

* An application leaves a switched pair as `handle_disconnection` of
  `examples/simple-tcpd.c` does, closes a descriptor it removed, does not write to
  a listening socket, and gives `ipc_connection_switched` a descriptor that is not
  already in the context. It ends with `ipc_close_all` and `ipc_ctx_free`.
* The end of a Unix or TCP socket is readable; only an external descriptor (a
  pipe, for example) reports a hang-up alone. In the Zig programs all
  descriptors are sockets, and the branches of `wait_event` for a hang-up alone
  are not reached.
* In `IpcContext`, `Echo` and `ZigContext` messages arrive whole, though several
  may arrive together; `Framing` is about the rest. `send(2)` succeeds as long as
  the peer is there and does not block. Memory does not run out.
* A callback of the application extracts one message at a time and asks to be
  called again while data is left, answers a message itself, or fails.
* In `Framing` a `recv(2)` may end at any multiple of `Unit` bytes of a `send(2)`, at
  its end, or when the buffer is full. `Unit = 1` is the most general case.
* In `Lookup`, `recv(2)` does not stop before the byte that carries a descriptor.
* `ServicePath` uses the rights the code gives to the directory, 01750: only
  its owner goes through it, and only an owner removes a file of it. The
  components of the path that exist beforehand let everyone in.

`ipc_ctx_free` frees the array of messages and leaves its size; a context that
is used again would then have a size without an array. The theorem
`TxAlwaysRegistered` says that the list is empty whenever that happens, so the
model has no state for it.

`IpcContext` has two flags that narrow the environment. `Pipelining` lets a peer
send again before its message was read; `DestLeaves` lets the service of a
switched pair go away. `Progress` sets both to FALSE, because two messages read
at once are a parsing error that ends the pair, and because of what the run
`StuckMessage` shows. `Calls` is the set of calls the application makes in an
instance.

## Runs

Passing runs:

| run | shows |
|---|---|
| `Server` | listening, accepted and external descriptors, peers that come and go, `accept(2)` at the descriptor limit (3 descriptors, 4 files): `TypeOK`, `TxRegistered`, `DescriptorsOwned`, `NoMisdelivery`, and the refinement `ImplementsOutbox`, which says that a message is written at most once and lost only with its connection or its peer |
| `Callbacks` | a switched pair, with callbacks or not, beside another connection, whichever end leaves: `SwitchdbCoherent` and `ImplementsOutbox`; the missing callback that kills the process is included |
| `Progress` | under fairness, a switched pair whose service stays, beside another connection: a connection that is served sets the event (`EventFilled`), `SwitchedHasRecord`, `SwitchTransfers`, `TxDrains` |
| `RemovalLoop` | every list of at most 5 messages over 3 descriptors: in bounds, ends, removes exactly what it should, in the order the closed form gives |
| `EventTimer` | every alignment of calls with the change of second: drift below a millisecond per call, no early ring, no negative timer (`NoDrift`); if calls of a millisecond keep happening, `*timer` keeps running out, however busy the connections are (`TimerRunsOut`) |
| `Framing` | two messages, every way to split and join them, a writer that leaves, is reset or is interrupted: `Intact`, `OneAtATime`, `EveryMessageRead` |
| `ServicePath` | two instances of a service, a service of another user and a client, deaths at any step: `Reachable`, `StartSucceeds`, `NoStalePath`, `StartReturns` |
| `Lookup` | three calls, `ipcd` and the local service coming and going: `ContextLeads`, `FallsBack`, `RemoteUsed`, `LeaksBounded`, and `CallReturns`, whose one exception is an `ipcd` that stays connected and never answers |
| `Echo` | two `pong`, one `pongspam`, a signal that may end one `pong` and the `pongspam` at any step: `EchoConserved`, `PongServed`, `FailureCause`, `EchoesReturn`, `ClientsForgotten` |
| `ZigPrograms` | the three Zig servers: `DescriptorsOwned`, `SwitchesPaired`, `OutHasMessage`, `TxDrains`, `PairsEnd`, and the refinement `ImplementsOutbox` |

Runs that find the code at odds with what the repository says of it (the
quotations are under `findings`):

| run | property | what happens |
|---|---|---|
| `StuckMessage` | `TxDrains` | the service leaves; `fd_switching_read` removes the destination twice and the origin never; a message for that origin stays in the list for ever |
| `Fragmented` | `ReadWasWritten` | the second piece of a message is stored over the first, and the application is given a message nobody wrote |

Bounds. `MaxFiles` files are opened and `MaxMsgs` messages created in a
behaviour. Three descriptors and four files are the least for which a number is
reused while another connection and its message are there. Two messages make a
list in which a removal moves one. `Callbacks` has room for one switched pair and
another connection; a removal that moves the record of a second pair is covered
by the theorem `SwitchingsCoherent`. Descriptors and callbacks are symmetric in
the runs without liveness. In `EventTimer` a millisecond has 3 units and a second
3 milliseconds, so that both truncations and the change of second occur;
`MaxCalls` bounds the calls counted in a period. In `Framing` a byte has 3 values
and the length is written in two of them, so that each half of it can be wrong;
the buffer holds a message of the longest payload and one byte more, so that a
full buffer ends a `recv(2)` inside a second message. `ServicePath` has a
directory of two components, which two processes may create half each, and three
starts: an instance that dies, its successor, and a process of another user.
`Lookup` makes three calls, so that what one leaves behind meets the next.
`Echo` has a burst of 2, the least for which two messages are in one `recv(2)`;
`Signalled` is the set of clients a signal may end, any subset of them in the proofs.
`ZigPrograms` has 4 descriptors and 5 files: for `tcpd` the two ports and a pair,
with one file more, so that a number is used again.

Fairness. `FairSpec` of `IpcContext` asks only that the application goes on
waiting for events and looking at them, which the endless loop of every server of
the repository does. Nothing is asked of the peers. `EventTimer` asks the same
of its application and nothing of the connections. `Framing` is fair to the reader alone, `ServicePath` to the processes
in the middle of `usock_init`, `usock_remove` or `usock_connect`, `Lookup` to the
client alone (`ipcd` may wait for ever for a daemon, `ipcd.zig:172`), `Echo` to the
loops of the programs but not to whoever starts them, types or sends signals, and `ZigPrograms` to the loop of the
program: a peer whose answer a handler waits for may stay silent, and the
liveness properties except that.

`CHECK_DEADLOCK FALSE` is in `Echo` and `ZigPrograms`, whose programs end.

## Proofs

`IpcContextProofs` proves, for any descriptors, callbacks, calls and bounds,

* `TypeCorrect`, `TxAlwaysRegistered`, `DescriptorsAlwaysOwned` and
  `NeverMisdelivered`: `Spec => []TypeOK`, `[]TxRegistered`, `[]DescriptorsOwned`,
  `[]NoMisdelivery`.

from the assumptions on the constants in `IpcContext`. None of them is inductive
alone. The invariant `IInv` adds

* that the type of a connection agrees with the sort of its file (`Matches`): the
  hang-up path closes a descriptor and keeps the connection, which is harmless
  only because `ipc_close` does not close the external ones;
* that a waiting message's file is the one its descriptor names now (`TxOK`):
  closing a descriptor and removing its messages are one step of the library;
* what remains true of the report of `poll(2)` until the connection is served
  (`PollInv`): a message still waits where POLLOUT was reported, a hang-up alone
  comes from an external descriptor, and a pending connection is still pending.

The lemmas `Good...` show that each operation on a context preserves the
invariant of the context against a descriptor table; the lemmas `Files...` do
the same for the operations on the table; one lemma per action combines them.

The next part of `IpcContextProofs` proves `SwitchingsCoherent`,
`Spec => []SwitchdbCoherent`, for any number of pairs. It goes on from `IInv`:
since a descriptor has one connection only, removing a connection leaves the
switched connections of all other descriptors in place (`Keeps`, which composes
along the calls of a handler), and every operation that makes a switched
connection leave also removes its record (`Coherent` before and after each
operation). `Keeps` is what lets `fd_switching_read`, which removes two connections
and a record in a row, be treated one call at a time although the state in
between is not coherent.

The third part is about what a switched pair can rely on. Three of its theorems
have hypotheses on the constants, because the code does not promise the property
without them (see "Behaviours to know"): two messages in one `recv(2)` are an error
(`~Pipelining`), and a service that leaves first (`~DestLeaves`) or a callback that
gives up (`Callback = {}`) takes the record away while the connection of the client
stays. The restrictions are those of the run `Progress`.

* `SwitchAlwaysTransfers` needs `~Pipelining` only. Nothing but a peer adds to what
  can be read (`Milder`), so one message waits at most (`OneQueued`); then
  `default_cb_in` succeeds, and `ipc_write`, whose result nobody looks at, finds the
  other end in the context because the switchings are coherent.
* `SwitchedAlwaysRecorded`, `Spec => []SwitchedHasRecord`, and `EventAlwaysFilled`,
  `Spec => EventFilled`, rest on `PairInv`: what was
  reported as readable still has data or an end (`InInv`), the services are there
  (`DestUp`), and no connection asks to be read again (`Calm`). A read that finds no
  data is then that of a client that ended, so `fd_switching_read` removes its own
  descriptor and the destination, and not the destination twice. The second theorem
  also assumes that the application does not listen: an `accept(2)` that fails
  returns an event that is not set. It is about the calls in which `poll(2)` reports
  a connection; when it reports none and the timer is null, the event is not set
  either, and `PollTimeout` says so.

The last part proves `ImplementsOutboxAlways`, the refinement: every step of
`IpcContext` is a step of `Outbox` under the mapping of `IpcOutbox`, or leaves what
`Outbox` sees unchanged. Four things are needed beyond `IInv`, and form `RInv` with
it: the identity of a message is in one place only, the list to send, the input
of one descriptor or the history (`MsgIds`), so that a message is not written
twice; the identity of a file belongs to one descriptor or to one pending request
(`FileIds`), so that closing a connection closes no other; and a hang-up reported
by `poll(2)` is still a fact when it is served (`HupInv`), so that the messages it
drops are those of a lost peer. An action that closes a connection and drops its
messages is one step of `Outbox`; one that reads messages through a switched pair
is a step that schedules them.

`RemovalLoopProofs` proves, for lists of any length, `LoopInBounds`,
`LoopRemovesExactly` and `LoopMatchesClosedForm`. `LoopInv` says where every message
of the input is: still in the part that was not examined, kept in the part that
was, or removed. `OrderInv` says which one is where: before the index the array
is the final one, beyond it the first one, and at the index the message either
was there from the start or was moved there from just beyond the end. The
number of messages kept beyond the end is the number of holes filled before the
index, which is how the closed form finds the message for a hole.
`LoopMatchesClosedForm` is what entitles `IpcContext`, `Echo` and `ZigContext` to the
closed form. `IpcMessagesProofs` holds what `ipc_messages_del` and `RemoveFor`
return; its `RemoveForExact` says that `RemoveFor` keeps the messages of the other
descriptors and no others.

`NumericProofs` is about the two components that compute. For the timer it proves
`NoDriftAlways`, for any period, delay and units of the clock. `ElapsedNear` is the
arithmetic of `time_elapsed_ms`: the milliseconds counted are less than one away
from the time spent, also when the difference of the fractions is negative and
its division truncates the other way. `TimerInv` adds to `NoDrift` that the time
spent is exact while the calls are counted.

For `Framing` it proves `IntactAlways` and `OneAtATimeAlways`, for any base, word,
buffer and payload sizes that `SizeAssumption` allows and any number of messages.
`ReadFormatted` is the heart: a buffer that starts with the bytes of a message,
alone or with others behind it, ends the loop of `usock_recv` at once and is
parsed as that message or refused, and never refused when the message is alone.
`FramingInv` says where the messages are in the stream: there is a function that
gives the byte at which each message written starts (`Starts`), the reader is at
one of these, the bytes left are those of the messages from there on (`Holds`),
what was given are messages before that place, in order (`Given`), and all of them
when no `recv(2)` took two (`Alone`). The starts are stated to increase by at least
the size of a message between any two of them, and not only from one to the next,
because the provers do no induction.

`ServicePathProofs` proves `ReachableAlways`, `StartSucceedsAlways` and
`NoStalePathAlways` for any number of processes, users and services. `PInv` says
what each process knows at each system call of `usock_init` and `usock_remove`, and
that the file at the path of a service that runs alone is the one of its instance.

`LookupProofs` proves `ContextLeadsAlways`, `LeaksBoundedAlways`, `RemoteUsedAlways`
and `FallsBackAlways` for any number of calls. `LInv` follows the conversation with
`ipcd` step by step: what each descriptor of the client leads to, which of them
belong to the call in progress, and what may still be in the channel. `RemoteUsed`
is about the descriptor of this very call: it is new, it leads to the remote
service, and it alone joins the context.

`EchoProofs` proves `EchoConservedAlways`, `PongServedAlways` and
`FailureCauseAlways` for any number of clients, rounds, lines and messages per
line, and signals to any of the clients. They hold together: that a pong is the
cause of an error only if a signal ended it rests on its one message being in one
place, which rests on `pongd` giving an answer to the client that made the message,
which rests on each client being once in its array although a removal moves the last
connection. `EInv` joins what each step of a client says of its context (`ClientOK`),
the array and the queue of `pongd` (`ArrayOK`, `LinkOK`), what `poll(2)` reported and
other processes cannot undo (`TurnOK`), the author of each answer (`AnswersOK`), the
one message of a pong (`WayOK`), that it leaves it unread only when a signal ends it
(`LeftOK`), and that the numbers of the messages in the five lists of a client are
disjoint and cover those it made (`Conserved`); each step moves a number from one of
the five sets to the next (`MoveAB` and the lemmas after it).

`ZigProofs` proves `DescriptorsOwnedAlways`, `SwitchesPairedAlways` and
`OutHasMessageAlways` for the three Zig programs. They need each other: a
connection is served with what `poll(2)` reported before, and POLLOUT is safe to
serve only because messages leave the list together with their connection.
`ZInv` joins them with what is known of that report (`Reported`) and of the
handler that is running (`HandlerOK`). `PortAssumption`, that there are two
descriptors, is what lets `tcpd` open its two ports.

Its second half proves `ImplementsOutboxAlways`: with each of the three programs,
and whatever their peers do, every step of the Zig context is a step of `Outbox`
or leaves what `Outbox` sees unchanged. `GInv` adds to `ZInv`

* that what the context holds beside its listening sockets, and the connection a
  handler of `tcpd` is about to add, are sockets with a peer (`Talks`);
* that a message to send names the file its descriptor still is (`Addressed`),
  because `close` takes the messages away with the connection;
* that the identity of a connection is that of one descriptor or waits in the
  queue of one listening socket (`Names`), so that closing one closes no other;
* that a message is in one place only: the input of one descriptor, the event that
  is handled, the list to send or the history (`Distinct`, `Letters`), so that
  none is scheduled or written twice.

Each action is brought to one of six kinds of steps by what it does to the ends of
connections and to the list (`ForgetStep`, `StillStep`, `OpenStep`, `ScheduleStep`, a
write, a peer that leaves); `tcpd` opens both ends of a pair in one step, or one
end while the other was there, which is why `Open` takes a set.

Only model-checked: the liveness properties (`Terminates`, `TimerRunsOut`,
`TxDrains`, `EveryMessageRead`, `StartReturns`, `CallReturns`, `EchoesReturn`,
`ClientsForgotten`, `PairsEnd`), which this prover does not handle.

## Behaviours to know

The models follow the code in these points too; no run is about them, because
nothing in the repository says otherwise or because the properties are stated
around them.

In C:

* Two messages for one descriptor may be written in the other order, because a
  removal moves the last message into the hole (`message.c:191`).
* A write that fails drops its message and is reported as `TX` all the same.
* When `accept(2)` fails, `ipc_wait_event` returns an event without a type and the
  context keeps an entry without a descriptor.
* With `*timer` at 0 and nothing ready, `ipc_wait_event` also returns an event without
  a type, since TIMER needs `timer_ != 0` (`communication.c:604`), although the comment
  at the exit says of the event that "it has to be filled" (`communication.c:688`).
* Two messages that arrive in one `recv(2)` are a parsing error, and both are lost
  with the connection (`message.c:49`). `pongd` exits on that error, and on a
  client that leaves without reading its answer: `TEST_IPC_WAIT_EVENT_Q`
  (`ipc.h:585`) ends the program. A `pong` does that too when a signal ends it
  between the answer of `pongd` and its read. `FailureCause` says that nothing else
  does.
* A payload may be as long as the whole buffer, `IPC_MAX_MESSAGE_SIZE`
  (`message.c:72`, `103`), although the header goes into the same buffer
  (`communication.c:310`). `SizeAssumption` of `Framing` leaves out the payloads that
  do not fit behind their header.
* When the destination of a pair ends or fails first, `fd_switching_read` removes it
  twice and the record once: the connection of the client stays, switched and
  without a record, and its events are not set from then on.
* `ipc_switching_del` moves the descriptors of the last record but not its
  callbacks (`network.c:132`).
* `fd_switching_write` calls the callback that writes when the one that reads is
  set, even if the former is NULL (`network.c:411`).
* A payload with a NUL byte is damaged by `strncpy` (`message.c:170`).
* A timer that reaches 0 beside another event never rings again
  (`communication.c:604`): the periodic routine `ipc.h` speaks of then stops for
  good. `TimerRunsOut` says that `*timer` reaches 0, not that the application is told.
* A call of less than a millisecond may count for nothing (`communication.c:592`): if
  all calls are that short, `*timer` never falls. `TimerRunsOut` asks for longer ones.
* A message that arrives in pieces is stored over itself (`usocket.c:122`, the run
  `Fragmented`). A first piece shorter than the header is no exception: the length is
  taken from bytes that have not come yet, and the size without the header wraps
  (`message.c:49`), so that only a length of 0 is accepted. `Intact` and `OneAtATime`
  speak of streams without such a piece.
* `usock_recv` spins when the stream ends in the middle of a message
  (`usocket.c:204`).
* Every failure of a lookup but a refusal leaves a socket open; `LeaksBounded`
  says how many. An answer of `ipcd` read together with the byte that carries the
  descriptor loses it, and the local service is used.
* Two instances of one service take each other's path away (`usocket.c:268`); the
  properties of `ServicePath` speak of instances that run one at a time (`alone`).
* `pongspam` writes to its standard input once `pongd` has left (`pongspam.c:109`).

In Zig:

* The origin of a DISCONNECTION event is that of the connection moved into the
  hole (`context.zig:435`, `445`); the programs only print it.
* `set_callbacks` changes a copy (`switch.zig:68`), so the default callbacks stay.
* One read is one message (`context.zig:317`): what is glued to the first is lost,
  and an empty message alone is a disconnection.
* An ERROR event, or an error passed on by `try`, ends `tcpd`, `ipcd` and `pongd`.
* A TCP client or a remote side that says nothing stops `tcpd` (`tcpd.zig:135`,
  `212`), a daemon that does not answer stops `ipcd` (`ipcd.zig:172`), and an "ok"
  glued to data is taken for a refusal (`tcpd.zig:213`).
* For a service of the same machine `ipcd` connects, passes the descriptor and closes
  it in one handler (`ipcd.zig:147`); `Lookup` of `ZigPrograms` has the net effect, which
  is that nothing of it stays open.

## Not modelled

Allocation failures; the failure of `poll(2)`; a `send(2)` that blocks because the
peer does not read; a peer that never stops writing, which starves the
connections after it in the array. The interactive mode of `pong`, which is that
of `pongspam` with one message. `simple-tcpd` but for `handle_disconnection`. The
timer of the Zig context, whose events are only printed, and its `connect_ipc`
with the client's side of the lookup. The bindings, which forward to the context;
the Crystal application; printing, error tables and the building of paths.

## Plan

Done: everything above. The safety properties of the passing runs are all stated by a
theorem, and both contexts are proved to implement `Outbox`. What could be added is
the other side of the Zig programs: `connect_ipc` and the client's part of a lookup,
with `Lookup` as the pattern.
