# A formal model of memxy

memxy is a memcached proxy: clients speak the memcached text protocol to it, it
forwards every request through libmemcached, and a control port replaces the
list of servers while it runs.  It is built on `mp::wavy`, an event loop that a
pool of threads executes together.  This directory models the parts of the
program that decide something: the event loop and its threads, the output, the
start and the stop, the gates with their parser, the proxy client, and the
buffers below.  TLC checks them on small instances, and TLAPS proves the
safety of the event loop, the output, the proxy client, the start of the threads
and of the service, accepting and connecting, the control gate, the stream buffer
and the memory of the transfer buffers, for every number of threads, descriptors
and bytes.

Paths below are relative to the root of the repository.

## 1. The system

| component | state | operations | interacts with |
|---|---|---|---|
| event loop (`src/mpsrc/wavy_base.cc`, `wavy_core.h`) | mutex, condition variable, `m_backlog`/`m_off`/`m_num`, `m_pollable`, `m_end_flag`, task queue, `m_state` (handler of each descriptor) | `operator()`, `do_task`, `do_out`, `submit`, `add_handler`, `end`, `join`, `add_thread` | all threads; the port; handlers |
| epoll port (`src/mpsrc/wavy_port_epoll.h`) | one-shot registrations, timerfd, signalfd | `add_fd`, `shot_reactivate`, `shot_remove`, `wait`, `create_timer`, `create_signal` | kernel |
| out port (`src/mpsrc/wavy_out.cc`) | a transfer context with its mutex per descriptor, its own epoll port, a queue of write events; a buffer of items per transfer | `commit_raw`, `commit`, `write`, `write_event`, `poll_event`; `push_*`, `reserve`, `migrate`, `execute` | event loop, handlers, sockets |
| listen (`src/mpsrc/wavy_listen.cc`, `accepted` in the gates) | descriptors | `listen_event`, accept loop, `end()` on a failed accept | event loop, gates |
| signals and service (`src/mpsrc/wavy_signal.cc`, `src/wavy_core.cc`, `src/main.cc`) | mask, signalfds, `m_end_flag` | `init`, `daemonize`, `start`, `join`, `end` | event loop |
| thread start-up (`add_thread` in `src/mpsrc/wavy_base.cc`) | an `init_pack` per thread with mutex and condition variable | `add_thread`, `wait_init`, `started` | main, workers |
| proxy client (`src/proxy_client.cc`, `src/mp/exclusive.pre.h`) | list of clients with its mutex, a client with its mutex per worker | `thread_init_func`, `set_servers`, `get` | main, control gate, request handlers |
| control gate (`src/gate_control.cc`) | a stream buffer per connection | framing, `set_servers` | proxy client |
| memtext gate (`src/gate_memtext*.cc`) | stream buffer and parser per connection | `read_event`, get, gets, set, delete | parser, proxy client, out port |
| parser (`src/memproto/memtext.rl`) | state with marks and a stack of keys | `memtext_execute` | memtext gate |
| stream buffer (`src/mp/stream_buffer_impl.h`) | chunk with reference count, offsets, references | `reserve_buffer`, `expand_buffer`, `release`, `data_used` | both gates |
| connect (`src/mpsrc/wavy_connect.cc`) | handlers, timerfds, `m_done` | `connect_event`, `connect_thread` | event loop, epoll port |
| timers (`src/mpsrc/wavy_timer.cc`), binary protocol (`src/memproto/memproto.c`), shared buffer, source, sparse array (`src/mp`) | | | library code that memxy does not call |
| logging, options, `memxyctl` | | | pure input and output |

What is hard: several threads share one poller role and one backlog; a flag is
written without the mutex on the way out; descriptors are numbers that the
kernel gives out again while another thread may still hold an event of the
earlier owner; output is written by two kinds of threads (the handler and the
one that has a write event); clients are replaced under running requests; and
each of these steps may fail.  Below the threads, requests arrive in pieces and
several at a time, and parsers keep positions into buffers that move.
`PROJECT.json` lists these places, line by line,
as hazards with the property that watches each.

What makes the components correct:

- event loop: one poller; one owner per event; a handler behind each event; no
  lost wakeup; `end()` stops everybody; a long task queue is served;
- out port: bytes in order, none lost or doubled while the connection lives;
  finalizers once and after their data; pending output is always watched;
- proxy client: no client is freed under a request; updates take effect one
  after another, and a successful one reaches every registered worker;
- start and stop: every worker is initialised before main goes on; a signal ends
  the service and never kills it;
- gates and parsers: however the bytes are cut, the requests are those that were
  sent, each gets its own reply, and nothing complete waits for more input;
- listen, connect: every descriptor has one owner, every callback is
  called once, whatever fails on the way;
- stream buffer: it is a stream, and no memory is freed early, twice or never.

## 2. The modules

**`WavyCore`** is the event loop.  Each worker has a program counter `pc` whose
values are the places in `coreimpl::operator()` where it holds or waits for
something.  A region under `m_mutex` is one action (`DoOut`, `DoTask`,
`CondWait`, `StartPoll`, `Relock`, `TakeBacklog`), except that the look at
`m_end_flag` (`Lock`) is a step of its own, since `end()` writes the flag
without the mutex; every call outside the mutex (`PollReturn`, `Accept`,
`SetHandler`, `AddFd`, `EndFlag`, `Remove`, `ResetHandler`, `Close`,
`Reactivate`, `WriteDone`, `WriteMore`) is an action too.  Handlers are
abstracted to what they do to the loop: return, throw, accept a connection,
leave output pending, call `end()`, submit a task.  A task is a count, an event
is its descriptor.  Signals may wake any waiter, and waits may end without one.
Closing a descriptor and giving its number to a new connection is modelled with
all the interleavings in between.  A system error of `epoll_wait`, which throws
out of the thread and ends the process, is not.

**`FdLifecycle`** is what the loop promises to the author of a handler, without
backlog, mutex or ports: a descriptor is opened, armed, reported, run by one
worker, and re-armed or closed by that worker alone.  `RefinesLifecycle` says
that `WavyCore` implements it, `Phase` being the refinement mapping.

**`WavyOut`** is the output side of one descriptor or more, in greater detail
than the booleans `pend` and `oreg` of `WavyCore`.  The bytes of a descriptor
are numbered in the order of the commits, an item of data is an interval with
the finalizer that frees its memory; a call is its kind and the places where its
pieces end.  A commit enters the mutex of the context
(`CommitQueued`, `CommitDirect`), each system call and finalizer of
`xferimpl::execute` is a step (`Exec...`), and what the three callers do with
its result are the `Settle...` and `Event...` actions: the rest of a commit is
queued and watched, or queued without being watched because `add_fd` failed
(`SettleUnwatched`, remembered in `unwatched`), or lost because `push_xfraw`, `migrate`
or `push_write` threw (`SettleThrows`); a push on a context that is not empty and
throws leaves it as it was and is no commit.  The peer reads, resets;
the handler closes the descriptor at any time outside a commit; the number is
used again.  The variable `stale` remembers that a descriptor was closed with
output pending: the code then leaves the context as it is, and the guarantees
about the stream end there (section 5).

**`ProxyClient`** has the list mutex, the mutex of each client, the walk of
`set_servers` one step per call that can block or fail, and the start-up of the
workers, up to the point where `main` may set the initial servers.  libmemcached
is external: creation, push and parsing may fail at any call.

**`XferQueue`** and **`XferBuffer`** are below `WavyOut`: the memory of one transfer
buffer, in cells, with the items that the `push` functions write, the growth and
the copies, and `execute`, which cuts an item in place when the kernel takes a
part of it.  It implements `XferQueue`, a queue of bytes and finalizers.  `Doubled` is
the loop of `reserve` as the set of the one size it ends with.  The names of
`XferBuffer` are other than those of `WavyOut` (`XferInit`, `XferNext`, `XferSpec`),
because `WavyOut_proofs` extends both.

**`ThreadInit`** is `add_thread`: the pack of each thread, its mutex, condition
variable and flag, init functions that throw, a `pthread_create` that fails, and
`join`.  `ProxyClient` assumes what it shows, that main goes on after every init
function.

**`ServiceSignals`** is `main` from `service::init` to `join`: three signals that
may come at any time, the mask that the workers inherit, the double fork, and the
handlers that end the loop.

**`ServiceStart`** composes the two: the thread that `ThreadInit` creates is the
worker that gets the signals of `ServiceSignals`, so that a signal may arrive, and
end the service, while main still waits for another thread to start.  The steps
that both components take (creating a thread, leaving the loop, joining) are
conjunctions of their actions; all others are steps of one of them.

**`ListenEvent`** is `listen_event` and the callback of the accept loop with a
failure at each step: which of handler, catch block and loop closes a socket.

**`MemtextParser`** is the machine of `memtext.rl`; a symbol of the input is a
command word, a digit, a space, the two characters of a line end or another
character; numbers saturate at `MaxULong` as `strtoul` does.  **`GateMemtext`** drives it the way `read_event` does, from a script of
requests cut into reads of any size, and has the four request handlers with
their replies; a command without a callback ends the connection there.
`Meaning` says what a request means, independent of the machine.

**`GateControl`** is the framing of control messages, with the encoding that
`memxyctl` uses.  The prefix is `SizeofLen` bytes of base `Base`; `packN`, `ntohl` and
`Sent` are recursive functions over the bytes and the messages, so that they can
be reasoned about.

**`ByteStream`** and **`StreamBuffer`**: a stream of bytes, and the chunks with
reference counts that implement it.  `malloc` gives any chunk that is free, and
`realloc` that or the same one, so that a freed number comes back at the worst
time.  Two variables are history: `early`, that some `release` found nothing used in
the current chunk, and `torn`, that `realloc` moved a chunk which a reference counts
(section 5); `torn` is the `void` of `ByteStream`, after which it promises nothing.

**`ConnectEvent`** has several calls of `connect_event` and `connect_thread`, with
their timers, the workers, and the numbers of descriptors in use again.

The modules `MC...` instantiate them for TLC; the modules `..._proofs` hold the
theorems: `WavyCore_proofs`, `WavyOut_proofs` (with `XferBuffer`), `ProxyClient_proofs`,
`ServiceStart_proofs` (with `ThreadInit`), `ListenEvent_proofs`, `ConnectEvent_proofs`,
`StreamBuffer_proofs` and `GateControl_proofs`.  `TypeOK` of a
module says what its variables hold; the theorems include it, and elsewhere it
is there for the reader.

How they fit together: `WavyCore` shows that one worker at a time runs a handler,
which `GateMemtext`, `GateControl` and `ListenEvent` take for granted;
`WavyOut` shows that committed bytes leave in order, so that a reply is one step of
`GateMemtext`; `StreamBuffer` shows that the buffer is a stream, which is what the
gates read from; `ProxyClient` is what a request and a control message reach.

Operators named `X_Y` after an operator `X` (for example `Relock_NoSignal`) are
mutated forms of `X`, each a plausible bug; they are used only to show that a
property would notice it.

## 3. The runs

| run | bounds | shows |
|---|---|---|
| `core` | 3 workers (symmetric), 1 connection, 1 listener, 1 signal, backlog 2, limit 1, 2 tasks | `OnePoller`, `EventOwnership`, `HandlerPresent`, `WorkAttended`, `WriteEventOwnership`, `EndHeard`, `RefinesLifecycle` |
| `core_live` | the same without symmetry, backlog 1 | `QueuesServed`, `LongQueueServed`, `EndStopsPool` |
| `out` | 2 workers, 1 descriptor, socket buffer of 2 bytes, 5 bytes and 3 finalizers committed in calls of 1, 2 and 2+1 bytes | `WatchedWhilePending`, `StreamIntact`, `FinalizedOnce`, `EventuallyDelivered` |
| `proxy` | 2 workers and main, 3 calls of `set_servers` | `NoUseAfterFree`, `NewestFirst`, `SetReachesAll`, `InitialServersEverywhere`, `NeverBackwards`, `SetCompletes` |
| `xfer_buffer` | three buffers of up to 27 cells, 4 bytes or finalizers, a file of 2 | `FreeExact`, `ImplementsQueue` |
| `service_start` | 3 signals, 2 workers, with and without daemon | `PackAlive`, `InitBeforeStart`, `NeverKilled`, `StartsUp`, `Stops` |
| `listen` | 2 listeners (symmetric), 4 descriptors, 6 sockets | `Unharmed`, `Settled` |
| `memtext_gate` | 13 scripts of up to 3 requests, every cut into reads of up to 12 symbols, numbers of 3 digits that saturate at 199, at most 3 keys, 2 in the small array | `RequestsFaithful`, `RepliesMatch`, `NoFalseError`, `NothingHeldBack` |
| `memtext_limit` | a request with one key more than the limit | `LimitRefused`, **violated** |
| `control_gate` | all scripts of up to 3 out of 4 messages, every cut | `AppliedInOrder`, `NothingHeldBack` |
| `stream_buffer` | 2 references (symmetric), 3 chunks, 5 bytes | `CountsExact`, `ImplementsStream` |
| `connect` | 2 calls, 2 descriptors, 2 workers | `CallbackOnce`, `GivenKept`, `CallsBack` |

All of them check for deadlock.

Why the bounds are enough to be interesting: three workers give a poller, a
worker with an event and one asleep, or two that race for the mutex behind a
third; one connection is enough for its number to be closed and given out
again, since the listener accepts in another worker; a backlog of two holds an
event that a second worker takes; the task queue reaches one more than its
limit, so that both branches at line 263 occur; a socket buffer of two bytes
cuts every longer item; three calls of `set_servers` let one fail half way and
another run over it while a third waits.  In `ListenEvent` and `ConnectEvent` there
are fewer descriptors than sockets and timers are made, so that every number is used again while
its earlier owner is still being taken apart.  The scripts of the gates have
requests of every kind behind each other, and a read may end at every symbol.
Widths are small (`Wrap16`, `Wrap32`, `Base`), so that numbers wrap and prefixes
carry.  The proofs below remove the bounds from the safety properties of all
modules but the memtext gate with its parser, and from the account of the
transfer buffer's memory (its contents stay with TLC).

Fairness.  `WavyCore`: weak fairness of the steps of each worker, which the
scheduler gives; the poll itself returns after at most a second (line 274), and
handlers, tasks and system calls return.  Nothing is assumed of the peers, of
`accept`, or of spurious wakeups, and no fairness of the mutex beyond that a
worker for which it stays free gets it: `EndStopsPool` holds all the same,
because every worker that gets the mutex after `end()` leaves.  `WavyOut` and
`ProxyClient` assume strong fairness for taking a mutex (a waiting thread is
not passed over for ever), `WavyOut` also that a write is not interrupted for
ever, that somebody polls the out port again and again (its events arrive by the
main port, which needs handlers that return and a task queue that does not stay over
its limit), and that the peer reads; a peer that stops reading keeps its bytes in the
context, which is what the code does.  `WavyOut` does not assume that a queued write
event is taken: the loop takes one only while another worker polls (lines 252-254),
and the out queue has no limit branch as the tasks have.  `EventuallyDelivered`
therefore excepts an event that stays in the queue for ever, and `QueuesServed` of
`WavyCore`, with its own escape, says when it does not.  `ServiceStart` assumes weak fairness of main
and of each thread and strong fairness for taking a mutex, and nothing of signals;
`ConnectEvent` that the threads are scheduled and that a timer which is set
expires (a `timeout_msec` of 0 disarms a timerfd and sets none), and nothing of the peers.

## 4. The theorems

`WavyCore_proofs` proves `Spec => []IInv`, where `IInv` is the conjunction of
`TypeOK`, `OnePoller`, `WorkAttended`, `EndHeard`, `EventOwnership`,
`HandlerPresent` and `WriteEventOwnership`, for any sets of workers (two at
least), connections, listeners and signals, any backlog size, limit and number
of tasks.  The seven properties are corollaries.  Each was stated so that the
conjunction is inductive: `OnePoller` ties the window of the backlog to
`m_pollable` (an event is taken only where one exists, so `TypeOK` needs it);
`EventOwnership` includes the workers that have removed a descriptor and not
yet closed it, and `HandlerPresent` the descriptors between `accept` and
`add_fd`, because the reuse of a number is safe only if the two never meet;
`WorkAttended` asks for two workers awake when nobody polls, since one of them
is about to poll and the other must see the queues.  There is one lemma per
conjunct, and in it one step per action; steps that touch nothing relevant go
through the frame lemmas `QuietStep` and `UndeliveredFrame`.

Assumptions: `IdentAssumption` (different kinds of descriptors are different),
`WorkersAssumption` (two workers; memxy starts eight), `BoundAssumption`.

`ProxyClient_proofs` proves `Spec => []IInv` for any number of workers and of
calls of `set_servers`.  `IInv` is `TypeOK`, `NewestFirst` and
`InitialServersEverywhere` together with
- `PlacesOK`: which thread can be where; main leaves its start only when every
  worker is registered;
- `ListOK`: a registered worker is in the list of workers, once;
- `LocksOK`: each mutex is held exactly by the thread whose place says so;
- `WalkOK`: the walk of `set_servers` that is under way has the last number, the
  workers behind it have its client and those ahead of it an older one;
- `FreedOK`: a freed client is older than the one its worker has, except between
  the `delete` and the assignment that follows it;
- `ReachedOK`: what a call that has returned leaves behind.

`NewestFirst` is not inductive alone: that an assignment keeps the order needs to
know that there is one walker (`LocksOK`) and where it stands (`WalkOK`), and
`NoUseAfterFree` is the meeting of `FreedOK` with the mutex of the worker.  The
corollaries are `ClientsSafe`, `UpdatesOrdered`, `UpdatesComplete`,
`InitialComplete`, and the action property `UpdatesMonotone`.  As above there is
one lemma per conjunct and one step per action, with a frame lemma for the
actions that leave a conjunct's variables alone.  Assumptions:
`ThreadAssumption` (main, the workers and "nobody" are different) and `MaxSetsAssumption`.

`ServiceStart_proofs` begins with `ThreadInit`: `Spec => []IInv` for any number of
threads, with `IInv` the conjunction of `TypeOK`, `Progress` (which packs main has created and
destroyed, by its place and its loop variable), `Handshake` (the flag, the mutex
and the place of the thread agree) and `Outcome` (a thread behind its init
function is in `inited`).  `PackAlive` is not inductive alone: that main may
destroy a pack needs to know that the thread gives the mutex back after it has
set the flag, which is `Handshake`.  Corollaries: `TypeCorrect`, `PackSafe`,
`InitFirst`.  Assumption: `ThreadsAssumption`, at least one thread.

It then proves that `ServiceStart` implements `ThreadInit`: each of its
steps is a step of `ThreadInit` or leaves the variables of it alone, so that
`PackAlive` and `InitBeforeStart` hold of the whole start too (`ImplementsThreadInit`,
`ServicePackSafe`, `ServiceInitFirst`).  `SignalsSafe` is `NeverKilled` for any number of
workers and any list of signals.  It is not inductive alone: `KillInv` adds that the
signals before the one that main sets up are blocked, all of them once
`service::init` is over (`MaskOK`), and that every thread that exists has them in
its mask (`ThreadsMasked`).  Assumptions: `ThreadsAssumption`, `SignalsAssumption`.

`LoopImplementsLifecycle` (in `WavyCore_proofs`) is the refinement: `Spec =>
RefinesLifecycle`.  Each action of the loop is an action of `FdLifecycle` on the
descriptor it is about, or leaves `Phase` as it is; which of the two depends on
`EventOwnership` and `HandlerPresent` (a worker that re-arms or closes a
descriptor is the one that runs it), so the step lemma is proved under `IInv`.

`WavyOut_proofs` proves `Spec => []IInv` for any workers, descriptors, calls and
sizes of the socket buffer.  `IInv` is
- `Types`, and `LockOK`: the mutex of a context is held exactly by the thread that
  executes on it;
- `ThreadOK`: a thread that commits found the context empty and keeps it so until
  it settles, and the result of `execute` agrees with what is left of its buffer
  (when it blocked, the first item left is data, whose first byte is where a commit
  that throws ends);
- `WatchOK`: of an armed registration, a queued event and a worker with an event,
  a descriptor has one while it has output and none otherwise; one whose watch was
  refused has output and none of them;
- `FlowOK`, about the items of a descriptor that are pending, in the context or in
  the hands of the thread that executes: `FinOK` (each finalizer is pending or has
  run or was dropped, one of them only), `Joined` (an item starts where the last
  one ended, up to the last byte committed) and `Starts` (the first one starts
  behind the last byte delivered).

None of the three properties is inductive alone.  The pending items are moved
between buffer and context, cut, freed and joined; what each of these does to
`FinOK`, `Joined` and `Starts` is a lemma on sequences of items (`FinRuns`, `FinCut`,
`FinJoins`, `JoinedTail`, `StartsNext`, `DataCut`, `DataJoins` and others), and the
steps of the actions cite them.  Corollaries: `OutputWatched`, `BytesInOrder`,
`MemoryFreedOnce`.  Assumptions: `ThreadAssumption`, `RoomAssumption`, and
`CallAssumption`, that the pieces of a call are not empty.

`ConnectEvent_proofs`, for any calls, descriptors and workers: `CalledBackOnce` and
the action property `GivenDescriptorsKept`.  `OnceInv` says of each call who may
still call back (the set-up, one of the two handlers, a worker) and that at most
one worker is about to, the one that set `m_done`; `OwnInv` says whose each descriptor
is at each place of the call and of the workers, that is, which numbers may
already belong to another call.  That the descriptor given to a callback is a
connected socket of that call, and is closed by nobody but its user, follows
from the second.

`ListenEvent_proofs`, for any listeners, descriptors and sockets: `NobodyHarmed` and
`SocketsSettled`.  `IInv` adds to `Unharmed` that a new socket is
nobody's yet (`FreshInv`), that the socket a listener takes in is its alone and still
behind its number (`TakeOK`), and that an open socket is served or on its way to be
(`FdOK`), each with the exceptions that a second close brings about.  Assumption: `NumberAssumption`.

`StreamBuffer_proofs`, for any references, sizes, chunks and bytes: `CountsKept`,
`BufferImplementsStream` and `TypeCorrect`.  The invariant is `IF torn THEN early ELSE
Sound`.  The counts alone are not inductive: that `realloc`, which does not look at the
count, moves a counted chunk only after an early release needs
`BufferOwned` (without one, a chunk of which nothing was used has one count), and that no
byte behind a reference changes needs `RunsOK` (what was used lies in a chunk that
is counted for it, and in front of `m_off`).  Each action has one lemma, which shows that it
keeps the invariant and is a step of `ByteStream`; `Doubled` enters only by its lower
bound.  Assumption: `SizeAssumption`; the references are finitely many, since they
are counted.

`GateControl_proofs`, for any base, any width of the prefix, any scripts of messages and
any way the bytes are cut: `ListsInOrder` (`AppliedInOrder`), `AllHandled`
(`NothingHeldBack`), `Framed` (the inductive invariant below) and `LengthKept`: `ntohl`
undoes `packN` for every length that fits.
The library's induction theorems take a predicate as a parameter, which the
provers cannot instantiate; the module therefore states induction and recursion
with sets and functions in that place (`LeastNat`, `Induction`, `Recursion`), from the
well-foundedness of `<` on the natural numbers, and gets from them what `Power`,
`packN`, `ntohl` and `Sent` return (`PowerIs`, `PackIs`, `NtohlIs`, `SentIs`).  The
inductive invariant is `Inv`:
- `Types`;
- `Aligned`: the bytes in the buffer and those not yet read are the messages that
  are left, from the beginning of one on;
- `AppliedInOrder`: the lists that were applied are those at the front of the script;
- `LastWaits`: an empty message at the end is not handled; `Waits`: the handler waits
  only when the buffer has no message that it would take.

`AppliedInOrder` is not inductive alone: that the next list applied is the next
one sent needs the buffer to begin where a message begins (`Aligned`), and
`FirstMessage` says that the prefix found there is the length of that message.
Assumption: `ControlAssumption` (a base of two at least, no empty script, and every list
shorter than what the prefix can say: 4 GiB in the code).

`WavyOut_proofs`, second part, is about `XferBuffer`: `MemoryAccounted` is `FreeExact` for
any vectors, files and sizes of buffers.  `FreeExact` is not inductive alone: what
`execute` leaves depends on the sizes it reads in the memory.  `XferInv` adds
- `Layout`: a buffer is whole items, one behind the other (`Sized`).  This is said
  without a walk: there is a set of places that holds the beginning and the end
  and, with the place of an item, the place behind it (`Divides`);
- `AtItem`: `execute` stands at one of these places.

The lemmas say that the fill functions write whole items (`FillSized`), that whole
items behind each other are whole items (`ConcatSized`), that so is what is left
from the beginning of one on (`RestSized`), that shortening an iovec moves none
(`ShortenedSized`), and that the item which `execute` makes at the head of the buffer
has the length its new type says and ends in front of what is kept (`CutSized`);
that holds in whichever direction `memcpy` copies.  Assumption: `LengthsAssumption`.

Only model-checked:
- everything about liveness (`EndStopsPool`, `QueuesServed`, `LongQueueServed`,
  `EventuallyDelivered`, `SetCompletes`, `StartsUp`, `Stops`, `CallsBack`), which is
  outside the prover;
- `GateMemtext` (`RequestsFaithful`, `RepliesMatch`, `NoFalseError`, `NothingHeldBack`):
  what the machine of `memtext.rl` computes on every input is the correctness of a
  whole parser against `Meaning`, an induction over the input for each of its rules,
  and each transition applies its actions with `FoldLeft`, which the prover does not
  see into;
- `XferBuffer` (`ImplementsQueue`): the layout of the buffer is proved, what its cells
  stand for is not.  That needs what `Read`, a recursive reading of the cells, returns
  for joined, cut and copied buffers, and what the sums over the iovecs are, which
  `FoldLeft` hides from the prover.

## 5. What the model shows about the code

One run ends in a violation of something the repository says:

- `memtext_limit`: `incr_key` (`src/memproto/memtext.rl:73`) lets one key more than
  `MEMTEXT_MAX_MULTI_GET` through, which is stored behind the arrays of that size
  (`src/memproto/memtext.h:140`).

The following are consequences of the code that a reader of the repository should
know; no text of the repository contradicts them, and the properties are stated so
that they hold, with the exception named where there is one.

- A descriptor that is closed with output pending leaves its transfer context
  behind (`~handler` closes, nothing resets `m_fdctx`).  The next connection
  with that number commits behind the old bytes, and unless a write event is
  still in flight nobody watches the descriptor.
- `commit_raw` drops the finalizers of what it could not write when the
  connection is broken, and does not shut the socket down; `commit` and `write`
  do.
- `execute` calls `fill_iovec`, which uses `memcpy`, on overlapping memory
  (`wavy_out.cc:150` and 380).  `ImplementsQueue` holds for a copy upwards and fails
  for a copy downwards (`Copies = {"down"}`).
- `out::watch` ignores a failing `add_fd` (`wavy_out.cc:440`).  The rest of the reply
  then stays in the context, nobody writes it, and since a context that is not empty
  is only added to, the same goes for all later output of that descriptor number
  (`unwatched` in `WatchedWhilePending` and `EventuallyDelivered`).
- An exception of `push_xfraw`, `migrate` or `push_write` after a part was written
  (`wavy_out.cc:455`, 471, 492) loses the rest of the commit, and with `commit_raw`
  perhaps its finalizer; later commits follow the last byte written.
- With a single worker the queues would not be served while it polls; the loop
  needs two.
- A control message that arrives during start-up misses the workers that
  register later; the initial list of `main` does not.
- When `set_servers` fails half way the workers at the front of the list have
  the new servers and the others keep the old ones.
- A daemon does not hear its signals: the signalfds were registered with epoll by
  the process before the forks.  `Stops` excepts it.
- When a handler cannot be constructed or made non-blocking, its descriptor is
  closed twice (`~handler`, then the catch block of the accept loop).  If another
  worker gets the number in between, its connection is closed, its handler stays,
  and from then on each new connection with that number is closed by the handler
  of the one before.  `Unharmed` and `Settled` show that nothing else does this.
- The result of `add_fd` is ignored: a connection that cannot be registered is kept
  and never served.
- Every failure of `accept` but two ends the service.
- A fetched key that is longer than the requested one overwrites the input behind
  it (`spilled`); the properties of the gate hold on connections where that does
  not happen.
- A store of 0 bytes is refused as a parse error (`memtext.rl:221` wants a first digit
  from 1 to 9), and the connection ends.  `NoFalseError` excepts this request
  (`EmptyStore`) and no other.
- `do_cas` gives its request `cas_unique` and `noreply` in each other's place
  (`memtext.rl:177-184`, `memtext.h:72-81`).  memxy sets no callback for `cas`, so that
  nobody sees it; commands without a callback end the connection.
- Flags of a request are cut to 16 bits; other numbers saturate at 2^64-1 before they
  are cut.  An empty control message at the end of
  what was read waits for more bytes.
- `expand_buffer` never gives up its own count of the chunk it replaces, so that
  chunk leaks (`abandoned` in `CountsExact`).
- After `data_used`, an expansion to a new chunk and `release`, the current chunk has a
  reference although `m_off` is at its beginning, and the next `expand_buffer`
  reallocates it under that reference (`stream_buffer_impl.h:185`).  `CountsExact` and
  `ImplementsStream` show that nothing else tears a chunk away; memxy does not call
  `release`.
- The connect handlers close the descriptor before the loop removes its event and
  handler; by then the number may be another call's, which then never calls back
  (`hit` in `CallsBack`).  The time-out leaves the timerfd open.

## 6. Not modelled, and what is left

Not modelled, and why:

- the kqueue port: not part of the Linux build, and it does not compile as it
  stands (`wavy_port_kqueue.h:205`), so that it has no behaviour;
- `step_next` of the core, `signal_thread`, `destroy` of the proxy client,
  `add_thread` without an init function, `detach`, read-write locks: nothing calls
  them;
- failures that another module has: `Accept` and `AddFd` of `WavyCore` do not fail, and
  `HandlerPresent` and `RefinesLifecycle` speak of that path (`ListenEvent` has the
  failures); an `EPOLL_CTL_MOD` of `write_event` does not fail, and finalizers do not throw;
- a callback of `connect` that calls `add_handler` on the descriptor it is given, whose
  handler the loop would then destroy (`wavy_base.cc:317-318`): the user in
  `ConnectEvent` only closes it;
- the unchecked null pointer of `memcached_create` at `proxy_client.cc:38`, whose
  effect on a request is libmemcached's;
- the destructor of the core, which runs after every worker was joined; system
  errors of `epoll_wait`, which end the process;
- the timers of `wavy_timer.cc`, the binary protocol (`memproto.c`), `shared_buffer`,
  `source` and `sparse_array`: library code that memxy neither includes nor calls;
- logging, the options, the forwarding templates of `singleton.pre.h` and
  `functional.h`: no state of their own;
- the internals of libmemcached and of the kernel: external, with the results
  that the code distinguishes.

Left for later: `ImplementsQueue` as a theorem, from `XferInv` and the recursion
lemmas of `GateControl_proofs`, with `TotalOf` as a recursive function; the parser,
one rule of its grammar after another, along the lines of `GateControl_proofs`.
