# A verification of libchrome's concurrent core

libchrome is Chromium's `base` and `mojo` (with smaller libraries around them)
packaged for Android and Chrome OS. This directory holds TLA+ models of its
concurrent core, TLC configurations that check them on small instances, and
theorems proved with TLAPS.

Five parts are modelled, from the bottom of a Mojo process to its top:

- `mojo/core/ports`, the distributed algorithm under every message pipe: ports
  move between processes while messages are under way, routes through abandoned
  ports are shortened, pipes are fused, and processes die;
- the part of `mojo/core/node_controller` by which processes get to know each
  other: invitations, broker clients, introductions, port merges, lost peers;
- traps (`mojo/core/watch*`), which tell the application about signals of handles;
- data pipes (`mojo/core/data_pipe_*`), a ring in shared memory with control
  messages on a message pipe;
- `base::WaitableEvent` and, composed with it, `base::MessageLoop`, the thread
  on which nearly everything runs.

All of it is code that handles several threads or processes at once, that
everything else relies on, and whose interleavings no test reaches.

1. [Inventory](#1-inventory)
2. [Modules and how they correspond to the code](#2-modules-and-how-they-correspond-to-the-code)
3. [Properties](#3-properties)
4. [Runs, bounds and results](#4-runs-bounds-and-results)
5. [Fairness](#5-fairness)
6. [Proofs](#6-proofs)
7. [Disagreements between code and documentation](#7-disagreements-between-code-and-documentation)
8. [What is not modelled](#8-what-is-not-modelled)
9. [Plan](#9-plan)
10. [Running it](#10-running-it)

## 1. Inventory

| Component (under `src/`) | State | Operations | Hard part | What makes it correct |
|---|---|---|---|---|
| `mojo/core/ports`: Node, Port, MessageQueue, events | `ports_` map; per port: state, peer, sequence numbers, queue, removal flags | create, send, read, close, merge; one handler per event type | handlers run on all threads of all processes; every event may meet a port in any state; crashes | no message lost, duplicated or misdelivered; one receiver per end; closure exact; proxies leave |
| `mojo/core/node_controller` | `peers_`, `pending_invitations_`, `pending_peer_messages_`, `reserved_ports_`, pending merges | forward, broadcast, introduce, invite, request a port merge, drop a peer, shut down | several locks taken one after the other; answers race with disconnection | no event waits for ever; ports of dead peers are told |
| `mojo/core/node_channel`, `channel_posix` | outgoing queue, read buffer | write, read, error, shut down | partial writes, late reads after an error | in-order delivery, nothing after the error is reported |
| `mojo/core/user_message_impl` | attached dispatchers or ports | serialise, extract, destroy | a message destroyed half-way closes its ports | no handle leaks, none is closed twice |
| `mojo/core/message_pipe_dispatcher`, `handle_table` | port, `in_transit_`, signals, watchers | write, read, close, fuse, transit | a handle in transit used by another thread | a handle is used by one party; signals are monotonic as documented |
| `mojo/core/watch*`, `watcher_dispatcher` | armed flag, ready and watched sets | add, arm, notify, cancel | notification against cancellation and re-arming | no event after the cancellation event; no lost wakeup |
| `mojo/core/data_pipe_*_dispatcher` | ring offsets, two-phase flag, control port | write, read, begin/end, notify peer | shared ring, control messages in flight | reader never passes writer; all bytes arrive |
| broker, shared buffers, platform handles | an OS object each | request, answer | none of its own | - |
| `mojo/public/cpp/bindings` runtime | endpoints, task queue, sync watchers | accept, process, raise error, close | messages and errors of associated endpoints in one order | order kept across endpoints |
| `base/synchronization` | signalled flag, list of waiters | Signal, Wait, WaitMany | auto-reset event with several kinds of waiters | one signal wakes exactly one waiter |
| `base/task`, `base/message_loop` | incoming, delayed and work queues, fences | post, run, fence, reload | cross-thread posting against the swap of queues | no task lost; order per queue |
| `base/threading`, callbacks, `base/memory` | flags and counters | start, stop, invalidate | lifetime | - |
| `base/metrics` (persistent allocator) | shared segment, lock-free lists | allocate, iterate | crash of a writer, corruption | iteration terminates |
| utilities, `ipc`, `dbus`, `crypto`, `device`, generators | - | - | mostly sequential | - |

How they interact. A `Node` calls its delegate, the `NodeController`, to forward
an event to another node, to broadcast one, and to say that the status of a port
has changed. The controller hands the event to a `NodeChannel` (asking the broker
for an introduction if there is none) or, for its own node, to
`Node::AcceptEvent`. Channel errors reach the node as
`Node::LostConnectionToNode`. Dispatchers call `Node` for the embedder and are
called back by `PortStatusChanged`; a dispatcher whose signals change notifies its
`WatcherSet`, which tells the traps; the application's handlers run from the
`RequestContext` of the thread when its outermost call returns. Messages own the
ports attached to them: destroying a message closes these ports. A data pipe's
dispatchers announce bytes written and read by control messages on a message pipe
of their own. Handlers, tasks and the I/O thread's work run on message loops, whose
default pump sleeps on a `WaitableEvent` that any thread may signal.

The hazards, each at the line where it bites and with the properties that would
notice, are listed in `PROJECT.json`.

## 2. Modules and how they correspond to the code

| Module | Contents |
|---|---|
| `Ports` | the ports layer: Node, Port, MessageQueue, events, and what of NodeController decides where events go |
| `PortsFifo` | `Ports` over channels that keep order, with fairness; liveness |
| `MessagePipe` | abstract: what a message pipe is to those who hold its ends |
| `PortsRefinement` | the mapping under which `Ports` implements `MessagePipe` |
| `PortsProofs` | TLAPS: the type invariant; a port only advances |
| `PortsUnique` | TLAPS: one receiver for an end, one copy of a message; no wakeup is lost |
| `PortsRoutes` | TLAPS: messages reach the end they were sent to; closure is exact |
| `Connections` | NodeController: who is connected to whom, and what waits for it |
| `ConnectionsProofs` | TLAPS: peers agree on their channel, only the dead are lost, what is queued is awaited |
| `Traps` | WatcherDispatcher, Watch, WatcherSet, RequestContext, and the message pipe dispatchers watched |
| `DataPipe` | DataPipeProducerDispatcher and DataPipeConsumerDispatcher |
| `WaitableEvents` | `base::WaitableEvent` on POSIX |
| `MessageLoop` | extends `WaitableEvents`: MessageLoop, IncomingTaskQueue, MessagePumpDefault, RunLoop |
| `WaitableEventsProofs`, `MessageLoopProofs` | TLAPS: signals are conserved, a wait returns last; the pump sleeps only when idle, tasks start in order |
| `TrapsProofs` | TLAPS: ready set exact, no event lost, no silent disarming |
| `DataPipeProofs` | TLAPS: bytes in order, capacity, closure, signals, nothing left unread |
| `MCPorts`, `MCPortsFifo`, `MCConnections`, `MCTraps`, `MCDataPipe`, `MCMessageLoop` | instances for TLC |

### Ports

| Variable | Code |
|---|---|
| `ports` | the union of all nodes' `Node::ports_`, keyed by `<<node, name>>`; a port's fields are those of `Port` and of its `MessageQueue` (`nextRecv` is `next_sequence_num_`, `queue` is `heap_`) |
| `net` | events given to `NodeDelegate::ForwardEvent` or `BroadcastEvent` and not yet accepted |
| `orphans` | ports that a loop of the code (undelivered messages of a closed or erased port, a refused message) is still going to close |
| `lastName` | names drawn by `GenerateRandomPortName`; random 128-bit names never collide here |
| `alive`, `peers` | processes, and who has or awaits a channel to whom (`NodeController::peers_`) |
| `held`, `notified` | the embedder: its handles and the `PortStatusChanged` it has not yet served |
| `ends`, `oops` and the fields `num`, `from`, `end` | history: which end of which pipe a port stands for, who sent which message, which "impossible" paths were taken |

Numbers that the code lets wrap below zero are kept as negative integers: `-x`
stands for `2^64 - x`. `SeqModulus` stands for the 2^32 of
`UserMessageEvent::sequence_num()`.

One step is one call of a public `Node` operation or one accepted event, whole:
`PrepareToForwardUserMessage`, `ForwardUserMessagesFromProxy`, `TryRemoveProxy`,
`MergePortsInternal` and the other private operations are functions from a
*handler state* (ports, events sent, names drawn, ports to notify, ports to close,
error) to a handler state, composed as the handler composes them. `Commit` ends
the handler.

Most handlers work under the locks of the ports they touch, once, and forward events
after unlocking; the point where another thread can come in between is the hand-over of
events. The model has that point: an event in `net`, also one for the same node, is
accepted at any later time. And since the threads of a process hand over events without a
common lock, two events of one route may be written in either order: `net` is a bag, not a
queue. `PortsFifo` is the case of a single thread per process. Loops that close several
ports relock for each of them, so each turn is a step (`CloseOrphan`).

Some handlers are coarser in the model than in the code. `PrepareToForwardUserMessage`
looks at the peer, unlocks, and looks again under all locks (node.cc:1066);
`MergePortsInternal` releases the two ports between swapping their peers and forwarding
their messages (node.cc:904-915); `BeginProxying`, and `OnUserMessage` at a proxy, release
the port before `ForwardUserMessagesFromProxy`, which locks it anew for every message
(node.cc:1173-1231). What other threads of the same process could do to these ports in
between is not modelled, neither for TLC nor for the proofs.

| Action | Code |
|---|---|
| `CreatePortPair`, `SendUserMessage`, `GetMessage`, `ClosePort`, `MergePorts`, `MergeLocalPorts` | the `Node` methods of that name; `MergePorts` with its caller `NodeController::OnRequestPortMerge` |
| `CloseOrphan` | the loops of `ClosePort`, `ErasePort`, `SendUserMessage`, `OnUserMessage`, and `~UserMessageImpl` |
| `OnUserMessage`, `OnPortAccepted`, `OnObserveProxy`, `OnObserveProxyAck`, `OnObserveClosure`, `OnMergePort` | the handlers |
| `OnProxyDied` | the branch of `OnObserveProxy` for an invalid port name, which is how a broadcast tells that a proxy was destroyed |
| `LostConnectionToNode` | `NodeController::DropPeer`, with the reserved ports it closes, and `Node::LostConnectionToNode` / `DestroyAllPortsWithPeer`; `Audience` is whom its `BroadcastEvent` reaches: the broker's peers, never the broker's own `Node` |
| `Crash` | the death of a process; external |
| `Introduced` | `NodeController::SendPeerEvent`: an introduction by the broker, or, on the broker itself, the dropped event |

The embedder is limited by constants that say on which ends it writes, reads,
closes, attaches and merges, so that a run asks one question at a time. `MayAttach`
is an assumption about it. It attaches ports it holds, and does not send the far end of a
pipe through that very pipe. `Node` refuses this for the port itself and its direct peer
(which the model lets it try); behind a proxy it goes undetected, and the end would wait in
a queue that only it can read. Runs and proofs are about embedders that do not do that.

### MessagePipe and the refinement

`MessagePipe` knows neither processes nor routes. An end has an opposite end, the
number of messages it has sent and read, and, once it knows, the number of the
last message of an opposite end that is closed. Its actions are `Create`, `Send`,
`Read`, `Close`, `CloseBoth` (a merge that failed), `Learn` and `Merge`.
`PortsRefinement` maps an end to its one receiving port or to the port descriptor
that is on its way to become that port; proxies, events and queues have no image,
so every bypass is a stuttering step. The mapping is a function of the ports
layer's own state (with the history variable `ends`, which says for which end of
which pipe a port stands). It holds while no process dies.

### Connections

| Variable | Code |
|---|---|
| `ctl` | per node: `peers_`, `inviter_name_`, `bootstrap_inviter_channel_`, `broker_name_`, `pending_invitations_`, `pending_broker_clients_`, `pending_peer_messages_`, `reject_pending_merges_`, and who was declared lost |
| `wire`, `shut` | channels: messages on their way to each end, and ends that are closed |
| `send`, `merge` | threads in the middle of `SendPeerEvent` and `MergePortIntoInviter` |
| `alive`, `got` | processes that run; history of accepted events |

Handlers run on the I/O thread, one channel message at a time; each is a step
(`OnAcceptInvitee`, `OnAcceptInvitation`, `OnAddBrokerClient`,
`OnBrokerClientAdded`, `OnAcceptBrokerClient`, `OnRequestIntroduction`,
`OnIntroduce`, `OnRequestPortMerge`, `OnChannelError` ...). `SendPeerEvent` and
`MergePortIntoInviter` run on any thread and take several locks one after the
other, so they have a step for each. A message can carry an end of a channel; when
it is destroyed unread, that end is closed and the other one sees an error.
`OnAcceptBrokerClient` takes three locks one after the other and is one step; the comment at
its definition says why no other thread could tell.

`reserved_ports_` is a function of the rest (`Reserves`): an inviter keeps a port for its
invitee from the invitation on, until it is merged or until `DropPeer` closes it. `Offered`
are the processes whose invitation has a port with the name they ask for; a request of
another one is ignored, as in the code.

### Traps

| Variable | Code |
|---|---|
| `pipe` | MessagePipeDispatcher: closed, in transit, its handle table entry, its WatcherSet |
| `trap`, `watch` | WatcherDispatcher (`armed_`, `watches_`, `watched_handles_`, `ready_watches_`) and the Watch objects |
| `call` | where each thread is in its call |
| `context`, `final`, `handler` | RequestContext: finalizers collected, being run, and the handler the thread is in |
| `port` | the port behind each handle; what the ports layer does to it is external here |

A step is a critical section. Where the code holds a lock and takes another one
(a dispatcher notifying its WatcherSet), the lock is held across steps and another
thread waits for it. `call[t].pc` is the place between two sections. The application may
add a trigger with any context at any time, also one whose removal or cancellation is under
way. It is restricted in one way (`Removable`): a trigger is removed once the `AddTrigger`
that made it has returned, by one thread at a time. The code has no such guard; a
`RemoveTrigger` that overtakes the `AddTrigger` it undoes can leave an entry in the
`WatcherSet`, and is outside what is checked and proved here.

### DataPipe

| Variable | Code |
|---|---|
| `ring` | the shared ring buffer |
| `side` | each dispatcher: offset, available bytes, two-phase grant, `new_data_available_`, `peer_closed_`, `in_transit_`, and what has reached its control port |
| `net`, `changed` | control messages under way; `OnPortStatusChanged` still to run |
| `call` | announcements that a thread is about to send without the lock |
| `told`, `written`, `consumed`, `lost`, `moves` | history and bound |

A step is a section under the lock of one dispatcher. The calls that announce
bytes release the lock before they send, so other calls, the peer's messages and the
transfer of the handle come in between. A byte is the number of its place in what
is written, which is what the consumer must read.

### WaitableEvents and MessageLoop

`kernel` is `signaled_`, `waiters_` and `lock_` of each event, `call` the call each
thread is in with its `SyncWaiter`, `ledger` a history: signals that have released
no wait yet. A step is what a thread does between two acquisitions of an event's
lock; `WaitMany` takes them one by one in the order of addresses.

`MessageLoop` adds the incoming, triage, delayed and deferred queues (`queue`), the
Controller (`control`), the pump, the stack of `RunLoop`s, the life of the loop's
thread from construction to destruction, and the `PostTask` each thread is in. The
two modules are composed: `Pump::ScheduleWork` is `Signal` and the pump's sleep is
`TimedWaitUntil` of `WaitableEvents`, with all their steps. What a task does (post,
quit, run a nested loop, cancel another task, nothing) is a parameter.

## 3. Properties

| Property | Says |
|---|---|
| **Ports** | |
| `NoMessageLost` | while no process dies, every message sent to an end that still exists and has not read it is in some queue or under way; so no proxy leaves too early, and no bypass, merge or closure cuts a message off |
| `DeliveredOnce` | no copy of a message is ever made, none comes back to a port that has read it, none reaches another end |
| `UniqueReceiver` | however often an end is sent on, one receiving port or one descriptor stands for it |
| `ClosureExact` | a port observes closure only when its conjugate is gone, and with the number of the last message it was really sent |
| `DeathNoticed` | when all is quiet, no port outside the broker goes on facing a dead process, also one that arrived, or was pointed there, after the channel had been dropped |
| `NoLostWakeup` | a readable message on a held port always has a notification pending |
| `ShutdownSafe` | a node that `CanShutdownCleanly` carries no message of an end that lives elsewhere |
| `NoOops` | no thread meets a state the code declares impossible, and no stashed acknowledgement is overwritten |
| `PortStateMachine` | (action property) a port never returns to receiving, never forgets closure, and its counters do not fall |
| `ProxiesLeave` | (liveness) every proxy leaves in the end |
| `ClosureSpreads` | (liveness) closure reaches the other end wherever it is |
| `ImplementsMessagePipe` | (refinement) the ends of a pipe behave as those of `MessagePipe` |
| `NobodyStranded`, `ClosureFinal` | documented promises the code does not keep, see section 7 |
| **Connections** | |
| `QueuedIsAwaited` | messages that wait for an introduction have a request or an answer on its way |
| `PeersAgree` | two nodes that have each other as peers share one channel, also when two introductions race |
| `LostMeansDead` | a client of the broker is declared lost only if its process is no more |
| `EventsArrive` | (liveness) an event is accepted, or its sender gives up the connection |
| `MergeSettles` | (liveness) a port to be merged into the inviter is merged or closed, unless the invitation has no such name or the inviter died with the request; no port stays reserved for a dead invitee |
| `InviteesAccepted` | (liveness) a process that was invited becomes a client of the broker |
| **Traps** | |
| `NoLostEvent` | while a trap is armed and no thread is on its way to tell it, its triggers have nothing to report |
| `ReadyExact` | `ready_watches_` holds exactly the watched triggers with a result to report, and an armed trap has none |
| `CancelledIsLast` | the cancellation is the last notification of a trigger: when it is delivered no thread is in its handler any more, and what other threads still have queued for it is dropped |
| `DisarmAnnounced` | (action property) a trap is never disarmed without a notification |
| `CancelDelivered` | (liveness) every trigger that goes has its cancellation delivered |
| `CallsReturn` | (liveness) no threads wait for each other's locks |
| **DataPipe** | |
| `ReadsInOrder` | what can be read next is what was written next |
| `CapacityConserved` | every byte of the capacity is free, readable, or in one announcement |
| `NothingUnread` | no control message waits at a dispatcher in use that is not about to be told, but for a producer that has given up a transfer and had no event since (`overlooked`) |
| `SignalsAnnounced` | watchers know of every signal that is set |
| `ClosureAfterData` | the consumer learns of closure after all that was announced |
| `CreditReturns` | (liveness) when the threads rest, all bytes are readable or free, with the same exception |
| `ClosureSeen` | (liveness) each side learns that the other is closed, with the same exception |
| `PeerClosureSignalled` | (liveness) a documented promise the code does not keep, see section 7 |
| **WaitableEvents, MessageLoop** | |
| `SignalConserved` | a signal of an auto-reset event is neither lost nor used twice, also against time-outs and other events of a `WaitMany` |
| `WaitReturnsLast` | a wait returns after the `Signal` that ended it has let go of the event |
| `CallsReturn` | (liveness) no call hangs on a lock |
| `SleepsOnlyWhenIdle` | the pump never sleeps beside work it should do without a wake-up on its way |
| `Ordered` | a nestable task starts before every task posted later with no lesser delay; a non-nestable one is not run within another |
| `TasksRun` | (liveness) a task accepted is run, unless cancelled or the loop ends |
| `QuitEndsLoop` | (liveness) a `RunLoop` told to quit ends, also under nested ones |

`Traps`, `DataPipe`, `Connections`, `WaitableEvents` and `MessageLoop` each have a
type invariant too (`TypeOK`, `EventTypeOK`, `LoopTypeOK`). It holds; the runs below spend their time on the other properties.

Each property of a passing run has a mutant: a plausible error in one definition
(an acknowledgement off by one, a proxy leaving early, a lock released too soon, a
swap done by half ...) written next to it, under which the same run finds the
property violated. A mutant is an operator with the comment "Mutant of ..."; the
specification does not use it.

## 4. Runs, bounds and results

| Run | Instance | Distinct states |
|---|---|---|
| `two_nodes` | A and B, one of three: an end of a pipe is sent to B while both ends send and any end closes; two pipes are fused on A by `MergeLocalPorts`; the invitation, where a reserved port of A is merged into B by a `MergePort` event and either port may be closed first | 684,368 |
| `three_nodes` | A, B, C, one of five: A sends an end to B, B at once to C (chain); A sends the two ends of one pipe to B and to C at the same time (star); the chain where A and C may die at any point and B is the broker; an end that B sends through C to A, which may die; an invitation of B to A, which may die before or after it takes it up | 487,701 |
| `live` | a pair, the chain and a fuse over ordered channels, with fairness | 16,739 |
| `traps` | one handle, two contexts, two threads, five calls, one message | 179,426 |
| `data_pipe` | two threads, a ring of two bytes, four bytes written, one transfer of either handle, completed or given up | 76,812 |
| `connections` | B invites M and S, M invites L; two threads of S have an event for L and L has one for S; L merges a port into its inviter, and S asks for one its invitation does not have; L or M may die | 180,226 |
| `message_loop` | two threads post, in seven groups of tasks that are delayed, non-nestable, nest, quit, cancel; or three threads use two events directly, with `WaitMany` of both in either order | 141,215 |
| `fuse_backpedal` | a fuse whose queued message carries a port that cannot be forwarded | `ClosureExact` violated |
| `closure_reopened` | the chain with the death of A | `ClosureFinal` violated |
| `broker_strands_port` | the chain with the death of A, the last receiver is on the broker | `NobodyStranded` violated |
| `producer_transit` | the data pipe with one byte written | `PeerClosureSignalled` violated |
| `eager_inviter` | B invites M, and M invites L before it is a client of the broker | `InviteesAccepted` violated |

Which properties each run checks is in its `.cfg` and in `PROJECT.json`. A run with
several topologies or groups chooses one in its initial state, so its states are the
sum of independent instances.

Bounds.

- `Ports`. `Sends` gives the number of messages per end: one is enough for a message
  to be overtaken by an acknowledgement or by closure, to be late at a proxy, or to
  be the last; with two (the fuse) messages of one end overtake each other in a
  queue that is being flushed. Two moves of an end (chain, star) give proxies
  behind and against each other; the protocol treats a proxy alike whatever stands
  beyond its neighbours. `MaxAttach` is one; several attached ports would be
  handled by the same loop. `MaxName` bounds `CreatePortPair` only. `SeqModulus` is
  1000, which no run reaches. No symmetry is used, since the nodes have different roles.
  `live` has ordered channels, one movable end and no deaths: moves in both directions at
  once, overtaking, and ends lost with their process are the subject of the safety runs
  only.
- `Traps`. Five calls are enough to add, arm, race a notification with a removal or
  a closure, and add again under the same context; the second context lets a thread be in
  one handler while the other trigger goes. Each context is used with one handle (see
  section 7 for two).
- `DataPipe`. Two bytes are the least ring that can wrap within one operation; four
  bytes pass it twice. One transfer at a time is the code's own limit for a handle.
- `Connections`. Four nodes are the least in which an invitee of an invitee and a
  sibling ask for each other; one death, because the broker's is the end of all.
- `MessageLoop`. `MaxTime` 2 allows delayed tasks in both orders of their delays.
  An instance with groups of four tasks and four calls (9.0 million states) holds
  the same invariants.

Deadlock is not checked (`CHECK_DEADLOCK FALSE`): when the bounded application has
done all it may and all is delivered, the system is finished. That nothing is left
undone then is what the liveness properties and `DeathNoticed` say.

## 5. Fairness

`PortsFifo` assumes that a process keeps reading each of its channels, that a loop
which closes ports goes on, and that the death of a process is noticed by those
connected to it. The first is the I/O thread's message pump with a level-triggered
watch on the descriptor (`channel_posix.cc`), the second is a running thread, the
third is the end-of-file the operating system gives. The embedder is under no
fairness: it need not send, read or close. Each assumption is weak fairness of a
step that stays enabled while it is pending, written as "infinitely often nothing
is pending, or infinitely often such a step is taken"; this form needs no
`ENABLED` of an action with two existential choices.

Order matters for liveness only: the safety runs hold in the bag of events, the
harder case.

`Traps`: a thread inside a call keeps running (`Continue`) and the application's
handlers return; nobody has to begin a call. `DataPipe`: calls that have begun send
their announcement, channels are read, the observers of ports run, and a transfer
that was begun is completed or given up; nobody need write, read, send or close.
`Connections`: the processes do not all rest while one of their threads has
something to do, which is weaker than fairness of each thread. `MessageLoop`: every
thread is scheduled and time passes. A thread waiting for a lock is not enabled, so
weak fairness does not help it: that locks are let go is shown, not assumed.

## 6. Proofs

Every theorem holds for all constants that satisfy the named assumptions of its
module, and with no bound other than those the constants name.

| Theorem | Module | Property |
|---|---|---|
| `TypeCorrect` | `PortsProofs` | `TypeOK` of `Ports` |
| `PortsOnlyAdvance` | `PortsProofs` | `PortStateMachine` |
| `ReceiverUnique` | `PortsUnique` | `UniqueReceiver` |
| `NothingCopied` | `PortsUnique` | `NoCopies`, the first third of `DeliveredOnce` |
| `NoWakeupLost` | `PortsUnique` | `NoLostWakeup` |
| `MessagesArriveOnce` | `PortsRoutes` | `DeliveredOnce`, while numbers fit and no fuse gives up half-way |
| `ClosureIsExact` | `PortsRoutes` | `ClosureExact`, under the same conditions |
| `PeersAlwaysAgree` | `ConnectionsProofs` | `PeersAgree`, while the broker lives |
| `LostAreDead` | `ConnectionsProofs` | `LostMeansDead`, while the broker lives |
| `QueuedAreAwaited` | `ConnectionsProofs` | `QueuedIsAwaited`, while the broker lives |
| `SignalsConserved`, `WaitsReturnLast` | `MessageLoopProofs` | `SignalConserved`, `WaitReturnsLast` |
| `SleepsWhenIdle` | `MessageLoopProofs` | `SleepsOnlyWhenIdle` |
| `TasksOrdered` | `MessageLoopProofs` | `Ordered` |
| `ReadyWatchesExact` | `TrapsProofs` | `ReadyExact` |
| `EventsNotLost` | `TrapsProofs` | `NoLostEvent` |
| `DisarmNotSilent` | `TrapsProofs` | `DisarmAnnounced` |
| `BytesInOrder` | `DataPipeProofs` | `ReadsInOrder` |
| `CapacityKept` | `DataPipeProofs` | `CapacityConserved` |
| `ClosureComesLast` | `DataPipeProofs` | `ClosureAfterData` |
| `WatchersTold` | `DataPipeProofs` | `SignalsAnnounced` |
| `NothingLeftUnread` | `DataPipeProofs` | `NothingUnread` |

### Ports

Assumptions: a finite set of nodes with the broker among them (`NodeAssumption`),
finitely many initial ports with distinct names counted from one, each an end of one
pipe (`PipesAssumption`), and natural bounds (`BoundsAssumption`). Of the
embedder only `MayAttach` is assumed (section 2); nothing of the order of events, or of who
crashes. A step is what section 2 says it is, the coarser handlers included.

**`TypeCorrect == Spec => []TypeOK`** (`PortsProofs`). `TypeOK` is inductive as it
stands, but not obviously so: a handler is a composition of six or seven partial
functions. The proof therefore has a set `HandlerState` and one lemma for each
private operation, saying that it takes handler states to handler states when
its port is there: `PrepareToForwardType`, `ForwardFromProxyType`,
`TryRemoveProxyType`, `CloseType`, `SwapType`, `StartRemovalType`, `MergeType`,
`DestroyType` and so on. `CommitType` turns a handler state into the next state of
the system, and one lemma for each action composes these. What could have gone
wrong, and is excluded for every instance: a handler that goes on with a port the
operation before it has erased, a name drawn twice (`FreshNames`), an event without
a valid target, a descriptor of a port that moves without a valid peer, an infinite
queue.

**`PortsOnlyAdvance == Spec => PortStateMachine`** (`PortsProofs`). On top of
`TypeCorrect`, each operation has a second lemma: the ports it leaves are later
stages (`Later`) of those it found (`Evolves`), an order that is reflexive and
transitive. Three operations go against it for a moment and are composed by hand.
`UndoSwap` takes two proxies back to receiving when a merge fails; the proof shows
that both are erased by the `Close` that follows in the same handler
(`UndoEvolves`). `ForwardUserMessagesFromProxy` lets a counter fall, but that of a
proxy. `Backpedal` lets a receiving port's counter fall, by the one that
`SendUserMessage` has just added.

**`ReceiverUnique == Spec => []UniqueReceiver`** and **`NothingCopied == Spec =>
[]NoCopies`** (`PortsUnique`). Neither property is inductive. A second receiver
could come from a descriptor whose name belongs to another port, from a handle that
is in two messages, so that `WillSendPort` runs twice for one port, or from an event
accepted twice; a second copy of a message from two ports that send for one end.
`UniqueInv` excludes all of these, and its parts need each other:

- `NamesDrawn`: names and ends in use have been drawn, so that a new name is new;
- `OnePlace`: a name belongs to one port, whose handle is with the embedder or in one
  message, and a port that a descriptor will make does not exist yet;
- `OneSeat`: one receiving port or one descriptor on the wire stands for an end;
- `NumbersUsed`: whoever sends for an end counts on from all messages from that end
  that are queued or under way (here `PortsOnlyAdvance` is used);
- `OneCopy`, and `Single`: an event that carries something is in the bag once.

`Sound` states the first five of ports, events, names and handles given as
parameters, so that it can be said of a handler half done. Most operations only take
away and send events that carry nothing: they are `Calm`, calm operations compose
(`CalmOrder`), and they keep `Sound` (`CalmSound`). The others move messages. Between
the moment a message leaves a queue, an event or the embedder's hands and the moment
it is somewhere again it is `Loose`; `TakenLoose`, `ArrivedLoose` and `SentLoose` say
how it gets loose, `SendLocally`, `SendMoved`, `QueuedSound` and `HandOverSound` how
it is put back. `AcceptedSound`, `CreatedSound` and `MergeEventSound` are about the
three ways a port comes into being.

**`NoWakeupLost == Spec => []NoLostWakeup`** (`PortsUnique`). The strengthening
(`WakeInv`) is small: ports the embedder has a handle to are signalable. The work is in
the handlers: each must announce what it changes of a held port (`Announces`), and a
handler is a composition in which the announcement may come several operations after the
change. A failed merge takes two ports back to receiving, with messages that can be read,
and announces nothing; it closes both in the same handler, so nobody is left asleep. A
port that is created for a message is not signalable and gets messages all the same; that
it is no held port, and that its first reader makes it signalable, is `UniqueInv`.

**`MessagesArriveOnce`** and **`ClosureIsExact`** (`PortsRoutes`), that is
`NoWrap /\ Spec /\ [][~FuseGivesUp]_vars => []DeliveredOnce` and `... => []ClosureExact`.
Where a message goes depends on the peers of all ports it will pass, and these change
under it. The invariant `RouteInv` therefore does not follow paths. It says that there is
a labelling of port names by ends of pipes, "messages to this name are for that end",
under which everything is consistent locally (`Right`): a receiving port has its own end
as label and a peer labelled with the conjugate; a proxy and its peer have the same
label; what is queued at a port, or addressed to it, comes from the conjugate of its
label; an `ObserveProxy` names a proxy and a target of one label, so that who obeys it
stays right; a descriptor makes a port that fits in. A port that moves hands its label to
the new name; a fuse joins two pipes, and all names with the labels of the two ends that
vanish get those of the ends at the far sides (`Fused`, `Crossed`). Beside the labels
there is a balance (`Counted`) over what is in ports and events, of messages (`Ids`) and
of ends (`Seats`): an end is about to send number sent + 1, the messages of an end are
numbered up to what it has sent, and an end that still reads has read only messages that
are nowhere any more. `Closed` says when an end may be told of closure: nobody stands for
the conjugate, and the number is what the conjugate has sent; or nobody stands for this
end, and then it does not matter. It is stable, since who is gone does not come back.

The hypotheses exclude what is known to go wrong. `NoWrap`: no end sends so many messages
that the 32 bits of the number in the header wrap (section 7). `FuseGivesUp` is a step of a fuse that
could not forward all queued messages: those that it did forward have gone into the
other pipe and stay there, although the peers are put back (section 7).

### Connections

Assumptions (`ConnectionsAssumption`): an inviter for every process but the broker, events
for other processes only (`NodeController::ForwardEvent` hands the others to its own node
directly), and temporary names that are no names of processes (`GenerateRandomName`).
Nothing is assumed of the shape of the tree of invitations, of how many processes there
are, or of who dies when.

The theorems are of the form `Spec => [](Broker \in alive => P)`; `WithLivingBroker` is
the case of a broker that does not die. The condition is needed: when the broker is gone,
nobody answers requests for introductions, `QueuedIsAwaited` fails by design, and
processes drop channels of living peers.

`Inv` is proved once for all of them. The first part is bookkeeping: which messages
travel on which channels (`AllFit`), that an introduction gets a channel of its own
(`Numbered`), that names and peers are what the tree of invitations allows (`NamesOK`,
`PeersOK`). The second part is the life of an invitation (`StagesOK`): `AcceptInvitee`,
`AcceptInvitation`, `AddBrokerClient`, `BrokerClientAdded`, `AcceptBrokerClient` are
messages each of which is under way at most once and excludes the others, and with the
last two travels the one end of the channel to the broker that the invitee is to use
(`Token`). From this follows that channels between living processes stay open and are the
ones both sides have (`LinksOK`), which gives `LostMeansDead`. The third part is about
introductions: both sides are clients (`AsksOK`); what waits is awaited, by a thread
between unlocking and asking, a request, or an answer (`AwaitsOK`); and `MeetsOK`, the
heart of `PeersAgree`: the channel that a process has for another, or will take first
when it reads what the broker has sent it, is the one the other has or will take first.
Channels to the broker keep order and the broker answers both sides in one step, so
introductions of one pair that cross are in the same order for both.

### WaitableEvents and MessageLoop

Assumptions: a finite set of threads (`ThreadAssumption`) and, in the composition,
that a wait names distinct events (`WaitsAssumption`), which `WaitMany` checks with
a `DCHECK`.

The argument is made once, for events under whatever calls them (`EventNext`), and
`MessageLoopProofs` shows that every step of `MessageLoop` is such a step or leaves
the events alone. `SignalConserved` is a balance: per auto-reset event, signals that
have released nobody are the signalled flag plus the wake-ups on their way. To keep
it through a step one has to know which threads are on their way, which is
`EventInv`: who holds which lock, given the place in its call (`LocksHeld`; for
`WaitMany` a prefix of the events in lock order); that a thread is in the list of
an event exactly while its wait may still be ended by it (`ListsExact`); that an
event is unsignalled while its waiters are being enqueued (`UnsignaledMeanwhile`);
and that a thread woken by an unfinished `Signal` still has to take that event's lock
(`WokenMustLock`), which gives `WaitReturnsLast` at once. The lock order of
`WaitMany` is only assumed to be some enumeration of the events; that it is the same
one for all threads matters for deadlock, which TLC checks.

The other two theorems are about the loop. They need two more assumptions: tasks,
RunLoops and what tasks do are named consistently (`TaskAssumption`), and the null
`TimeTicks` is no time (`TimeAssumption`; `due` is a sum with a positive delay, which
the code takes to be non-null as well). Nothing is assumed of how many threads post,
which tasks nest, cancel or quit, or of the delays. `LoopBasics` is the state all
lemmas start from: types, the stack of runs (a run below another is in the task that
runs it), while there is a loop only its thread waits and only on its event, a task is
posted once. One `...Facts` lemma per action says what the action does in terms of
these, and both theorems are proved from the facts.

**`SleepsWhenIdle`**. `SleepsOnlyWhenIdle` speaks of a sleeping pump only, and what it
says must have become true on the way to sleep. `Resting` therefore speaks of every
place of the pump's `Run` after a `DoWork` that found nothing: `QueuesTaken` (the triage
queue is empty and the incoming one too, unless the alarm rings), `DelaysKept`
(`delayed_work_time_` is no later than the first delayed task that is not cancelled)
and `NoneDeferred`. A pump that is anywhere else is `Busy` and will look again. The
alarm rings when the event is signalled or a thread that found the queues empty has yet
to signal it: from `PostPendingTask` on, through `DidQueueTask` and the inside of
`Signal`. `StepRings` shows that it stops ringing only when it ends the loop's wait;
`SleepSound` that while the loop sleeps the event is not signalled, so that the ring
must be a thread.

**`TasksOrdered`**. `Ordered` speaks of tasks that have started. `OrderInv` says of each
queue why a later task cannot overtake: what was accepted before a `PostTask` began is
numbered and due before it (`BeforeRight`; this is where the clock enters); the incoming
and triage queues keep that order (`InOrder`); a nestable task that was accepted is
started, cancelled or still queued until the loop ends (`Kept`); and no task is in a
queue further on than one it has to wait for (`Behind`): not in triage while the other
is incoming, not delayed unless the other is delayed or started, not deferred unless
the other is started. Then `DoWork` takes a task only when all it has to wait for are
started or delayed (`TakenReady`), and a task without a delay waits for none with
one; `DoDelayedWork` takes one only when all are started (`DelayedReady`, by
`PendingTask::operator<`, whose comparison of `sequence_num` by difference is that of
the numbers while fewer than 2^31 tasks lie between two delayed ones).

### Traps

Assumptions: `ConstantsAssumption`, the types of the constants. Any number of
threads, handles, contexts and triggers.

`ReadyExact` rests on `Shape`: besides types, which fields a call has at each place
(`CallOK`), that the finalizer being run is the handler's (`FinalOK`), and that the
trap's maps point at watches of that context and handle (`MapsExact`).
`DisarmAnnounced` follows from the same. `NoLostEvent` is the deep
one. A watch knows the state it was last told (`ToldLast`); the state about to be
told is the present one unless another thread is on its way (`LockStates`); the
WatcherSet of a watched handle knows the trap (`Registered`), unless the thread
that adds or removes the watch has not come so far, and that thread holds the watch
alone (`Owns`, `InMaps`); the locks behind all this have one holder (`OneLock`), and a
handle that lost its port is closed (`PipesClosed`). None of these holds through a
step without the others.

### DataPipe

Assumptions: a finite set of threads and a capacity of at least one byte.

`PipeInv` is one invariant for three theorems. `Books` ties the two offsets to the
bytes written and taken, and says of each side that the bytes it holds, plus those in
its control port's queue, on the wire, or in the hands of a thread that has
released the lock, are not more than there are: written and not taken for the
consumer, free for the producer. These are inequalities because announcements are
lost at closed or transferred handles (`lost`); with them `CapacityConserved` is an
equation. `RingKept` says that bytes written and not taken are at their places in
the ring; it survives a write because of `Books`. `Grants` covers two-phase
operations that are being ended, `Closure` that word of closure is last and true.
`ToldInv` and `NothingUnread` are each inductive on top of `PipeInv`; the latter names the
producer's `CancelTransit` as its only exception (section 7).

The sums over messages and threads are `SumFunction` of the community modules; what
a sum becomes when a message is sent, received or split is proved by the
least-number principle on its length, since induction theorems with an operator
parameter are of no use to the provers at hand.

### Only model-checked

All liveness (fairness is out of the prover's reach). Of the ports layer `NoMessageLost`,
`DeathNoticed` and `ShutdownSafe`, whose inductive strengthenings have to count the
messages on every stage of a route, proxies that are leaving included; `NoOops`; and the
refinement of `MessagePipe`, of which `UniqueInv` and `RouteInv` are the safety part. Of the traps `CancelledIsLast`.

## 7. Disagreements between code and documentation

Each is shown by a run that ends in a counterexample.

1. `fuse_backpedal`, node.cc:1117. When a queued message cannot be forwarded,
   `PrepareToForwardUserMessage` decrements `next_sequence_num_to_send` on the way
   out, also for a message that had not taken a number from this port. After a
   failed fuse the port is closed with `last_sequence_num` 2^64 - 1, and its
   conjugate, told that messages up to that number are to come, never reports the
   closure; `node.h:113` promises that it is notified after it has consumed all
   pending messages.
2. `closure_reopened`, node.cc:699. A port that was closed by force after a crash
   accepts a later `ObserveClosure`, overwrites `last_sequence_num_to_receive` and
   can be readable again; the C API's README says that an unsatisfiable signal
   never becomes satisfiable again. (The closing end's own announcement and the
   news of the crash take different routes.)
3. `broker_strands_port`, node_controller.cc:625. The broker drops events for a
   peer it does not know and tells nobody. A port that reaches the broker after the
   broker has dropped the conjugate's process is never told that its pipe is dead.
   With any other node in that place (`three_nodes`, `DeathNoticed`) the failed
   introduction tells it. There are two more ways to be stranded, in longer chains. When
   a client erases a proxy it broadcasts that through the broker, but `OnBroadcast`
   (node_controller.cc:1082) relays to the broker's peers only: a port or proxy of the
   broker that points to the erased one is not told, nor are the ports behind it. And on
   any node the broadcast can arrive before the `ObserveProxy` that makes a port point to
   the erased proxy; then it finds nobody.
4. `producer_transit`, data_pipe_producer_dispatcher.cc:311. When the transfer of a producer
   handle is given up, `CancelTransit` does not look at what reached the control port in
   between, as the consumer's does. If that was a DATA_WAS_READ message and then the
   consumer's closure, no event follows, `peer_closed_` stays false, and the producer never
   signals PEER_CLOSED, which `types.h:170` describes as "The peer handle is closed". Without
   the closure, room that was freed is noticed at the next control message.
5. `eager_inviter`, node_controller.cc:936. A process that becomes a client of the
   broker means to announce the invitees it already has, but looks their real names
   up in `pending_invitations_`, which is keyed by temporary names and which they
   have left: they are never announced, and never get a broker.

Met while modelling, without a run of their own:

- A non-nestable task deferred by a nested loop can be overtaken by a non-nestable
  task posted later, since `DoWork` serves the triage queue before the deferred one
  (message_loop.cc:472); `sequenced_task_runner.h:40` promises an order by posting.
  `Ordered` states the half that holds.
- `sequence_num()` is 32 bits wide (event.h:131), the counters of ports and queues 64: from
  message 2^32 on, the next message is never "next" and the pipe stops. A `TODO` at
  message_queue.cc:61 says so; `MessagesArriveOnce` and `ClosureIsExact` assume `NoWrap`.
- An announcement is lost when a thread has released the dispatcher's lock to send
  it and another thread sends the handle away (`lost` in `DataPipe`).
- A watch that is removed while another thread notifies it may stay in
  `ready_watches_` for a time; `ReadyExact` is about watched handles.
- The handler of a trigger whose `AddTrigger` failed can run. After a transfer that
  was given up, a `WatcherSet` can still know a context that the trap has removed; an
  `AddTrigger` with that context makes its watch, is refused by the set, and takes
  the watch back (watcher_dispatcher.cc:143) in a second section. In between,
  another thread can arm the trap and an event can be queued for the watch. Its
  handler may then run beside that of the next trigger with the same context, although
  `trap.h:213` and the comment in `InvokeWatchCallback` promise that handlers of one
  trigger exclude each other. It takes three threads and eleven calls.
- A context that is used for another handle while the removal of its old trigger is under
  way can lose its cancellation. `NotifyHandleClosed` and the undo of a refused `AddTrigger`
  erase `watches_` by context (watcher_dispatcher.cc:51), which by then may be the entry of
  the new trigger; that one stays in `watched_handles_` only, where `RemoveTrigger` and the
  closing of the trap do not find it. `CancelledIsLast` and `CancelDelivered` are checked
  with one handle for a context.
- A fuse that gives up half-way misdelivers. `MergePortsInternal` swaps the peers of the
  two ports and forwards the queued messages of both; when one cannot be forwarded
  (node.cc:941), it swaps the peers back and closes the ports, but the messages before
  it have been sent: they arrive at an end they were not sent to, numbered as messages
  from its own conjugate. `DeliveredOnce` is violated in an instance with such a fuse,
  and `MessagesArriveOnce` excludes it.
- A `RequestPortMerge` already sent when the inviter dies, or one for a name the invitation
  does not have, is never answered; the port is neither merged nor closed by the
  controller. The comment at node_controller.cc:992 knows the second case.

## 8. What is not modelled

Ports layer: user data, message filters, byte counts (`queued_num_bytes`), and
`GetStatus`/`GetPort`, which change nothing. `CreateUninitializedPort` and
`InitializePort` are modelled as the two halves of `CreatePortPair`. Port locks are
inside a step (section 2); `PortLocker` takes them in the order of addresses, in one place. A
port name that is generated twice, or a message that cannot be decoded, is left out.
After a crash a dead-end proxy may stay in `ports_` for ever; the code promises
nothing about it, so `ProxiesLeave` is stated without crashes.

Connections: isolated connections (`AcceptPeer`), relaying of events for Windows,
`RequestShutdown` and `DropAllPeers`, and the synchronous broker channel that hands
out shared memory. `AddPeer` flushes queued messages after it has released
`peers_lock_`; here that is one step, and the order of the events of two threads is
not observed. What an event means to the ports layer is `Ports`.

Traps: other kinds of handles than message pipes, and the list of blocking events
that a failing `Arm` returns.

Data pipes: elements of several bytes, two-phase calls that commit zero bytes,
malformed control messages, and the `CHECK` in `EndReadData` for a handle that
another thread has closed.

Base: `WaitableEventWatcher`, `Lock` and `ConditionVariable` (pthreads), the wake-up
metrics, observers, tasks whose destruction posts tasks (so that `~MessageLoop` never reaches
its limit of 100 rounds), and the roll-over of `sequence_num` in `PendingTask`; the libevent and glib
pumps; the sequence manager, which is a second scheduler beside `MessageLoop`.

`Core` and `Channel` framing add no protocol. The bindings runtime
(`MultiplexRouter`), the persistent memory allocator and the synchronous calls of
legacy `ipc` have protocols of their own and are not modelled. The rest, by far the
largest part of the repository, is file, string, JSON, time and process utilities,
code generators, tests, vendored code, and wrappers of libraries that are not in the
repository (D-Bus, crypto, Bluetooth): sequential data processing without state that
a model checker would help with.

## 9. Plan

Proofs, in this order:

1. `Ports`: `NoMessageLost`, on top of `RouteInv`; the strengthening says of each proxy
   which numbers are still to pass it.
2. The step simulation behind `ImplementsMessagePipe`, from `UniqueInv` and `RouteInv`.

Modelling that would come next: `MultiplexRouter` (order of messages and errors
across associated endpoints), the sequence manager, `WaitableEventWatcher`.

## 10. Running it

    tlc -config two_nodes.cfg MCPorts     # three_nodes and the three violations of Ports
    tlc -config live.cfg MCPortsFifo
    tlc -config connections.cfg MCConnections      # and eager_inviter.cfg
    tlc -config traps.cfg MCTraps
    tlc -config data_pipe.cfg MCDataPipe           # and producer_transit.cfg
    tlc -config message_loop.cfg MCMessageLoop
    tlapm PortsProofs.tla
    tlapm PortsUnique.tla
    tlapm PortsRoutes.tla
    tlapm ConnectionsProofs.tla
    tlapm WaitableEventsProofs.tla
    tlapm MessageLoopProofs.tla
    tlapm TrapsProofs.tla
    tlapm DataPipeProofs.tla

`PROJECT.json` lists components, runs with the properties they check, mutants, the
source lines each definition models, findings, hazards and theorems.
