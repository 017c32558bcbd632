# A TLA+ verification project for ACE and TAO

ACE is a C++ framework for concurrent network programs; TAO is a CORBA ORB
built on it. This directory holds TLA+ models of the parts of both where the
order in which threads run decides whether the program is right, the TLC
configurations that check the models on small instances, and TLAPS proofs that
do not depend on the size of the instance.

Paths below are relative to the repository: `ACE/ace/...` and `TAO/tao/...`.

| Module | What it is |
| --- | --- |
| `Token.tla` | `ACE_Token`, the ordered recursive mutex of the reactors |
| `RecursiveMutex.tla` | what a client of the token is promised |
| `TokenProofs.tla` | the token's invariants, its order of service and its refinement, proved |
| `MessageQueue.tla` | `ACE_Message_Queue<ACE_MT_SYNCH>` |
| `MessageQueueProofs.tla` | nobody is stranded; the books are right; a deactivated queue is frozen; the order of blocks |
| `TimerQueue.tla` | what a client of a timer queue is promised |
| `TimerHeap.tla` | `ACE_Timer_Heap_T`, which implements it |
| `TimerHeapProofs.tla` | the heap's order, its ids and room for more, and that it implements the promise |
| `TPReactor.tla` | `ACE_TP_Reactor` with what it inherits, and its notifications |
| `TPReactorProofs.tla` | the two ways to get two upcalls into a handler, and no third; what is dispatched is waited for; exact reference counts |
| `LeaderFollower.tla` | `TAO_Leader_Follower` with the events its threads wait for |
| `LeaderFollowerProofs.tla` | its counters and followers are exact; when the leadership can be lost or shared |
| `TransportCache.tla` | `TAO::Transport_Cache_Manager_T` and who uses it |
| `TransportCacheProofs.tla` | its five safety properties, for any clients and transports |
| `ReplyDispatch.tla` | `TAO_Muxed_TMS` and the requests of one connection |
| `ReplyDispatchProofs.tla` | no request is forgotten, none completed twice |
| `ListProofs.tla` | lemmas: linking and unlinking a node of an intrusive list; sums; loops |
| `MC*.tla` | instances for TLC |

## 1. Inventory

The repository has four layers of its own code; everything else (services,
applications, examples, the IDL compiler, ACEXML, ASNMP and other libraries)
is built on them and is not modelled. `PROJECT.json` lists every part with its
status.

### A. Concurrency components of ACE

* **`ACE_Token`** (`ACE/ace/Token.*`). State: the owner, how the token is held
  (`in_use_`), the nesting level, two lists of stack-allocated queue entries,
  the number of waiters. Operations: `acquire`, `acquire_read`,
  `acquire_write`, `tryacquire`, `renew`, `release`. Every operation runs under
  one mutex which is given up only in the wait of a queue entry. Hard: the
  hand-over to a waiter that times out at the same moment, `renew` by a holder
  that must get its nesting back, spurious wakeups, two different builds of
  the entry (condition variable or semaphore). Right when: at most one thread
  holds it, it is never lost, waiters are served in the documented order,
  and a selected thread runs.
* **`ACE_Message_Queue`** (`ACE/ace/Message_Queue_T.*`). State: a doubly linked
  list, byte and message counts, water marks, the state (ACTIVATED, PULSED,
  DEACTIVATED), two condition variables. Operations: `enqueue_*`, `dequeue_*`,
  `peek_dequeue_head`, `deactivate`, `pulse`, `activate`, `flush`, `close`.
  Hard: one signal for one message, suppliers woken only at the low water
  mark, state changes under waiting threads, chained blocks. Right when:
  counters agree with the list, order is by priority and FIFO within one, no
  wakeup is lost, deactivation releases everybody and freezes the content.
* **Dynamic message queues** (`ACE_Dynamic_Message_Queue`): sublists of pending,
  late and beyond-late messages, refreshed at each call.
* **Synchronisation wrappers**: `ACE_Barrier` (two sub-barriers in turn),
  emulated condition variables and reader/writer locks; the rest forwards.
* **`ACE_Thread_Manager`, tasks**: the descriptor list, the list of terminated
  threads, `wait`, `join`, `exit`. Hard: joins without the lock on copies.
* **Futures and active objects**: write-once value, observers, waiting readers.
* **Named tokens** (`ACE_Token_Manager`): deadlock detection on a wait-for graph.
* **Memory, containers, logging, service configurator**: sequential or I/O.

### B. Event demultiplexing of ACE

* **Select reactor** (`ACE/ace/Select_Reactor_*`). State: the handler
  repository, the sets of bits that are waited for, suspended and ready.
  Operations: register, remove, suspend, resume, `mask_ops`, timers, end of the
  event loop, each under the token. Right when: no bit outlives its handler.
* **Thread-pool reactor** (`ACE/ace/TP_Reactor.cpp`): threads queue for the
  token as readers, one runs `select`, suspends the handler it found, releases
  the token, makes the upcall and takes the token again to resume or remove.
  Hard: the handle may be reused during the upcall; readiness is remembered
  across calls; a thread that needs the token must wake the one that selects.
  Right when: a handler is in one upcall at a time, is deleted when nobody uses
  it any more and not before, and every event is dispatched.
* **Notifications**: a queue, and a pipe with one message for the first of it;
  the reader announces the next. Hard: the message is read long before the
  notification is popped, and purging leaves the message behind.
* **Timer queues**: heap, wheel, list, hash. State of the heap: the array of
  nodes, the table of ids that is also the list of free ids, three counters.
  Operations: schedule, cancel by id or type, `reset_interval`, expire, close.
  Hard: the heap grows; a handler uses the queue while it is told of its
  cancellation. Right when: ids name one timer, none is lost, times are ordered.
* **Dev-poll, WFMO and other reactors, the proactor**: bound to what the
  operating system does.
* **Acceptors and connectors**: a time-out racing a completed connection.

### C. The core of TAO

* **`TAO_Leader_Follower` and the LF events** (`TAO/tao/Leader_Follower.*`,
  `TAO/tao/LF_*`). State: three counters shared by all threads, two per thread,
  the set of followers, a condition variable per follower, an event per
  request. Operations: `wait_for_event`, entering and leaving the event loop,
  `set_upcall_thread`, elections. Hard: nested calls in upcalls, elections
  that race with replies and time-outs, event loop threads against client
  leaders. Right when: a sleeping follower always has a leader or an election
  on the way, the counters say what their names say, and a client leader is
  alone in the reactor.
* **Transport multiplexing and reply dispatchers** (`Muxed_TMS.cpp`). State: the
  table of dispatchers by request id, the state of each dispatcher, timers.
  A reply, a time-out and a closed connection race for one entry. Right when:
  each request is completed once, and by one thread.
* **Transports** (`Transport.cpp`): output queue, partial writes, time-outs.
* **Transport cache** (`Transport_Cache_Manager_T.*`). State: a map from endpoint
  and index to an entry, a pointer back in each transport, active requests.
  Operations: find, bind, make idle, mark connected, purge, the idle scan.
  Hard: connections are opened, closed, purged and reused by threads that hold
  the lock for one operation each. Right when: no entry is out of reach, left
  busy, or offered after its connection has closed.
* **Wait strategies, invocations, ORB core, POA, marshalling.**

### D. How they interact

The thread-pool reactor serialises its threads with an `ACE_Token`. A
leader of `TAO_Leader_Follower` runs that reactor; the handlers it calls read
replies, find the reply dispatcher in the transport's table and complete the LF
event for which some other thread, or the leader itself, waits; or they
make an upcall, first giving up the leadership, and the upcall may invoke and
wait again. Active objects (`ACE_Task`) hand work over in an
`ACE_Message_Queue`. Timer queues and notifications wake the reactor.

## 2. What is modelled

### Token

Each public operation runs under `lock_`, so one that does not wait is one
action, and one that waits is two: the part up to `wait`, and the part after it.

| Code | Model |
| --- | --- |
| `shared_acquire`: free, nested, must wait | `AcquireFree`, `AcquireNested`, `AcquireBlock` |
| `renew` when somebody waits | `RenewBlock` |
| `release` | `ReleaseNested`, `ReleaseLast` |
| after `wait`: woken, `EINTR` or spurious, `ETIME`, another error | `Wakeup`, `SpuriousWakeup`, `TimeOut`, `WaitError` |
| `wakeup_next_waiter`, `insert_entry`, `remove_entry` | operators of these names |
| `writers_`, `readers_` | sequences of threads; a thread has one entry |

`RequeuePositions` is what callers pass to `renew`: 0 (`"front"`) or -1
(`"strategy"`). `tryacquire` on a held token and `renew` with nobody waiting
change nothing and are stutters. `sleep_hook` is left out. An acquire of a
token that is held by a reader queues even if it is a read: that is what the
code does, and the model has one owner.

`RecursiveMutex` is the abstract specification: a thread acquires, releases,
yields everything it holds, and gets it back as deep as it was or loses it.
`ImplementsRecursiveMutex` says that `Token` implements it, with the acquires of
a waiting thread as what it is owed.

### MessageQueue

| Code | Model |
| --- | --- |
| `enqueue_head`, `enqueue_tail`, `enqueue_prio` | `Enqueue`, `EnqueueResume` |
| `dequeue_head`, `dequeue_tail`, `dequeue_prio`, `peek_dequeue_head` | `Dequeue`, `DequeueResume` |
| a wait that ends with `ETIME` or an interruption | `TimeOut` |
| `wait_not_full_cond`, `wait_not_empty_cond` | `ShutDown`, `WaitAgain` in the two `Resume` actions |
| `deactivate`, `pulse`, `activate`, `flush`, `close` | actions of these names |
| `enqueue_i`, `dequeue_prio_i` | `prio_position`, `chosen` |

A message block is a member of `Blocks` with a size and a priority; a chain
(`next()`) is a sequence of at most `MaxChain` blocks. A thread in a wait keeps
its operation in `op`; `woken` is the set of waiting threads that a signal or a
broadcast has reached. Threads may also wake without a signal. A wait that
times out has not consumed a signal: a thread that is in `woken` resumes.
`before` (which block was there when another was enqueued) and `met` are
history, used by properties only. Not
modelled: deadlines, iterators, the notification strategy, changes of the
water marks, the NT queues and `ACE_Message_Queue_Ex`; nor the counter
`cur_length_`, which is changed in the same statements as `cur_bytes_`, by
lengths instead of sizes.

### LeaderFollower

A thread is a stack of calls, `wait_for_event` or `ORB_Core::run`, each at one
point of the code; an action is what a thread does between two points where it
no longer holds the lock.

| Code | Model |
| --- | --- |
| `wait_for_event`: entry, loop head | `EnterWait`, `WaitLoop` |
| a follower wakes, or times out | `FollowerWakes`, `FollowerTimesOut` |
| the leader's loop around `handle_events` | `LeadBegins`, `LeadGoesOn`, `LeadExpires`, `LeadEnds`, `YieldEnds` |
| `set_event_loop_thread`, `wait_for_client_leader_to_complete` | `EnterLoop`, `BlockedWakes`, `BlockedTimesOut` |
| `reset_event_loop_thread` and the loop helper | `LeaveLoop`, `GiveUpLoop` |
| `set_upcall_thread` | `set_upcall_thread` |
| `TAO_LF_Event::state_changed` by a reply or a closed connection | `DispatchReply`, `ConnectionClosed` |
| `elect_new_leader` | `elect_new_leader`, `Elect` |
| `follower_set_.remove` | `remove_follower` |

The reactor is external: `handle_events` blocks until it dispatches to a
handler (`Dispatch`), the handler may complete any event, call
`set_upcall_thread` and run application code (`upcall`), run application code
without that call (`CallBack`: the asynchronous reply dispatcher does, and so does a
handler that waits for a connection), and returns (`HandleEventsReturns`).
Threads outside the reactor may close connections at any time and so complete
the events of others. `MaxDepth` bounds the stack of a thread, and `MaxNested` the
threads that are in nested calls at once. The final
states of an event are one state. What the code cannot stand is not switched
off but remembered in the history `met`, which no action reads:
`"leader_calls"`, once a thread that leads has made a call (from code that was
called back outside `set_upcall_thread`), and `"elected_closed"`, once an elected
follower has lost its connection to a thread outside the reactor before it
woke. The properties with `Undisturbed` in their names say what holds
until then; the ones without are what the comments claim, and what the code does not
keep (observations).
Not modelled: re-opening the reactor after shutdown, `defer_event`, the new
leader generator, connection and multi events, failing condition variables. The
leader's look at counters and event between two rounds of `handle_events` is
one step.

### TransportCache

All clients call one endpoint, so a key of the cache is its index. What runs
under the cache lock is one action; a client is at a point (`pc`) of
`TAO_Connector::connect` or of an invocation with a reference to one transport
(`held`). A transport and its connection handler are one element.

| Code | Model |
| --- | --- |
| `find_transport`, `find_i`: available, connecting, busy or none | `FindAvailable`, `FindConnecting`, `FindBusyOrNone` |
| `TAO_Connector::connect` with the transport it found | `CheckError` to `Cleanup` |
| `wait_for_transport` | `WaitBegins`, `WaitSucceeds`, `WaitFails`, `WaitTimedOut`, `WaitExpires` |
| `purge` | `Purge`, `PurgeCloses`, `PurgeEnds` |
| `make_connection`, `complete_connection`, `cache_transport` | `MakeAtOnce`, `MakePending`, `MakeFails`, `Complete`, `CacheNew`, `BindNew`, `Verify` |
| the invocation and its resolver | `Send`, `SendFails`, `Failed`, `IdleAfterSend`, `Returns` |
| the reactor opens or fails a connection | `Opened`, `OpenedMark`, `OpenedIdle`, `OpenedSignal`, `ConnectFails`, `ConnectFailsPurge` |
| `close_connection_eh` | `CloseMark`, `ClosePurge`, `CloseNotify` |
| requests and replies, the idle timer | `RequestBegins`, `RequestEnds`, `ReplyArrives`, `IdleScan`, `IdleClose` |

Invocations block. As in the code, `bind_i` leaves the pointer of a transport
alone when the slot it finds is that transport's already, and binds a
transport at a second index when a gap below its own has opened. `bound_twice`
(history) holds the transports that have had two entries (`has_entry`) at once.
`BusyHasOwner` and `EntryKnowsConnection` speak of the entry the pointer leads to;
that an open transport has no other is part of `PointersTrue`.
`ClosedNotAvailable` is about every entry of a closed transport, unless the
transport is in `bound_twice`, where it is about the one its pointer leads to. A transport is connected
once, so `Transports` bounds the connections ever made. The state of an LF event is modelled with the previous
one, which `successful` and `error_detected` read as well.

### ReplyDispatch

A request is its caller, id and dispatcher. `tms_lock` is a lock that
`connection_closed` keeps while it completes the requests one by one; all other
regions are one action.

| Code | Model |
| --- | --- |
| `bind_dispatcher`, marshalling and sending | `bind_dispatcher`, `send_request`, `send_fails`, `send_times_out` (before a byte is sent, which leaves the connection open), `not_connected`, `leave_unsent` |
| `TAO_Muxed_TMS::dispatch_reply` and the dispatchers' | `dispatch_reply`, `store_reply`, `reply_succeeds`, `handle_reply`; the reply cannot be copied: `reply_fails`, `close_after` |
| waiting: as a follower, or as the client leader in `handle_events` | `wait_ends`, `wait_expires`, `wait_breaks`; `lead`, `poll_returns`, `poll_again` |
| after the wait | `unbind_expired`, `unbind_failed`, `close_failed`, `check_reply_status` |
| timers of asynchronous requests | `schedule_timer`, `reply_timed_out`, `handle_timed_out` |
| closing | `handle_input_fails`, `connection_closed`, `dispatcher_closed`, `connection_is_closed` |

`wait_expires` either leaves the dispatcher's state or overwrites it: when the
time is up `wait_for_event` sets `LFS_TIMEOUT` over whatever has become of it.
A waiting caller may become the leader (`lead`). It then is in `select`
(`polling`) until a handler has run, and looks at its event only after that:
`state_changed` signals followers and nothing wakes a leader whose event another
thread has completed. `lost` (history) holds the requests whose reply was read and
could not be copied, so that the caller is never told. `close_connection` tests
and sets `is_closed_` in one step; the code takes no lock there, and two
threads that both get through would call `connection_closed` twice, the second time
with an empty table.

### TimerQueue and TimerHeap

`TimerQueue` is the promise: a set of timers with distinct ids, of which the
earliest due one is dispatched. `TimerHeap` has the two arrays, the counters and
the code of `reheap_up`, `reheap_down`, `insert`, `remove`, `grow_heap`,
`pop_freelist` and `push_freelist`, as operators on a record. The three loops
(`rise`, `sink`, `freed`) are functions of the number of rounds, with a round that
changes nothing once the loop has ended. Times are any integers (`TimeAssumption`). Cancellation of an id nests: the id stays in limbo while the handler
is told, and the handler may call everything (`cancelling` is the stack).
`ImplementsTimerQueue` is the refinement.

### TPReactor

What a thread does with the token and without blocking is one action. The token
itself is the subject of `Token`; here a thread that waits in `acquire` comes
before the ones that wait in `acquire_read`, as in the token.

| Code | Model |
| --- | --- |
| `handle_events`, `dispatch_i` | `handle_events`; `handle_timer_events`, `handle_notify_events`, `handle_socket_events` |
| the upcall of a notification | `dispatch_notify`, with the pop |
| `dispatch_socket_event`, `post_process_socket_event` | `socket_upcall_returns`, `resumed_upcall_returns`, `post_process` |
| `sleep_hook` of the reactor's token | `acquire_token` |
| calls of the application: wait for the token | `register_handler`, `uses_reactor`, `resume_handler`, `deactivate` |
| the same with the token | `register_handler_i`, `remove_handler_i`, `resume_i`, `mask_ops`, `schedule_timer`, `cancel_timer`, `deactivate_i` |
| calls that need no token | `notify`, `purge_pending_notifications`, `remove_reference` |

`wait_set`, `suspend_set` and `ready_set` are sets of pairs of a file descriptor
and a mask; `events` is what `select` would report. An event handler stands for one
connection: it is registered once, and its file descriptor may serve another
handler after it is closed. The calls of the application name a descriptor, as
in the code: what they act on is whatever handler is bound there by the time they have
the token, be it another one (`remove_handler_i`, `resume_i`, `mask_ops`), or
none, which `handle_in_range` finds out or does not (`out_of_range`: it
only compares the value). In the second case bits of an unbound descriptor get
into the wait set, and `check_handles` takes them out when `select` fails.
`met` (history, through `disturbance`) notes `"stale_resume"`, a call that has resumed
another handler than the one it was meant for, and `"cancelled"`, a `mask_ops` that has
cleared the last suspended bit of a handler in its upcall. References are counted
for the repository, timers, notifications, upcalls and the application.
`state_changed_` is left out: a thread that finds something ready always dispatches
something, so it stays false. So are the calls that an application may make from
`handle_close` while `unbind` holds the token, and a write to the notification pipe that fails
(the node then stays queued without its reference, `Select_Reactor_Base.cpp:724`).
Pushing a notification and writing the pipe is one action, as is popping
one and announcing the next; reading the pipe and popping are two.

## 3. Runs

All bounds are constants of the modules; nothing else is cut off.

| Run | Instance | Shows |
| --- | --- | --- |
| `token_condvar` | 3 threads, both strategies, both positions of `renew`, time-outs, nesting to 2 | safety and refinement of the condition variable build |
| `token_live` | 3 threads, semaphore build, failing waits | a selected thread runs; no writer starves |
| `token_renew_front` | 2 threads, `renew(0)` | violation, see findings |
| `mq_waits` | 2 suppliers, 2 consumers, 3 blocks, 2 priorities, high water mark 2, low 0 | order, no lost wakeup, shutdown releases all, suppliers are served |
| `mq_chains` | the same with chains of 2, all operations, low water mark 1 | the books are right; a deactivated queue is frozen |
| `lf_leader` | 1 event loop thread, 2 clients, one at a time in a nested call | counters and follower set are exact; until a leader makes a call, a client leader is alone; until then, and until an elected follower loses its connection, the leadership is not lost and followers get a leader |
| `tc_cache` | 2 clients, 2 transports, cache for 2, one connection per endpoint at most | the cache and its connections agree; busy entries have an owner |
| `rd_replies` | 2 callers and a reply handler on a connection, time-outs for one caller and the handler | requests are completed once; none is forgotten and a closed connection tells all, but for lost replies and a client leader in `select` |
| `rd_collect` | the same with time-outs for all | violation, see findings |
| `tm_heap` | up to 6 calls of `schedule`, heap grows from 2, cancellations nested 2 deep, one-shot and periodic timers | ids, order and room; refinement of `TimerQueue` |
| `tp_reactor` | 2 threads and a client; 3 handlers, two of which share a file descriptor; a timer, a notification, a self-resuming handler | one upcall at a time until a disturbance, exact references, nothing stale dispatched, every event served, the loop ends |
| `tp_wakeup` | the same, `READ_MASK` is what a client switches; no timer or notification | violation, see findings |

Why the bounds are enough to be interesting. *Token*: three threads give an
owner, a selected waiter and a waiter behind it, in either queue, so a
hand-over can race with a time-out while a third queues or renews; order among
waiters needs two of one kind and one more; nesting 2 tells the inner from
the outer release. *MessageQueue*: two threads of each kind let a signalled
thread be overtaken by one that was not waiting, and let one signal be meant
for either of two sleepers; one block fills the queue alone, two others share
a priority, so the queue is both full and reordered; with the low water mark
at 0 suppliers are signalled by the last message only, and at 1 while one is
left. *LeaderFollower*: an event loop thread against a client leader, a
leader with a follower, and a second level of calls, in an upcall of a server or
of a client, which is where each counter can be above 1; the properties say
nothing of how many followers are in line beyond the first. *TransportCache*: two clients share, wait for and purge
each other's connection; a second transport is the one that is made when the
first is busy, fails or has been purged, and two entries fill the cache.
*ReplyDispatch*: a reply, a timer and the closing thread meet at one request
while another is bound and a third is being completed. *TimerHeap*: with six
calls the heap grows twice, ids wrap around and a node in the middle
is replaced by one that must move up or down. *TPReactor*: a handler is in an
upcall in one thread while the other selects, and the client closes and reuses
its file descriptor; two calls and three events reach every
step, and one file descriptor that stays free of trouble shows what is not
served. Sets of threads and connections are symmetric where the cfg says so, in runs without liveness.

Every property has a faulty variant of one definition beside it in the module
(marked "a faulty variant"), a plausible bug that TLC finds with the same
configuration.

### Fairness

* *Token*: `WF(Wakeup)`: a signalled thread is scheduled; `SF(ReleaseLast)`: a
  client does not renew for ever but at last releases. Without the second a
  holder may keep the token, which no mutex can prevent.
* *MessageQueue*: weak fairness for a woken thread to resume, and for each
  consumer to start a dequeue when it can. Suppliers, time-outs and the control
  operations are not obliged to do anything. `SuppliersServed` thus shows that
  blocked suppliers need no time-out as long as somebody consumes.
* *LeaderFollower*: a thread that is awake between two calls of the reactor
  goes on, and a signalled thread wakes. Nothing is assumed of the reactor: no
  input may ever come and no upcall need ever end. `FollowersAreLed` therefore
  promises a leader, not a reply.
* *ReplyDispatch*: a thread that has a dispatcher, or closes the connection, goes
  on; a follower whose event is complete wakes and returns; so does a leader that
  has come back from `handle_events`. No server need answer, no timer expire, and
  nothing need end the `select` of a leader (`poll_returns` has no fairness), which
  is why `ClosedTellsAll` excepts it.
* *TPReactor*: threads of the pool call `handle_events` again, upcalls return, and
  the token reaches whoever waits for it (the token's order sees to that).
  Events, calls and expiries need not happen. `EventsServed` holds with finitely
  many events: the scan for the lowest handle starves higher ones when
  lower ones, timers or notifications never pause.

### Findings

Disagreements between what the code does and what its comments say, each shown
by a run that TLC finds violated; `PROJECT.json` quotes the comments.

1. `token_renew_front`: `renew(0)`, the default argument, puts the caller at
   the head of its queue and selects it before it waits; in the condition
   variable build the signal is lost and the owner sleeps for ever.
2. `rd_collect`: a caller whose time is up just when its reply is dispatched
   collects a reply that is not there: `dispatch_reply` no longer holds the lock
   that the comment in `Synch_Invocation.cpp` counts on; and when the table was
   emptied by a closing connection there never is one.
3. `tp_wakeup`: `cancel_wakeup` of a handler's only mask during its upcall
   clears its suspension, so that `schedule_wakeup` lets a second thread in, though
   "multiple I/O events will not be made to one event handler multiple
   threads simultaneously" (`TP_Reactor.h:163`).

### Observations

Behaviours met while modelling. The first five are in the models, and the
properties except them by name: TLC shows each when the exception is taken
out of the property.

* *The leader is lost* (`Leader_Follower.cpp:429`). An elected follower whose
  connection is closed by a thread outside the reactor before it has the
  lock returns without electing, and the next follower sleeps though nobody leads. The
  comment at `:330` describes the opposite order and means to prevent it. Shown by
  `LeaderNotLost` in `lf_leader.cfg`.
* *Two leaders* (`Leader_Follower.inl:79`). A client leader that a handler calls back
  outside `set_upcall_thread` keeps its flag when a nested call gives the
  leadership to another client; its nested event loop then passes the test "If we
  are the client thread running the show, then it is ok". Shown by
  `OneClientLeader` in `lf_leader.cfg`.
* *A second entry* (`Transport_Cache_Manager_T.cpp:318`). `connect` binds a connection
  that was closed behind its back again, at a lower index; closing marks and
  purges the new entry only, and the old one stays available. Shown by
  `ClosedNotAvailable` without its conjunct about `bound_twice`.
* *Nobody is told* (`LF_Event.cpp:31`, `Synch_Reply_Dispatcher.cpp:96`). A client leader
  in `select` is not woken when another thread completes its event by closing the
  connection; a reply whose dispatcher is out of the table and which cannot be copied
  wakes nobody. Shown by `ClosedTellsAll` without `leader = r /\ polling`, and
  by `NobodyForgotten` without `lost`.
* *Another handler is resumed* (`Select_Reactor_T.cpp:922`). `resume_i` resumes whatever
  handler is bound to the handle, be it another connection's in its own
  upcall. Shown by `OneUpcallPerHandler` in `tp_wakeup.cfg` with `Handle <-
  ResumedHandle`, `Registered = {e2, e3}`, `Owned = {e1, e3}` and no `Wakers`.

The others concern no property of a run.

* `Message_Queue_T.cpp:1787`: after `pulse`, a thread that has to wait returns
  with `ESHUTDOWN` when it is woken, though "future enqueue/dequeue operations
  proceed as in ACTIVATED state" (`Message_Queue_T.h:440`). `flush_i` (`:1102`)
  empties the queue and wakes no supplier; changing a water mark (`:868`) wakes
  nobody. A consumer woken in `peek_dequeue_head` (`:1741`) leaves the message
  and signals no other consumer. With timed blocks, `enqueue_deadline_i`
  (`:1451`) stops at the first block of later deadline and inserts behind it.
* `Leader_Follower.inl:147`: a client leader that leads two levels leaves the
  leadership flag up when the inner level ends; elections then wake event loop
  threads only (`Leader_Follower.h:118` describes the flag). A follower whose condition
  variable fails returns without an election (`Leader_Follower.cpp:356`); a
  leader that enters the event loop from a handler may wait for itself (`:96`).
* `Transport.cpp:2910`: `post_open` makes an entry available whatever its state,
  so that two clients may share a new connection. `purge` rounds its share
  down, to nothing for a small cache. Active requests are counted only with
  `-ORBTransportIdleTimeout` above 0. Close of the cache during an iteration
  (`Transport_Cache_Manager_T.cpp:755`) is not modelled.
* `Asynch_Invocation_Adapter.cpp:178`, `Asynch_Invocation.cpp:117`: the timer of an
  asynchronous request is scheduled before its dispatcher is bound, and a request
  that fails with TRANSIENT leaves its dispatcher in the table until the
  connection closes. Both are in the model.
* `Timer_Heap_T.cpp`: a heap of one element marks the id 1 as in limbo when it
  grows and fails an assertion at the next `schedule` (`SizeAssumption`). The
  range check of `cancel` and `reset_interval` (`:775`, `:831`) is off by one.
  `close` (`:268`) frees a node before it tells the handler.
* `TP_Reactor.cpp`: a handler that resumes itself and returns -1 with another mask
  left stays suspended. `post_process_socket_event` gives its reference away if it
  does not get the token. A `purge` leaves a message in the pipe, which wakes a
  thread for nothing.

## 4. Proofs

`TokenProofs` proves, for every set of threads, either build and strategy, any
bound on nesting, under `TokenAssumption`:

* `TypeCorrect`, `TokenIsMutex`, `QueuesAreExact`: the inductive invariant is
  `TypeOK`, the exact contents of the two lists (`QueueInv`), who may be runable
  (`OwnerInv`) and a bound on the nesting (`NestingInv`). Mutual exclusion alone
  is not inductive: a release hands the token on when `nesting_level_` is 0, and
  this must be the client's last acquire, so the level (and the level a renewing
  thread has parked) must never fall short of what the client has acquired; and
  a waiter that wakes returns as the holder because it is runable, so only the
  owner may be.
* `TokenIsNotLost`, with the assumption `~WaitMayFail`: a wait that fails with
  an error other than a time-out does lose a token that was just handed over.
  It is proved from a second invariant on top (`LiveInv`): nobody waits for a
  free token, the owner holds it or is runable, and the nesting level is exact.
* `TokenServesInOrder`: `FirstInLine` speaks of all threads in wait, the code only
  of the head of a list. The invariant is that both lists are in order of arrival,
  or against it (`LineInv`); linking puts an entry before or after all others and
  unlinking leaves the others as they were (`InsertOrder`, `RemoveOrder`).
* `TokenImplementsMutex`: each step is a step or a stutter of `RecursiveMutex`.
  It needs that a thread that waits in `acquire` is owed nothing, and one that
  waits in `renew` is owed what it saved (`DebtInv`).

`MessageQueueProofs` proves, for any threads (finitely many consumers), blocks
and water marks, under `MessageQueueAssumption`:

* `NoConsumerStranded`: when a consumer sleeps, there are at least as many
  woken consumers as messages. The induction needs that a deactivated queue has
  no sleepers (`Closed`: deactivation wakes all, no call starts, no waiter waits
  again), so that the signal that `ShutDown` throws away is never missed, and
  that only `pulse` makes the queue PULSED (`Pulsed`). An insertion adds one
  message and wakes one sleeper if there is any; an extraction takes one
  message and at most the taker's own signal; a timed-out consumer has none.
  The lemmas on lists (`InsertedList`, `ChosenIsInQueue`, `RemoveAtLength`)
  show that the position searches of `enqueue_i` and `dequeue_prio_i` stay
  in range and that one block is linked or unlinked.
* `DeactivatedQueueIsFrozen`: no message enters or leaves a deactivated queue.
* `BooksAreKept`: `cur_bytes_` and `cur_count_` are those of the list. The sum over
  the list is a function; that it is the sum before and after a chain is linked,
  or a block unlinked, is proved by induction on the list (`SumsExist`,
  `TotalOfConcat`). The chains that suppliers are about to link are no block's
  second place (`Held`). `TypeCorrect` rests on it: no counter is negative.
* `NoSupplierStranded`: in a queue that is neither flushed nor pulsed no supplier
  sleeps beside an empty queue unless one has been woken. A dequeue that empties
  the queue leaves 0 bytes, as the books say, which is not above the low water
  mark, and signals.
* `QueueIsOrdered`: the search of `enqueue_i` from the tail is right only because
  the queue is ordered already (`PositionSplits`), and what a block came after is
  forgotten with the block, so that no block may be twice in the queue or in a call
  that waits (`Accounting`, `Held`). `InsertAtElements` and `RemoveAtElements` say where each
  block is after one has been linked or unlinked.

`LeaderFollowerProofs` proves, for any finite set of threads and any depth of
nested calls, under `LeaderFollowerAssumption`:

* `CountersAreExact`, `FollowersAreExact`, `PollersCount`, `TypeCorrect`, whatever
  handlers call and whoever closes connections. What the code decrements is not what
  the same call has incremented: `set_upcall_thread` takes a level away from
  whichever call of the thread raised it, and `reset_client_thread` looks at the
  thread's own counters to see whether anything is left. The inductive invariant
  therefore relates the counters of a thread to its stack of calls (`Accounted`,
  `Levels`: how high each counter stands as of each call, up to its value now), the
  shared counters to those of the threads (as cardinalities, which change by one
  when one thread changes), the follower set to the threads that sleep
  (`QueueOf`), and says that a sleeper whose event is complete has been woken
  (`CompletedIsWoken`).
* `ClientLeadsAlone`: until a thread that leads makes a call (`"leader_calls"` is not in
  `met`). With the additional invariant `Sole`, a thread leads by its innermost
  call only, and once, and a client that leads excludes every other leader. A
  client that is called back may lead two levels, and gives up its flag at the end
  of the first.
* `LeadershipIsNotLost`: as long as `met` is empty. Each step either leaves a
  leader or an elected thread, or elects one. The case that needs care is a follower
  that has been elected and times out before it has the lock: it is no longer in the
  set, so that its own election finds the next one. If a thread outside the
  reactor completes the event of an elected follower this argument fails, and so
  does the property. Neither theorem restricts what threads may do:
  `met` says from the steps themselves when the promise ends.

The lemmas on lists of `ListProofs` are shared with `TokenProofs`: a node
linked at the end or unlinked anywhere leaves a list that holds each node once.

`TransportCacheProofs` proves, for any clients, transports and limits, under
`TransportCacheAssumption`, all that the run checks of the cache (`PointersAreTrue`,
`BusyEntriesHaveOwners`, `EntriesKnowConnections`, `ClosedAreNotAvailable`,
`IdleCloseSparesRequests`) and `TypeCorrect`. The inductive invariant is a
conjunction per transport (`TransportOK`), which needs facts the properties do not
mention:

* `Fresh`: nobody but its maker knows a transport before it is cached, so that it has
  one entry at most while it is connecting. Only a transport that has been closed
  is bound a second time, when the index below its own has become free, and leaves
  an entry to which its pointer does not lead (`Loose`); it is in `bound_twice` from
  then on, and only such a transport has a loose entry, so that `ClosedNotAvailable`
  covers every entry of any other.
* `Status`: a transport is connected from `Opened` to `close_connection_eh`, and its
  event succeeds only when `post_open` is over, so that what a client has read of
  the event tells it which of the two has touched the entry.
* `ClosedEntry`: a closed transport that is cached again is bound as not connected;
  or its opener is late, has found it CONNECTING and nobody uses it.
* `OpenEntry`, `BusyEntry` and `IdleEntry` are the properties, phase by phase.

A step changes the entry of one transport, and for all the others one lemma
(`StillOK`) says what must stay: the entry, or that it is gone; the phase; and that
no client comes to the transport. Each action then needs a proof for the transport
that it is about.

`ReplyDispatchProofs` proves, for any sets of requests, under
`ReplyDispatchAssumption`:

* `DispatchersHaveOneOwner`, `NobodyIsForgotten`, `TimeoutsAreFinal` and
  `TypeCorrect`, from one invariant that says where the caller of a request in the
  table, with a thread, or completed may be, and that the table is empty once it
  has been cleared except for requests that will find the connection closed.
  A request whose reply was lost is in `lost`, which is the one exception of
  `NobodyForgotten`.

`TimerHeapProofs` proves, for heaps of any initial size from 2 on, any requests,
clock readings and intervals, under `SizeAssumption` and `TimeAssumption`:

* `IdsAreExact`, `ThereIsAlwaysRoom`, `HeapIsOrdered`, `TypeCorrect`. The invariant
  (`Good`) is that `timer_ids_` and the heap point at one another, that the heap is
  ordered, that there are two ids more than timers in the heap or in limbo, and
  that at most one free id is neither ahead of `timer_ids_curr_` nor
  from `timer_ids_min_free_` on (`Forgotten`). The last two give `AlwaysRoom`: of two
  free ids one can be found. A heap forgets when it grows, which is when two ids are
  free and one of them is being given out; it remembers again when the search has
  come to the end of the table or an id is freed.
* The loops are proved with what each round keeps: `reheap_up` carries a hole to the
  slot where the node belongs, `reheap_down` likewise, and the copies keep
  `timer_ids_` exact but for the hole. `cancel (type)` removes one timer of the type in
  each round until none is left, each time from a heap that is in order. `LoopRuns` says
  that the function that models a loop exists and keeps what each round keeps.
* `HeapImplementsTimerQueue`: each step is a step or a stutter of `TimerQueue`. That
  the root is an earliest timer is an induction along the parents; that the time
  `recompute_next_abs_interval_time` finds is the first to come is arithmetic.

`TPReactorProofs` proves, for any threads, handlers and file descriptors, under
`TPReactorAssumption`, `NoneAssumption` and, for the counts, `PoolAssumption` (the
pool is finite):

* `ReadyWanted`: what is remembered as ready is waited for; whoever takes a bit
  out of the wait set forgets the ready set, so that this is inductive alone.
* `OneUpcall`: `Spec => []OneUpcallUndisturbed`, for either mask that may be
  switched and any reuse of descriptors. Who enters a handler has found nothing of it
  suspended and suspends all of it (`SuspendedWithin`), so that nobody else was within
  unless it had resumed itself. While the handler is bound only its own resumption
  moves bits back, unless a resumption was meant for an earlier handler of the
  descriptor or the last suspended bit is cancelled, and these two are in `met`. The upcall may outlive the
  registration: `RegisteredOnce` says that the handler does not come back to the
  descriptor, and `CallsOfUpcalls` that the thread which resumes or ends an
  upcall is the one in it. When a handler was resumed, entered again and the first
  upcall ends with -1, either bits of it stay suspended or it is unbound.
* `ReferencesAreExact`: `refs` is the sum of the kinds of use (`Count`): owned,
  bound, in a timer, queued, in an upcall. The proof counts each kind for itself
  (`Counted`), as each step changes one kind and the count by as much. It needs
  that a handler that is about to be registered finds its slot empty and nobody
  else on the way there (`SlotIsFree`), so that `bind` never replaces one.
* `TypeCorrect` needs `ReadyIsWanted` and `EventsBound`: whatever has arrived or is
  remembered is for a descriptor with a handler, as a thread calls the handler that it
  finds in the repository. Bits that are waited for may be of descriptors without one.

The installed provers cannot use an induction rule whose parameter is an operator.
`ListProofs` states induction for a set instead (`SetInduction`, from the
well-foundedness of < on the naturals) and derives from it that the recursive functions
of the models, sums and loops, exist and are unique (`SumsExist`,
`SumsAreUnique`, `RoundsExist`, `RoundsAreUnique`, `LoopRuns`). No model uses
a RECURSIVE operator.

Checked by TLC only: liveness, because the prover has no rule for fairness
(`SelectedRuns`, `WritersServed`, `ShutdownReleasesAll`, `SuppliersServed`,
`FollowersAreLed`, `ClosedTellsAll`, `EventsServed`, `EverybodyLeaves`). Every
safety property that a passing run checks is proved; the hypotheses are those
named above (`~WaitMayFail` for `TokenIsNotLost`, a finite pool or set of threads
for the counts).

## 5. Not modelled

`PROJECT.json` gives the reason for each part. The parts left out are: what rests
on the semantics of the operating system (the other reactors, the proactor,
emulated synchronisation, thread management), sequential data
structures (containers, memory, marshalling, dynamic message queues, named
tokens), the transport's output queue and message parsing, the other
wait and multiplexing strategies, everything that is configuration, logging or
I/O, and the IDL compiler, services and applications. `TPReactor` and
`LeaderFollower` stay apart: the leader's `handle_events` is abstract in
`LeaderFollower`, and `TPReactor` has no upcall that waits for an event.
