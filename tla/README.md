# A TLA+ development of asyncpp-grpc

asyncpp-grpc wraps gRPC's asynchronous C++ interface in C++20 coroutines. What it
adds to gRPC is small and delicate: objects whose addresses are handed to gRPC as
tags and must live until the tag comes back, a queue of functions that must wake a
thread sleeping in `CompletionQueue::Next`, and teardown of all of that while events
are still under way. This directory models those parts in TLA+, checks small
instances with TLC and proves the safety of those parts for every size with TLAPS.

Line numbers refer to `include/asyncpp/grpc/*.h` and `src/grpc/*.cpp`.

## The system

| Part | State | Operations | Used by / uses |
|---|---|---|---|
| `client_cq` (client_cq.h, client_cq.cpp) | `m_dispatched`, `m_alarm_set`, `m_alarm`, `m_cq`, the thread | `push`, `handle_event`, constructor's loop, destructor, `get_default` | every client call without a queue of its own; user code through `dispatcher::push` |
| `server` (server.h, server.cpp) | one completion queue and thread per worker, one `m_dispatch_queue`, one `m_dispatch_alarm`, `m_dispatch_need_alarm`, the initializers | `push`, `handle_event`, constructor, `stop` | runs the handlers of `task` |
| `server_builder` | a `grpc::ServerBuilder`, the initializers | setters, `add_service`, `add_task`, `build` | constructs `server` |
| `task` (task.h) | the coroutine frame, its `task_rpc_context`, the awaiters | `initial_suspend`, `final_suspend`, the hooks, `send_initial_metadata`, `read`, `write`, the done notification | one per RPC served; tags on the server's queue |
| `streaming_call` (call.h) | the heap allocated `state`: context, stream, `m_need_writes_done` | `start`, `read`, `write`, `write_last`, `writes_done`, `finish`, destructor | one per streaming RPC of a client; tags on `client_cq` |
| `unary_call`, `grpc_generic_method_awaiter` | one awaiter | one operation, one event | like `streaming_call` |
| `method_traits`, tags | none at run time | | compile time selection |
| `util`, `grpc_exception` | none | exceptions to `grpc::Status` | `on_unhandled_exception` |

All parts meet in one place: a thread in `Next` takes a tag and calls
`calldata_interface::handle_event(evt, ok)` on the object it points to, which
usually resumes a coroutine inside that call.

What is hard about it, and what makes each part correct:

* **Wake-ups.** `push` appends and tests a flag, the handler clears the flag and
  drains. No function may be left in a queue whose thread sleeps; the alarm may not
  be set twice; nothing may be run twice or out of order. `client_cq` has one drain
  loop after the clear; `server`, whose drain runs on several threads, has one before
  and one after the store.
* **Teardown.** Destructor and `stop` must run what was pushed, must return, and
  must not leave anybody operating on a queue that is shut down.
* **Tags.** A frame, an awaiter or a call's state must outlive every event that
  points to it and be freed after the last. Nobody but the events owns a frame.
* **Reuse.** A frame that rejects a call serves another with the same members.
* **Protocol.** One `Finish`, at most one half-close, and the half-close before the
  `Finish` of a call that is still going on.
* **Start.** The stub call that creates a stream also issues the tag.
* **Start-up.** Every worker of a server runs every function of the builder on its own
  queue before it serves; the last one to finish clears them, and no sooner; `stop` may
  come while they are at it.
* **Ownership.** Calls share the default `client_cq` and usually end on its own thread,
  where it must not be destroyed.
* **Outcome.** The status that user code meant, and no better one, reaches the client.

## The modules

| Module | Models | Runs |
|---|---|---|
| `Dispatcher` | what a dispatcher promises: FIFO start, at most once, exclusive or not | as a PROPERTY |
| `ClientCq`, `MCClientCq` | `client_cq` | `client_cq` |
| `ClientCqProofs` | theorems about `ClientCq` | |
| `ServerDispatch`, `MCServerDispatch` | `server::push`, `handle_event`, the workers' loops, `stop` | `server_dispatch`, `server_dispatch_late` |
| `ServerDispatchProofs` | theorems about `ServerDispatch` | |
| `ServerStartup`, `MCServerStartup` | `server_builder::add_task`, `build`, the constructor of `server`, the workers up to their loop, `stop` at any moment | `server_startup` |
| `ServerStartupProofs` | theorems about `ServerStartup` | |
| `ClientCqLifetime`, `MCClientCqLifetime` | who owns the default `client_cq`: `get_default`, `unary_call`, the generic awaiter, `streaming_call`'s state, `exit` | `client_cq_lifetime` |
| `ClientCqLifetimeProofs` | theorems about `ClientCqLifetime` | |
| `Awaiter` | what `calldata_interface` promises coroutines and gRPC: one operation, one event, one resumption, one owner | as a PROPERTY |
| `Task`, `MCTask` | the life of `task` frames on one completion queue, and the shutdown | `task_reject`, `task_stale_cancel` |
| `TaskProofs` | theorems about `Task` | |
| `StreamingCall`, `MCStreamingCall` | `streaming_call`, its state and the three kinds of RPC | `streaming_call`, `streaming_call_foreign`, `streaming_call_failed_start` |
| `StreamingCallProofs` | theorems about `StreamingCall` | |
| `RpcStatus` | the outcome of one RPC: `return_value`, `unhandled_exception`, `exception_to_status`, `grpc_exception`, `Finish` or `FinishWithError`, `unary_call`'s handler | `rpc_status` |
| `RpcStatusProofs` | theorems about `RpcStatus` | |

In every module a variable that is a member of the source has its name there
(`m_dispatched`, `m_alarm_set`, `m_is_cancelled`, `m_need_writes_done`, `stream`).
The others are program counters (`pc`, `pos`, `push`), what gRPC holds (`op`,
`event`, `alarm`, `rpc`, `done`, `call`) and what has ended the
process (`aborted`, `fault`). The operators with a suffix after an underscore and a comment
with the word "Slip" are not part of any specification: each is a plausible wrong version
of the action that follows it, and records which mistake the properties would notice.

**ClientCq.** `PushEmplace`, `PushTestAndSet`, `PushSet` are the three statements of
`push` (client_cq.cpp:35-36) taken by any thread, the worker included (from inside a
function, or a handler). `NextAlarm`, `ClearFlag`, `PopTask`, `EndTask`, `PopEmpty`
are the loop and `handle_event`. `NextOp` and `EndOp` are events of other operations;
one with a null tag is skipped. `DtorShutdown` needs every outside thread out of
`push`: the destructor runs when the last reference is gone.

**ServerDispatch.** The same for `server`, with several workers. `m_cqs` holds the queues
the constructor made, each named by its worker: any number of the `Workers`, none included,
as `thread_count` may be zero (server.h:57). `stop` is
`StopServer`, `ServerIsShut` (gRPC's Shutdown returns), `ShutdownCq` once per queue,
`Joined`. The order in which `stop` visits the queues is left open: no thread can tell.
`cq_idx` is the caller's choice, hence the choice of `w` in `PushSet`; without a queue push
takes `PushSetNoQueue`, the division by `m_cqs.size() == 0`. The RPCs a worker
serves are reduced to "in a handler" (`NextRpc`, `EndRpc`). Their events, and those of the
requests that fail, go on coming after `Shutdown()`, until `Next` returns false; whether
one of them is still in flight on a queue that was shut down, and keeps it open for the
alarm, is a choice of `PushSet`.

**Awaiter.** The promise that the awaiters of task.h and call.h and the detached state of a
`streaming_call` make alike. A party (a frame, a call) runs or waits; it waits for exactly
one operation, whose tag is valid until its event is handled; the event resumes the party,
begins a follow-up operation (`Again`: the second step of `finish` and of the destructor)
or frees the party, and nothing else does. `IsAwaiter` in `Task` and in `StreamingCall` is
the refinement: `At` and `Tag` read the party's state off the place of the coroutine, the
allocation and gRPC's queues. The done notification of a call is not the event of an
operation and stays out of it; `OnlyNotificationsDangle` is about it.

**Task.** `Spawn` is the call of a task function up to `start_grpc_call`;
`HandleRequest`, `HandleRequestFailed`, `HandleRejectSent`, `Restart`,
`HandleIo`, `HandleFinish`, `HandleDone` are the branches of the `handle_event`s;
`Authenticated` and `Rejected` are the callback given to `on_authenticate`, which may
come at once or later; `BodyAwaits` and `BodyEnds` are user code. `HandleRejectSent`
and `Restart` are two steps because another thread (the one that shuts the
server down) can see the state in between; `Busy` keeps the queue's own thread out.
A frame's ServerContexts are numbered, `calls` being the current one. `HandleFinish`
destroys the frame whether or not its done notification has been delivered, as the code
does; `HandleDone` of a frame that is gone is a use of freed memory and ends the process
(`fault`).

**StreamingCall.** One call and the one coroutine that uses it. `Start` and
`StoreStream` are the two halves of the assignment in `await_suspend`: issuing the
tag and storing the pointer. Who awaits `start()` decides what can happen between
them: on the queue's own thread nothing, a thread behind a promise goes on only when
`await_suspend` has returned, a coroutine goes on where it is resumed.
`Destroy`, `HandleDestructWritesDone`, `HandleDestructFinish` are the destructor and
the state that outlives the object.

**ServerStartup.** `AddTask` and `Build` are the builder and the constructor up to
`BuildAndStart`, which may fail; `SpawnThread` the constructor's loop, in order, and
`SpawnFails` the thread that cannot be started. A worker takes `EnterLoop` (its range-for
begins), one `RunInitializer` per function, `ComeOnline` (the `fetch_add` and the
comparison) and, if it is the last, `Clear`; the two are separate steps because other
workers can run between them. `stop` is called once, by a thread of the program after
`build` has returned (`UserStops`) or on a worker (`WorkerStops`), in a pushed function or
in the handler of a call. `early` remembers that some worker did not serve yet.

**ClientCqLifetime.** The static of `get_default` and, per call, where it is and whether
it holds a copy. `Make` is the construction of an awaiter (call.h:42-49, 152-158, 187-193,
221-228), `Issue` its `await_suspend`, `HandleEvent` the worker that takes the event:
`"last"` is the flight of the operation after which the call is done, the only one of a
unary call and of a generic awaiter, the destructor's of a streaming call. `Release` drops
a copy; if it was the last one the destructor runs on that thread. Any of these may happen
on a thread of the program or inside a handler on the queue's own thread.

**RpcStatus.** A sequential chain with a choice at each link: how user code ends
(`Return`, `Reject`, `Throw`), what gRPC makes of it (`Transmit`, `Break`), what the
client's awaiter makes of the event (`HandleEvent`). Codes are all the values an `int` can
hold, and `ToSizeT` is the conversion to `size_t`, modulo its width.

## What is assumed of gRPC and of the user

These are external: modelled from how the code uses them.

* An operation completes with one event; `Next` returns events in some order, and
  false once the queue is shut down and nothing is left.
* `Next` of a server's queue goes on returning the events of its RPCs after `Shutdown()`,
  but not for ever.
* Beginning an operation on a queue that is shut down aborts if nothing is in flight
  on it any more (`begin_op` fails and the C++ layer asserts); it still succeeds
  while another operation is in flight.
* `Server::Shutdown()` fails the requests and returns when no call is left.
* The done notification of a call is delivered once, before or after the completion of the
  call's `Finish`: gRPC's documentation does not promise an order, and none is assumed.
* `BuildAndStart()` may return null, and does without a queue; a request on a server that
  is not there is undefined, and so is one on a queue that is shut down and drained.
* `exit()` destroys the static of `get_default`; the rest of the program may go on until
  the process ends. Copying the static after that is undefined unless somebody else owns
  the object it still points to.
* gRPC aborts on `FinishWithError` with an OK status, delivers the response only with an OK
  `Finish`, and reads a code it does not know as UNKNOWN.
* `stop` is called once, and a builder builds once.
* In StreamingCall the user awaits one operation at a time, does not write after
  half-closing and makes no use of the call after `finish`. `IgnoreStart` says whether
  it minds the result of `start`.

## The runs

| Run | Shows |
|---|---|
| `client_cq` | 3 functions (one empty), 2 threads, 2 operations (one with a null tag), nested use. About 25 000 states. No lost wake-up, one alarm, nothing dropped, aborts only for callbacks that use the object under destruction; refinement of `Dispatcher`; every function runs; the destructor returns. |
| `server_dispatch` | 3 functions, 2 threads, servers of 0, 1 and 2 workers, nested pushes. About 35 000 states. The same promises, without exclusion. |
| `server_dispatch_late` | As above with threads that push regardless of `stop`. About 87 000 states. `PushDefined`: the division by `m_cqs.size() == 0` happens on a server without threads and after `stop` has returned, the abort while `stop` shuts the queues down, and neither anywhere else. |
| `task_reject` | 2 frames, 2 calls per frame, rejection allowed. About 244 000 states, the longest run (a minute and a half). Nothing but a done notification can find its frame destroyed; refinement of `Awaiter`, hooks in pairs, no cancellation that no client asked for and none lost once its notification is taken, nothing leaked, shutdown ends; the one abort that remains needs the window of a restart. |
| `task_stale_cancel` | The cancellation event is not exact after a restart (finding 1); without rejection it is, which is a theorem. |
| `streaming_call` | All three kinds, awaited on the queue's thread or through a promise, by a user who looks at the result of `start`. 640 states. The stream is there when it is used, the state outlives its users, one half-close, the status is the call's; refinement of `Awaiter`; `finish` and the destructor end. |
| `streaming_call_foreign` | A coroutine on another thread (finding 2). |
| `streaming_call_failed_start` | A user who ignores a failed `start` (finding 3). |
| `server_startup` | Up to 3 threads, up to 2 functions, `BuildAndStart` failing, a thread that does not start, `stop` at any moment. About 16 000 states. Every worker runs every function before it serves; no function is used after the clear; what kills the process is one of four named mistakes; every queue gets a serving thread and `stop` from outside returns. |
| `client_cq_lifetime` | A unary call, a streaming call and a borrower, on the program's threads or the queue's own, `exit` at any moment. About 3 500 states. Owners find the queue open; no self-join before `exit`; calls are released and `exit` returns. |
| `rpc_status` | All 64 codes of a 6 bit `int` against a 7 bit `size_t`, returned, reported or thrown, debug and release, unary and streaming. About 3 700 states. |

**Bounds.** Each function is pushed once and each operation started once, so the sets
bound the runs. Three functions and two threads plus a worker that pushes are the
least with which a push can meet a drain *and* another push while a third function is
queued; two workers the least with which one is in its second loop while another
serves the next alarm (servers of none and of one are initial states too). Two frames are needed for one to restart or be armed while the
other keeps the queue alive, `MaxCalls = 2` for one call's state to leak into the
next. `MaxCalls` bounds the rejections in a row (a frame that has used its calls does
not reject again). Three threads are the least with which one worker can be before, one
in and one after its loop; two functions let a clear fall into a loop. `MaxThreads` also
covers a server without threads. Three calls give one call of each way to own, or not, the
`client_cq`. The widths of `int` and `size_t` only have to exceed the table of 17 names and
to differ. StreamingCall needs no bound: its constants range over finite sets, and
`streaming_call` takes every kind of RPC and every caller its properties are claimed for
(`cq`, `promise`); the third caller and the ignored result of `start()` are the instances
of the two runs that find a violation. Deadlock is checked in all runs.

**Fairness.** Threads that can run do run (WF of the worker's and the pushers' steps),
gRPC completes what was begun, an alarm rings, functions and handlers return,
`on_authenticate` answers, and user code ends: `BodyEnds` has strong fairness because a
body may await any number of operations before. `NextAlarm` of a server's worker has
strong fairness because RPC events compete with it and the completion queue is first in
first out; so has `NextShutdown`, because the RPC events that keep a queue open are finitely
many once `Server::Shutdown()` has been called. Nobody is obliged to push, call, cancel,
or stop. In StreamingCall the server returns its status once it has seen the client's half-close, and only then:
`CallsEnd` would be false if `finish` could omit it. In ServerStartup
threads that were started run and gRPC's `Shutdown` returns when no call is left; in
ClientCqLifetime gRPC completes what was begun, the queue's thread takes every event though
new ones keep coming (the queue is first in, first out: strong fairness), and the program
destroys its streaming calls. Where a process can die (`aborted`, `fault`) the liveness
properties say so.

## Findings

1. `task_stale_cancel`: task.h:247-252 resets context and stream of a rejected call
   ("Reset the state of context and stream") but not `m_is_cancelled`. A client that
   cancels while it is being rejected leaves the next call of the frame cancelled.
2. `streaming_call_foreign`: call.h:171, 207, 242 store the stream after the tag was
   issued. A coroutine resumed on the queue's thread finds no stream: `write` throws
   "No active call", `read` and `finish` dereference null. The same instance also refutes
   `StateOutlivesItsUsers`: a coroutine that destroys the call in that window deletes the
   state, into which the thread inside `await_suspend` then stores the stream.
3. `streaming_call_failed_start`: `read` and `finish` (call.h:270, 389-394) lack the
   "No active call" check of `write`, `write_last` and `writes_done`.

Not findings, since no document, comment or test of the repository says otherwise, but
worth knowing:

* `OnlyNotificationsDangle` says which tag may outlive its frame, not that none does.
  `final_suspend` destroys the frame, and with it the promise that is the tag of the done
  notification, when `Finish` completes (task.h:282-287), without waiting for the
  notification. If gRPC delivers that second, its handler runs in freed memory
  (task.h:366-374). TLC reaches it in `task_reject`: `fault # "use_after_free"` is not an
  invariant.
* `AbortOnlyInRestart` describes the window task.h:250-252 in which a restarting frame
  holds no call, so that the server can finish shutting down before the next request is
  made. TLC reaches that abort (`fault # "aborted"` is not an invariant of `task_reject`).
* `PushDefined` does not say that `push` is defined: on a server built with a thread count
  of zero, which `hardware_concurrency()` may report (server.h:57), the first push divides
  by zero (server.cpp:88).

Likewise `LivesUntilStopped` lists the ways in which a server dies that nothing in the code
prevents: the result of `BuildAndStart()` is not looked at (server.cpp:11), a thread that
cannot be started leaves joinable ones behind (server.cpp:14), `stop` may shut a queue on
which a worker is yet to request its first call (server.cpp:20, 71), and `stop` on a worker
joins its own thread (server.cpp:74) or waits for the call it is in. And
`FaultsOnlyAfterMain` is about the window after `exit()` has destroyed the static
`client_cq`.

## What is proved

Seven modules have proofs of safety that hold for every value of their constants. Nothing
is assumed but the named assumptions on the constants (`ClientCqAssumption` and its like);
a theorem that needs more of them has it as a hypothesis: `~MayReject` in `SignalIsExact`, `CallerWaits` and `~IgnoreStart` in `StreamingCallProofs`.
Every module has the same shape: a strengthening `IInv` of the properties, `Initially`,
`Inductive`, a theorem `Invariance`, and one theorem per property. TLC has checked each
`IInv` on the instances above, those of `Task` and `StreamingCall` for both values of
`MayReject` and `IgnoreStart` and for all callers.

**ClientCqProofs, ServerDispatchProofs.** `TypeCorrect`, `WakeupNeverLost`
(`NoLostWakeup`), `AlarmNeverSetTwice` (`OneAlarm`), `DestructorDropsNothing` and
`AbortsOnlyWhileDestroyed` for `client_cq`, `StopDropsNothing` and `PushIsDefined` for
`server`, whatever its number of threads, and `Refinement`: every behaviour is one of `Dispatcher`.
None of these is inductive: that no
wake-up is lost depends on the flag telling the truth. `OneToken` says what the flag
means. In `client_cq` it is set exactly while there is a token: a thread between
`test_and_set` and `Set`, an armed or fired alarm, or the worker between `Next` and
`clear`; there is at most one. In `server` the flag is false exactly while there is
one, and the worker's first loop up to the store is part of it. With that, a push that
finds the flag taken knows that a drain is still to come, which is `NoLostWakeup`, and
the winner knows that the alarm is idle, which is `OneAlarm`. `Teardown` adds what the
steps of the destructor and of `stop` leave behind: a worker that has left its loop has
no alarm coming and, by `NoLostWakeup`, no function waiting. For `server`, `QueuesInUse` says that the alarm is only ever on a
queue that has, or had, a thread to take its event, and that the queues are gone only when
there never was one or `stop` has returned, which with `Teardown` is `PushDefined`; `InOnePlace`
says that a function is at one place of the queue or with one worker; the refinement
needs it, because with several workers a finished function must not still be running
elsewhere.

**TaskProofs.** For any number of frames and restarts: `TypeCorrect`, `TagsAreNotReused`
(the operation in flight is the one the frame's place is suspended for), `HooksArePaired`,
`SignalsAreFaithful`, `NothingIsLeaked`, `AbortsOnlyInRestart`, `Refinement` (every
behaviour is one of `Awaiter`), `OperationTagsAreValid` (`OnlyNotificationsDangle`), and
`SignalIsExact` if no call is rejected. `PlaceOK` says for each place of the coroutine which operation is in
flight, how far the call and its done notification are and which hooks have been called;
`CallsOK` that the later calls of the frame are untouched, that a notification belongs to a
call that was delivered, and that the one of a cancelled call leaves the signal behind.
No operation's event finds its frame destroyed, because a frame is destroyed by the event of
the only operation in flight (`PlaceOK`); what may find it destroyed is the notification of
a call that was delivered, which is over by then (`CallsOK`). All theorems hold in
whatever order the notification and the completion of `Finish` come.
`ShutdownOK` (no call is left once `Server::Shutdown()` has returned) is what
`NothingLeaked` and `AbortOnlyInRestart` need: a frame alive on a queue that is shut down
can only be requesting. The refinement needs it too: a frame that awaits an operation, or
is rejected, finds the queue open; a restart may not, and dies (`Dies`).

**StreamingCallProofs.** For every set of kinds and callers: `TypeCorrect`,
`StatusIsTheCalls`, `HalfClosesOnceAndFirst` and `Refinement` hold whoever awaits `start`
and whatever the user does with its result. `StateLivesLongEnough` and `StartedMeansActive`
need a caller that waits for `await_suspend` to return (`CallerWaits`), `StreamIsThere`
also a user who looks at what `start` returned: exactly what findings 2 and 3 are about, and
TLC refutes each of the three without its hypothesis. `PlaceOK` gives for each place of the
coroutine the operation in flight and that it was begun on a stream; it is silent only about
a stream that has yet to be stored. `NeedOK` says what `m_need_writes_done` means: of a
started call it is false only if the client has half-closed, and true only if it has not,
except while the operation that does it is in flight and after `finish`, which leaves it as
it was. That makes the half-close come once, and before `Finish`. `CallOK` follows the call to its end, so that the
status `finish` delivers is the one the call ended with; `WaitingOK` is what a caller that
waits adds; `FaultOK` names who can meet which undefined behaviour. The refinement maps a
step of the coroutine to the move of one party (`Moves`), and the use of a stream that is
not there, or of a state that is gone, to the death of the process.

**ServerStartupProofs.** `FunctionsRunOnce` and `ServerLives` for any number of threads and
functions. `LoopOK` is the loop invariant of the range-for: what a worker has run and what
it has left make up the builder's sequence. `ClearOK` says that `m_threads_online` is the
number of workers that are through their loops and that the vector is full until all of
them are; that the last one is the last is a fact about cardinalities (`CountedAll`).
`StopOK` relates the steps of `stop` to where the workers are.

**ClientCqLifetimeProofs.** `OwnersAreSafe` and `SafeUntilExit` for any set of calls.
`Ownership` says that the owners are exactly the calls under way that do not borrow, and
that an event belongs to an operation in flight; `OwnersKeepItOpen` that the queue is open
as long as the static or a call owns it and that only `exit` drops the static.

**RpcStatusProofs.** `OutcomeIsReported` and `NamesAreInTable` for every width of `int` and
`size_t` with the first at least 5 bits and the second wider. The arithmetic fact is that a
negative code becomes a `size_t` above the last code, hence the width.

Only model-checked: liveness (`EveryTaskRuns`, `DtorReturns`, `StopReturns`,
`CancelIsSignalled`, `CallsEnd`, `StartsAndStops`, `ReleasedAndJoined`), which is out of the
prover's reach. Every other property of a passing run is stated by a theorem.

## What is not modelled

* The setters of `server_builder`: each forwards its arguments to `grpc::ServerBuilder`.
* `util`'s demangling and exception texts, and the choice of an awaiter by the type of the
  awaited value (`rw_tag.h`, `await_transform`, `method_traits`): formatting, and decisions
  of the compiler.
* What the functions of `add_task` share: all workers call the same mutable function
  objects (server.h:148), whose captured arguments a task could change.
* Exceptions thrown by pushed functions or by the hooks: `handle_event` is noexcept, the
  process ends.
* Contents of messages and metadata. A status is followed as such in `RpcStatus`; elsewhere
  it matters only whether it is the call's own.
* asyncpp itself: `threadsafe_queue` is a sequence with atomic `emplace` and `pop`,
  `ptr_tag` the identity on (pointer, number), `multi_consumer_event` a boolean.
* gRPC, CMake files, the generator wrapper.

## Plan

Done: `Dispatcher`, `Awaiter`, and `ClientCq`, `ServerDispatch`, `ServerStartup`,
`ClientCqLifetime`, `Task`, `StreamingCall`, `RpcStatus` with proofs. What is left:

1. A composition of `Task` with `ServerDispatch`: the RPCs of the workers being frames, so
   that a frame may push functions and be resumed by one, on several queues. `Task` has one
   queue, `ServerDispatch` handlers without content; the two meet in `Server::Shutdown()`.
2. Theorems about `Dispatcher` itself (a function is at one place at a time), which
   `ClientCq` and `ServerDispatch` then inherit by their refinements.
3. A second `stop()` that races the first (it is public, and the destructor calls it).
