-------------------------------- MODULE Task --------------------------------
(***************************************************************************)
(* asyncpp::grpc::task: the coroutine that serves one RPC on the server.   *)
(*                                                                         *)
(* A frame is a coroutine frame with its promise: the promise holds the    *)
(* task_rpc_context (ServerContext, stream, m_is_cancelled) and is the tag *)
(* of the done notification; the awaiters inside the frame are the tags of *)
(* every other operation.  initial_suspend() requests a call and enters    *)
(* user code when one has arrived and the hooks have authenticated it; a   *)
(* call that is rejected is finished with the error, the ServerContext is  *)
(* built anew and the frame requests its next call; final_suspend()        *)
(* finishes the call and the frame is destroyed when that has completed.   *)
(*                                                                         *)
(* The completion queue is served by one thread, whose handlers are the    *)
(* Handle... actions; user code (Body... actions, and the callback given   *)
(* to on_authenticate) runs inside those handlers or on any other thread.  *)
(* gRPC and the clients are external.  What they promise:                  *)
(*   - an operation completes with one event;                              *)
(*   - the done notification of a call that was delivered is queued once,  *)
(*     after the call was cancelled or its status was sent, and delivered  *)
(*     before or after the completion of the call's Finish;                *)
(*   - Server::Shutdown() fails the requests and returns when no call is   *)
(*     left: its ServerContext destroyed, its notification delivered.      *)
(*                                                                         *)
(* A notification that finds its frame destroyed writes into freed memory: *)
(* what the process does from there on is undefined, and it ends.          *)
(*                                                                         *)
(* calls counts the ServerContexts of a frame; MaxCalls bounds it.         *)
(***************************************************************************)
EXTENDS Integers

CONSTANTS Frames,      \* the coroutine frames, each allocated at most once
          MaxCalls,    \* bound: the calls one frame may request in a row
          MayReject    \* whether on_authenticate may report an error

ASSUME TaskAssumption == /\ MaxCalls \in Nat \ {0}
                         /\ MayReject \in BOOLEAN

VARIABLES frame,           \* the allocation of the frame
          pos,             \* where the coroutine is
          calls,           \* the ServerContext in use, counted from 1
          m_is_cancelled,  \* task_rpc_context::m_is_cancelled
          hooks,           \* "none", then "on_start", then "on_finish"
          op,              \* the operation of the frame gRPC is executing
          event,           \* the operation whose event is in the queue
          rpc,             \* per frame and context: the call
          done,            \* per frame and context: the done notification
          server,          \* how far the shutdown is
          fault            \* what has ended the process: gRPC's abort, or
                           \* the use of a frame that was destroyed

vars == <<frame, pos, calls, m_is_cancelled, hooks, op, event, rpc, done,
          server, fault>>

promise == <<calls, m_is_cancelled>>                     \* but for the hooks
coroutine == <<frame, pos, calls, m_is_cancelled, hooks>>
grpc == <<op, event, rpc, done, server, fault>>

Ok == fault = "none"

Calls == 1..MaxCalls

Operations == {"request", "io", "reject", "finish"}

(* The call that the frame's ServerContext stands for. *)
Call(f) == rpc[f][calls[f]]

(* A started call that keeps Server::Shutdown() waiting. *)
Held(f, c) == /\ rpc[f][c] \in {"open", "cancelled", "closed"}
              /\ \/ frame[f] = "alive" /\ calls[f] = c
                 \/ done[f][c] # "taken"

(* gRPC refuses to begin an operation once the completion queue is shut    *)
(* down and nothing is in flight on it.                                    *)
Drained == /\ server = "cq_shutdown"
           /\ \A f \in Frames : /\ op[f] = "none"
                                /\ \A c \in Calls : done[f][c] # "pending"

(* An operation is begun with a tag inside f. *)
Begin(f, o) == IF Drained
               THEN fault' = "aborted" /\ UNCHANGED op
               ELSE op' = [op EXCEPT ![f] = o] /\ UNCHANGED fault

(* The coroutine goes from one suspension point to another. *)
Goes(f, from, to) == /\ Ok
                     /\ pos[f] = from
                     /\ pos' = [pos EXCEPT ![f] = to]

(* The thread of the completion queue is inside a handler. *)
Busy == \E f \in Frames : pos[f] = "restarting"

(* The thread takes the event of f's operation, and f goes on. *)
Take(f, o, to) == /\ Ok
                  /\ ~Busy
                  /\ event[f] = o
                  /\ event' = [event EXCEPT ![f] = "none"]
                  /\ pos' = [pos EXCEPT ![f] = to]

Init == /\ frame = [f \in Frames |-> "none"]
        /\ pos = [f \in Frames |-> "none"]
        /\ calls = [f \in Frames |-> 1]
        /\ m_is_cancelled = [f \in Frames |-> FALSE]
        /\ hooks = [f \in Frames |-> "none"]
        /\ op = [f \in Frames |-> "none"]
        /\ event = [f \in Frames |-> "none"]
        /\ rpc = [f \in Frames |-> [c \in Calls |-> "none"]]
        /\ done = [f \in Frames |-> [c \in Calls |-> "none"]]
        /\ server = "running"
        /\ fault = "none"

-----------------------------------------------------------------------------
(* m_context.start(): the done notification is asked for, a call requested *)
StartGrpcCall(f) ==
    /\ rpc' = [rpc EXCEPT ![f][calls[f]] = "requested"]
    /\ Begin(f, "request")
    /\ UNCHANGED <<promise, hooks, event, done, server>>

(* A task function is called: by the program before it stops the server,   *)
(* or by user code that arms the next call.  The frame is allocated and    *)
(* initial_suspend() requests a call.                                      *)
Spawn(f) ==
    /\ frame[f] = "none"
    /\ server = "running" \/ \E g \in Frames : pos[g] = "body"
    /\ frame' = [frame EXCEPT ![f] = "alive"]
    /\ Goes(f, "none", "initial")
    /\ StartGrpcCall(f)

(* initial_suspend, tag 0, !ok: "never enter user code", the frame is      *)
(* destroyed.  Slip: the handler returns without destroying it.            *)
RequestFailed(f, left) ==
    /\ Take(f, "request", "none")
    /\ Call(f) = "failed"
    /\ frame' = [frame EXCEPT ![f] = left]
    /\ UNCHANGED <<promise, hooks, op, rpc, done, server, fault>>

HandleRequestFailed_Kept(f) == RequestFailed(f, "alive")
HandleRequestFailed(f) == RequestFailed(f, "destroyed")

(* initial_suspend, tag 0, ok: on_authenticate() is called; it calls back  *)
(* at once or later.  From here on gRPC watches for the end of the call.   *)
HandleRequest(f) ==
    /\ Take(f, "request", "auth")
    /\ Call(f) # "failed"
    /\ done' = [done EXCEPT ![f][calls[f]] = "pending"]
    /\ UNCHANGED <<frame, promise, hooks, op, rpc, server, fault>>

(* The callback of on_authenticate() with an OK status. *)
Authenticated(f) ==
    /\ Goes(f, "auth", "body")
    /\ hooks' = [hooks EXCEPT ![f] = "on_start"]
    /\ UNCHANGED <<frame, promise, grpc>>

(* The callback of on_authenticate() with an error: the call is finished   *)
(* with it, tag 1.  Slip: the error is dropped, the call is not finished.  *)
Refused(f) == MayReject /\ calls[f] < MaxCalls /\ Goes(f, "auth", "rejecting")

Rejected_NotFinished(f) == Refused(f) /\ UNCHANGED <<frame, promise, hooks, grpc>>
Rejected(f) == /\ Refused(f)
               /\ Begin(f, "reject")
               /\ UNCHANGED <<frame, promise, hooks, event, rpc, done, server>>

(* initial_suspend, tag 1: the ServerContext is destroyed and built anew,  *)
(* as is the stream.                                                       *)
HandleRejectSent(f) ==
    /\ Take(f, "reject", "restarting")
    /\ calls' = [calls EXCEPT ![f] = @ + 1]
    /\ UNCHANGED <<frame, m_is_cancelled, hooks, op, rpc, done, server, fault>>

(* initial_suspend, tag 1, continued: start_grpc_call() *)
Restart(f) == /\ Goes(f, "restarting", "initial")
              /\ StartGrpcCall(f)
              /\ UNCHANGED frame

-----------------------------------------------------------------------------
(* User code awaits send_initial_metadata(), read() or write().  Slip: the *)
(* awaiter starts the operation but does not suspend the body.             *)
Awaits(f, to) == /\ Goes(f, "body", to)
                 /\ Begin(f, "io")
                 /\ UNCHANGED <<frame, promise, hooks, event, rpc, done, server>>

BodyAwaits_NotSuspended(f) == Awaits(f, "body")
BodyAwaits(f) == Awaits(f, "io")

(* The awaited operation completes, successfully or not: user code goes on *)
HandleIo(f) ==
    /\ Take(f, "io", "body")
    /\ UNCHANGED <<frame, promise, hooks, op, rpc, done, server, fault>>

(* User code returns a status or throws: final_suspend() calls on_finish() *)
(* and finishes the call.  Slips: final_suspend() does not suspend, the    *)
(* frame is destroyed at once; a branch without on_finish().               *)
Ends(f, left, to, hook) ==
    /\ Goes(f, "body", to)
    /\ frame' = [frame EXCEPT ![f] = left]
    /\ hooks' = [hooks EXCEPT ![f] = hook]
    /\ Begin(f, "finish")
    /\ UNCHANGED <<promise, event, rpc, done, server>>

BodyEnds_Destroyed(f) == Ends(f, "destroyed", "none", "on_finish")
BodyEnds_NoHook(f) == Ends(f, "alive", "final", "on_start")
BodyEnds(f) == Ends(f, "alive", "final", "on_finish")

(* final_suspend: the call is finished, well or not: the frame is          *)
(* destroyed.  Slip: it stays registered as suspended.                     *)
Finished(f, to) ==
    /\ Take(f, "finish", to)
    /\ frame' = [frame EXCEPT ![f] = "destroyed"]
    /\ UNCHANGED <<promise, hooks, op, rpc, done, server, fault>>

HandleFinish_StillFinal(f) == Finished(f, "final")
HandleFinish(f) == Finished(f, "none")

(* promise_type::handle_event, tag 0: the done notification.  IsCancelled  *)
(* is asked of the ServerContext the promise holds now; for another call   *)
(* than the one the notification is about it answers false, since that     *)
(* call's own notification has not been delivered.  The promise itself may *)
(* be gone: nothing has waited for this event.  Slips: the end of a call   *)
(* is taken for its cancellation; no cancellation is reported.             *)
Notified(f, c, cancelled) ==
    /\ Ok
    /\ ~Busy
    /\ done[f][c] = "queued"
    /\ done' = [done EXCEPT ![f][c] = "taken"]
    /\ IF frame[f] = "alive"
       THEN /\ m_is_cancelled' = [m_is_cancelled EXCEPT ![f] = @ \/ cancelled]
            /\ UNCHANGED fault
       ELSE fault' = "use_after_free" /\ UNCHANGED m_is_cancelled
    /\ UNCHANGED <<frame, pos, calls, hooks, op, event, rpc, server>>

HandleDone_Always(f, c) == Notified(f, c, TRUE)
HandleDone_Silent(f, c) == Notified(f, c, FALSE)
HandleDone(f, c) == Notified(f, c, c = calls[f] /\ Call(f) = "cancelled")

-----------------------------------------------------------------------------
(* What the call of f becomes in gRPC. *)
CallBecomes(f, state) == /\ Ok
                         /\ rpc' = [rpc EXCEPT ![f][calls[f]] = state]
                         /\ UNCHANGED <<coroutine, done, server, fault>>

(* gRPC queues the event of f's operation. *)
Queue(f) == /\ op' = [op EXCEPT ![f] = "none"]
            /\ event' = [event EXCEPT ![f] = op[f]]

(* A client's call is matched with a request; or, once the server is shut  *)
(* down, the request fails.                                                *)
Accept(f) == /\ server = "running" /\ op[f] = "request"
             /\ Queue(f) /\ CallBecomes(f, "open")

FailRequest(f) == /\ server # "running" /\ op[f] = "request"
                  /\ Queue(f) /\ CallBecomes(f, "failed")

(* The client, a deadline or a broken connection cancels the call. *)
Cancel(f) == /\ Call(f) = "open"
             /\ CallBecomes(f, "cancelled") /\ UNCHANGED <<op, event>>

(* The status given to Finish reaches the client. *)
SendStatus(f) == /\ op[f] \in {"reject", "finish"} /\ Call(f) = "open"
                 /\ CallBecomes(f, "closed") /\ UNCHANGED <<op, event>>

(* An operation on a call completes. *)
Complete(f) ==
    /\ Ok
    /\ op[f] \in {"io", "reject", "finish"}
    /\ op[f] # "io" => Call(f) # "open"
    /\ Queue(f)
    /\ UNCHANGED <<coroutine, rpc, done, server, fault>>

(* The done notification is queued when the call is over. *)
QueueDone(f, c) ==
    /\ Ok
    /\ done[f][c] = "pending"
    /\ rpc[f][c] # "open"
    /\ done' = [done EXCEPT ![f][c] = "queued"]
    /\ UNCHANGED <<coroutine, op, event, rpc, server, fault>>

-----------------------------------------------------------------------------
ServerGoes(from, to) == /\ Ok
                        /\ server = from
                        /\ server' = to
                        /\ UNCHANGED <<coroutine, op, event, rpc, done, fault>>

(* The server is stopped in three steps.  Server::Shutdown() is called. *)
ShutdownServer == ServerGoes("running", "shutdown")

(* Server::Shutdown() has returned, the completion queue is shut down.     *)
(* Slip: the completion queue is shut down without waiting for the calls.  *)
ShutdownCq_NoWait == ServerGoes("shutdown", "cq_shutdown")
ShutdownCq == /\ \A f \in Frames, c \in Calls : ~Held(f, c)
              /\ ServerGoes("shutdown", "cq_shutdown")

(* The thread has taken every event and is joined. *)
Join == /\ Drained
        /\ ~Busy
        /\ \A f \in Frames : /\ event[f] = "none"
                             /\ \A c \in Calls : done[f][c] # "queued"
        /\ ServerGoes("cq_shutdown", "stopped")

Terminated == (server = "stopped" \/ ~Ok) /\ UNCHANGED vars

-----------------------------------------------------------------------------
Handle(f) == \/ HandleRequestFailed(f) \/ HandleRequest(f) \/ HandleRejectSent(f)
             \/ Restart(f) \/ HandleIo(f) \/ HandleFinish(f)

Next == \/ \E f \in Frames :
              \/ Spawn(f) \/ Handle(f)
              \/ Authenticated(f) \/ Rejected(f) \/ BodyAwaits(f) \/ BodyEnds(f)
              \/ Accept(f) \/ FailRequest(f) \/ Cancel(f) \/ SendStatus(f)
              \/ Complete(f)
              \/ \E c \in Calls : HandleDone(f, c) \/ QueueDone(f, c)
        \/ ShutdownServer \/ ShutdownCq \/ Join
        \/ Terminated

(* The thread of the completion queue takes every event, gRPC completes    *)
(* what was begun, the callback of on_authenticate() is called, user code  *)
(* ends.  No client has to call or to cancel.                              *)
Fairness == /\ \A f \in Frames :
                  /\ WF_vars(Handle(f))
                  /\ WF_vars(Authenticated(f) \/ Rejected(f))
                  /\ SF_vars(BodyEnds(f))
                  /\ WF_vars(FailRequest(f))
                  /\ WF_vars(SendStatus(f))
                  /\ WF_vars(Complete(f))
                  /\ \A c \in Calls : WF_vars(HandleDone(f, c) \/ QueueDone(f, c))
            /\ WF_vars(ShutdownCq)
            /\ WF_vars(Join)

Spec == Init /\ [][Next]_vars

FairSpec == Spec /\ Fairness
-----------------------------------------------------------------------------
(* Type invariant. *)
TypeOK == /\ frame \in [Frames -> {"none", "alive", "destroyed"}]
          /\ pos \in [Frames -> {"none", "initial", "auth", "rejecting",
                                 "restarting", "body", "io", "final"}]
          /\ calls \in [Frames -> Calls]
          /\ m_is_cancelled \in [Frames -> BOOLEAN]
          /\ hooks \in [Frames -> {"none", "on_start", "on_finish"}]
          /\ op \in [Frames -> {"none"} \cup Operations]
          /\ event \in [Frames -> {"none"} \cup Operations]
          /\ rpc \in [Frames -> [Calls -> {"none", "requested", "open",
                                           "cancelled", "closed", "failed"}]]
          /\ done \in [Frames -> [Calls -> {"none", "pending", "queued", "taken"}]]
          /\ server \in {"running", "shutdown", "cq_shutdown", "stopped"}
          /\ fault \in {"none", "aborted", "use_after_free"}
          /\ \A f \in Frames : (pos[f] # "none") => (frame[f] = "alive")

(* Of a frame that was destroyed gRPC holds no tag but that of the done    *)
(* notification of a call that is over: nothing waits for it, and it is    *)
(* the one event that may be handled in freed memory.  No operation's      *)
(* event is, nor any event of a frame whose only request failed            *)
(* (task.h:232, 265, 286, 366-374).                                        *)
OnlyNotificationsDangle ==
    \A f \in Frames : frame[f] # "alive" =>
        /\ op[f] = "none"
        /\ event[f] = "none"
        /\ \A c \in Calls : done[f][c] \in {"pending", "queued"} =>
                               rpc[f][c] \in {"cancelled", "closed"}

(* A frame is a party that waits for one operation at a time, from the     *)
(* request of its call to the end of its Finish, which frees it            *)
(* (task.h:98-107, 123-133, 148-158, 225-261, 279-304).                    *)
At(f) == CASE frame[f] = "none" -> "none"
           [] frame[f] = "destroyed" -> "gone"
           [] OTHER -> IF pos[f] \in {"auth", "body", "restarting"}
                       THEN "running" ELSE "waiting"

Tag(f) == IF op[f] # "none" THEN "issued"
          ELSE IF event[f] # "none" THEN "queued" ELSE "idle"

Abstract == INSTANCE Awaiter WITH Parties <- Frames,
                                  at <- [f \in Frames |-> At(f)],
                                  tag <- [f \in Frames |-> Tag(f)],
                                  dead <- ~Ok

IsAwaiter == Abstract!Spec

(* cancelled() is never true of a frame whose clients cancelled nothing:   *)
(* some call the frame has served or refused was cancelled; and once the   *)
(* thread has taken the done notification of a cancelled call, it is true  *)
(* for as long as the frame serves that call (task.h:89, 369-371).         *)
CancelSignalFaithful ==
    \A f \in Frames :
        /\ m_is_cancelled[f] =>
              \E c \in Calls : c <= calls[f] /\ rpc[f][c] = "cancelled"
        /\ frame[f] = "alive" /\ Call(f) = "cancelled" /\ done[f][calls[f]] = "taken"
              => m_is_cancelled[f]

(* cancelled() reports the cancellation of the call that user code is      *)
(* serving and of no other (task.h:89, 369-371).                           *)
CancelSignalExact ==
    \A f \in Frames : pos[f] \in {"body", "io", "final"} /\ m_is_cancelled[f]
                         => Call(f) = "cancelled"

(* on_start() is called for a call that a client made and that was not     *)
(* refused, and user code runs between it and the on_finish() of the same  *)
(* call; none is called for a request that failed (task.h:231-237,         *)
(* 293-300).                                                               *)
HooksPaired ==
    \A f \in Frames :
        /\ pos[f] \in {"body", "io"} => /\ hooks[f] = "on_start"
                                        /\ Call(f) \in {"open", "cancelled"}
                                        /\ done[f][calls[f]] # "none"
        /\ pos[f] = "final" => Call(f) \in {"open", "cancelled", "closed"}
        /\ frame[f] = "destroyed" =>
              hooks[f] = (IF Call(f) = "failed" THEN "none" ELSE "on_finish")

(* Once the server has stopped no frame is left: everything the allocator  *)
(* gave out came back (test/task.cpp:191-194).                             *)
NothingLeaked ==
    server = "stopped" => \A f \in Frames : frame[f] # "alive"

(* gRPC aborts a server that shuts down only in the window between the     *)
(* reset of the ServerContext of a rejected call and the request of the    *)
(* next one (task.h:249-252): that frame holds no call that                *)
(* Server::Shutdown() would wait for.                                      *)
AbortOnlyInRestart ==
    fault = "aborted" =>
        MayReject /\ \E f \in Frames : /\ pos[f] = "initial"
                                        /\ op[f] = "none"
                                        /\ calls[f] > 1

(* The cancellation of a call is signalled to the frame that serves it, or *)
(* the call was a rejected one, or its Finish completed before the         *)
(* notification was delivered and the frame is gone (task.h:366-374).      *)
CancelIsSignalled ==
    \A f \in Frames, c \in Calls :
        (calls[f] = c /\ done[f][c] # "none" /\ rpc[f][c] = "cancelled")
            ~> \/ m_is_cancelled[f]
               \/ calls[f] # c
               \/ frame[f] = "destroyed" /\ done[f][c] # "taken"
               \/ ~Ok

(* Stopping the server ends: no frame keeps it waiting for ever            *)
(* (server.cpp:68-79, task.h:232, 286).                                    *)
StopReturns == (server = "shutdown") ~> (server = "stopped" \/ ~Ok)
=============================================================================
