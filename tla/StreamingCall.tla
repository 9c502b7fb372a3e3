---------------------------- MODULE StreamingCall ----------------------------
(***************************************************************************)
(* asyncpp::grpc::streaming_call: one client side streaming RPC, driven by *)
(* one coroutine that awaits one operation at a time.                      *)
(*                                                                         *)
(* The object owns a heap allocated state with the stream; every operation *)
(* is started by await_suspend() and its event is handled on the thread of *)
(* the completion queue, which resumes the coroutine.  start() is the      *)
(* delicate one: the call that creates the stream also starts the          *)
(* operation, so its event may be handled before the stream is stored.     *)
(* The destructor detaches the state, which cancels and finishes the call  *)
(* on its own and then deletes itself.                                     *)
(*                                                                         *)
(* The caller is the thread that awaits start():                           *)
(*   "cq"        the thread of the completion queue itself                 *)
(*   "promise"   another thread, which goes on only when await_suspend()   *)
(*               has returned (as_promise(call.start()).get())             *)
(*   "coroutine" another thread; the coroutine goes on where it is resumed *)
(* The kind of the RPC is fixed at compile time (traits.h).                *)
(*                                                                         *)
(* gRPC and the server are external.  An operation completes with one      *)
(* event; start succeeds unless the call has failed; Finish completes when *)
(* the call is over; a second half-close or a second Finish aborts.        *)
(***************************************************************************)

CONSTANTS Callers,      \* the callers considered
          Kinds,        \* the kinds of RPC considered
          IgnoreStart   \* whether the user goes on after start() gave false

AllCallers == {"cq", "promise", "coroutine"}
AllKinds   == {"client_streaming", "server_streaming", "bidi_streaming"}

ASSUME StreamingCallAssumption == /\ Callers \subseteq AllCallers
                                  /\ Kinds \subseteq AllKinds
                                  /\ IgnoreStart \in BOOLEAN

VARIABLES kind,                \* the kind of this RPC
          caller,              \* who awaits start()
          state,               \* the heap allocated state
          stream,              \* state::stream
          m_need_writes_done,  \* state::m_need_writes_done
          storing,             \* start() has yet to store the stream
          pos,                 \* where the coroutine is
          started,             \* what start() returned
          m_status,            \* what finish() returned
          op,                  \* the operation gRPC is executing
          event,               \* the operation whose event is queued
          ok,                  \* the result that event carries
          call,                \* the RPC itself
          half_closed,         \* the client has sent its half-close
          fault                \* the undefined behaviour or the abort met

vars == <<kind, caller, state, stream, m_need_writes_done, storing, pos, started,
          m_status, op, event, ok, call, half_closed, fault>>

fixed == <<kind, caller>>
heap == <<state, stream, m_need_writes_done>>
coroutine == <<pos, started, m_status>>
rpc == <<call, half_closed>>

IsClientStreaming == kind \in {"client_streaming", "bidi_streaming"}
IsServerStreaming == kind \in {"server_streaming", "bidi_streaming"}

(* The operations whose tag is the state, not an awaiter. *)
StateTags == {"destruct_writes_done", "destruct_finish"}
HalfCloses == {"write_last", "writes_done", "finish_writes_done",
               "destruct_writes_done"}
Finishes == {"finish", "destruct_finish"}

Running == fault = "none"

Init == /\ kind \in Kinds
        /\ caller \in Callers
        /\ state = "alive"
        /\ stream = "null"
        /\ m_need_writes_done = FALSE
        /\ storing = FALSE
        /\ pos = "ready"
        /\ started = "no"
        /\ m_status = "none"
        /\ op = "none"
        /\ event = "none"
        /\ ok = FALSE
        /\ call = "none"
        /\ half_closed = FALSE
        /\ fault = "none"

(* The stream is used to begin operation o, which half-closes the call if  *)
(* it is one of HalfCloses.                                                *)
Begin(o) ==
    IF stream = "null"
    THEN fault' = "null_stream" /\ UNCHANGED <<op, half_closed>>
    ELSE IF half_closed /\ o \in HalfCloses
    THEN fault' = "too_many_operations" /\ UNCHANGED <<op, half_closed>>
    ELSE /\ op' = o
         /\ half_closed' = (half_closed \/ o \in HalfCloses)
         /\ UNCHANGED fault

(* The half-close comes first if the client has not sent it. *)
HalfCloseOr(half_close, finish) ==
    IF IsClientStreaming /\ m_need_writes_done THEN half_close ELSE finish

(* User code runs: it has been resumed, and a caller that waits for        *)
(* await_suspend() to return has seen it return.                           *)
UserRuns == /\ Running
            /\ pos = "ready"
            /\ ~(storing /\ caller # "coroutine")

(* The user takes a start() that gave false, and finish(), for the end of  *)
(* the call.                                                               *)
MayUse == /\ m_status = "none"
          /\ started = "true" \/ (started = "false" /\ IgnoreStart)

(* The user awaits an operation on the stream. *)
Awaits(p, o) == /\ UserRuns
                /\ MayUse
                /\ pos' = p
                /\ Begin(o)
                /\ UNCHANGED <<fixed, heap, storing, started, m_status, event, ok,
                               call>>

(* The thread of the completion queue takes an event. *)
Take(events) == /\ Running
                /\ ~(storing /\ caller = "cq")
                /\ event \in events
                /\ event' = "none"
                /\ UNCHANGED <<fixed, storing, ok, call>>

-----------------------------------------------------------------------------
(* start(): await_suspend() has the stub create the call, which begins the *)
(* operation.                                                              *)
Start ==
    /\ UserRuns
    /\ started = "no"
    /\ m_status = "none"
    /\ pos' = "start"
    /\ call' = "open"
    /\ op' = "start"
    /\ storing' = TRUE
    /\ UNCHANGED <<fixed, heap, started, m_status, event, ok, half_closed, fault>>

(* start(): await_suspend() assigns the stream the stub returned. *)
StoreStream ==
    /\ Running
    /\ storing
    /\ storing' = FALSE
    /\ IF state = "deleted"
       THEN fault' = "use_after_free" /\ UNCHANGED stream
       ELSE stream' = "set" /\ UNCHANGED fault
    /\ UNCHANGED <<fixed, state, m_need_writes_done, coroutine, op, event, ok, rpc>>

(* start(): the handler.  A failed start leaves no stream.  Slip: the      *)
(* stream is reset whatever the result.                                    *)
Started(left) ==
    /\ Take({"start"})
    /\ started' = (IF ok THEN "true" ELSE "false")
    /\ m_need_writes_done' = (IsClientStreaming /\ ok)
    /\ stream' = left
    /\ pos' = "ready"
    /\ UNCHANGED <<state, m_status, op, half_closed, fault>>

HandleStart_Resets == Started("null")
HandleStart == Started(IF ok THEN stream ELSE "null")

-----------------------------------------------------------------------------
(* read() *)
Read == IsServerStreaming /\ Awaits("read", "read")

(* write(), write_last() and writes_done() of a client that has not said   *)
(* it was done; all three refuse to work without a stream.                 *)
Write(o) == /\ IsClientStreaming
            /\ ~half_closed
            /\ stream # "null"
            /\ Awaits(o, o)

WriteThrows ==
    /\ UserRuns
    /\ IsClientStreaming
    /\ ~half_closed
    /\ stream = "null"
    /\ pos' = "threw"
    /\ UNCHANGED <<fixed, heap, storing, started, m_status, op, event, ok, rpc, fault>>

(* finish(): WritesDone first if the client has not half-closed yet. *)
Finish == Awaits("finish", HalfCloseOr("finish_writes_done", "finish"))

(* read(), write(): the handler resumes the coroutine. *)
HandleReadOrWrite ==
    /\ Take({"read", "write"})
    /\ pos' = "ready"
    /\ UNCHANGED <<heap, started, m_status, op, half_closed, fault>>

(* write_last(), writes_done(): the handler, whatever the result.  Slip:   *)
(* it does not note that the half-close was sent.                          *)
HalfClosed(need) ==
    /\ Take({"write_last", "writes_done"})
    /\ m_need_writes_done' = need
    /\ pos' = "ready"
    /\ UNCHANGED <<state, stream, started, m_status, op, half_closed, fault>>

HandleWritesDone_NotNoted == HalfClosed(m_need_writes_done)
HandleWritesDone == HalfClosed(FALSE)

(* finish(): the handler of tag 0.  If the half-close failed the status is *)
(* UNKNOWN until Finish overwrites it.  Slip: the half-close is not        *)
(* followed by Finish.                                                     *)
FinishHalfClosed(status) ==
    /\ Take({"finish_writes_done"})
    /\ m_status' = status
    /\ UNCHANGED <<heap, pos, started>>

HandleFinishWritesDone_Stops ==
    FinishHalfClosed(m_status) /\ UNCHANGED <<op, half_closed, fault>>
HandleFinishWritesDone ==
    FinishHalfClosed(IF ok THEN m_status ELSE "unknown") /\ Begin("finish")

(* finish(): the handler of tag 1.  gRPC has written the status.  Slip:    *)
(* the UNKNOWN of a failed half-close is kept.                             *)
FinishDone(status) ==
    /\ Take({"finish"})
    /\ m_status' = status
    /\ stream' = "null"
    /\ pos' = "ready"
    /\ UNCHANGED <<state, m_need_writes_done, started, op, half_closed, fault>>

HandleFinish_KeepsUnknown == FinishDone(IF m_status = "none" THEN call ELSE m_status)
HandleFinish == FinishDone(IF ok THEN call ELSE "unknown")

-----------------------------------------------------------------------------
(* state::destruct() with a stream: the call is cancelled and finished,    *)
(* the state keeps itself alive.                                           *)
Detach == /\ call' = (IF call = "open" THEN "failed" ELSE call)
          /\ Begin(HalfCloseOr("destruct_writes_done", "destruct_finish"))

(* ~streaming_call(): the state is released and destructs itself.  Slips:  *)
(* destruct() takes it for granted that there is a stream; the destructor  *)
(* keeps the ownership of the state.                                       *)
Destroyed(left, detached) ==
    /\ Running
    /\ UserRuns \/ pos = "threw"
    /\ pos' = "destroyed"
    /\ state' = left
    /\ IF detached THEN Detach ELSE UNCHANGED <<call, op, half_closed, fault>>
    /\ UNCHANGED <<fixed, stream, m_need_writes_done, storing, started, m_status,
                   event, ok>>

Destroy_Unchecked == Destroyed(state, TRUE)
Destroy_StateDeleted == Destroyed("deleted", stream # "null")
Destroy == Destroyed(IF stream = "null" THEN "deleted" ELSE state, stream # "null")

(* state::handle_event, tag 0: the half-close is done, whatever the result *)
HandleDestructWritesDone ==
    /\ Take({"destruct_writes_done"})
    /\ Begin("destruct_finish")
    /\ UNCHANGED <<heap, coroutine>>

(* state::handle_event, tag 1: "Last action, delete self".  Slip: that is  *)
(* forgotten.                                                              *)
DestructDone(left) ==
    /\ Take({"destruct_finish"})
    /\ stream' = "null"
    /\ state' = left
    /\ UNCHANGED <<m_need_writes_done, coroutine, op, half_closed, fault>>

HandleDestructFinish_NotDeleted == DestructDone(state)
HandleDestructFinish == DestructDone("deleted")

-----------------------------------------------------------------------------
(* gRPC completes an operation: Finish when the call is over and always    *)
(* well, start well unless the call has failed, the others well while the  *)
(* call is open.                                                           *)
Complete ==
    /\ Running
    /\ op # "none"
    /\ op \in Finishes => call # "open"
    /\ op' = "none"
    /\ event' = op
    /\ ok' \in {TRUE, \/ op \in Finishes
                      \/ call = "open"
                      \/ op = "start" /\ call = "ended"}
    /\ UNCHANGED <<fixed, heap, storing, coroutine, rpc, fault>>

CallBecomes(end) ==
    /\ Running
    /\ call = "open"
    /\ call' = end
    /\ UNCHANGED <<fixed, heap, storing, coroutine, op, event, ok, half_closed, fault>>

(* The server sends its status. *)
ServerEnds == CallBecomes("ended")

(* The call breaks: cancelled, deadline exceeded, server unreachable. *)
Breaks == CallBecomes("failed")

Terminated == (~Running \/ (state = "deleted" /\ ~storing)) /\ UNCHANGED vars

-----------------------------------------------------------------------------
Handle == \/ HandleStart \/ HandleReadOrWrite \/ HandleWritesDone
          \/ HandleFinishWritesDone \/ HandleFinish
          \/ HandleDestructWritesDone \/ HandleDestructFinish

Next == \/ Start \/ StoreStream \/ Handle
        \/ Read
        \/ \E o \in {"write", "write_last", "writes_done"} : Write(o)
        \/ WriteThrows \/ Finish \/ Destroy
        \/ Complete \/ ServerEnds \/ Breaks
        \/ Terminated

(* A server that reads its client's messages to their end returns its      *)
(* status once the client has half-closed.                                 *)
ServerReturns == ServerEnds /\ (half_closed \/ ~IsClientStreaming)

(* The threads run, gRPC completes what can be completed, and the server   *)
(* returns when it has seen the end of the client's messages.              *)
Fairness == /\ WF_vars(StoreStream)
            /\ WF_vars(Handle)
            /\ WF_vars(Complete)
            /\ WF_vars(ServerReturns)

Spec == Init /\ [][Next]_vars

FairSpec == Spec /\ Fairness
-----------------------------------------------------------------------------
(* Type invariant. *)
TypeOK == /\ kind \in AllKinds
          /\ caller \in AllCallers
          /\ state \in {"alive", "deleted"}
          /\ stream \in {"null", "set"}
          /\ m_need_writes_done \in BOOLEAN
          /\ storing \in BOOLEAN
          /\ pos \in {"ready", "start", "read", "write", "write_last",
                      "writes_done", "finish", "threw", "destroyed"}
          /\ started \in {"no", "true", "false"}
          /\ m_status \in {"none", "unknown", "ended", "failed"}
          /\ op \in {"none", "start", "read", "write"} \cup HalfCloses \cup Finishes
          /\ event \in {"none", "start", "read", "write"} \cup HalfCloses \cup Finishes
          /\ ok \in BOOLEAN
          /\ call \in {"none", "open", "ended", "failed"}
          /\ half_closed \in BOOLEAN
          /\ fault \in {"none", "null_stream", "use_after_free",
                        "too_many_operations"}

(* No operation is begun on a stream that is not there                     *)
(* (call.h:97-100, 110, 270, 299, 329, 358, 377, 389-394).                 *)
NullStreamNeverUsed == fault # "null_stream"

(* After start() has returned true the call is active: the stream is there *)
(* until finish() has completed, and write() does not throw                *)
(* "No active call" (call.h:171, 207, 242, 280).                           *)
StartedCallIsActive ==
    UserRuns /\ started = "true" /\ m_status = "none" => stream = "set"

(* The state lives as long as anybody uses it: the thread inside start(),  *)
(* the coroutine, an operation whose tag is the state or whose awaiter     *)
(* points to it; and it is deleted with nothing in flight                  *)
(* (call.h:90-104, 108-117, 133).                                          *)
StateOutlivesItsUsers ==
    /\ fault # "use_after_free"
    /\ state = "deleted" => op = "none" /\ event = "none" /\ pos = "destroyed"
    /\ {op, event} \cap StateTags # {} => pos = "destroyed"

(* finish() returns how the call ended: a half-close that failed on the    *)
(* way does not hide the status the server sent (call.h:375-378).          *)
StatusNotMasked ==
    pos = "ready" /\ m_status # "none" =>
        m_status = call /\ call \in {"ended", "failed"}

(* The client half-closes once, be it by write_last(), writes_done(),      *)
(* finish() or the destructor: a second one is an error that gRPC aborts   *)
(* on; and the Finish of a call that is not over was preceded by it, for a *)
(* server that reads to the end of the client's messages would otherwise   *)
(* never send the status (call.h:92-98, 199, 234, 322, 351, 388-392).      *)
HalfCloseBeforeFinish ==
    /\ fault # "too_many_operations"
    /\ IsClientStreaming /\ op \in Finishes /\ call = "open" => half_closed

(* The call is a party that waits for one operation at a time: while the   *)
(* coroutine awaits, and then, until it is deleted, as the detached state  *)
(* (call.h:90-117, 160-173, 260-272, 289-301, 318-331, 347-360, 373-397).  *)
At == CASE pos \in {"ready", "threw"} -> "running"
        [] pos = "destroyed" /\ state = "deleted" -> "gone"
        [] OTHER -> "waiting"

Tag == IF op # "none" THEN "issued" ELSE IF event # "none" THEN "queued" ELSE "idle"

Abstract == INSTANCE Awaiter WITH Parties <- {"call"},
                                  at <- [p \in {"call"} |-> At],
                                  tag <- [p \in {"call"} |-> Tag],
                                  dead <- ~Running

IsAwaiter == Abstract!Spec

(* finish() completes, and whatever the call was doing, its state is       *)
(* deleted after the destructor (call.h:90-104, 108-117, 373-396).         *)
CallsEnd == /\ (pos = "finish") ~> (pos = "ready" \/ ~Running)
            /\ (pos = "destroyed") ~> (state = "deleted" \/ ~Running)
=============================================================================
