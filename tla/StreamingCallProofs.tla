------------------------- MODULE StreamingCallProofs -------------------------
(***************************************************************************)
(* Proofs about StreamingCall for every set of kinds and of callers, and   *)
(* for a user who looks at the result of start() or does not.  What needs  *)
(* a caller that waits for await_suspend(), or a user who looks, says so.  *)
(***************************************************************************)
EXTENDS StreamingCall, TLAPS

(* The caller goes on only when await_suspend() has returned. *)
CallerWaits == "coroutine" \notin Callers

(* No operation is in flight; or o is, and gRPC still executes it or its   *)
(* event waits in the queue.                                               *)
Idle == op = "none" /\ event = "none"

Awaiting(o) == \/ op = o /\ event = "none"
               \/ op = "none" /\ event = o

(* What the place of the coroutine says about the operation in flight and  *)
(* the stream it was begun on.                                             *)
PlaceOK ==
    /\ storing => stream = "null"
    /\ pos \in {"ready", "threw"} => Idle
    /\ pos = "start" =>
          Awaiting("start") /\ started = "no" /\ (storing \/ stream = "set")
    /\ pos \in {"read", "write", "write_last", "writes_done"} =>
          Awaiting(pos) /\ stream = "set" /\ started # "no"
    /\ pos = "finish" =>
          /\ Awaiting("finish_writes_done") \/ Awaiting("finish")
          /\ stream = "set" /\ started # "no"
    /\ pos = "destroyed" =>
          \/ Idle
          \/ /\ Awaiting("destruct_writes_done") \/ Awaiting("destruct_finish")
             /\ stream = "set" /\ started # "no"
    /\ started = "no" /\ pos # "start" => stream = "null" /\ ~storing

(* m_need_writes_done tells whether the client has yet to half-close: of a *)
(* call that has started it does so exactly, but while the operation that  *)
(* half-closes is in flight and once finish() has completed.               *)
NeedOK ==
    /\ started = "no" => ~half_closed /\ ~m_need_writes_done
    /\ started = "true" /\ IsClientStreaming /\ ~m_need_writes_done => half_closed
    /\ m_need_writes_done /\ pos \in {"ready", "threw", "read", "write"} =>
          ~half_closed \/ m_status # "none"
    /\ pos \in {"write_last", "writes_done"} => half_closed
    /\ op \in {"finish_writes_done", "destruct_writes_done"} => half_closed
    /\ event \in {"finish_writes_done", "destruct_writes_done"} => half_closed

(* How far the call is, and the status that finish() has delivered.        *)
CallOK ==
    /\ pos = "start" \/ started # "no" => call # "none"
    /\ started = "false" => call # "open"
    /\ event = "start" /\ ~ok => call # "open"
    /\ event \in Finishes => ok /\ call \in {"ended", "failed"}
    /\ m_status # "none" => pos \in {"ready", "threw", "finish", "destroyed"}
    /\ pos \in {"ready", "threw"} /\ m_status # "none" =>
          /\ m_status = call
          /\ call \in {"ended", "failed"}
          /\ stream = "null" /\ ~storing

(* A deleted state has no user but, if the caller does not wait for        *)
(* await_suspend(), the thread that is still in it.                        *)
DeletedOK == state = "deleted" => Idle /\ pos = "destroyed"

(* What a caller that waits adds: nobody uses the state once it is         *)
(* deleted, and a started call has its stream.                             *)
WaitingOK ==
    caller # "coroutine" =>
        /\ state = "deleted" \/ pos = "threw" => ~storing
        /\ pos = "ready" /\ started = "true" /\ m_status = "none" /\ ~storing =>
              stream = "set"

(* What no step leads to.                                                  *)
FaultOK == /\ fault # "too_many_operations"
           /\ fault = "use_after_free" => caller = "coroutine"
           /\ fault = "null_stream" => caller = "coroutine" \/ IgnoreStart

IInv == /\ TypeOK
        /\ caller \in Callers
        /\ Running => PlaceOK /\ NeedOK /\ CallOK /\ WaitingOK
        /\ DeletedOK
        /\ StatusNotMasked
        /\ HalfCloseBeforeFinish
        /\ FaultOK
        /\ op \in StateTags \/ event \in StateTags => pos = "destroyed"

-----------------------------------------------------------------------------
USE StreamingCallAssumption
    DEF AllCallers, AllKinds, Running, fixed, heap, coroutine, rpc,
        IsClientStreaming, IsServerStreaming, StateTags, HalfCloses, Finishes

(* Before start() there is neither a stream nor an operation. *)
LEMMA Initially == Init => IInv
  BY DEF Init, IInv, TypeOK, PlaceOK, NeedOK, CallOK, WaitingOK, DeletedOK,
         StatusNotMasked, HalfCloseBeforeFinish, FaultOK, Idle

(* start() is awaited: no stream yet, the operation is in flight           *)
(* (call.h:171, 207, 242).                                                 *)
LEMMA StartKeeps == ASSUME IInv, Start PROVE IInv'
  BY DEF Start, UserRuns, IInv, TypeOK, PlaceOK, NeedOK, CallOK, WaitingOK, DeletedOK,
         StatusNotMasked, HalfCloseBeforeFinish, FaultOK, Idle, Awaiting

(* The stream is stored, or the state is gone and the caller has not       *)
(* waited (call.h:171, 207, 242).                                          *)
LEMMA StoreKeeps == ASSUME IInv, StoreStream PROVE IInv'
<1>1. /\ fault = "none" /\ storing /\ storing' = FALSE
      /\ UNCHANGED <<kind, caller, state, m_need_writes_done, pos, started, m_status,
                     op, event, ok, call, half_closed>>
  BY DEF StoreStream
<1>2. PlaceOK /\ NeedOK /\ CallOK /\ WaitingOK
  BY <1>1 DEF IInv
<1>3. storing' \in BOOLEAN
  BY <1>1
<1>4. CASE state = "deleted"
  <2>1. fault' = "use_after_free" /\ stream' = stream /\ caller = "coroutine"
    BY <1>1, <1>2, <1>4 DEF StoreStream, WaitingOK
  <2>2. TypeOK'
    BY <1>1, <1>3, <2>1 DEF IInv, TypeOK
  <2> QED
    BY <1>1, <2>1, <2>2
    DEF IInv, DeletedOK, StatusNotMasked, HalfCloseBeforeFinish, FaultOK, Idle
<1>5. CASE state # "deleted"
  <2>1. stream' = "set" /\ fault' = fault
    BY <1>5 DEF StoreStream
  <2>2. TypeOK'
    BY <1>1, <1>3, <2>1 DEF IInv, TypeOK
  <2>3. PlaceOK' /\ NeedOK' /\ CallOK' /\ WaitingOK'
    BY <1>1, <1>2, <1>5, <2>1 DEF PlaceOK, NeedOK, CallOK, WaitingOK, Idle, Awaiting
  <2> QED
    BY <1>1, <2>1, <2>2, <2>3
    DEF IInv, DeletedOK, StatusNotMasked, HalfCloseBeforeFinish, FaultOK, Idle
<1> QED BY <1>4, <1>5

(* What begins an operation leaves the stream's user where it should be,   *)
(* or has met a stream that is not there.                                  *)
LEMMA AwaitsKeeps ==
    ASSUME IInv,
           NEW p \in {"read", "write", "write_last", "writes_done", "finish"},
           NEW o \in {"read", "write", "write_last", "writes_done",
                      "finish_writes_done", "finish"},
           p = o \/ (p = "finish" /\ o = "finish_writes_done"),
           o \in HalfCloses /\ o # "finish_writes_done" => ~half_closed,
           o = "finish_writes_done" => m_need_writes_done,
           o = "finish" => ~(IsClientStreaming /\ m_need_writes_done),
           Awaits(p, o)
    PROVE  IInv'
<1>1. /\ fault = "none" /\ pos = "ready" /\ m_status = "none" /\ Idle
      /\ ~(storing /\ caller # "coroutine")
      /\ started = "true" \/ (started = "false" /\ IgnoreStart)
      /\ pos' = p
      /\ UNCHANGED <<kind, caller, state, stream, m_need_writes_done, storing, started,
                     m_status, event, ok, call>>
  BY DEF Awaits, UserRuns, MayUse, IInv, PlaceOK
<1>2. CASE stream = "null"
  <2>1. fault' = "null_stream" /\ UNCHANGED <<op, half_closed>>
    BY <1>2 DEF Awaits, Begin
  <2> QED
    BY <1>1, <1>2, <2>1
    DEF IInv, TypeOK, WaitingOK, DeletedOK, StatusNotMasked, HalfCloseBeforeFinish,
        FaultOK, Idle
<1>3. CASE stream # "null"
  <2>1. o \in HalfCloses => ~half_closed
    BY <1>1 DEF IInv, NeedOK
  <2>2. op' = o /\ half_closed' = (half_closed \/ o \in HalfCloses) /\ fault' = fault
    BY <1>3, <2>1 DEF Awaits, Begin
  <2>3. PlaceOK'
    BY <1>1, <1>3, <2>2 DEF IInv, TypeOK, PlaceOK, Idle, Awaiting
  <2>4. NeedOK'
    BY <1>1, <1>3, <2>1, <2>2 DEF IInv, TypeOK, NeedOK, Idle
  <2>5. CallOK'
    BY <1>1, <1>3, <2>2 DEF IInv, TypeOK, CallOK, Idle
  <2>6. HalfCloseBeforeFinish'
    BY <1>1, <1>3, <2>2 DEF IInv, TypeOK, NeedOK, CallOK, HalfCloseBeforeFinish, FaultOK
  <2> QED
    BY <1>1, <1>3, <2>2, <2>3, <2>4, <2>5, <2>6
    DEF IInv, TypeOK, WaitingOK, DeletedOK, StatusNotMasked, FaultOK, Idle
<1> QED BY <1>2, <1>3

(* An operation that is refused for want of a stream (call.h:299, 329,     *)
(* 358).                                                                   *)
LEMMA ThrowKeeps == ASSUME IInv, WriteThrows PROVE IInv'
  BY DEF WriteThrows, UserRuns, IInv, TypeOK, PlaceOK, NeedOK, CallOK,
         WaitingOK, DeletedOK, StatusNotMasked, HalfCloseBeforeFinish,
         FaultOK, Idle, Awaiting

(* start() is over.  Its stream may not be there yet if the caller is      *)
(* still in await_suspend(); a failed one belongs to a call that is over   *)
(* (call.h:165-178).                                                       *)
LEMMA HandleStartKeeps == ASSUME IInv, HandleStart PROVE IInv'
<1>1. /\ fault = "none" /\ pos = "start" /\ pos' = "ready"
      /\ op = "none" /\ event = "start" /\ event' = "none"
      /\ ~(storing /\ caller = "cq")
      /\ m_need_writes_done' = (IsClientStreaming /\ ok)
      /\ UNCHANGED <<kind, caller, storing, ok, call, state, m_status, op, half_closed,
                     fault>>
  BY DEF HandleStart, Started, Take, IInv, TypeOK, PlaceOK, Idle, Awaiting
<1>2. PlaceOK /\ NeedOK /\ CallOK /\ WaitingOK /\ DeletedOK
  BY <1>1 DEF IInv
<1>3. /\ started = "no" /\ ~half_closed /\ m_status = "none" /\ state # "deleted"
      /\ call # "none"
  BY <1>1, <1>2 DEF PlaceOK, NeedOK, CallOK, DeletedOK
<1>4. /\ started' = (IF ok THEN "true" ELSE "false")
      /\ stream' = (IF ok THEN stream ELSE "null")
  BY DEF HandleStart, Started
<1>5. TypeOK'
  <2>1. m_need_writes_done' \in BOOLEAN
    BY <1>1
  <2> QED BY <1>1, <1>4, <2>1 DEF IInv, TypeOK
<1>6. PlaceOK'
  BY <1>1, <1>2, <1>4 DEF PlaceOK, Idle
<1>7. NeedOK'
  BY <1>1, <1>2, <1>3, <1>4 DEF NeedOK
<1>8. CallOK'
  BY <1>1, <1>2, <1>3, <1>4 DEF CallOK
<1>9. WaitingOK'
  BY <1>1, <1>2, <1>3, <1>4 DEF PlaceOK, WaitingOK
<1> QED
  BY <1>1, <1>3, <1>5, <1>6, <1>7, <1>8, <1>9
  DEF IInv, DeletedOK, StatusNotMasked, HalfCloseBeforeFinish, FaultOK

(* A read or a write is over: the coroutine goes on (call.h:272, 301).     *)
LEMMA HandleReadOrWriteKeeps == ASSUME IInv, HandleReadOrWrite PROVE IInv'
  BY DEF HandleReadOrWrite, Take, IInv, TypeOK, PlaceOK, NeedOK, CallOK,
         WaitingOK, DeletedOK, StatusNotMasked, HalfCloseBeforeFinish,
         FaultOK, Idle, Awaiting

(* The half-close is over, and noted (call.h:331, 360).                    *)
LEMMA HandleWritesDoneKeeps == ASSUME IInv, HandleWritesDone PROVE IInv'
<1>1. m_need_writes_done' \in BOOLEAN
  BY DEF HandleWritesDone, HalfClosed
<1> QED
  BY <1>1
  DEF HandleWritesDone, HalfClosed, Take, IInv, TypeOK, PlaceOK, NeedOK,
      CallOK, WaitingOK, DeletedOK, StatusNotMasked, HalfCloseBeforeFinish,
      FaultOK, Idle, Awaiting

(* finish() has half-closed: Finish follows on the same stream             *)
(* (call.h:375-379).                                                       *)
LEMMA HandleFinishWritesDoneKeeps == ASSUME IInv, HandleFinishWritesDone PROVE IInv'
<1>1. /\ fault = "none" /\ op = "none" /\ event = "finish_writes_done"
      /\ pos = "finish" /\ stream = "set" /\ half_closed
  BY DEF HandleFinishWritesDone, FinishHalfClosed, Take, IInv, TypeOK,
         PlaceOK, NeedOK, CallOK, WaitingOK, DeletedOK, StatusNotMasked,
         HalfCloseBeforeFinish, FaultOK, Idle, Awaiting
<1>2. op' = "finish" /\ half_closed' /\ fault' = fault
  BY <1>1 DEF HandleFinishWritesDone, Begin, IInv, TypeOK
<1> QED
  BY <1>1, <1>2
  DEF HandleFinishWritesDone, FinishHalfClosed, Take, IInv, TypeOK, PlaceOK,
      NeedOK, CallOK, WaitingOK, DeletedOK, StatusNotMasked,
      HalfCloseBeforeFinish, FaultOK, Idle, Awaiting

(* finish() has the status of the call, which is over (call.h:380-385).    *)
LEMMA HandleFinishKeeps == ASSUME IInv, HandleFinish PROVE IInv'
  BY DEF HandleFinish, FinishDone, Take, IInv, TypeOK, PlaceOK, NeedOK,
         CallOK, WaitingOK, DeletedOK, StatusNotMasked, HalfCloseBeforeFinish,
         FaultOK, Idle, Awaiting

(* The state detaches from its owner: with a stream it finishes the call   *)
(* on its own, without one it is deleted (call.h:90-104, 133).             *)
LEMMA DestroyKeeps == ASSUME IInv, Destroy PROVE IInv'
<1>1. /\ fault = "none" /\ Idle /\ pos \in {"ready", "threw"}
      /\ pos' = "destroyed"
      /\ UNCHANGED <<kind, caller, stream, m_need_writes_done, storing, started,
                     m_status, event, ok>>
  BY DEF Destroy, Destroyed, UserRuns, IInv, PlaceOK
<1>2. CASE stream = "null"
  <2>1. state' = "deleted" /\ UNCHANGED <<call, op, half_closed, fault>>
    BY <1>2 DEF Destroy, Destroyed
  <2>2. caller # "coroutine" => ~storing
    BY <1>1 DEF Destroy, Destroyed, UserRuns, IInv, WaitingOK
  <2> QED
    BY <1>1, <1>2, <2>1, <2>2
    DEF IInv, TypeOK, PlaceOK, NeedOK, CallOK, WaitingOK, DeletedOK,
        StatusNotMasked, HalfCloseBeforeFinish, FaultOK, Idle, Awaiting
<1>3. CASE stream # "null"
  <2> DEFINE o == HalfCloseOr("destruct_writes_done", "destruct_finish")
  <2>1. /\ state' = state
        /\ call' = (IF call = "open" THEN "failed" ELSE call)
        /\ Begin(o)
    BY <1>3 DEF Destroy, Destroyed, Detach
  <2>2. /\ started # "no"
        /\ m_status = "none"
        /\ o = "destruct_writes_done" => ~half_closed
    BY <1>1, <1>3 DEF IInv, PlaceOK, NeedOK, CallOK, HalfCloseOr
  <2>3. o \in {"destruct_writes_done", "destruct_finish"}
    BY DEF HalfCloseOr
  <2>4. op' = o /\ half_closed' = (half_closed \/ o \in HalfCloses) /\ fault' = fault
    BY <1>3, <2>1, <2>2, <2>3 DEF Begin
  <2> HIDE DEF o
  <2>5. TypeOK'
    BY <1>1, <2>1, <2>3, <2>4 DEF IInv, TypeOK
  <2>6. PlaceOK' /\ state' # "deleted"
    BY <1>1, <1>3, <2>1, <2>2, <2>3, <2>4
    DEF IInv, TypeOK, PlaceOK, DeletedOK, Idle, Awaiting
  <2>7. NeedOK' /\ CallOK'
    BY <1>1, <2>1, <2>2, <2>3, <2>4 DEF IInv, TypeOK, NeedOK, CallOK, Idle
  <2>8. HalfCloseBeforeFinish'
    BY <2>1, <2>4 DEF IInv, HalfCloseBeforeFinish
  <2> QED
    BY <1>1, <2>3, <2>4, <2>5, <2>6, <2>7, <2>8
    DEF IInv, WaitingOK, DeletedOK, StatusNotMasked, FaultOK
<1> QED BY <1>2, <1>3

(* The detached state has half-closed: Finish follows (call.h:110).        *)
LEMMA HandleDestructWritesDoneKeeps ==
    ASSUME IInv, HandleDestructWritesDone PROVE IInv'
<1>1. /\ fault = "none" /\ op = "none" /\ event = "destruct_writes_done"
      /\ pos = "destroyed" /\ stream = "set" /\ half_closed
  BY DEF HandleDestructWritesDone, Take, IInv, TypeOK, PlaceOK, NeedOK,
         CallOK, WaitingOK, DeletedOK, StatusNotMasked, HalfCloseBeforeFinish,
         FaultOK, Idle, Awaiting
<1>2. op' = "destruct_finish" /\ half_closed' /\ fault' = fault
  BY <1>1 DEF HandleDestructWritesDone, Begin, IInv, TypeOK
<1> QED
  BY <1>1, <1>2
  DEF HandleDestructWritesDone, Take, IInv, TypeOK, PlaceOK, NeedOK, CallOK,
      WaitingOK, DeletedOK, StatusNotMasked, HalfCloseBeforeFinish, FaultOK,
      Idle, Awaiting

(* The detached state deletes itself (call.h:111-116).                     *)
LEMMA HandleDestructFinishKeeps == ASSUME IInv, HandleDestructFinish PROVE IInv'
  BY DEF HandleDestructFinish, DestructDone, Take, IInv, TypeOK, PlaceOK,
         NeedOK, CallOK, WaitingOK, DeletedOK, StatusNotMasked,
         HalfCloseBeforeFinish, FaultOK, Idle, Awaiting

(* gRPC completes an operation: start fails only if the call has, Finish   *)
(* only completes a call that is over, and always well.                    *)
LEMMA CompleteKeeps == ASSUME IInv, Complete PROVE IInv'
<1>1. /\ fault = "none" /\ op # "none" /\ op' = "none" /\ event' = op
      /\ UNCHANGED <<kind, caller, state, stream, m_need_writes_done, storing, pos,
                     started, m_status, call, half_closed, fault>>
  BY DEF Complete
<1>2. PlaceOK /\ NeedOK /\ CallOK /\ WaitingOK /\ DeletedOK
  BY <1>1 DEF IInv
<1>3. call \in {"open", "ended", "failed"}
  BY <1>1, <1>2 DEF IInv, TypeOK, PlaceOK, CallOK, Idle, Awaiting
<1>4. /\ ok' \in BOOLEAN
      /\ op \in Finishes => ok' /\ call # "open"
      /\ op = "start" /\ ~ok' => call # "open"
  BY <1>1 DEF Complete
<1>5. TypeOK'
  BY <1>1, <1>4 DEF IInv, TypeOK
<1>6. PlaceOK' /\ DeletedOK'
  BY <1>1, <1>2 DEF IInv, TypeOK, PlaceOK, DeletedOK, Idle, Awaiting
<1>7. NeedOK'
  BY <1>1, <1>2 DEF NeedOK
<1>8. CallOK'
  BY <1>1, <1>2, <1>3, <1>4 DEF CallOK
<1>9. WaitingOK'
  BY <1>1, <1>2 DEF WaitingOK
<1> QED
  BY <1>1, <1>5, <1>6, <1>7, <1>8, <1>9
  DEF IInv, StatusNotMasked, HalfCloseBeforeFinish, FaultOK

(* The server ends the call, or it breaks. *)
LEMMA CallKeeps ==
    ASSUME IInv, NEW end \in {"ended", "failed"}, CallBecomes(end) PROVE IInv'
  BY DEF CallBecomes, IInv, TypeOK, PlaceOK, NeedOK, CallOK, WaitingOK, DeletedOK,
         StatusNotMasked, HalfCloseBeforeFinish, FaultOK, Idle, Awaiting

LEMMA Inductive == IInv /\ [Next]_vars => IInv'
<1> SUFFICES ASSUME IInv, [Next]_vars PROVE IInv'
  OBVIOUS
<1>1. ASSUME Read PROVE IInv'
  BY <1>1, AwaitsKeeps DEF Read
<1>2. ASSUME NEW o \in {"write", "write_last", "writes_done"}, Write(o) PROVE IInv'
  BY <1>2, AwaitsKeeps DEF Write
<1>3. ASSUME Finish PROVE IInv'
  <2>1. CASE IsClientStreaming /\ m_need_writes_done
    <3>1. Awaits("finish", "finish_writes_done") /\ m_need_writes_done
      BY <1>3, <2>1 DEF Finish, HalfCloseOr
    <3> QED BY <3>1, AwaitsKeeps
  <2>2. CASE ~(IsClientStreaming /\ m_need_writes_done)
    <3>1. Awaits("finish", "finish")
      BY <1>3, <2>2 DEF Finish, HalfCloseOr
    <3> QED BY <2>2, <3>1, AwaitsKeeps
  <2> QED BY <2>1, <2>2
<1>4. ASSUME ServerEnds \/ Breaks PROVE IInv'
  BY <1>4, CallKeeps DEF ServerEnds, Breaks
<1>5. ASSUME Handle PROVE IInv'
  BY <1>5, HandleStartKeeps, HandleReadOrWriteKeeps, HandleWritesDoneKeeps,
     HandleFinishWritesDoneKeeps, HandleFinishKeeps, HandleDestructWritesDoneKeeps,
     HandleDestructFinishKeeps
  DEF Handle
<1>6. ASSUME UNCHANGED vars PROVE IInv'
  BY <1>6
  DEF vars, IInv, TypeOK, PlaceOK, NeedOK, CallOK, WaitingOK, DeletedOK,
      StatusNotMasked, HalfCloseBeforeFinish, FaultOK, Idle, Awaiting
<1> QED
  BY <1>1, <1>2, <1>3, <1>4, <1>5, <1>6, StartKeeps, StoreKeeps, ThrowKeeps,
     DestroyKeeps, CompleteKeeps
  DEF Next, Terminated

-----------------------------------------------------------------------------
(* The strengthened invariant holds in every reachable state. *)
THEOREM Invariance == Spec => []IInv
  BY Initially, Inductive, PTL DEF Spec

(* Every variable has its type (call.h:73-119). *)
THEOREM TypeCorrect == Spec => []TypeOK
<1>1. IInv => TypeOK
  BY DEF IInv
<1> QED BY <1>1, Invariance, PTL

(* finish() returns how the call ended, whoever awaited start() and        *)
(* whatever it returned (call.h:375-378).                                  *)
THEOREM StatusIsTheCalls == Spec => []StatusNotMasked
<1>1. IInv => StatusNotMasked
  BY DEF IInv
<1> QED BY <1>1, Invariance, PTL

(* The client half-closes once, and before it waits for the status         *)
(* (call.h:92-98, 199, 234, 322, 351, 388-392).                            *)
THEOREM HalfClosesOnceAndFirst == Spec => []HalfCloseBeforeFinish
<1>1. IInv => HalfCloseBeforeFinish
  BY DEF IInv
<1> QED BY <1>1, Invariance, PTL

(* If the caller of start() waits for await_suspend(), the state outlives  *)
(* its users (call.h:90-104, 108-117, 133).                                *)
THEOREM StateLivesLongEnough == ASSUME CallerWaits PROVE Spec => []StateOutlivesItsUsers
<1>1. IInv => StateOutlivesItsUsers
  BY CallerWaits DEF CallerWaits, IInv, FaultOK, DeletedOK, Idle, StateOutlivesItsUsers
<1> QED BY <1>1, Invariance, PTL

(* If the caller of start() waits for await_suspend(), a call that start() *)
(* has reported as started has its stream (call.h:171, 207, 242, 280).     *)
THEOREM StartedMeansActive == ASSUME CallerWaits PROVE Spec => []StartedCallIsActive
<1>1. IInv => StartedCallIsActive
  BY CallerWaits DEF CallerWaits, IInv, WaitingOK, UserRuns, StartedCallIsActive
<1> QED BY <1>1, Invariance, PTL

(* If moreover the user looks at what start() returned, no operation is    *)
(* begun without a stream (call.h:97-100, 110, 270, 377, 389-394).         *)
THEOREM StreamIsThere ==
    ASSUME CallerWaits, ~IgnoreStart PROVE Spec => []NullStreamNeverUsed
<1>1. IInv => NullStreamNeverUsed
  BY CallerWaits DEF CallerWaits, IInv, FaultOK, NullStreamNeverUsed
<1> QED BY <1>1, Invariance, PTL

-----------------------------------------------------------------------------
(* The moves of the one party there is. *)
Began == At \in {"none", "running"} /\ At' = "waiting" /\ Tag = "idle"

Moves == \/ Began /\ Tag' = "issued"
         \/ At' = At /\ Tag = "issued" /\ Tag' = "queued"
         \/ At = "waiting" /\ At' = "running" /\ Tag = "queued" /\ Tag' = "idle"
         \/ At = "waiting" /\ At' = "waiting" /\ Tag = "queued" /\ Tag' = "issued"
         \/ At = "waiting" /\ At' = "gone" /\ Tag = "queued" /\ Tag' = "idle"
         \/ At = "running" /\ At' = "gone" /\ Tag = "idle" /\ Tag' = "idle"

(* A move of the party is a step of the abstract specification, and so is  *)
(* the death of the process.                                               *)
LEMMA MovesAllowed == ASSUME Running, Running', Moves PROVE Abstract!Next
<1> USE DEF Abstract!Next, Abstract!Goes, Abstract!TagGoes
<1>1. CASE Began /\ Tag' = "issued"
  <2>1. Abstract!Await("call")
    BY <1>1 DEF Began, Abstract!Await
  <2> QED BY <2>1
<1>2. CASE At' = At /\ Tag = "issued" /\ Tag' = "queued"
  <2>1. Abstract!Complete("call")
    BY <1>2 DEF Abstract!Complete
  <2> QED BY <2>1
<1>3. CASE At = "waiting" /\ At' = "running" /\ Tag = "queued" /\ Tag' = "idle"
  <2>1. Abstract!Resume("call")
    BY <1>3 DEF Abstract!Resume
  <2> QED BY <2>1
<1>4. CASE At = "waiting" /\ At' = "waiting" /\ Tag = "queued" /\ Tag' = "issued"
  <2>1. Abstract!Again("call")
    BY <1>4 DEF Abstract!Again
  <2> QED BY <2>1
<1>5. CASE At = "waiting" /\ At' = "gone" /\ Tag = "queued" /\ Tag' = "idle"
  <2>1. Abstract!Free("call")
    BY <1>5 DEF Abstract!Free
  <2> QED BY <2>1
<1>6. CASE At = "running" /\ At' = "gone" /\ Tag = "idle" /\ Tag' = "idle"
  <2>1. Abstract!Leave("call")
    BY <1>6 DEF Abstract!Leave
  <2> QED BY <2>1
<1> QED BY <1>1, <1>2, <1>3, <1>4, <1>5, <1>6 DEF Moves

LEMMA DeathAllowed ==
    ASSUME Running, ~Running', Tag' = Tag, Began \/ At' = At PROVE Abstract!Next
  BY DEF Began, Abstract!Next, Abstract!Goes, Abstract!TagGoes, Abstract!Dies

(* Beginning an operation is a move, or the end if there is no stream.     *)
LEMMA AwaitsMoves ==
    ASSUME IInv, NEW p, p \notin {"ready", "threw", "destroyed"},
           NEW o, o # "none", o \in HalfCloses => ~half_closed \/ stream = "null",
           Awaits(p, o)
    PROVE  Abstract!Next
<1>1. /\ Running /\ At = "running" /\ Tag = "idle" /\ At' = "waiting"
      /\ event' = "none"
  BY DEF Awaits, UserRuns, IInv, PlaceOK, Idle, At, Tag
<1>2. CASE stream = "null"
  <2>1. ~Running' /\ op' = "none"
    BY <1>1, <1>2 DEF Awaits, Begin, UserRuns, IInv, PlaceOK, Idle
  <2> QED BY <1>1, <2>1, DeathAllowed DEF Began, Tag
<1>3. CASE stream # "null"
  <2>1. Running' /\ op' = o
    BY <1>1, <1>3 DEF Awaits, Begin
  <2> QED BY <1>1, <2>1, MovesAllowed DEF Began, Moves, Tag
<1> QED BY <1>2, <1>3

(* The handlers resume the coroutine, follow up with the next operation or *)
(* free the state (call.h:108-117, 165-178, 272, 301, 331, 360, 373-386).  *)
LEMMA HandlerMoves == ASSUME IInv, Handle PROVE Abstract!Next
<1>1. Running /\ At = "waiting" /\ Tag = "queued" /\ op = "none" /\ event' = "none"
  BY DEF Handle, HandleStart, Started, HandleReadOrWrite, HandleWritesDone,
         HalfClosed, HandleFinishWritesDone, FinishHalfClosed, HandleFinish,
         FinishDone, HandleDestructWritesDone, HandleDestructFinish, DestructDone,
         Take, IInv, TypeOK, PlaceOK, DeletedOK, Idle, Awaiting, At, Tag
<1>2. CASE HandleStart \/ HandleReadOrWrite \/ HandleWritesDone \/ HandleFinish
  <2>1. Running' /\ At' = "running" /\ Tag' = "idle"
    BY <1>1, <1>2
    DEF HandleStart, Started, HandleReadOrWrite, HandleWritesDone, HalfClosed,
        HandleFinish, FinishDone, At, Tag
  <2> QED BY <1>1, <2>1, MovesAllowed DEF Moves
<1>3. CASE HandleFinishWritesDone
  <2>1. stream = "set" /\ pos = "finish"
    BY <1>1, <1>3
    DEF HandleFinishWritesDone, FinishHalfClosed, Take, IInv, TypeOK, PlaceOK, Idle,
        Awaiting
  <2>2. Running' /\ At' = "waiting" /\ Tag' = "issued"
    BY <1>1, <1>3, <2>1
    DEF HandleFinishWritesDone, FinishHalfClosed, Begin, At, Tag
  <2> QED BY <1>1, <2>2, MovesAllowed DEF Moves
<1>4. CASE HandleDestructWritesDone
  <2>1. stream = "set" /\ state # "deleted" /\ pos = "destroyed"
    BY <1>1, <1>4
    DEF HandleDestructWritesDone, Take, IInv, TypeOK, PlaceOK, DeletedOK, Idle,
        Awaiting
  <2>2. Running' /\ At' = "waiting" /\ Tag' = "issued"
    BY <1>1, <1>4, <2>1 DEF HandleDestructWritesDone, Begin, At, Tag
  <2> QED BY <1>1, <2>2, MovesAllowed DEF Moves
<1>5. CASE HandleDestructFinish
  <2>1. pos = "destroyed"
    BY <1>5 DEF HandleDestructFinish, DestructDone, Take, IInv
  <2>2. Running' /\ At' = "gone" /\ Tag' = "idle"
    BY <1>1, <1>5, <2>1 DEF HandleDestructFinish, DestructDone, At, Tag
  <2> QED BY <1>1, <2>2, MovesAllowed DEF Moves
<1> QED BY <1>2, <1>3, <1>4, <1>5 DEF Handle

(* The destructor lets the state go, or has it wait for the end of the     *)
(* call (call.h:90-104, 133).                                              *)
LEMMA DestroyMoves == ASSUME IInv, Destroy PROVE Abstract!Next
<1>1. /\ Running /\ At = "running" /\ Tag = "idle" /\ Idle
      /\ pos \in {"ready", "threw"} /\ pos' = "destroyed" /\ event' = "none"
  BY DEF Destroy, Destroyed, UserRuns, IInv, PlaceOK, Idle, At, Tag
<1>2. CASE stream = "null"
  <2>1. Running' /\ At' = "gone" /\ Tag' = "idle"
    BY <1>1, <1>2 DEF Destroy, Destroyed, Idle, At, Tag
  <2> QED BY <1>1, <2>1, MovesAllowed DEF Moves
<1>3. CASE stream # "null"
  <2> DEFINE o == HalfCloseOr("destruct_writes_done", "destruct_finish")
  <2>1. /\ started # "no" /\ m_status = "none" /\ state # "deleted"
        /\ o \in HalfCloses => ~half_closed
    BY <1>1, <1>3
    DEF IInv, PlaceOK, NeedOK, CallOK, DeletedOK, HalfCloseOr
  <2>2. o # "none"
    BY DEF HalfCloseOr
  <2>3. state' = state /\ Begin(o)
    BY <1>3 DEF Destroy, Destroyed, Detach
  <2> HIDE DEF o
  <2>4. Running' /\ op' = o
    BY <1>1, <1>3, <2>1, <2>3 DEF Begin
  <2>5. At' = "waiting" /\ Tag' = "issued"
    BY <1>1, <2>1, <2>2, <2>3, <2>4 DEF At, Tag
  <2> QED BY <1>1, <2>4, <2>5, MovesAllowed DEF Began, Moves
<1> QED BY <1>2, <1>3

(* The call is a party that waits for one operation at a time, and nothing *)
(* else resumes or frees it, whoever awaits start() and whatever the user  *)
(* does with its result (call.h:90-117, 160-178, 260-397).                 *)
THEOREM Refinement == Spec => IsAwaiter
<1>1. Init => Abstract!Init
  BY DEF Init, At, Tag, Abstract!Init
<1>2. IInv /\ [Next]_vars => [Abstract!Next]_(Abstract!vars)
  <2> SUFFICES ASSUME IInv, [Next]_vars
               PROVE  \/ Abstract!Next
                      \/ At' = At /\ Tag' = Tag /\ Running' = Running
    BY DEF Abstract!vars
  <2>1. CASE Start
    <3>1. Running /\ Running' /\ Moves
      BY <2>1 DEF Start, UserRuns, IInv, PlaceOK, Idle, At, Tag, Began, Moves
    <3> QED BY <3>1, MovesAllowed
  <2>2. CASE StoreStream
    <3>1. At' = At /\ Tag' = Tag /\ Running
      BY <2>2 DEF StoreStream, At, Tag
    <3> QED BY <3>1, DeathAllowed
  <2>3. CASE Read
    BY <2>3, AwaitsMoves DEF Read
  <2>4. ASSUME NEW o \in {"write", "write_last", "writes_done"}, Write(o)
        PROVE  Abstract!Next
    BY <2>4, AwaitsMoves DEF Write
  <2>5. CASE Finish
    <3>1. CASE IsClientStreaming /\ m_need_writes_done
      <4>1. Awaits("finish", "finish_writes_done")
        BY <2>5, <3>1 DEF Finish, HalfCloseOr
      <4>2. ~half_closed
        BY <3>1, <4>1 DEF Awaits, UserRuns, MayUse, IInv, NeedOK
      <4> QED BY <4>1, <4>2, AwaitsMoves
    <3>2. CASE ~(IsClientStreaming /\ m_need_writes_done)
      <4>1. Awaits("finish", "finish")
        BY <2>5, <3>2 DEF Finish, HalfCloseOr
      <4> QED BY <4>1, AwaitsMoves
    <3> QED BY <3>1, <3>2
  <2>6. CASE Complete
    <3>1. /\ Running /\ op # "none" /\ op' = "none" /\ event' = op
          /\ UNCHANGED <<state, pos, fault>>
      BY <2>6 DEF Complete
    <3>2. At' = At
      BY <3>1 DEF At
    <3>3. Tag = "issued" /\ Tag' = "queued"
      BY <3>1 DEF Tag
    <3> QED BY <3>1, <3>2, <3>3, MovesAllowed DEF Moves
  <2>7. CASE WriteThrows
    BY <2>7 DEF WriteThrows, UserRuns, At, Tag
  <2>8. CASE ServerEnds \/ Breaks
    BY <2>8 DEF ServerEnds, Breaks, CallBecomes, At, Tag
  <2>9. CASE UNCHANGED vars
    BY <2>9 DEF vars, At, Tag
  <2> QED
    BY <2>1, <2>2, <2>3, <2>4, <2>5, <2>6, <2>7, <2>8, <2>9, HandlerMoves,
       DestroyMoves
    DEF Next, Terminated
<1> QED BY <1>1, <1>2, Invariance, PTL DEF Spec, IsAwaiter, Abstract!Spec
=============================================================================
