------------------------------ MODULE ClientCq ------------------------------
(***************************************************************************)
(* asyncpp::grpc::client_cq: a gRPC completion queue, the thread that      *)
(* serves it, and a dispatcher on top: push() appends a function to        *)
(* m_dispatched and, unless m_alarm_set says that somebody already did,    *)
(* sets a gRPC alarm whose event makes the thread drain the queue.         *)
(*                                                                         *)
(* The threads are the Worker (client_cq::m_thread) and the Threads that   *)
(* call push() and start asynchronous operations on cq().  Every statement *)
(* of push() and of handle_event() that touches shared state is a step of  *)
(* its own.  The functions that the worker runs, and the handlers of the   *)
(* operations, may themselves push and start operations (Nested).          *)
(*                                                                         *)
(* The completion queue and the alarm are gRPC's (external).  What the     *)
(* code relies on: Next returns the events in some order and FALSE once    *)
(* the queue is shut down and empty; starting an operation on a queue that *)
(* is shut down and has no operation in flight aborts the process.         *)
(***************************************************************************)
EXTENDS Integers, Sequences

CONSTANTS Tasks,      \* the functions pushed, each at most once
          EmptyFns,   \* those of Tasks that are empty std::functions
          NoTask,     \* no function is running
          Threads,    \* the threads of the program that use the client_cq
          Worker,     \* client_cq::m_thread
          Ops,        \* the asynchronous operations started, each once
          NullTags,   \* those of Ops that were started with a null tag
          Nested      \* whether functions and handlers use the client_cq

ASSUME ClientCqAssumption == /\ NoTask \notin Tasks
                             /\ Worker \notin Threads
                             /\ EmptyFns \subseteq Tasks
                             /\ NullTags \subseteq Ops
                             /\ Nested \in BOOLEAN

VARIABLES m_dispatched,  \* the queue of functions, oldest first
          m_alarm_set,   \* the atomic flag
          alarm,         \* m_alarm: "idle", "armed", or "fired" (event queued)
          op,            \* the operations on the completion queue
          pc,            \* where the worker is
          current,       \* the function the worker is running
          push,          \* how far each thread is in push()
          finished,      \* the functions executed or dropped
          dtor,          \* how far the destructor is
          aborted        \* gRPC has aborted the process

queue == <<m_dispatched, m_alarm_set>>
events == <<alarm, op>>
task == <<current, finished>>
life == <<dtor, aborted>>

vars == <<queue, events, pc, task, push, life>>

Pushers == Threads \cup {Worker}

Queued == {m_dispatched[i] : i \in 1..Len(m_dispatched)}

(* gRPC refuses to begin an operation once the queue is shut down and the  *)
(* last operation in flight has been queued as an event.                   *)
Drained == /\ dtor # "alive"
           /\ alarm # "armed"
           /\ \A o \in Ops : op[o] # "pending"

Init == /\ m_dispatched = <<>> /\ m_alarm_set = FALSE
        /\ alarm = "idle" /\ op = [o \in Ops |-> "new"]
        /\ pc = "next" /\ current = NoTask /\ finished = {}
        /\ push = [p \in Pushers |-> "idle"]
        /\ dtor = "alive" /\ aborted = FALSE

-----------------------------------------------------------------------------
(* Who may call into the client_cq: a thread of the program until the      *)
(* destructor runs (it holds a reference until then), the worker while it  *)
(* is inside a function or a handler.                                      *)
MayCall(p) == /\ ~aborted
              /\ push[p] = "idle"
              /\ IF p = Worker THEN Nested /\ pc \in {"run", "resume"}
                               ELSE dtor = "alive"

(* push(): m_dispatched.emplace(std::move(fn)) *)
PushEmplace(p, t) ==
    /\ MayCall(p)
    /\ t \notin Queued \cup {current} \cup finished
    /\ m_dispatched' = Append(m_dispatched, t)
    /\ push' = [push EXCEPT ![p] = "emplaced"]
    /\ UNCHANGED <<m_alarm_set, events, pc, task, life>>

TestAndSet(p, sets) ==
    /\ ~aborted /\ push[p] = "emplaced"
    /\ push' = [push EXCEPT ![p] = IF sets THEN "won" ELSE "idle"]
    /\ m_alarm_set' = TRUE
    /\ UNCHANGED <<m_dispatched, events, pc, task, life>>

(* Slip: the flag is set without looking at its old value. *)
PushTestAndSet_Untested(p) == TestAndSet(p, TRUE)

(* push(): m_alarm_set.test_and_set(); only the call that found it clear   *)
(* goes on to set the alarm.                                               *)
PushTestAndSet(p) == TestAndSet(p, ~m_alarm_set)

(* push(): m_alarm.Set(&m_cq, now, this) *)
PushSet(p) ==
    /\ ~aborted /\ push[p] = "won"
    /\ IF Drained
       THEN aborted' = TRUE /\ UNCHANGED <<alarm, push>>
       ELSE /\ alarm' = "armed"
            /\ push' = [push EXCEPT ![p] = "idle"]
            /\ UNCHANGED aborted
    /\ UNCHANGED <<queue, op, pc, task, dtor>>

-----------------------------------------------------------------------------
(* The worker goes from one place to another. *)
Move(from, to) == ~aborted /\ pc = from /\ pc' = to

(* ... and does nothing else. *)
JustMove(from, to) == Move(from, to) /\ UNCHANGED <<queue, events, task, push, life>>

(* Next() returns the alarm's tag: the worker enters handle_event(). *)
NextAlarm ==
    /\ Move("next", "handle_event")
    /\ alarm = "fired" /\ alarm' = "idle"
    /\ UNCHANGED <<queue, op, task, push, life>>

(* Next() returns the tag of an operation: its handler runs, unless the    *)
(* tag is null.                                                            *)
NextOp(o) ==
    /\ Move("next", IF o \in NullTags THEN "next" ELSE "resume")
    /\ op[o] = "ready" /\ op' = [op EXCEPT ![o] = "done"]
    /\ UNCHANGED <<queue, alarm, task, push, life>>

(* The handler of an operation returns to the loop. *)
EndOp == push[Worker] = "idle" /\ JustMove("resume", "next")

(* Slip: the flag is never cleared. *)
ClearFlag_Forgotten == JustMove("handle_event", "pop")

(* handle_event(): m_alarm_set.clear() *)
ClearFlag ==
    /\ Move("handle_event", "pop")
    /\ m_alarm_set' = FALSE
    /\ UNCHANGED <<m_dispatched, events, task, push, life>>

(* Slip: the function is called before it is taken out of the queue, and   *)
(* whatever is at the head afterwards is not removed.                      *)
PopTask_Peek ==
    /\ Move("pop", "run")
    /\ m_dispatched # <<>> /\ current' = Head(m_dispatched)
    /\ UNCHANGED <<queue, events, finished, push, life>>

(* handle_event(): pop() returned a function, which is called if it is not *)
(* empty.                                                                  *)
PopTask ==
    /\ ~aborted /\ pc = "pop"
    /\ m_dispatched # <<>>
    /\ m_dispatched' = Tail(m_dispatched)
    /\ IF Head(m_dispatched) \in EmptyFns
       THEN finished' = finished \cup {Head(m_dispatched)} /\ UNCHANGED <<pc, current>>
       ELSE current' = Head(m_dispatched) /\ pc' = "run" /\ UNCHANGED finished
    /\ UNCHANGED <<m_alarm_set, events, push, life>>

TaskReturns(to, left) ==
    /\ Move("run", to)
    /\ push[Worker] = "idle"
    /\ finished' = finished \cup {current} /\ current' = left
    /\ UNCHANGED <<queue, events, push, life>>

(* Slip: the finished function stays current. *)
EndTask_CurrentKept == TaskReturns("pop", current)

(* Slip: one function per event instead of a loop. *)
EndTask_NoLoop == TaskReturns("next", NoTask)

(* The function returns. *)
EndTask == TaskReturns("pop", NoTask)

(* Slip: the drain loop does not end when the queue is empty. *)
PopEmpty_Spins == m_dispatched = <<>> /\ JustMove("pop", "pop")

(* handle_event(): pop() returned nothing, back to the loop. *)
PopEmpty == m_dispatched = <<>> /\ JustMove("pop", "next")

(* Slip: the loop ends as soon as the shutdown was requested. *)
NextShutdown_Early == dtor # "alive" /\ JustMove("next", "exited")

(* Next() returns false: the queue is shut down and every event was taken. *)
NextShutdown ==
    /\ Drained /\ alarm = "idle" /\ \A o \in Ops : op[o] # "ready"
    /\ JustMove("next", "exited")

-----------------------------------------------------------------------------
(* An operation is started on cq(). *)
StartOp(p, o) ==
    /\ MayCall(p)
    /\ op[o] = "new"
    /\ IF Drained
       THEN aborted' = TRUE /\ UNCHANGED op
       ELSE op' = [op EXCEPT ![o] = "pending"] /\ UNCHANGED aborted
    /\ UNCHANGED <<queue, alarm, pc, task, push, dtor>>

(* gRPC completes an operation, or the alarm expires: an event is queued.  *)
CompleteOp(o) ==
    /\ ~aborted
    /\ op[o] = "pending" /\ op' = [op EXCEPT ![o] = "ready"]
    /\ UNCHANGED <<queue, alarm, pc, task, push, life>>

AlarmFires ==
    /\ ~aborted
    /\ alarm = "armed" /\ alarm' = "fired"
    /\ UNCHANGED <<queue, op, pc, task, push, life>>

Destroy(from, to) ==
    /\ ~aborted
    /\ dtor = from /\ dtor' = to
    /\ UNCHANGED <<queue, events, pc, task, push, aborted>>

(* Slip: the destructor runs while a thread is still inside push(). *)
DtorShutdown_InUse == Destroy("alive", "shutdown")

(* ~client_cq(): m_cq.Shutdown(), called when the last reference is gone,  *)
(* so no thread of the program is inside push() and none will be.          *)
DtorShutdown == (\A p \in Threads : push[p] = "idle") /\ Destroy("alive", "shutdown")

(* ~client_cq(): m_thread.join() *)
DtorJoin == pc = "exited" /\ Destroy("shutdown", "joined")

(* The object is gone, or the process is: nothing more happens. *)
Terminated == (dtor = "joined" \/ aborted) /\ UNCHANGED vars

-----------------------------------------------------------------------------
WorkerStep == \/ NextAlarm \/ ClearFlag \/ PopTask \/ EndTask \/ PopEmpty
              \/ EndOp \/ NextShutdown
              \/ \E o \in Ops : NextOp(o)

Next == \/ WorkerStep
        \/ \E p \in Pushers : \/ \E t \in Tasks : PushEmplace(p, t)
                              \/ PushTestAndSet(p)
                              \/ PushSet(p)
                              \/ \E o \in Ops : StartOp(p, o)
        \/ \E o \in Ops : CompleteOp(o)
        \/ AlarmFires
        \/ DtorShutdown
        \/ DtorJoin
        \/ Terminated

(* The scheduler runs every thread that can run, gRPC completes what was   *)
(* started, and functions and handlers return.  Nobody has to push, to     *)
(* start an operation or to destroy the client_cq.                         *)
Fairness == /\ WF_vars(WorkerStep)
            /\ \A p \in Pushers : WF_vars(PushTestAndSet(p) \/ PushSet(p))
            /\ \A o \in Ops : WF_vars(CompleteOp(o))
            /\ WF_vars(AlarmFires)
            /\ WF_vars(DtorJoin)

Spec == Init /\ [][Next]_vars

FairSpec == Spec /\ Fairness
-----------------------------------------------------------------------------
(* Type invariant.  A function is running exactly while the worker is      *)
(* inside the call of handle_event (client_cq.cpp:9), and the worker is    *)
(* inside push() only from a function or a handler.                        *)
TypeOK == /\ m_dispatched \in Seq(Tasks)
          /\ m_alarm_set \in BOOLEAN
          /\ alarm \in {"idle", "armed", "fired"}
          /\ op \in [Ops -> {"new", "pending", "ready", "done"}]
          /\ pc \in {"next", "handle_event", "pop", "run", "resume", "exited"}
          /\ current \in Tasks \cup {NoTask}
          /\ push \in [Pushers -> {"idle", "emplaced", "won"}]
          /\ finished \in SUBSET Tasks
          /\ dtor \in {"alive", "shutdown", "joined"}
          /\ aborted \in BOOLEAN
          /\ (current = NoTask) <=> (pc # "run")
          /\ push[Worker] # "idle" => pc \in {"run", "resume"}

(* A function that waits in m_dispatched is never forgotten: the alarm     *)
(* will ring or has rung, the worker is about to drain or is draining, or  *)
(* the push that appended it has yet to look at the flag or to set the     *)
(* alarm.  handle_event() clears the flag before its first pop() and       *)
(* push() appends before it tests the flag (client_cq.cpp:6-7, 35-36).     *)
NoLostWakeup == m_dispatched # <<>> =>
                   \/ alarm # "idle"
                   \/ pc \in {"handle_event", "pop", "run"}
                   \/ \E p \in Pushers : push[p] \in {"emplaced", "won"}

(* m_alarm is never set again while it is armed or while its event is      *)
(* still in the completion queue, which gRPC's alarm does not survive, and *)
(* no two threads are about to set it (client_cq.cpp:36).                  *)
OneAlarm == \A p \in Pushers : push[p] = "won" =>
                /\ alarm = "idle"
                /\ \A q \in Pushers \ {p} : push[q] # "won"

(* The thread leaves its loop only when everything that was pushed has     *)
(* been run: the destructor drops no function (client_cq.cpp:21-25, 30).   *)
NothingDropped == pc = "exited" => /\ m_dispatched = <<>>
                                   /\ current = NoTask
                                   /\ \A p \in Pushers : push[p] = "idle"

(* The process is aborted only by a function or a handler that uses the    *)
(* client_cq while the destructor is already draining it (client_cq.cpp:36 *)
(* from client_cq.cpp:9 or 24, after line 30); a program whose callbacks   *)
(* do not, or that outlive them, never meets it.                           *)
AbortOnlyWhileDestroyed == aborted => /\ Nested
                                      /\ dtor = "shutdown"
                                      /\ pc \in {"run", "resume"}

(* client_cq is an exclusive dispatcher: the functions are run in the      *)
(* order of their emplace, at most once, one at a time                     *)
(* (client_cq.cpp:5-12, 34-37).                                            *)
Abstract == INSTANCE Dispatcher
              WITH backlog <- m_dispatched,
                   running <- {current} \ {NoTask},
                   done <- finished,
                   Exclusive <- TRUE

IsDispatcher == Abstract!Spec

(* Every function that was pushed is eventually run, the destructor        *)
(* notwithstanding, unless a callback aborts the process                   *)
(* (client_cq.cpp:5-12, 29-37).                                            *)
EveryTaskRuns == \A t \in Tasks :
                    (t \in Queued \cup {current}) ~> (t \in finished \/ aborted)

(* The destructor returns: the worker is not left waiting in Next() nor    *)
(* the destructor in join() (client_cq.cpp:21, 30-31).                     *)
DtorReturns == (dtor = "shutdown") ~> (dtor = "joined" \/ aborted)
=============================================================================
