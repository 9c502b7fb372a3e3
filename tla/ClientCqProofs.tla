--------------------------- MODULE ClientCqProofs ---------------------------
(***************************************************************************)
(* Proofs about ClientCq for every set of functions, threads and           *)
(* operations.                                                             *)
(***************************************************************************)
EXTENDS ClientCq, TLAPS

(* The flag is set exactly as long as one alarm is on its way: a thread is *)
(* about to set it, it is armed, its event is queued, or the worker has    *)
(* taken the event and not yet cleared the flag.                           *)
OneToken ==
    /\ \A p \in Pushers : push[p] = "won" =>
          /\ m_alarm_set
          /\ alarm = "idle"
          /\ pc # "handle_event"
          /\ \A q \in Pushers \ {p} : push[q] # "won"
    /\ alarm # "idle" => m_alarm_set /\ pc # "handle_event"
    /\ pc = "handle_event" => m_alarm_set
    /\ m_alarm_set => \/ alarm # "idle"
                      \/ pc = "handle_event"
                      \/ \E p \in Pushers : push[p] = "won"

(* The destructor begins when no thread is inside push(), and the worker   *)
(* leaves its loop after that, with nothing left.                          *)
Teardown ==
    /\ dtor # "alive" => \A p \in Threads : push[p] = "idle"
    /\ push[Worker] # "idle" => Nested
    /\ pc = "exited" => /\ dtor # "alive"
                        /\ alarm = "idle"
                        /\ ~m_alarm_set
                        /\ m_dispatched = <<>>
    /\ dtor = "joined" => pc = "exited"

IInv == /\ TypeOK
        /\ OneToken
        /\ NoLostWakeup
        /\ Teardown
        /\ AbortOnlyWhileDestroyed

-----------------------------------------------------------------------------
(* Every variable keeps its type (all of client_cq.cpp). *)
LEMMA Typing == ASSUME TypeOK, [Next]_vars PROVE TypeOK'
<1> USE ClientCqAssumption
    DEF Pushers, queue, events, task, life, Move, JustMove, TestAndSet,
       TaskReturns, Destroy
<1>1. ASSUME NEW p \in Pushers, NEW t \in Tasks, PushEmplace(p, t) PROVE TypeOK'
  BY <1>1 DEF TypeOK, PushEmplace, MayCall
<1>2. ASSUME NEW p \in Pushers, PushTestAndSet(p) PROVE TypeOK'
  BY <1>2 DEF TypeOK, PushTestAndSet
<1>3. ASSUME NEW p \in Pushers, PushSet(p) PROVE TypeOK'
  BY <1>3 DEF TypeOK, PushSet
<1>4. ASSUME NEW p \in Pushers, NEW o \in Ops, StartOp(p, o) PROVE TypeOK'
  BY <1>4 DEF TypeOK, StartOp
<1>5. CASE NextAlarm
  BY <1>5 DEF TypeOK, NextAlarm
<1>6. CASE ClearFlag
  BY <1>6 DEF TypeOK, ClearFlag
<1>7. CASE PopTask
  <2>1. m_dispatched' \in Seq(Tasks) /\ Head(m_dispatched) \in Tasks
    BY <1>7 DEF TypeOK, PopTask
  <2> QED BY <1>7, <2>1 DEF TypeOK, PopTask
<1>8. CASE EndTask
  BY <1>8 DEF TypeOK, EndTask
<1>9. CASE PopEmpty
  BY <1>9 DEF TypeOK, PopEmpty
<1>10. CASE EndOp
  BY <1>10 DEF TypeOK, EndOp
<1>11. CASE NextShutdown
  BY <1>11 DEF TypeOK, NextShutdown
<1>12. ASSUME NEW o \in Ops, NextOp(o) PROVE TypeOK'
  BY <1>12 DEF TypeOK, NextOp
<1>13. ASSUME NEW o \in Ops, CompleteOp(o) PROVE TypeOK'
  BY <1>13 DEF TypeOK, CompleteOp
<1>14. CASE AlarmFires
  BY <1>14 DEF TypeOK, AlarmFires
<1>15. CASE DtorShutdown
  BY <1>15 DEF TypeOK, DtorShutdown
<1>16. CASE DtorJoin
  BY <1>16 DEF TypeOK, DtorJoin
<1>17. CASE UNCHANGED vars
  BY <1>17 DEF TypeOK, vars
<1> QED
  BY <1>1, <1>2, <1>3, <1>4, <1>5, <1>6, <1>7, <1>8, <1>9, <1>10, <1>11,
     <1>12, <1>13, <1>14, <1>15, <1>16, <1>17 DEF Next, WorkerStep, Terminated

LEMMA Initially == Init => IInv
<1> SUFFICES ASSUME Init PROVE IInv
  OBVIOUS
<1> USE ClientCqAssumption DEF Init, Pushers
<1>1. TypeOK
  <2>1. m_dispatched \in Seq(Tasks)
    OBVIOUS
  <2>2. /\ push \in [Pushers -> {"idle", "emplaced", "won"}]
        /\ push[Worker] = "idle"
    OBVIOUS
  <2> QED BY <2>1, <2>2 DEF TypeOK
<1>2. OneToken
  BY DEF OneToken
<1>3. NoLostWakeup
  BY DEF NoLostWakeup
<1>4. Teardown
  BY DEF Teardown
<1>5. AbortOnlyWhileDestroyed
  BY DEF AbortOnlyWhileDestroyed
<1> QED BY <1>1, <1>2, <1>3, <1>4, <1>5 DEF IInv

(* One step of any thread keeps the inductive invariant: the flag, the     *)
(* alarm and the queue stay in agreement (client_cq.cpp:5-12, 34-37).      *)
LEMMA Inductive == IInv /\ [Next]_vars => IInv'
<1> SUFFICES ASSUME IInv, [Next]_vars PROVE IInv'
  OBVIOUS
<1> USE ClientCqAssumption
    DEF Pushers, queue, events, task, life, Move, JustMove, TestAndSet,
       TaskReturns, Destroy
<1>0. TypeOK /\ TypeOK'
  BY Typing DEF IInv
<1>a. OneToken /\ NoLostWakeup /\ Teardown /\ AbortOnlyWhileDestroyed
  BY DEF IInv
<1>1. OneToken'
  <2>1. ASSUME NEW p \in Pushers, NEW t \in Tasks, PushEmplace(p, t) PROVE OneToken'
    BY <1>0, <1>a, <2>1 DEF TypeOK, OneToken, PushEmplace, MayCall
  <2>2. ASSUME NEW p \in Pushers, PushTestAndSet(p) PROVE OneToken'
    BY <1>0, <1>a, <2>2 DEF TypeOK, OneToken, PushTestAndSet
  <2>3. ASSUME NEW p \in Pushers, PushSet(p) PROVE OneToken'
    BY <1>0, <1>a, <2>3 DEF TypeOK, OneToken, PushSet, Drained
  <2>4. ASSUME NEW p \in Pushers, NEW o \in Ops, StartOp(p, o) PROVE OneToken'
    BY <1>0, <1>a, <2>4 DEF TypeOK, OneToken, StartOp, MayCall, Drained
  <2>5. CASE NextAlarm
    BY <1>0, <1>a, <2>5 DEF TypeOK, OneToken, NextAlarm
  <2>6. CASE ClearFlag
    BY <1>0, <1>a, <2>6 DEF TypeOK, OneToken, ClearFlag
  <2>7. CASE PopTask
    BY <1>0, <1>a, <2>7 DEF TypeOK, OneToken, PopTask
  <2>8. CASE EndTask
    BY <1>0, <1>a, <2>8 DEF TypeOK, OneToken, EndTask
  <2>9. CASE PopEmpty
    BY <1>0, <1>a, <2>9 DEF TypeOK, OneToken, PopEmpty
  <2>10. CASE EndOp
    BY <1>0, <1>a, <2>10 DEF TypeOK, OneToken, EndOp
  <2>11. CASE NextShutdown
    BY <1>0, <1>a, <2>11 DEF TypeOK, OneToken, NextShutdown, Drained
  <2>12. ASSUME NEW o \in Ops, NextOp(o) PROVE OneToken'
    BY <1>0, <1>a, <2>12 DEF TypeOK, OneToken, NextOp
  <2>13. ASSUME NEW o \in Ops, CompleteOp(o) PROVE OneToken'
    BY <1>0, <1>a, <2>13 DEF TypeOK, OneToken, CompleteOp
  <2>14. CASE AlarmFires
    BY <1>0, <1>a, <2>14 DEF TypeOK, OneToken, AlarmFires
  <2>15. CASE DtorShutdown
    BY <1>0, <1>a, <2>15 DEF TypeOK, OneToken, DtorShutdown
  <2>16. CASE DtorJoin
    BY <1>0, <1>a, <2>16 DEF TypeOK, OneToken, DtorJoin
  <2>17. CASE UNCHANGED vars
    BY <1>0, <1>a, <2>17 DEF TypeOK, OneToken, vars
  <2> QED
    BY <2>1, <2>2, <2>3, <2>4, <2>5, <2>6, <2>7, <2>8, <2>9,
       <2>10, <2>11, <2>12, <2>13, <2>14, <2>15, <2>16, <2>17
    DEF Next, WorkerStep, Terminated
<1>2. NoLostWakeup'
  <2>1. ASSUME NEW p \in Pushers, NEW t \in Tasks, PushEmplace(p, t) PROVE NoLostWakeup'
    BY <1>0, <1>a, <2>1 DEF TypeOK, NoLostWakeup, PushEmplace, MayCall
  <2>2. ASSUME NEW p \in Pushers, PushTestAndSet(p) PROVE NoLostWakeup'
    BY <1>0, <1>a, <2>2 DEF TypeOK, NoLostWakeup, OneToken, PushTestAndSet
  <2>3. ASSUME NEW p \in Pushers, PushSet(p) PROVE NoLostWakeup'
    BY <1>0, <1>a, <2>3 DEF TypeOK, NoLostWakeup, PushSet, Drained
  <2>4. ASSUME NEW p \in Pushers, NEW o \in Ops, StartOp(p, o) PROVE NoLostWakeup'
    BY <1>0, <1>a, <2>4 DEF TypeOK, NoLostWakeup, StartOp, MayCall, Drained
  <2>5. CASE NextAlarm
    BY <1>0, <1>a, <2>5 DEF TypeOK, NoLostWakeup, NextAlarm
  <2>6. CASE ClearFlag
    BY <1>0, <1>a, <2>6 DEF TypeOK, NoLostWakeup, ClearFlag
  <2>7. CASE PopTask
    BY <1>0, <1>a, <2>7 DEF TypeOK, NoLostWakeup, PopTask
  <2>8. CASE EndTask
    BY <1>0, <1>a, <2>8 DEF TypeOK, NoLostWakeup, EndTask
  <2>9. CASE PopEmpty
    BY <1>0, <1>a, <2>9 DEF TypeOK, NoLostWakeup, PopEmpty
  <2>10. CASE EndOp
    BY <1>0, <1>a, <2>10 DEF TypeOK, NoLostWakeup, EndOp
  <2>11. CASE NextShutdown
    BY <1>0, <1>a, <2>11 DEF TypeOK, NoLostWakeup, NextShutdown, Drained
  <2>12. ASSUME NEW o \in Ops, NextOp(o) PROVE NoLostWakeup'
    BY <1>0, <1>a, <2>12 DEF TypeOK, NoLostWakeup, NextOp
  <2>13. ASSUME NEW o \in Ops, CompleteOp(o) PROVE NoLostWakeup'
    BY <1>0, <1>a, <2>13 DEF TypeOK, NoLostWakeup, CompleteOp
  <2>14. CASE AlarmFires
    BY <1>0, <1>a, <2>14 DEF TypeOK, NoLostWakeup, AlarmFires
  <2>15. CASE DtorShutdown
    BY <1>0, <1>a, <2>15 DEF TypeOK, NoLostWakeup, DtorShutdown
  <2>16. CASE DtorJoin
    BY <1>0, <1>a, <2>16 DEF TypeOK, NoLostWakeup, DtorJoin
  <2>17. CASE UNCHANGED vars
    BY <1>0, <1>a, <2>17 DEF TypeOK, NoLostWakeup, vars
  <2> QED
    BY <2>1, <2>2, <2>3, <2>4, <2>5, <2>6, <2>7, <2>8, <2>9,
       <2>10, <2>11, <2>12, <2>13, <2>14, <2>15, <2>16, <2>17
    DEF Next, WorkerStep, Terminated
<1>3. Teardown'
  <2>1. ASSUME NEW p \in Pushers, NEW t \in Tasks, PushEmplace(p, t) PROVE Teardown'
    BY <1>0, <1>a, <2>1 DEF TypeOK, Teardown, OneToken, NoLostWakeup, PushEmplace, MayCall
  <2>2. ASSUME NEW p \in Pushers, PushTestAndSet(p) PROVE Teardown'
    BY <1>0, <1>a, <2>2 DEF TypeOK, Teardown, OneToken, NoLostWakeup, PushTestAndSet
  <2>3. ASSUME NEW p \in Pushers, PushSet(p) PROVE Teardown'
    BY <1>0, <1>a, <2>3 DEF TypeOK, Teardown, OneToken, NoLostWakeup, PushSet, Drained
  <2>4. ASSUME NEW p \in Pushers, NEW o \in Ops, StartOp(p, o) PROVE Teardown'
    BY <1>0, <1>a, <2>4 DEF TypeOK, Teardown, OneToken, NoLostWakeup, StartOp, MayCall, Drained
  <2>5. CASE NextAlarm
    BY <1>0, <1>a, <2>5 DEF TypeOK, Teardown, OneToken, NoLostWakeup, NextAlarm
  <2>6. CASE ClearFlag
    BY <1>0, <1>a, <2>6 DEF TypeOK, Teardown, OneToken, NoLostWakeup, ClearFlag
  <2>7. CASE PopTask
    BY <1>0, <1>a, <2>7 DEF TypeOK, Teardown, OneToken, NoLostWakeup, PopTask
  <2>8. CASE EndTask
    BY <1>0, <1>a, <2>8 DEF TypeOK, Teardown, OneToken, NoLostWakeup, EndTask
  <2>9. CASE PopEmpty
    BY <1>0, <1>a, <2>9 DEF TypeOK, Teardown, OneToken, NoLostWakeup, PopEmpty
  <2>10. CASE EndOp
    BY <1>0, <1>a, <2>10 DEF TypeOK, Teardown, OneToken, NoLostWakeup, EndOp
  <2>11. CASE NextShutdown
    BY <1>0, <1>a, <2>11 DEF TypeOK, Teardown, OneToken, NoLostWakeup, NextShutdown, Drained
  <2>12. ASSUME NEW o \in Ops, NextOp(o) PROVE Teardown'
    BY <1>0, <1>a, <2>12 DEF TypeOK, Teardown, OneToken, NoLostWakeup, NextOp
  <2>13. ASSUME NEW o \in Ops, CompleteOp(o) PROVE Teardown'
    BY <1>0, <1>a, <2>13 DEF TypeOK, Teardown, OneToken, NoLostWakeup, CompleteOp
  <2>14. CASE AlarmFires
    BY <1>0, <1>a, <2>14 DEF TypeOK, Teardown, OneToken, NoLostWakeup, AlarmFires
  <2>15. CASE DtorShutdown
    BY <1>0, <1>a, <2>15 DEF TypeOK, Teardown, OneToken, NoLostWakeup, DtorShutdown
  <2>16. CASE DtorJoin
    BY <1>0, <1>a, <2>16 DEF TypeOK, Teardown, OneToken, NoLostWakeup, DtorJoin
  <2>17. CASE UNCHANGED vars
    BY <1>0, <1>a, <2>17 DEF TypeOK, Teardown, OneToken, NoLostWakeup, vars
  <2> QED
    BY <2>1, <2>2, <2>3, <2>4, <2>5, <2>6, <2>7, <2>8, <2>9,
       <2>10, <2>11, <2>12, <2>13, <2>14, <2>15, <2>16, <2>17
    DEF Next, WorkerStep, Terminated
<1>4. AbortOnlyWhileDestroyed'
  <2>1. ASSUME NEW p \in Pushers, NEW t \in Tasks, PushEmplace(p, t) PROVE AbortOnlyWhileDestroyed'
    BY <1>0, <1>a, <2>1 DEF TypeOK, AbortOnlyWhileDestroyed, Teardown, PushEmplace, MayCall
  <2>2. ASSUME NEW p \in Pushers, PushTestAndSet(p) PROVE AbortOnlyWhileDestroyed'
    BY <1>0, <1>a, <2>2 DEF TypeOK, AbortOnlyWhileDestroyed, Teardown, PushTestAndSet
  <2>3. ASSUME NEW p \in Pushers, PushSet(p) PROVE AbortOnlyWhileDestroyed'
    BY <1>0, <1>a, <2>3 DEF TypeOK, AbortOnlyWhileDestroyed, Teardown, PushSet, Drained
  <2>4. ASSUME NEW p \in Pushers, NEW o \in Ops, StartOp(p, o) PROVE AbortOnlyWhileDestroyed'
    BY <1>0, <1>a, <2>4 DEF TypeOK, AbortOnlyWhileDestroyed, Teardown, StartOp, MayCall, Drained
  <2>5. CASE NextAlarm
    BY <1>0, <1>a, <2>5 DEF TypeOK, AbortOnlyWhileDestroyed, Teardown, NextAlarm
  <2>6. CASE ClearFlag
    BY <1>0, <1>a, <2>6 DEF TypeOK, AbortOnlyWhileDestroyed, Teardown, ClearFlag
  <2>7. CASE PopTask
    BY <1>0, <1>a, <2>7 DEF TypeOK, AbortOnlyWhileDestroyed, Teardown, PopTask
  <2>8. CASE EndTask
    BY <1>0, <1>a, <2>8 DEF TypeOK, AbortOnlyWhileDestroyed, Teardown, EndTask
  <2>9. CASE PopEmpty
    BY <1>0, <1>a, <2>9 DEF TypeOK, AbortOnlyWhileDestroyed, Teardown, PopEmpty
  <2>10. CASE EndOp
    BY <1>0, <1>a, <2>10 DEF TypeOK, AbortOnlyWhileDestroyed, Teardown, EndOp
  <2>11. CASE NextShutdown
    BY <1>0, <1>a, <2>11 DEF TypeOK, AbortOnlyWhileDestroyed, Teardown, NextShutdown, Drained
  <2>12. ASSUME NEW o \in Ops, NextOp(o) PROVE AbortOnlyWhileDestroyed'
    BY <1>0, <1>a, <2>12 DEF TypeOK, AbortOnlyWhileDestroyed, Teardown, NextOp
  <2>13. ASSUME NEW o \in Ops, CompleteOp(o) PROVE AbortOnlyWhileDestroyed'
    BY <1>0, <1>a, <2>13 DEF TypeOK, AbortOnlyWhileDestroyed, Teardown, CompleteOp
  <2>14. CASE AlarmFires
    BY <1>0, <1>a, <2>14 DEF TypeOK, AbortOnlyWhileDestroyed, Teardown, AlarmFires
  <2>15. CASE DtorShutdown
    BY <1>0, <1>a, <2>15 DEF TypeOK, AbortOnlyWhileDestroyed, Teardown, DtorShutdown
  <2>16. CASE DtorJoin
    BY <1>0, <1>a, <2>16 DEF TypeOK, AbortOnlyWhileDestroyed, Teardown, DtorJoin
  <2>17. CASE UNCHANGED vars
    BY <1>0, <1>a, <2>17 DEF TypeOK, AbortOnlyWhileDestroyed, Teardown, vars
  <2> QED
    BY <2>1, <2>2, <2>3, <2>4, <2>5, <2>6, <2>7, <2>8, <2>9,
       <2>10, <2>11, <2>12, <2>13, <2>14, <2>15, <2>16, <2>17
    DEF Next, WorkerStep, Terminated
<1> QED BY <1>0, <1>1, <1>2, <1>3, <1>4 DEF IInv

(* The inductive invariant holds in every reachable state. *)
THEOREM Invariance == Spec => []IInv
  BY Initially, Inductive, PTL DEF Spec

(* The variables of the dispatcher keep their types. *)
THEOREM TypeCorrect == Spec => []TypeOK
  BY Invariance, PTL DEF IInv

(* No function waits without a wakeup on its way (client_cq.cpp:6, 35-36). *)
THEOREM WakeupNeverLost == Spec => []NoLostWakeup
  BY Invariance, PTL DEF IInv

(* The alarm is never set twice (client_cq.cpp:36). *)
THEOREM AlarmNeverSetTwice == Spec => []OneAlarm
<1>1. IInv => OneAlarm
  BY DEF IInv, OneToken, OneAlarm
<1> QED BY <1>1, Invariance, PTL

(* When the worker has left its loop nothing is queued or half pushed      *)
(* (client_cq.cpp:21-25, 29-32).                                           *)
THEOREM DestructorDropsNothing == Spec => []NothingDropped
<1>1. IInv => NothingDropped
  BY ClientCqAssumption
  DEF IInv, TypeOK, Teardown, OneToken, NothingDropped, Pushers
<1> QED BY <1>1, Invariance, PTL

(* Only a callback that runs while the destructor drains the queue can     *)
(* make gRPC abort (client_cq.cpp:30, 36).                                 *)
THEOREM AbortsOnlyWhileDestroyed == Spec => []AbortOnlyWhileDestroyed
  BY Invariance, PTL DEF IInv

-----------------------------------------------------------------------------
(* client_cq implements the abstract dispatcher, step for step: emplace is *)
(* the submission, pop the start of a function, the return of the call its *)
(* end, everything else is invisible (client_cq.cpp:5-12, 34-37).          *)
THEOREM Refinement == Spec => IsDispatcher
<1>1. Init => Abstract!Init
  BY DEF Init, Abstract!Init
<1>2. TypeOK /\ [Next]_vars => [Abstract!Next]_(Abstract!vars)
  <2> SUFFICES ASSUME TypeOK, [Next]_vars
               PROVE Abstract!Next \/ UNCHANGED <<m_dispatched, current, finished>>
    BY DEF Abstract!vars
  <2> USE ClientCqAssumption
      DEF queue, events, task, life, Move, JustMove, TestAndSet, TaskReturns, Destroy
  <2>1. ASSUME NEW p \in Pushers, NEW t \in Tasks, PushEmplace(p, t)
        PROVE Abstract!Next
    <3>1. Abstract!Submit(t)
      BY <2>1 DEF PushEmplace, Queued, Abstract!Submit, Abstract!Waiting
    <3> QED BY <3>1 DEF Abstract!Next
  <2>2. CASE PopTask
    <3>1. current = NoTask
      BY <2>2 DEF PopTask, TypeOK
    <3>2. Head(m_dispatched) \in Tasks
      BY <2>2 DEF PopTask, TypeOK
    <3>3. CASE Head(m_dispatched) \in EmptyFns
      <4>1. Abstract!Skip
        BY <2>2, <3>1, <3>3 DEF PopTask, Abstract!Skip
      <4> QED BY <4>1 DEF Abstract!Next
    <3>4. CASE Head(m_dispatched) \notin EmptyFns
      <4>1. Abstract!Start
        BY <2>2, <3>1, <3>2, <3>4 DEF PopTask, Abstract!Start
      <4> QED BY <4>1 DEF Abstract!Next
    <3> QED BY <3>3, <3>4
  <2>3. CASE EndTask
    <3>1. current \in Tasks
      BY <2>3 DEF EndTask, TypeOK
    <3>2. Abstract!Finish(current)
      BY <2>3, <3>1 DEF EndTask, Abstract!Finish
    <3> QED BY <3>1, <3>2 DEF Abstract!Next
  <2>4. CASE NextAlarm \/ ClearFlag \/ PopEmpty \/ EndOp \/ NextShutdown
    BY <2>4 DEF NextAlarm, ClearFlag, PopEmpty, EndOp, NextShutdown
  <2>5. CASE \E o \in Ops : NextOp(o) \/ CompleteOp(o)
    BY <2>5 DEF NextOp, CompleteOp
  <2>6. CASE \E p \in Pushers : PushTestAndSet(p) \/ PushSet(p)
    BY <2>6 DEF PushTestAndSet, PushSet
  <2>7. CASE \E p \in Pushers, o \in Ops : StartOp(p, o)
    BY <2>7 DEF StartOp
  <2>8. CASE AlarmFires \/ DtorShutdown \/ DtorJoin \/ UNCHANGED vars
    BY <2>8 DEF AlarmFires, DtorShutdown, DtorJoin, vars
  <2> QED
    BY <2>1, <2>2, <2>3, <2>4, <2>5, <2>6, <2>7, <2>8
    DEF Next, WorkerStep, Terminated
<1> QED BY <1>1, <1>2, TypeCorrect, PTL DEF Spec, IsDispatcher, Abstract!Spec
=============================================================================
