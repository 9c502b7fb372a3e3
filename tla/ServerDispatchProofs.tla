------------------------ MODULE ServerDispatchProofs ------------------------
(***************************************************************************)
(* Proofs about ServerDispatch for every number of completion queues, none *)
(* included, and every set of functions and pushing threads.               *)
(***************************************************************************)
EXTENDS ServerDispatch, TLAPS

(* The helpers the steps are written with are expanded everywhere. *)
USE DEF Move, JustMove, Exchange, Pop, TaskReturns, LoopEnds, Store, StopMoves,
        ShutdownQueue, alarms, life

(* The worker was brought into handle_event() by the alarm and has not yet *)
(* stored true again.                                                      *)
Holding(w) == pc[w] \in {"drain", "run", "store"}

(* m_dispatch_need_alarm is false exactly as long as one alarm is on its   *)
(* way or being served: a thread is about to set it, it is armed or its    *)
(* event is queued, or one worker is Holding.                              *)
OneToken ==
    /\ m_dispatch_need_alarm => /\ alarm = "idle"
                                /\ \A p \in Pushers : push[p] # "won"
                                /\ \A w \in Workers : ~Holding(w)
    /\ \A p \in Pushers : push[p] = "won" =>
          /\ ~m_dispatch_need_alarm
          /\ alarm = "idle"
          /\ \A q \in Pushers \ {p} : push[q] # "won"
          /\ \A w \in Workers : ~Holding(w)
    /\ alarm # "idle" => \A w \in Workers : ~Holding(w)
    /\ \A v, w \in Workers : Holding(v) /\ Holding(w) => v = w
    /\ ~m_dispatch_need_alarm => \/ alarm # "idle"
                                 \/ \E p \in Pushers : push[p] = "won"
                                 \/ \E w \in Workers : Holding(w)

(* The alarm is set on a completion queue the server has, and every queue  *)
(* has its thread until stop() has returned.                               *)
QueuesInUse ==
    /\ \A w \in Workers : w \in m_cqs <=> (stop # "stopped" /\ pc[w] # "none")
    /\ alarm # "idle" => /\ alarm_cq \in Workers
                         /\ pc[alarm_cq] # "none"

(* What the steps of stop() leave behind. *)
Teardown ==
    /\ \A w \in Workers : pc[w] = "exited" =>
          w \in shut /\ (alarm = "idle" \/ alarm_cq # w)
    /\ shut # {} => stop \in {"cqs", "stopped"}
    /\ stop = "stopped" => \A w \in Workers : pc[w] \in {"exited", "none"}
    /\ stop # "no" /\ ~LatePush => \A p \in Threads : push[p] = "idle"
    /\ \A w \in Workers : push[w] # "idle" => Nested

(* A function is in one place: at one position of the queue or with one    *)
(* worker.                                                                 *)
InOnePlace ==
    /\ \A i, j \in 1..Len(m_dispatch_queue) :
          m_dispatch_queue[i] = m_dispatch_queue[j] => i = j
    /\ \A i \in 1..Len(m_dispatch_queue), w \in Workers :
          m_dispatch_queue[i] # current[w]
    /\ \A v, w \in Workers : current[v] = current[w] /\ current[v] # NoTask => v = w

IInv == /\ TypeOK
        /\ OneToken
        /\ NoLostWakeup
        /\ QueuesInUse
        /\ Teardown
        /\ PushDefined
        /\ InOnePlace

-----------------------------------------------------------------------------
(* What pop() returns is a function that was pushed, and what it leaves is *)
(* the queue without its first element.                                    *)
LEMMA PopIsFirst ==
    ASSUME NEW S, NEW q \in Seq(S), q # <<>>
    PROVE  /\ Head(q) \in S
           /\ Tail(q) \in Seq(S)
           /\ Len(q) \in Nat \ {0}
           /\ Head(q) = q[1]
           /\ Len(Tail(q)) = Len(q) - 1
           /\ \A i \in 1..Len(Tail(q)) : Tail(q)[i] = q[i + 1]
  OBVIOUS

(* emplace() puts the function behind the others, which stay in place. *)
LEMMA PushIsLast ==
    ASSUME NEW S, NEW q \in Seq(S), NEW t \in S
    PROVE  /\ Len(Append(q, t)) = Len(q) + 1
           /\ Append(q, t)[Len(q) + 1] = t
           /\ \A i \in 1..Len(q) : Append(q, t)[i] = q[i]
  OBVIOUS

(* Every variable keeps its type (server.cpp:36-48, 68-91). *)
LEMMA Typing == ASSUME TypeOK, [Next]_vars PROVE TypeOK'
<1> USE ServerDispatchAssumption DEF Pushers
<1>1. ASSUME NEW p \in Pushers, NEW t \in Tasks, PushEmplace(p, t) PROVE TypeOK'
  BY <1>1 DEF TypeOK, PushEmplace
<1>2. ASSUME NEW p \in Pushers, PushExchange(p) PROVE TypeOK'
  BY <1>2 DEF TypeOK, PushExchange
<1>3. ASSUME NEW p \in Pushers, NEW w \in Workers, PushSet(p, w) PROVE TypeOK'
  BY <1>3 DEF TypeOK, PushSet
<1>4. ASSUME NEW p \in Pushers, PushSetNoQueue(p) PROVE TypeOK'
  BY <1>4 DEF TypeOK, PushSetNoQueue
<1>5. ASSUME NEW w \in Workers, NextAlarm(w) PROVE TypeOK'
  BY <1>5 DEF TypeOK, NextAlarm
<1>6. ASSUME NEW w \in Workers, PopTask(w) PROVE TypeOK'
  <2>1. Head(m_dispatch_queue) \in Tasks /\ Tail(m_dispatch_queue) \in Seq(Tasks)
    BY <1>6, PopIsFirst DEF TypeOK, PopTask
  <2>2. CASE Head(m_dispatch_queue) \in EmptyFns
    <3>1. /\ m_dispatch_queue' = Tail(m_dispatch_queue)
          /\ finished' = finished \cup {Head(m_dispatch_queue)}
          /\ UNCHANGED <<pc, current, alarms, push, life, fault>>
      BY <1>6, <2>2 DEF PopTask
    <3> QED BY <2>1, <3>1 DEF TypeOK
  <2>3. CASE Head(m_dispatch_queue) \notin EmptyFns
    <3>1. /\ m_dispatch_queue' = Tail(m_dispatch_queue)
          /\ current' = [current EXCEPT ![w] = Head(m_dispatch_queue)]
          /\ pc' = [pc EXCEPT ![w] = IF @ = "drain" THEN "run" ELSE "run_again"]
          /\ UNCHANGED <<alarms, push, finished, life, fault>>
          /\ pc[w] \in {"drain", "drain_again"}
      BY <1>6, <2>3 DEF PopTask
    <3> QED BY <2>1, <3>1 DEF TypeOK
  <2> QED BY <2>2, <2>3
<1>7. ASSUME NEW w \in Workers, EndTask(w) PROVE TypeOK'
  BY <1>7 DEF TypeOK, EndTask
<1>8. ASSUME NEW w \in Workers, PopEmpty(w) PROVE TypeOK'
  BY <1>8 DEF TypeOK, PopEmpty
<1>9. ASSUME NEW w \in Workers, StoreNeedAlarm(w) PROVE TypeOK'
  BY <1>9 DEF TypeOK, StoreNeedAlarm
<1>10. ASSUME NEW w \in Workers, NextRpc(w) PROVE TypeOK'
  BY <1>10 DEF TypeOK, NextRpc
<1>11. ASSUME NEW w \in Workers, EndRpc(w) PROVE TypeOK'
  BY <1>11 DEF TypeOK, EndRpc
<1>12. ASSUME NEW w \in Workers, NextShutdown(w) PROVE TypeOK'
  BY <1>12 DEF TypeOK, NextShutdown
<1>13. ASSUME NEW w \in Workers, ShutdownCq(w) PROVE TypeOK'
  BY <1>13 DEF TypeOK, ShutdownCq
<1>14. CASE AlarmFires
  BY <1>14 DEF TypeOK, AlarmFires
<1>15. CASE StopServer
  BY <1>15 DEF TypeOK, StopServer
<1>16. CASE ServerIsShut
  BY <1>16 DEF TypeOK, ServerIsShut
<1>17. CASE Joined
  BY <1>17 DEF TypeOK, Joined
<1>18. CASE UNCHANGED vars
  BY <1>18 DEF TypeOK, vars
<1> QED
  BY <1>1, <1>2, <1>3, <1>4, <1>5, <1>6, <1>7, <1>8, <1>9,
     <1>10, <1>11, <1>12, <1>13, <1>14, <1>15, <1>16, <1>17, <1>18
  DEF Next, WorkerStep, PushStep, Terminated

LEMMA Initially == Init => IInv
<1> SUFFICES ASSUME Init PROVE IInv
  OBVIOUS
<1> USE ServerDispatchAssumption DEF Init, Pushers
<1>1. TypeOK
  <2>1. m_dispatch_queue \in Seq(Tasks)
    OBVIOUS
  <2>2. /\ push \in [Pushers -> {"idle", "emplaced", "won"}]
        /\ \A w \in Workers : push[w] = "idle"
    OBVIOUS
  <2>3. /\ current \in [Workers -> Tasks \cup {NoTask}]
        /\ \A w \in Workers : /\ current[w] = NoTask
                              /\ pc[w] = IF w \in m_cqs THEN "next" ELSE "none"
    OBVIOUS
  <2> QED BY <2>1, <2>2, <2>3 DEF TypeOK
<1>2. OneToken
  BY DEF OneToken, Holding
<1>3. NoLostWakeup
  BY DEF NoLostWakeup
<1>4. QueuesInUse /\ Teardown
  BY DEF QueuesInUse, Teardown
<1>5. PushDefined
  BY DEF PushDefined, Ok
<1>6. InOnePlace
  BY DEF InOnePlace
<1> QED BY <1>1, <1>2, <1>3, <1>4, <1>5, <1>6 DEF IInv

(* No step breaks the correspondence of the flag with the one alarm on its *)
(* way (server.cpp:42, 87).                                                *)
LEMMA TokenKept == ASSUME TypeOK, TypeOK', OneToken, [Next]_vars PROVE OneToken'
<1> USE ServerDispatchAssumption DEF Pushers
<1>1. ASSUME NEW p \in Pushers, NEW t \in Tasks, PushEmplace(p, t) PROVE OneToken'
  BY <1>1 DEF TypeOK, OneToken, Holding, PushEmplace
<1>2. ASSUME NEW p \in Pushers, PushExchange(p) PROVE OneToken'
  BY <1>2 DEF TypeOK, OneToken, Holding, PushExchange
<1>3. ASSUME NEW p \in Pushers, NEW w \in Workers, PushSet(p, w) PROVE OneToken'
  BY <1>3 DEF TypeOK, OneToken, Holding, PushSet
<1>4. ASSUME NEW p \in Pushers, PushSetNoQueue(p) PROVE OneToken'
  BY <1>4 DEF TypeOK, OneToken, Holding, PushSetNoQueue
<1>5. ASSUME NEW w \in Workers, NextAlarm(w) PROVE OneToken'
  BY <1>5 DEF TypeOK, OneToken, Holding, NextAlarm
<1>6. ASSUME NEW w \in Workers, PopTask(w) PROVE OneToken'
  BY <1>6 DEF TypeOK, OneToken, Holding, PopTask
<1>7. ASSUME NEW w \in Workers, EndTask(w) PROVE OneToken'
  BY <1>7 DEF TypeOK, OneToken, Holding, EndTask
<1>8. ASSUME NEW w \in Workers, PopEmpty(w) PROVE OneToken'
  BY <1>8 DEF TypeOK, OneToken, Holding, PopEmpty
<1>9. ASSUME NEW w \in Workers, StoreNeedAlarm(w) PROVE OneToken'
  BY <1>9 DEF TypeOK, OneToken, Holding, StoreNeedAlarm
<1>10. ASSUME NEW w \in Workers, NextRpc(w) PROVE OneToken'
  BY <1>10 DEF TypeOK, OneToken, Holding, NextRpc
<1>11. ASSUME NEW w \in Workers, EndRpc(w) PROVE OneToken'
  BY <1>11 DEF TypeOK, OneToken, Holding, EndRpc
<1>12. ASSUME NEW w \in Workers, NextShutdown(w) PROVE OneToken'
  BY <1>12 DEF TypeOK, OneToken, Holding, NextShutdown
<1>13. ASSUME NEW w \in Workers, ShutdownCq(w) PROVE OneToken'
  BY <1>13 DEF TypeOK, OneToken, Holding, ShutdownCq
<1>14. CASE AlarmFires
  BY <1>14 DEF TypeOK, OneToken, Holding, AlarmFires
<1>15. CASE StopServer
  BY <1>15 DEF TypeOK, OneToken, Holding, StopServer
<1>16. CASE ServerIsShut
  BY <1>16 DEF TypeOK, OneToken, Holding, ServerIsShut
<1>17. CASE Joined
  BY <1>17 DEF TypeOK, OneToken, Holding, Joined
<1>18. CASE UNCHANGED vars
  BY <1>18 DEF TypeOK, OneToken, Holding, vars
<1> QED
  BY <1>1, <1>2, <1>3, <1>4, <1>5, <1>6, <1>7, <1>8, <1>9,
     <1>10, <1>11, <1>12, <1>13, <1>14, <1>15, <1>16, <1>17, <1>18
  DEF Next, WorkerStep, PushStep, Terminated

(* No step leaves a function in the queue without a wakeup on its way      *)
(* (server.cpp:36-48, 86-87).                                              *)
LEMMA WakeupKept ==
    ASSUME TypeOK, TypeOK', OneToken, NoLostWakeup, [Next]_vars
    PROVE  NoLostWakeup'
<1> USE ServerDispatchAssumption DEF Pushers
<1>1. ASSUME NEW p \in Pushers, NEW t \in Tasks, PushEmplace(p, t) PROVE NoLostWakeup'
  BY <1>1 DEF TypeOK, NoLostWakeup, OneToken, Holding, PushEmplace
<1>2. ASSUME NEW p \in Pushers, PushExchange(p) PROVE NoLostWakeup'
  BY <1>2 DEF TypeOK, NoLostWakeup, OneToken, Holding, PushExchange
<1>3. ASSUME NEW p \in Pushers, NEW w \in Workers, PushSet(p, w) PROVE NoLostWakeup'
  BY <1>3 DEF TypeOK, NoLostWakeup, OneToken, Holding, PushSet
<1>4. ASSUME NEW p \in Pushers, PushSetNoQueue(p) PROVE NoLostWakeup'
  BY <1>4 DEF TypeOK, NoLostWakeup, OneToken, Holding, PushSetNoQueue
<1>5. ASSUME NEW w \in Workers, NextAlarm(w) PROVE NoLostWakeup'
  BY <1>5 DEF TypeOK, NoLostWakeup, OneToken, Holding, NextAlarm
<1>6. ASSUME NEW w \in Workers, PopTask(w) PROVE NoLostWakeup'
  BY <1>6 DEF TypeOK, NoLostWakeup, OneToken, Holding, PopTask
<1>7. ASSUME NEW w \in Workers, EndTask(w) PROVE NoLostWakeup'
  BY <1>7 DEF TypeOK, NoLostWakeup, OneToken, Holding, EndTask
<1>8. ASSUME NEW w \in Workers, PopEmpty(w) PROVE NoLostWakeup'
  BY <1>8 DEF TypeOK, NoLostWakeup, OneToken, Holding, PopEmpty
<1>9. ASSUME NEW w \in Workers, StoreNeedAlarm(w) PROVE NoLostWakeup'
  BY <1>9 DEF TypeOK, NoLostWakeup, OneToken, Holding, StoreNeedAlarm
<1>10. ASSUME NEW w \in Workers, NextRpc(w) PROVE NoLostWakeup'
  BY <1>10 DEF TypeOK, NoLostWakeup, OneToken, Holding, NextRpc
<1>11. ASSUME NEW w \in Workers, EndRpc(w) PROVE NoLostWakeup'
  BY <1>11 DEF TypeOK, NoLostWakeup, OneToken, Holding, EndRpc
<1>12. ASSUME NEW w \in Workers, NextShutdown(w) PROVE NoLostWakeup'
  BY <1>12 DEF TypeOK, NoLostWakeup, OneToken, Holding, NextShutdown
<1>13. ASSUME NEW w \in Workers, ShutdownCq(w) PROVE NoLostWakeup'
  BY <1>13 DEF TypeOK, NoLostWakeup, OneToken, Holding, ShutdownCq
<1>14. CASE AlarmFires
  BY <1>14 DEF TypeOK, NoLostWakeup, OneToken, Holding, AlarmFires
<1>15. CASE StopServer
  BY <1>15 DEF TypeOK, NoLostWakeup, OneToken, Holding, StopServer
<1>16. CASE ServerIsShut
  BY <1>16 DEF TypeOK, NoLostWakeup, OneToken, Holding, ServerIsShut
<1>17. CASE Joined
  BY <1>17 DEF TypeOK, NoLostWakeup, OneToken, Holding, Joined
<1>18. CASE UNCHANGED vars
  BY <1>18 DEF TypeOK, NoLostWakeup, OneToken, Holding, vars
<1> QED
  BY <1>1, <1>2, <1>3, <1>4, <1>5, <1>6, <1>7, <1>8, <1>9,
     <1>10, <1>11, <1>12, <1>13, <1>14, <1>15, <1>16, <1>17, <1>18
  DEF Next, WorkerStep, PushStep, Terminated

(* No step sets the alarm on a queue the server does not have              *)
(* (server.cpp:6-10, 78, 88-89).                                           *)
LEMMA QueuesKept ==
    ASSUME TypeOK, TypeOK', QueuesInUse, [Next]_vars
    PROVE  QueuesInUse'
<1> USE ServerDispatchAssumption DEF Pushers
<1>1. ASSUME NEW p \in Pushers, NEW t \in Tasks, PushEmplace(p, t) PROVE QueuesInUse'
  BY <1>1 DEF TypeOK, QueuesInUse, PushEmplace
<1>2. ASSUME NEW p \in Pushers, PushExchange(p) PROVE QueuesInUse'
  BY <1>2 DEF TypeOK, QueuesInUse, PushExchange
<1>3. ASSUME NEW p \in Pushers, NEW w \in Workers, PushSet(p, w) PROVE QueuesInUse'
  BY <1>3 DEF TypeOK, QueuesInUse, PushSet
<1>4. ASSUME NEW p \in Pushers, PushSetNoQueue(p) PROVE QueuesInUse'
  BY <1>4 DEF TypeOK, QueuesInUse, PushSetNoQueue
<1>5. ASSUME NEW w \in Workers, NextAlarm(w) PROVE QueuesInUse'
  BY <1>5 DEF TypeOK, QueuesInUse, NextAlarm
<1>6. ASSUME NEW w \in Workers, PopTask(w) PROVE QueuesInUse'
  BY <1>6 DEF TypeOK, QueuesInUse, PopTask
<1>7. ASSUME NEW w \in Workers, EndTask(w) PROVE QueuesInUse'
  BY <1>7 DEF TypeOK, QueuesInUse, EndTask
<1>8. ASSUME NEW w \in Workers, PopEmpty(w) PROVE QueuesInUse'
  BY <1>8 DEF TypeOK, QueuesInUse, PopEmpty
<1>9. ASSUME NEW w \in Workers, StoreNeedAlarm(w) PROVE QueuesInUse'
  BY <1>9 DEF TypeOK, QueuesInUse, StoreNeedAlarm
<1>10. ASSUME NEW w \in Workers, NextRpc(w) PROVE QueuesInUse'
  BY <1>10 DEF TypeOK, QueuesInUse, NextRpc
<1>11. ASSUME NEW w \in Workers, EndRpc(w) PROVE QueuesInUse'
  BY <1>11 DEF TypeOK, QueuesInUse, EndRpc
<1>12. ASSUME NEW w \in Workers, NextShutdown(w) PROVE QueuesInUse'
  BY <1>12 DEF TypeOK, QueuesInUse, NextShutdown
<1>13. ASSUME NEW w \in Workers, ShutdownCq(w) PROVE QueuesInUse'
  BY <1>13 DEF TypeOK, QueuesInUse, ShutdownCq
<1>14. CASE AlarmFires
  BY <1>14 DEF TypeOK, QueuesInUse, AlarmFires
<1>15. CASE StopServer
  BY <1>15 DEF TypeOK, QueuesInUse, StopServer
<1>16. CASE ServerIsShut
  BY <1>16 DEF TypeOK, QueuesInUse, ServerIsShut
<1>17. CASE Joined
  BY <1>17 DEF TypeOK, QueuesInUse, Joined
<1>18. CASE UNCHANGED vars
  BY <1>18 DEF TypeOK, QueuesInUse, vars
<1> QED
  BY <1>1, <1>2, <1>3, <1>4, <1>5, <1>6, <1>7, <1>8, <1>9,
     <1>10, <1>11, <1>12, <1>13, <1>14, <1>15, <1>16, <1>17, <1>18
  DEF Next, WorkerStep, PushStep, Terminated

(* The order of stop(): server, completion queues, threads                 *)
(* (server.cpp:69-78).                                                     *)
LEMMA TeardownKept ==
    ASSUME TypeOK, TypeOK', OneToken, QueuesInUse, Teardown, [Next]_vars
    PROVE  Teardown'
<1> USE ServerDispatchAssumption DEF Pushers
<1>1. ASSUME NEW p \in Pushers, NEW t \in Tasks, PushEmplace(p, t) PROVE Teardown'
  BY <1>1 DEF TypeOK, QueuesInUse, Teardown, OneToken, Holding, PushEmplace
<1>2. ASSUME NEW p \in Pushers, PushExchange(p) PROVE Teardown'
  BY <1>2 DEF TypeOK, QueuesInUse, Teardown, OneToken, Holding, PushExchange
<1>3. ASSUME NEW p \in Pushers, NEW w \in Workers, PushSet(p, w) PROVE Teardown'
  BY <1>3 DEF TypeOK, QueuesInUse, Teardown, OneToken, Holding, PushSet
<1>4. ASSUME NEW p \in Pushers, PushSetNoQueue(p) PROVE Teardown'
  BY <1>4 DEF TypeOK, QueuesInUse, Teardown, OneToken, Holding, PushSetNoQueue
<1>5. ASSUME NEW w \in Workers, NextAlarm(w) PROVE Teardown'
  BY <1>5 DEF TypeOK, QueuesInUse, Teardown, OneToken, Holding, NextAlarm
<1>6. ASSUME NEW w \in Workers, PopTask(w) PROVE Teardown'
  BY <1>6 DEF TypeOK, QueuesInUse, Teardown, OneToken, Holding, PopTask
<1>7. ASSUME NEW w \in Workers, EndTask(w) PROVE Teardown'
  BY <1>7 DEF TypeOK, QueuesInUse, Teardown, OneToken, Holding, EndTask
<1>8. ASSUME NEW w \in Workers, PopEmpty(w) PROVE Teardown'
  BY <1>8 DEF TypeOK, QueuesInUse, Teardown, OneToken, Holding, PopEmpty
<1>9. ASSUME NEW w \in Workers, StoreNeedAlarm(w) PROVE Teardown'
  BY <1>9 DEF TypeOK, QueuesInUse, Teardown, OneToken, Holding, StoreNeedAlarm
<1>10. ASSUME NEW w \in Workers, NextRpc(w) PROVE Teardown'
  BY <1>10 DEF TypeOK, QueuesInUse, Teardown, OneToken, Holding, NextRpc
<1>11. ASSUME NEW w \in Workers, EndRpc(w) PROVE Teardown'
  BY <1>11 DEF TypeOK, QueuesInUse, Teardown, OneToken, Holding, EndRpc
<1>12. ASSUME NEW w \in Workers, NextShutdown(w) PROVE Teardown'
  BY <1>12 DEF TypeOK, QueuesInUse, Teardown, OneToken, Holding, NextShutdown
<1>13. ASSUME NEW w \in Workers, ShutdownCq(w) PROVE Teardown'
  BY <1>13 DEF TypeOK, QueuesInUse, Teardown, OneToken, Holding, ShutdownCq
<1>14. CASE AlarmFires
  BY <1>14 DEF TypeOK, QueuesInUse, Teardown, OneToken, Holding, AlarmFires
<1>15. CASE StopServer
  BY <1>15 DEF TypeOK, QueuesInUse, Teardown, OneToken, Holding, StopServer
<1>16. CASE ServerIsShut
  BY <1>16 DEF TypeOK, QueuesInUse, Teardown, OneToken, Holding, ServerIsShut
<1>17. CASE Joined
  BY <1>17 DEF TypeOK, QueuesInUse, Teardown, OneToken, Holding, Joined
<1>18. CASE UNCHANGED vars
  BY <1>18 DEF TypeOK, QueuesInUse, Teardown, OneToken, Holding, vars
<1> QED
  BY <1>1, <1>2, <1>3, <1>4, <1>5, <1>6, <1>7, <1>8, <1>9,
     <1>10, <1>11, <1>12, <1>13, <1>14, <1>15, <1>16, <1>17, <1>18
  DEF Next, WorkerStep, PushStep, Terminated

(* A push is defined if the server has a thread and is not being stopped   *)
(* (server.cpp:88-89).                                                     *)
LEMMA FaultKept ==
    ASSUME TypeOK, TypeOK', QueuesInUse, Teardown, PushDefined, [Next]_vars
    PROVE  PushDefined'
<1> USE ServerDispatchAssumption DEF Pushers
<1>1. ASSUME NEW p \in Pushers, NEW t \in Tasks, PushEmplace(p, t) PROVE PushDefined'
  BY <1>1 DEF TypeOK, QueuesInUse, Teardown, PushDefined, Ok, PushEmplace
<1>2. ASSUME NEW p \in Pushers, PushExchange(p) PROVE PushDefined'
  BY <1>2 DEF TypeOK, QueuesInUse, Teardown, PushDefined, Ok, PushExchange
<1>3. ASSUME NEW p \in Pushers, NEW w \in Workers, PushSet(p, w) PROVE PushDefined'
  BY <1>3 DEF TypeOK, QueuesInUse, Teardown, PushDefined, Ok, PushSet
<1>4. ASSUME NEW p \in Pushers, PushSetNoQueue(p) PROVE PushDefined'
  BY <1>4 DEF TypeOK, QueuesInUse, Teardown, PushDefined, Ok, PushSetNoQueue
<1>5. ASSUME NEW w \in Workers, NextAlarm(w) PROVE PushDefined'
  BY <1>5 DEF TypeOK, QueuesInUse, Teardown, PushDefined, Ok, NextAlarm
<1>6. ASSUME NEW w \in Workers, PopTask(w) PROVE PushDefined'
  BY <1>6 DEF TypeOK, QueuesInUse, Teardown, PushDefined, Ok, PopTask
<1>7. ASSUME NEW w \in Workers, EndTask(w) PROVE PushDefined'
  BY <1>7 DEF TypeOK, QueuesInUse, Teardown, PushDefined, Ok, EndTask
<1>8. ASSUME NEW w \in Workers, PopEmpty(w) PROVE PushDefined'
  BY <1>8 DEF TypeOK, QueuesInUse, Teardown, PushDefined, Ok, PopEmpty
<1>9. ASSUME NEW w \in Workers, StoreNeedAlarm(w) PROVE PushDefined'
  BY <1>9 DEF TypeOK, QueuesInUse, Teardown, PushDefined, Ok, StoreNeedAlarm
<1>10. ASSUME NEW w \in Workers, NextRpc(w) PROVE PushDefined'
  BY <1>10 DEF TypeOK, QueuesInUse, Teardown, PushDefined, Ok, NextRpc
<1>11. ASSUME NEW w \in Workers, EndRpc(w) PROVE PushDefined'
  BY <1>11 DEF TypeOK, QueuesInUse, Teardown, PushDefined, Ok, EndRpc
<1>12. ASSUME NEW w \in Workers, NextShutdown(w) PROVE PushDefined'
  BY <1>12 DEF TypeOK, QueuesInUse, Teardown, PushDefined, Ok, NextShutdown
<1>13. ASSUME NEW w \in Workers, ShutdownCq(w) PROVE PushDefined'
  BY <1>13 DEF TypeOK, QueuesInUse, Teardown, PushDefined, Ok, ShutdownCq
<1>14. CASE AlarmFires
  BY <1>14 DEF TypeOK, QueuesInUse, Teardown, PushDefined, Ok, AlarmFires
<1>15. CASE StopServer
  BY <1>15 DEF TypeOK, QueuesInUse, Teardown, PushDefined, Ok, StopServer
<1>16. CASE ServerIsShut
  BY <1>16 DEF TypeOK, QueuesInUse, Teardown, PushDefined, Ok, ServerIsShut
<1>17. CASE Joined
  BY <1>17 DEF TypeOK, QueuesInUse, Teardown, PushDefined, Ok, Joined
<1>18. CASE UNCHANGED vars
  BY <1>18 DEF TypeOK, QueuesInUse, Teardown, PushDefined, Ok, vars
<1> QED
  BY <1>1, <1>2, <1>3, <1>4, <1>5, <1>6, <1>7, <1>8, <1>9,
     <1>10, <1>11, <1>12, <1>13, <1>14, <1>15, <1>16, <1>17, <1>18
  DEF Next, WorkerStep, PushStep, Terminated

(* No function is duplicated (server.cpp:38-40, 44-46, 86).                *)
LEMMA PlaceKept ==
    ASSUME TypeOK, TypeOK', InOnePlace, [Next]_vars
    PROVE  InOnePlace'
<1> USE ServerDispatchAssumption DEF Pushers
<1>1. ASSUME NEW p \in Pushers, NEW t \in Tasks, PushEmplace(p, t) PROVE InOnePlace'
  <2>1. /\ Len(m_dispatch_queue') = Len(m_dispatch_queue) + 1
        /\ m_dispatch_queue'[Len(m_dispatch_queue) + 1] = t
        /\ \A i \in 1..Len(m_dispatch_queue) : m_dispatch_queue'[i] = m_dispatch_queue[i]
    BY <1>1, PushIsLast DEF TypeOK, PushEmplace
  <2>2. \A i \in 1..Len(m_dispatch_queue) : m_dispatch_queue[i] # t
    BY <1>1 DEF PushEmplace, Queued
  <2>3. t # NoTask /\ \A w \in Workers : current[w] # t
    BY <1>1 DEF PushEmplace, Executing
  <2>4. current' = current
    BY <1>1 DEF PushEmplace
  <2>5. Len(m_dispatch_queue) \in Nat
    BY DEF TypeOK
  <2>6. \A i \in 1..Len(m_dispatch_queue') :
          i \in 1..Len(m_dispatch_queue) \/ i = Len(m_dispatch_queue) + 1
    BY <2>1, <2>5
  <2>7. \A i, j \in 1..Len(m_dispatch_queue') :
          m_dispatch_queue'[i] = m_dispatch_queue'[j] => i = j
    BY <2>1, <2>2, <2>6 DEF InOnePlace
  <2>8. \A i \in 1..Len(m_dispatch_queue'), w \in Workers :
          m_dispatch_queue'[i] # current'[w]
    BY <2>1, <2>3, <2>4, <2>6 DEF InOnePlace
  <2> QED BY <2>4, <2>7, <2>8 DEF InOnePlace
<1>2. ASSUME NEW p \in Pushers, PushExchange(p) PROVE InOnePlace'
  BY <1>2 DEF TypeOK, InOnePlace, PushExchange
<1>3. ASSUME NEW p \in Pushers, NEW w \in Workers, PushSet(p, w) PROVE InOnePlace'
  BY <1>3 DEF TypeOK, InOnePlace, PushSet
<1>4. ASSUME NEW p \in Pushers, PushSetNoQueue(p) PROVE InOnePlace'
  BY <1>4 DEF TypeOK, InOnePlace, PushSetNoQueue
<1>5. ASSUME NEW w \in Workers, NextAlarm(w) PROVE InOnePlace'
  <2>1. m_dispatch_queue' = m_dispatch_queue /\ current' = current
    BY <1>5 DEF NextAlarm
  <2> QED BY <2>1 DEF InOnePlace
<1>6. ASSUME NEW w \in Workers, PopTask(w) PROVE InOnePlace'
  <2> DEFINE fn == Head(m_dispatch_queue)
             n == Len(Tail(m_dispatch_queue))
  <2>1. /\ fn = m_dispatch_queue[1]
        /\ n \in Nat
        /\ Len(m_dispatch_queue) = n + 1
        /\ \A i \in 1..n : Tail(m_dispatch_queue)[i] = m_dispatch_queue[i + 1]
    BY <1>6, PopIsFirst DEF TypeOK, PopTask
  <2>2. m_dispatch_queue' = Tail(m_dispatch_queue)
    BY <1>6 DEF PopTask
  <2>3. \A i \in 1..n : i + 1 \in 1..Len(m_dispatch_queue) /\ i + 1 # 1
    BY <2>1
  <2>4. \A i, j \in 1..n : m_dispatch_queue'[i] = m_dispatch_queue'[j] => i = j
    BY <2>1, <2>2, <2>3 DEF InOnePlace
  <2>5. \A i \in 1..n : /\ m_dispatch_queue'[i] # fn
                        /\ \A v \in Workers : m_dispatch_queue'[i] # current[v]
    BY <2>1, <2>2, <2>3 DEF InOnePlace
  <2>6. \A v \in Workers : fn # current[v]
    BY <2>1 DEF InOnePlace
  <2>7. current' = current \/ current' = [current EXCEPT ![w] = fn]
    BY <1>6 DEF PopTask
  <2>8. \A v \in Workers : current'[v] = current[v] \/ (v = w /\ current'[v] = fn)
    BY <2>7 DEF TypeOK
  <2> QED BY <2>2, <2>4, <2>5, <2>6, <2>8 DEF InOnePlace
<1>7. ASSUME NEW w \in Workers, EndTask(w) PROVE InOnePlace'
  BY <1>7 DEF TypeOK, InOnePlace, EndTask
<1>8. ASSUME NEW w \in Workers, PopEmpty(w) PROVE InOnePlace'
  BY <1>8 DEF TypeOK, InOnePlace, PopEmpty
<1>9. ASSUME NEW w \in Workers, StoreNeedAlarm(w) PROVE InOnePlace'
  BY <1>9 DEF TypeOK, InOnePlace, StoreNeedAlarm
<1>10. ASSUME NEW w \in Workers, NextRpc(w) PROVE InOnePlace'
  BY <1>10 DEF TypeOK, InOnePlace, NextRpc
<1>11. ASSUME NEW w \in Workers, EndRpc(w) PROVE InOnePlace'
  BY <1>11 DEF TypeOK, InOnePlace, EndRpc
<1>12. ASSUME NEW w \in Workers, NextShutdown(w) PROVE InOnePlace'
  BY <1>12 DEF TypeOK, InOnePlace, NextShutdown
<1>13. ASSUME NEW w \in Workers, ShutdownCq(w) PROVE InOnePlace'
  BY <1>13 DEF TypeOK, InOnePlace, ShutdownCq
<1>14. CASE AlarmFires
  BY <1>14 DEF TypeOK, InOnePlace, AlarmFires
<1>15. CASE StopServer
  BY <1>15 DEF TypeOK, InOnePlace, StopServer
<1>16. CASE ServerIsShut
  BY <1>16 DEF TypeOK, InOnePlace, ServerIsShut
<1>17. CASE Joined
  BY <1>17 DEF TypeOK, InOnePlace, Joined
<1>18. CASE UNCHANGED vars
  BY <1>18 DEF TypeOK, InOnePlace, vars
<1> QED
  BY <1>1, <1>2, <1>3, <1>4, <1>5, <1>6, <1>7, <1>8, <1>9,
     <1>10, <1>11, <1>12, <1>13, <1>14, <1>15, <1>16, <1>17, <1>18
  DEF Next, WorkerStep, PushStep, Terminated

LEMMA Inductive == IInv /\ [Next]_vars => IInv'
  BY Typing, TokenKept, WakeupKept, QueuesKept, TeardownKept, FaultKept, PlaceKept
  DEF IInv

(* The inductive invariant holds in every reachable state. *)
THEOREM Invariance == Spec => []IInv
  BY Initially, Inductive, PTL DEF Spec

(* The variables of the dispatcher keep their types. *)
THEOREM TypeCorrect == Spec => []TypeOK
  BY Invariance, PTL DEF IInv

(* No function waits without a wakeup on its way, whatever the number of   *)
(* completion queues (server.cpp:36-48, 86-87).                            *)
THEOREM WakeupNeverLost == Spec => []NoLostWakeup
  BY Invariance, PTL DEF IInv

(* The alarm is never set twice (server.cpp:42, 87-89). *)
THEOREM AlarmNeverSetTwice == Spec => []OneAlarm
<1>1. IInv => OneAlarm
  BY DEF IInv, OneToken, OneAlarm
<1> QED BY <1>1, Invariance, PTL

(* stop() drops no function unless the program pushes regardless of it     *)
(* (server.cpp:27-30, 68-79).                                              *)
THEOREM StopDropsNothing == Spec => []NothingDropped
<1>1. IInv => NothingDropped
  <2> SUFFICES ASSUME IInv, stop = "stopped", ~LatePush
               PROVE  m_dispatch_queue = <<>> /\ Executing = {}
    BY DEF NothingDropped
  <2>1. \A w \in Workers : /\ pc[w] \in {"exited", "none"}
                          /\ current[w] = NoTask
                          /\ push[w] = "idle"
    BY DEF IInv, TypeOK, Teardown
  <2>2. \A p \in Pushers : push[p] = "idle"
    BY <2>1 DEF IInv, Teardown, Pushers
  <2>3. alarm = "idle"
    <3> SUFFICES ASSUME alarm # "idle" PROVE FALSE
      OBVIOUS
    <3>1. alarm_cq \in Workers /\ pc[alarm_cq] # "none"
      BY DEF IInv, QueuesInUse
    <3> QED BY <2>1, <3>1 DEF IInv, Teardown
  <2>4. m_dispatch_queue = <<>>
    BY <2>1, <2>2, <2>3 DEF IInv, NoLostWakeup
  <2> QED BY <2>1, <2>4 DEF Executing
<1> QED BY <1>1, Invariance, PTL

(* A push divides by zero only on a server of no threads or after stop()   *)
(* has returned, and makes gRPC abort only while stop() shuts the queues   *)
(* down (server.cpp:6-10, 71-78, 88-89).                                   *)
THEOREM PushIsDefined == Spec => []PushDefined
  BY Invariance, PTL DEF IInv

-----------------------------------------------------------------------------
(* The server implements the abstract dispatcher: emplace is the           *)
(* submission, pop the start of a function, the return of the call its     *)
(* end, everything else is invisible (server.cpp:36-48, 85-91).            *)
THEOREM Refinement == Spec => IsDispatcher
<1>1. Init => Abstract!Init
  BY DEF Init, Executing, Abstract!Init
<1>2. IInv /\ [Next]_vars => [Abstract!Next]_(Abstract!vars)
  <2> SUFFICES ASSUME IInv, [Next]_vars
               PROVE Abstract!Next \/ UNCHANGED <<m_dispatch_queue, Executing, finished>>
    BY DEF Abstract!vars
  <2> USE ServerDispatchAssumption
  <2>0. TypeOK /\ InOnePlace
    BY DEF IInv
  <2>1. ASSUME NEW p \in Pushers, NEW t \in Tasks, PushEmplace(p, t)
        PROVE Abstract!Next
    <3>1. Abstract!Submit(t)
      BY <2>1 DEF PushEmplace, Queued, Executing, Abstract!Submit, Abstract!Waiting
    <3> QED BY <3>1 DEF Abstract!Next
  <2>2. ASSUME NEW w \in Workers, PopTask(w) PROVE Abstract!Next
    <3>1. current[w] = NoTask /\ Head(m_dispatch_queue) \in Tasks
      BY <2>0, <2>2, PopIsFirst DEF PopTask, TypeOK
    <3>2. CASE Head(m_dispatch_queue) \in EmptyFns
      <4>1. Abstract!Skip
        BY <2>2, <3>2 DEF PopTask, Executing, Abstract!Skip
      <4> QED BY <4>1 DEF Abstract!Next
    <3>3. CASE Head(m_dispatch_queue) \notin EmptyFns
      <4>1. current' = [current EXCEPT ![w] = Head(m_dispatch_queue)]
        BY <2>2, <3>3 DEF PopTask
      <4>2. Executing' = Executing \cup {Head(m_dispatch_queue)}
        BY <2>0, <3>1, <4>1 DEF Executing, TypeOK
      <4>3. Abstract!Start
        BY <2>2, <3>3, <4>2 DEF PopTask, Abstract!Start
      <4> QED BY <4>3 DEF Abstract!Next
    <3> QED BY <3>2, <3>3
  <2>3. ASSUME NEW w \in Workers, EndTask(w) PROVE Abstract!Next
    <3>1. current[w] \in Tasks /\ current[w] # NoTask
      BY <2>0, <2>3 DEF EndTask, TypeOK
    <3>2. \A v \in Workers \ {w} : current[v] # current[w]
      BY <2>0, <3>1 DEF InOnePlace
    <3>3. current' = [current EXCEPT ![w] = NoTask]
      BY <2>3 DEF EndTask
    <3>4. Executing' = Executing \ {current[w]}
      BY <2>0, <3>1, <3>2, <3>3 DEF Executing, TypeOK
    <3>5. Abstract!Finish(current[w])
      BY <2>3, <3>1, <3>4 DEF EndTask, Executing, Abstract!Finish
    <3> QED BY <3>1, <3>5 DEF Abstract!Next
  <2>4. CASE \E w \in Workers : \/ NextAlarm(w) \/ PopEmpty(w) \/ StoreNeedAlarm(w)
                                \/ NextRpc(w) \/ EndRpc(w) \/ NextShutdown(w)
                                \/ ShutdownCq(w)
    BY <2>4 DEF NextAlarm, PopEmpty, StoreNeedAlarm, NextRpc, EndRpc, NextShutdown,
                ShutdownCq, Executing
  <2>5. CASE \E p \in Pushers : \/ PushExchange(p) \/ PushSetNoQueue(p)
                                \/ \E w \in Workers : PushSet(p, w)
    BY <2>5 DEF PushExchange, PushSetNoQueue, PushSet, Executing
  <2>6. CASE AlarmFires \/ StopServer \/ ServerIsShut \/ Joined \/ UNCHANGED vars
    BY <2>6 DEF AlarmFires, StopServer, ServerIsShut, Joined, vars, Executing
  <2> QED
    BY <2>1, <2>2, <2>3, <2>4, <2>5, <2>6
    DEF Next, WorkerStep, PushStep, Terminated
<1> QED BY <1>1, <1>2, Invariance, PTL DEF Spec, IsDispatcher, Abstract!Spec
=============================================================================
