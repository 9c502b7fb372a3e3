--------------------------- MODULE ServerDispatch ---------------------------
(***************************************************************************)
(* asyncpp::grpc::server as a dispatcher: one queue of functions,          *)
(* m_dispatch_queue, served by the threads of all completion queues, and   *)
(* one alarm, m_dispatch_alarm, that brings one of them into               *)
(* handle_event().  push() sets the alarm only if m_dispatch_need_alarm    *)
(* was true; handle_event() drains the queue, stores true and drains it    *)
(* again.                                                                  *)
(*                                                                         *)
(* The threads are those of the server, server::m_threads, each with its   *)
(* completion queue, and the Threads of the program that push.  A server   *)
(* may have any number of threads, none included: it is made of some of    *)
(* the Workers.  Functions and the RPCs the workers serve may push as well *)
(* (Nested).  Threads push until stop() is called, or without regard to it *)
(* (LatePush).                                                             *)
(*                                                                         *)
(* gRPC is external: Server::Shutdown() returns at some time; setting an   *)
(* alarm on a queue that is shut down and has nothing in flight aborts.    *)
(***************************************************************************)
EXTENDS Integers, Sequences

CONSTANTS Tasks,      \* the functions pushed, each at most once
          EmptyFns,   \* those of Tasks that are empty std::functions
          NoTask,     \* no function is running
          Threads,    \* the threads of the program that push
          Workers,    \* the threads a server may have
          NoCq,       \* the alarm has not been set yet
          Nested,     \* whether functions and RPCs push
          LatePush    \* whether Threads push during and after stop()

ASSUME ServerDispatchAssumption == /\ NoTask \notin Tasks
                                   /\ NoCq \notin Workers
                                   /\ Threads \cap Workers = {}
                                   /\ EmptyFns \subseteq Tasks
                                   /\ Nested \in BOOLEAN
                                   /\ LatePush \in BOOLEAN

VARIABLES m_cqs,                  \* the completion queues, by their workers
          m_dispatch_queue,       \* the queue of functions, oldest first
          m_dispatch_need_alarm,  \* the atomic bool
          alarm,                  \* m_dispatch_alarm: idle, armed or fired
          alarm_cq,               \* the completion queue it was set on
          pc,                     \* where each worker is
          current,                \* the function each worker is running
          push,                   \* how far each thread is in push()
          finished,               \* the functions executed or dropped
          stop,                   \* how far stop() is
          shut,                   \* the completion queues shut down
          fault                   \* the abort or undefined behaviour met

vars == <<m_cqs, m_dispatch_queue, m_dispatch_need_alarm, alarm, alarm_cq, pc,
          current, push, finished, stop, shut, fault>>

alarms == <<m_dispatch_need_alarm, alarm, alarm_cq>>
life == <<m_cqs, stop, shut>>

Pushers == Threads \cup Workers

Queued == {m_dispatch_queue[i] : i \in 1..Len(m_dispatch_queue)}

Executing == {current[w] : w \in Workers} \ {NoTask}

Ok == fault = "none"

(* The constructor has made one completion queue and one thread for each   *)
(* of thread_count.                                                        *)
Init == /\ m_cqs \in SUBSET Workers
        /\ m_dispatch_queue = <<>>
        /\ m_dispatch_need_alarm = TRUE
        /\ alarm = "idle"
        /\ alarm_cq = NoCq
        /\ pc = [w \in Workers |-> IF w \in m_cqs THEN "next" ELSE "none"]
        /\ current = [w \in Workers |-> NoTask]
        /\ push = [p \in Pushers |-> "idle"]
        /\ finished = {}
        /\ stop = "no"
        /\ shut = {}
        /\ fault = "none"

(* One worker goes on, and nothing else changes. *)
Move(w, from, to) == Ok /\ pc[w] = from /\ pc' = [pc EXCEPT ![w] = to]

JustMove(w, from, to) ==
    Move(w, from, to)
        /\ UNCHANGED <<m_dispatch_queue, alarms, current, push, finished, life, fault>>

-----------------------------------------------------------------------------
(* push(): m_dispatch_queue.emplace(std::move(fn)) *)
PushEmplace(p, t) ==
    /\ Ok
    /\ push[p] = "idle"
    /\ IF p \in Workers THEN Nested /\ pc[p] \in {"run", "run_again", "rpc"}
                        ELSE stop = "no" \/ LatePush
    /\ t \notin Queued \cup Executing \cup finished
    /\ m_dispatch_queue' = Append(m_dispatch_queue, t)
    /\ push' = [push EXCEPT ![p] = "emplaced"]
    /\ UNCHANGED <<alarms, pc, current, finished, life, fault>>

(* push(): m_dispatch_need_alarm.exchange(false).  Slip: the flag is read  *)
(* but stays true.                                                         *)
Exchange(p, left) ==
    /\ Ok
    /\ push[p] = "emplaced"
    /\ push' = [push EXCEPT ![p] = IF m_dispatch_need_alarm THEN "won" ELSE "idle"]
    /\ m_dispatch_need_alarm' = left
    /\ UNCHANGED <<m_dispatch_queue, alarm, alarm_cq, pc, current, finished, life,
                   fault>>

PushExchange_Load(p) == Exchange(p, m_dispatch_need_alarm)
PushExchange(p) == Exchange(p, FALSE)

(* push(): cq_idx is taken modulo the number of completion queues and the  *)
(* alarm set on that one.  One that is shut down takes it as long as       *)
(* events of RPCs are in flight on it, after which gRPC aborts.            *)
PushSet(p, w) ==
    /\ Ok
    /\ push[p] = "won"
    /\ w \in m_cqs
    /\ \/ /\ pc[w] # "exited"
          /\ alarm' = "armed"
          /\ alarm_cq' = w
          /\ push' = [push EXCEPT ![p] = "idle"]
          /\ UNCHANGED fault
       \/ /\ w \in shut
          /\ fault' = "aborted"
          /\ UNCHANGED <<alarm, alarm_cq, push>>
    /\ UNCHANGED <<m_dispatch_queue, m_dispatch_need_alarm, pc, current, finished,
                   life>>

(* push(): there is no completion queue after stop(), nor is there ever    *)
(* with a thread_count of zero.                                            *)
PushSetNoQueue(p) ==
    /\ Ok
    /\ push[p] = "won"
    /\ m_cqs = {}
    /\ fault' = "division_by_zero"
    /\ UNCHANGED <<m_dispatch_queue, alarms, pc, current, push, finished, life>>

-----------------------------------------------------------------------------
AlarmFires ==
    /\ Ok
    /\ alarm = "armed"
    /\ alarm' = "fired"
    /\ UNCHANGED <<m_dispatch_queue, m_dispatch_need_alarm, alarm_cq, pc, current,
                   push, finished, life, fault>>

(* Next() returns the alarm's tag: the worker enters handle_event(). *)
NextAlarm(w) ==
    /\ Move(w, "next", "drain")
    /\ alarm = "fired"
    /\ alarm_cq = w
    /\ alarm' = "idle"
    /\ UNCHANGED <<m_dispatch_queue, m_dispatch_need_alarm, alarm_cq, current, push,
                   finished, life, fault>>

(* Both loops: pop() returned a function, which is called if not empty.    *)
(* Slip: the function is not taken out of the queue.                       *)
Pop(w, rest) ==
    /\ Ok
    /\ pc[w] \in {"drain", "drain_again"}
    /\ m_dispatch_queue # <<>>
    /\ m_dispatch_queue' = rest
    /\ IF Head(m_dispatch_queue) \in EmptyFns
       THEN /\ finished' = finished \cup {Head(m_dispatch_queue)}
            /\ UNCHANGED <<pc, current>>
       ELSE /\ current' = [current EXCEPT ![w] = Head(m_dispatch_queue)]
            /\ pc' = [pc EXCEPT ![w] = IF @ = "drain" THEN "run" ELSE "run_again"]
            /\ UNCHANGED finished
    /\ UNCHANGED <<alarms, push, life, fault>>

PopTask_Peek(w) == Pop(w, m_dispatch_queue)
PopTask(w) == Pop(w, Tail(m_dispatch_queue))

(* The function returns.  Slip: it stays current. *)
TaskReturns(w, task) ==
    /\ Ok
    /\ pc[w] \in {"run", "run_again"}
    /\ push[w] = "idle"
    /\ finished' = finished \cup {current[w]}
    /\ current' = [current EXCEPT ![w] = task]
    /\ pc' = [pc EXCEPT ![w] = IF @ = "run" THEN "drain" ELSE "drain_again"]
    /\ UNCHANGED <<m_dispatch_queue, alarms, push, life, fault>>

EndTask_CurrentKept(w) == TaskReturns(w, current[w])
EndTask(w) == TaskReturns(w, NoTask)

(* pop() returned nothing: the loop ends, the first one before the store,  *)
(* the second one with handle_event().  Slip: handle_event() returns after *)
(* the first loop.                                                         *)
LoopEnds(w, from, to) == m_dispatch_queue = <<>> /\ JustMove(w, from, to)

PopEmpty_OneLoop(w) == LoopEnds(w, "drain", "next")
PopEmpty(w) == LoopEnds(w, "drain", "store") \/ LoopEnds(w, "drain_again", "next")

(* m_dispatch_need_alarm.store(true).  Slip: no second loop follows. *)
Store(w, to) ==
    /\ Move(w, "store", to)
    /\ m_dispatch_need_alarm' = TRUE
    /\ UNCHANGED <<m_dispatch_queue, alarm, alarm_cq, current, push, finished, life,
                   fault>>

StoreNeedAlarm_LastAction(w) == Store(w, "next")
StoreNeedAlarm(w) == Store(w, "drain_again")

(* Next() returns the tag of an RPC, or of a request that failed because   *)
(* of Shutdown(), and its handler runs.                                    *)
NextRpc(w) == JustMove(w, "next", "rpc")

EndRpc(w) == push[w] = "idle" /\ JustMove(w, "rpc", "next")

(* Next() returns false.  Slip: it does so as soon as the queue is shut    *)
(* down.                                                                   *)
NextShutdown_Early(w) == w \in shut /\ JustMove(w, "next", "exited")
NextShutdown(w) == /\ w \in shut
                   /\ alarm = "idle" \/ alarm_cq # w
                   /\ JustMove(w, "next", "exited")

-----------------------------------------------------------------------------
StopMoves(from, to) ==
    /\ Ok
    /\ stop = from
    /\ stop' = to
    /\ UNCHANGED <<m_dispatch_queue, alarms, pc, current, push, finished, shut, fault>>

(* stop(): m_server->Shutdown() is called. *)
StopServer == /\ LatePush \/ \A p \in Threads : push[p] = "idle"
              /\ StopMoves("no", "server")
              /\ UNCHANGED m_cqs

(* stop(): it has returned.  The last events of the RPCs may still be on   *)
(* their way.                                                              *)
ServerIsShut == StopMoves("server", "cqs") /\ UNCHANGED m_cqs

(* stop(): e->Shutdown() for one completion queue after the other.  Slips: *)
(* that does not wait for the server; only one is shut down.               *)
ShutdownQueue(w) ==
    /\ Ok
    /\ w \in m_cqs \ shut
    /\ shut' = shut \cup {w}
    /\ UNCHANGED <<m_cqs, m_dispatch_queue, alarms, pc, current, push, finished, stop,
                   fault>>

ShutdownCq_BeforeServer(w) == stop \in {"server", "cqs"} /\ ShutdownQueue(w)
ShutdownCq_One(w) == stop = "cqs" /\ shut = {} /\ ShutdownQueue(w)
ShutdownCq(w) == stop = "cqs" /\ ShutdownQueue(w)

(* stop(): all threads are joined, the completion queues, the threads and  *)
(* the server are destroyed.                                               *)
Joined == /\ \A w \in m_cqs : pc[w] = "exited"
          /\ StopMoves("cqs", "stopped")
          /\ m_cqs' = {}

Terminated == (stop = "stopped" \/ ~Ok) /\ UNCHANGED vars

-----------------------------------------------------------------------------
WorkerStep(w) == \/ NextAlarm(w) \/ PopTask(w) \/ EndTask(w) \/ PopEmpty(w)
                 \/ StoreNeedAlarm(w) \/ EndRpc(w) \/ NextShutdown(w)

PushStep(p) == \/ PushExchange(p)
               \/ \E w \in Workers : PushSet(p, w)
               \/ PushSetNoQueue(p)

Next == \/ \E p \in Pushers : PushStep(p) \/ \E t \in Tasks : PushEmplace(p, t)
        \/ \E w \in Workers : WorkerStep(w) \/ NextRpc(w) \/ ShutdownCq(w)
        \/ AlarmFires
        \/ StopServer \/ ServerIsShut \/ Joined
        \/ Terminated

(* Every thread that can run runs, functions and RPC handlers return, the  *)
(* alarm rings, stop() goes on once it is called.  A worker takes the      *)
(* alarm's event in spite of the RPC events that keep coming, as a         *)
(* completion queue is first in, first out; and it takes the last of       *)
(* those, as no RPC begins after Shutdown().                               *)
Fairness == /\ \A w \in Workers : /\ SF_vars(NextAlarm(w))
                                  /\ SF_vars(NextShutdown(w))
                                  /\ WF_vars(WorkerStep(w))
                                  /\ WF_vars(ShutdownCq(w))
            /\ \A p \in Pushers : WF_vars(PushStep(p))
            /\ WF_vars(AlarmFires)
            /\ WF_vars(ServerIsShut)
            /\ WF_vars(Joined)

Spec == Init /\ [][Next]_vars

FairSpec == Spec /\ Fairness
-----------------------------------------------------------------------------
(* Type invariant.  A worker has a current function exactly while it is in *)
(* the call of one of the two loops (server.cpp:40, 46).                   *)
TypeOK == /\ m_cqs \in SUBSET Workers
          /\ m_dispatch_queue \in Seq(Tasks)
          /\ m_dispatch_need_alarm \in BOOLEAN
          /\ alarm \in {"idle", "armed", "fired"}
          /\ alarm_cq \in Workers \cup {NoCq}
          /\ pc \in [Workers -> {"none", "next", "drain", "run", "store", "drain_again",
                                 "run_again", "rpc", "exited"}]
          /\ current \in [Workers -> Tasks \cup {NoTask}]
          /\ push \in [Pushers -> {"idle", "emplaced", "won"}]
          /\ finished \in SUBSET Tasks
          /\ stop \in {"no", "server", "cqs", "stopped"}
          /\ shut \in SUBSET Workers
          /\ fault \in {"none", "aborted", "division_by_zero"}
          /\ \A w \in Workers :
                /\ (current[w] = NoTask) <=> (pc[w] \notin {"run", "run_again"})
                /\ push[w] # "idle" => pc[w] \in {"run", "run_again", "rpc"}

(* A function that waits in m_dispatch_queue is never forgotten: an alarm  *)
(* is on its way, a worker is draining, or the push that appended it has   *)
(* yet to look at the flag or to set the alarm.  The second loop of        *)
(* handle_event() takes what was pushed between the end of the first one   *)
(* and the store (server.cpp:37-47, 86-87).                                *)
NoLostWakeup ==
    m_dispatch_queue # <<>> =>
        \/ alarm # "idle"
        \/ \E w \in Workers : pc[w] \in {"drain", "run", "store", "drain_again",
                                         "run_again"}
        \/ \E p \in Pushers : push[p] \in {"emplaced", "won"}

(* The alarm is never set while it is armed or its event is queued, though *)
(* two workers may be in handle_event() and any thread in push()           *)
(* (server.cpp:42, 87-89).                                                 *)
OneAlarm == \A p \in Pushers : push[p] = "won" =>
                /\ alarm = "idle"
                /\ ~m_dispatch_need_alarm
                /\ \A q \in Pushers \ {p} : push[q] # "won"

(* When stop() has returned everything that was pushed has been run        *)
(* (server.cpp:27-30, 68-79), unless the program pushes regardless of it.  *)
NothingDropped == stop = "stopped" /\ ~LatePush => /\ m_dispatch_queue = <<>>
                                                   /\ Executing = {}

(* push() is defined as long as the server has a thread and is not being   *)
(* stopped.  What divides by the number of queues, zero, is a push on a    *)
(* server built with a thread_count of zero, or one of a thread that has   *)
(* not waited for stop() to return; what makes gRPC abort is one that sets *)
(* the alarm on a drained queue while stop() shuts them down, by a         *)
(* function or a thread that does not wait (server.cpp:6-10, 71-76,        *)
(* 88-89, server.h:57).                                                    *)
PushDefined ==
    /\ fault = "division_by_zero" => \/ \A w \in Workers : pc[w] = "none"
                                     \/ stop = "stopped" /\ LatePush
    /\ fault = "aborted" => stop = "cqs" /\ (Nested \/ LatePush)

(* The server is a dispatcher with several threads: functions are started  *)
(* in the order of their emplace and each is run at most once              *)
(* (server.cpp:36-48, 85-91).                                              *)
Abstract == INSTANCE Dispatcher
              WITH backlog <- m_dispatch_queue,
                   running <- Executing,
                   done <- finished,
                   Exclusive <- FALSE

IsDispatcher == Abstract!Spec

(* Every function that was pushed before stop() returned is run, unless    *)
(* the process dies of a push that met stop() or found no thread           *)
(* (server.cpp:36-48, 68-91).                                              *)
EveryTaskRuns ==
    \A t \in Tasks : (t \in Queued \cup Executing) ~>
                        (t \in finished \/ ~Ok \/ (LatePush /\ stop = "stopped"))

(* stop() returns (server.cpp:68-79). *)
StopReturns == (stop # "no") ~> (stop = "stopped" \/ ~Ok)
=============================================================================
