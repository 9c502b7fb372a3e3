---------------------------- MODULE ServerStartup ----------------------------
(***************************************************************************)
(* The start of asyncpp::grpc::server, and stop() at any moment after it.  *)
(*                                                                         *)
(* server_builder collects the functions given to add_task().  build()     *)
(* moves them into a new server, whose constructor adds one completion     *)
(* queue per thread, starts the gRPC server and then one thread per queue. *)
(* Every thread runs every function on its own queue (a task, which        *)
(* requests its first call there), counts itself as online and enters its  *)
(* loop; the last one to come online clears the functions.                 *)
(*                                                                         *)
(* The program calls stop() once, from a thread of its own or, against the *)
(* design, from code that a worker runs: a pushed function or the handler  *)
(* of a call.  External, and modelled by its effect: BuildAndStart() may   *)
(* fail, and does with no queue; a thread may fail to start;               *)
(* Server::Shutdown() waits for the calls in progress; a request on a      *)
(* queue that is shut down aborts, and nothing else is in flight there     *)
(* once Server::Shutdown() has returned.                                   *)
(***************************************************************************)
EXTENDS Integers, Sequences, FiniteSets

CONSTANTS MaxThreads,   \* bound: the threads of the server
          Tasks         \* the functions given to add_task()

ASSUME ServerStartupAssumption == MaxThreads \in Nat

VARIABLES thread_count,       \* server_builder::m_thread_count
          added,              \* the builder's m_cq_initializers, as moved
          m_server,           \* the gRPC server: null, up or shut down
          m_cq_initializers,  \* the functions, until they are cleared
          m_cqs,              \* per worker: its completion queue
          m_threads_online,
          pc,                 \* per worker: where it is
          todo,               \* per worker: what is left of its for loop
          ran,                \* per worker: the functions it has run
          stop,               \* how far stop() is
          stopper,            \* who called it
          early,              \* stop() was called before every worker served
          fault               \* why the process died

workers == <<m_cq_initializers, m_threads_online, pc, todo, ran>>
build == <<thread_count, added>>
stopping == <<stop, stopper, early>>
others == <<build, m_server, m_cqs, stopping, fault>>   \* not a worker's to change

vars == <<build, m_server, m_cqs, workers, stopping, fault>>

AllWorkers == 1..MaxThreads
Workers == 1..thread_count

Nobody == -1
User == 0

Init == /\ thread_count \in 0..MaxThreads
        /\ added = <<>>
        /\ m_server = "unbuilt"
        /\ m_cq_initializers = <<>>
        /\ m_cqs = [w \in AllWorkers |-> "none"]
        /\ m_threads_online = 0
        /\ pc = [w \in AllWorkers |-> "none"]
        /\ todo = [w \in AllWorkers |-> <<>>]
        /\ ran = [w \in AllWorkers |-> <<>>]
        /\ stop = "none" /\ stopper = Nobody /\ early = FALSE
        /\ fault = "none"

Spawned == {w \in Workers : pc[w] # "none"}
Serving(w) == pc[w] \in {"serve", "stop", "stop_in_call"}

Move(w, from, to) == pc[w] = from /\ pc' = [pc EXCEPT ![w] = to]

Dies(why) == fault' = why /\ UNCHANGED <<build, m_server, m_cqs, workers, stopping>>
-----------------------------------------------------------------------------
(* service_builder::add_task(); each function is added once. *)
AddTask(t) ==
    /\ m_server = "unbuilt"
    /\ \A i \in DOMAIN added : added[i] # t
    /\ added' = Append(added, t)
    /\ UNCHANGED <<thread_count, m_server, m_cqs, workers, stopping, fault>>

(* build(), and the constructor up to BuildAndStart(), whose result nobody *)
(* looks at.                                                               *)
Build ==
    /\ m_server = "unbuilt"
    /\ m_cq_initializers' = added
    /\ m_cqs' = [w \in AllWorkers |-> IF w \in Workers THEN "open" ELSE "none"]
    /\ m_server' \in IF thread_count = 0 THEN {"null"} ELSE {"null", "up"}
    /\ UNCHANGED <<build, m_threads_online, pc, todo, ran, stopping, fault>>

(* The constructor starts the threads in turn. *)
SpawnIn(w, threads) ==
    /\ m_server # "unbuilt"
    /\ w \in threads /\ Spawned = 1..(w - 1)
    /\ Move(w, "none", "start")
    /\ UNCHANGED <<others, m_cq_initializers, m_threads_online, todo, ran>>

(* Slip: the loop ends one thread too early. *)
SpawnThread_OneLess(w) == SpawnIn(w, 1..(thread_count - 1))

SpawnThread(w) == SpawnIn(w, Workers)

(* A thread cannot be started: the constructor throws, and destroys the    *)
(* threads it has started while they are joinable.                         *)
SpawnFails(w) ==
    /\ m_server # "unbuilt"
    /\ w \in Workers \ {1} /\ Spawned = 1..(w - 1)
    /\ Dies("no_thread")

-----------------------------------------------------------------------------
(* A worker enters its for loop over m_cq_initializers. *)
EnterLoop(w) ==
    /\ Move(w, "start", "init")
    /\ todo' = [todo EXCEPT ![w] = m_cq_initializers]
    /\ UNCHANGED <<others, m_cq_initializers, m_threads_online, ran>>

(* It runs the next function, which requests a call on its queue. *)
RunInitializer(w) ==
    /\ pc[w] = "init" /\ todo[w] # <<>>
    /\ IF m_cq_initializers = <<>> \/ m_server = "null" \/ m_cqs[w] = "shut"
       THEN Dies(IF m_cq_initializers = <<>> THEN "cleared_initializer"
                 ELSE IF m_server = "null" THEN "no_server" ELSE "queue_shut")
       ELSE /\ ran' = [ran EXCEPT ![w] = Append(@, Head(todo[w]))]
            /\ todo' = [todo EXCEPT ![w] = Tail(@)]
            /\ UNCHANGED <<others, m_cq_initializers, m_threads_online, pc>>

(* fetch_add(1), and the comparison that tells who is to clear. *)
ComeOnlineIf(w, last) ==
    /\ pc[w] = "init" /\ todo[w] = <<>>
    /\ m_threads_online' = m_threads_online + 1
    /\ pc' = [pc EXCEPT ![w] = IF last THEN "clear" ELSE "serve"]
    /\ UNCHANGED <<others, m_cq_initializers, todo, ran>>

(* Slip: the old value of the counter is taken for "I am the first". *)
ComeOnline_FirstClears(w) == ComeOnlineIf(w, m_threads_online = 0)

(* Slip: the threads started so far are counted, not the queues. *)
ComeOnline_Threads(w) == ComeOnlineIf(w, m_threads_online + 1 = Cardinality(Spawned))

ComeOnline(w) == ComeOnlineIf(w, m_threads_online + 1 = thread_count)

Clear(w) ==
    /\ Move(w, "clear", "serve")
    /\ m_cq_initializers' = <<>>
    /\ UNCHANGED <<others, m_threads_online, todo, ran>>

(* Next() returns false: the queue is shut down and drained. *)
LeaveLoop(w) ==
    /\ Move(w, "serve", "exited")
    /\ m_cqs[w] = "shut"
    /\ UNCHANGED <<others, m_cq_initializers, m_threads_online, todo, ran>>

-----------------------------------------------------------------------------
(* stop() is called, after build() has returned. *)
BeginStop(s) ==
    /\ stop = "none" /\ m_server # "unbuilt" /\ Spawned = Workers
    /\ stop' = "server" /\ stopper' = s
    /\ early' = \E w \in Workers : ~Serving(w)

UserStops ==
    /\ BeginStop(User)
    /\ UNCHANGED <<build, m_server, m_cqs, workers, fault>>

(* A worker is in a pushed function, or in the handler of a call. *)
WorkerStops(w) ==
    /\ BeginStop(w)
    /\ pc[w] = "serve"
    /\ \E at \in {"stop", "stop_in_call"} :
          /\ at = "stop_in_call" => m_server = "up" /\ ran[w] # <<>>
          /\ pc' = [pc EXCEPT ![w] = at]
    /\ UNCHANGED <<build, m_server, m_cqs, m_cq_initializers, m_threads_online,
                   todo, ran, fault>>

(* Server::Shutdown() returns: no call is in progress. *)
ServerIsShut ==
    /\ stop = "server"
    /\ \A w \in Workers : pc[w] # "stop_in_call"
    /\ stop' = "queues"
    /\ m_server' = IF m_server = "null" THEN "null" ELSE "shut"
    /\ UNCHANGED <<build, m_cqs, workers, stopper, early, fault>>

ShutdownCq(w) ==
    /\ stop = "queues"
    /\ w <= thread_count /\ m_cqs[w] = "open"
    /\ m_cqs' = [m_cqs EXCEPT ![w] = "shut"]
    /\ UNCHANGED <<build, m_server, workers, stopping, fault>>

CanJoin == stop = "queues" /\ \A w \in Workers : m_cqs[w] = "shut"

(* Every thread is joined; queues and server are destroyed. *)
Joined ==
    /\ CanJoin
    /\ \A w \in Workers : pc[w] = "exited"
    /\ stop' = "done" /\ m_server' = "null"
    /\ UNCHANGED <<build, m_cqs, workers, stopper, early, fault>>

(* A worker reaches its own thread, after the ones before it. *)
JoinsItself(w) ==
    /\ CanJoin
    /\ pc[w] = "stop"
    /\ \A v \in 1..(w - 1) : pc[v] = "exited"
    /\ Dies("self_join")

(* What is left of a server that was stopped, has died, or waits for the   *)
(* call in which it is being stopped.                                      *)
Terminated ==
    /\ \/ fault # "none" \/ stop = "done"
       \/ stop = "server" /\ \E w \in Workers : pc[w] = "stop_in_call"
    /\ UNCHANGED vars
-----------------------------------------------------------------------------
WorkerStep(w) == EnterLoop(w) \/ RunInitializer(w) \/ ComeOnline(w) \/ Clear(w)
                 \/ LeaveLoop(w)

StopStep == ServerIsShut \/ Joined \/ \E w \in AllWorkers : ShutdownCq(w) \/ JoinsItself(w)

Next == \/ /\ fault = "none"
           /\ \/ \E t \in Tasks : AddTask(t)
              \/ Build \/ UserStops \/ StopStep
              \/ \E w \in AllWorkers : \/ SpawnThread(w) \/ SpawnFails(w)
                                       \/ WorkerStep(w) \/ WorkerStops(w)
        \/ Terminated

(* Threads run; gRPC's Shutdown() returns when it can. *)
Spec == /\ Init /\ [][Next]_vars
        /\ \A w \in AllWorkers : /\ WF_vars(fault = "none" /\ WorkerStep(w))
                                 /\ WF_vars(fault = "none" /\ SpawnThread(w))
        /\ WF_vars(fault = "none" /\ StopStep)
-----------------------------------------------------------------------------
(* A worker that has come online has run every function the builder was    *)
(* given, once and in order, however the workers' starts interleave with   *)
(* each other and with the clear (server.cpp:20-23).                       *)
InitializersRunOnce ==
    \A w \in AllWorkers : pc[w] \notin {"none", "start", "init"} => ran[w] = added

(* A server that gRPC built and whose threads all started lives until it   *)
(* is stopped and, stopped from outside when its workers serve, through    *)
(* stop().  No function is used after the clear, and no thread uses what   *)
(* stop() has destroyed (server.cpp:20-23, 68-79).  The ways to break this *)
(* are the caller's: BuildAndStart() failed, stop() ran before the workers *)
(* served, or on one of them.                                              *)
LivesUntilStopped ==
    /\ \/ fault \in {"none", "no_thread"}
       \/ m_server = "null" /\ stop # "done"
       \/ early \/ stopper \in Workers
    /\ fault # "cleared_initializer"
    /\ stop = "done" => stopper = User /\ \A w \in Workers : pc[w] = "exited"

(* Every completion queue gets a thread that serves it, unless the server  *)
(* is stopped or dies first, and stop() from outside returns               *)
(* (server.cpp:13-33, 68-79).                                              *)
StartsAndStops ==
    /\ m_server = "up" ~> \/ \A w \in Workers : Serving(w)
                          \/ stop # "none" \/ fault # "none"
    /\ stopper = User ~> stop = "done" \/ fault # "none"
=============================================================================
