------------------------- MODULE ServerStartupProofs -------------------------
(***************************************************************************)
(* Proofs about ServerStartup for any number of threads and functions.     *)
(***************************************************************************)
EXTENDS ServerStartup, FiniteSetTheorems, SequenceTheorems, TLAPS

USE ServerStartupAssumption
USE DEF AllWorkers, Workers, User, Nobody

Places == {"none", "start", "init", "clear", "serve", "stop", "stop_in_call", "exited"}

(* The workers that have counted themselves.                               *)
Online == {w \in AllWorkers : pc[w] \notin {"none", "start", "init"}}

Types ==
    /\ thread_count \in 0..MaxThreads
    /\ added \in Seq(Tasks) /\ m_cq_initializers \in Seq(Tasks)
    /\ m_server \in {"unbuilt", "up", "null", "shut"}
    /\ m_cqs \in [AllWorkers -> {"none", "open", "shut"}]
    /\ m_threads_online \in Nat
    /\ pc \in [AllWorkers -> Places]
    /\ todo \in [AllWorkers -> Seq(Tasks)] /\ ran \in [AllWorkers -> Seq(Tasks)]
    /\ stop \in {"none", "server", "queues", "done"}
    /\ stopper \in {Nobody, User} \cup AllWorkers
    /\ early \in BOOLEAN

(* The functions a worker has run and has left are those of the builder.   *)
LoopOK(w) ==
    /\ w \notin Workers \/ m_server = "unbuilt" => pc[w] = "none"
    /\ pc[w] \in {"none", "start"} => ran[w] = <<>>
    /\ pc[w] = "init" => ran[w] \o todo[w] = added
    /\ w \in Online => ran[w] = added

(* The counter counts, and the functions stay until all have counted.      *)
ClearOK ==
    /\ m_threads_online = Cardinality(Online)
    /\ m_server # "unbuilt" => m_cq_initializers = added \/ Online = Workers
    /\ \A w \in AllWorkers : pc[w] = "clear" => Online = Workers

(* Who stops the server, and what stop() finds the workers doing.          *)
StopOK ==
    /\ m_server = "unbuilt" => stop = "none"
    /\ stop # "none" => stopper \in {User} \cup Workers
    /\ stop # "none" /\ ~early =>
          \A w \in Workers : Serving(w) \/ pc[w] = "exited"
    /\ stop = "done" => \A w \in Workers : pc[w] = "exited"
    /\ \A w \in AllWorkers :
          /\ pc[w] \in {"stop", "stop_in_call"} <=> stop # "none" /\ stopper = w
          /\ m_cqs[w] = "shut" => stop \in {"queues", "done"}

IInv == /\ Types /\ ClearOK /\ StopOK /\ LivesUntilStopped
        /\ \A w \in AllWorkers : LoopOK(w)

-----------------------------------------------------------------------------
(* One turn of a worker's for loop: what it has run and what it has left   *)
(* stay the builder's functions (server.cpp:20-22).                        *)
LEMMA OneTurn ==
    ASSUME NEW S, NEW r \in Seq(S), NEW t \in Seq(S), t # <<>>
    PROVE  /\ Append(r, Head(t)) \in Seq(S) /\ Tail(t) \in Seq(S)
           /\ Append(r, Head(t)) \o Tail(t) = r \o t
<1>1. Head(t) \in S /\ Tail(t) \in Seq(S)
  BY HeadTailProperties
<1>2. Append(r, Head(t)) \in Seq(S)
  BY <1>1, AppendProperties
<1>3. Append(r, Head(t)) \o Tail(t) \in Seq(S) /\ r \o t \in Seq(S)
  BY <1>1, <1>2, ConcatProperties
<1>4. Len(Append(r, Head(t)) \o Tail(t)) = Len(r \o t)
  BY <1>1, <1>2, ConcatProperties, HeadTailProperties, AppendProperties
<1>5. \A i \in 1..Len(r \o t) : (Append(r, Head(t)) \o Tail(t))[i] = (r \o t)[i]
  BY <1>1, <1>2
<1> QED BY <1>3, <1>4, <1>5

(* Counting n of the workers 1 .. n leaves none out (server.cpp:23).       *)
LEMMA CountedAll ==
    ASSUME NEW n \in Nat, NEW S \in SUBSET (1..n)
    PROVE  /\ IsFiniteSet(S)
           /\ Cardinality(S) = n => S = 1..n
<1>1. IsFiniteSet(1..n) /\ Cardinality(1..n) = n
  BY FS_Interval
<1> QED BY <1>1, FS_Subset

-----------------------------------------------------------------------------
LEMMA Initially == Init => IInv
<1> SUFFICES ASSUME Init PROVE IInv
  OBVIOUS
<1>1. Online = {}
  BY DEF Init, Online
<1>2. <<>> \in Seq(Tasks)
  OBVIOUS
<1> QED
  BY <1>1, <1>2, FS_EmptySet
  DEF Init, IInv, Types, Places, LoopOK, ClearOK, StopOK, Serving, LivesUntilStopped

(* The builder and the constructor (server.h:143-156, server.cpp:3-14).    *)
LEMMA BuildingKeeps ==
    ASSUME IInv, fault = "none",
           \/ \E t \in Tasks : AddTask(t)
           \/ Build
    PROVE  IInv'
<1>1. /\ m_server = "unbuilt" /\ added' \in Seq(Tasks)
      /\ UNCHANGED <<thread_count, m_threads_online, pc, todo, ran, stopping, fault>>
  <2>1. ASSUME NEW t \in Tasks, AddTask(t) PROVE added' \in Seq(Tasks)
    BY <2>1, AppendProperties DEF AddTask, IInv, Types
  <2> QED
    BY <2>1 DEF AddTask, Build, build, workers, stopping, IInv, Types
<1>2. /\ \A w \in AllWorkers : pc[w] = "none" /\ m_cqs[w] # "shut"
      /\ Online = {} /\ stop = "none"
  BY <1>1 DEF IInv, LoopOK, StopOK, Online
<1>3. Online' = {} /\ m_threads_online' = Cardinality(Online')
  BY <1>1, <1>2 DEF Online, IInv, ClearOK
<1>4. Types'
  BY <1>1 DEF IInv, Types, AddTask, Build, stopping, workers, build
<1>5. \A w \in AllWorkers : LoopOK(w)'
  BY <1>1, <1>2, <1>3 DEF IInv, LoopOK
<1>6. m_server' # "unbuilt" => m_cq_initializers' = added'
  BY <1>1 DEF AddTask, Build, build
<1>7. \A w \in AllWorkers : m_cqs'[w] # "shut"
  BY <1>2 DEF AddTask, Build
<1> QED
  BY <1>1, <1>2, <1>3, <1>4, <1>5, <1>6, <1>7
  DEF IInv, ClearOK, StopOK, LivesUntilStopped, Serving, stopping

(* A thread starts and enters its for loop (server.cpp:13-20).             *)
LEMMA StartingKeeps ==
    ASSUME IInv, fault = "none", NEW w \in AllWorkers, SpawnThread(w) \/ EnterLoop(w)
    PROVE  IInv'
<1>1. /\ w \in Workers /\ m_server # "unbuilt" /\ ran[w] = <<>> /\ ran' = ran
      /\ w \notin Online /\ pc[w] \in {"none", "start"}
      /\ UNCHANGED <<others, m_cq_initializers, m_threads_online>>
  BY DEF SpawnThread, SpawnIn, EnterLoop, Move, IInv, LoopOK, Online
<1>2. PICK p \in {"start", "init"} : pc' = [pc EXCEPT ![w] = p]
  BY DEF SpawnThread, SpawnIn, EnterLoop, Move
<1>3. m_cq_initializers = added
  BY <1>1 DEF IInv, ClearOK
<1>4. /\ pc' \in [AllWorkers -> Places] /\ pc'[w] = p
      /\ \A v \in AllWorkers \ {w} : pc'[v] = pc[v]
  BY <1>2 DEF IInv, Types, Places
<1>5. Online' = Online
  BY <1>1, <1>4 DEF Online
<1>6. todo' \in [AllWorkers -> Seq(Tasks)] /\ \A v \in AllWorkers \ {w} : todo'[v] = todo[v]
  BY DEF SpawnThread, SpawnIn, EnterLoop, IInv, Types
<1>7. LoopOK(w)'
  <2>1. CASE SpawnThread(w)
    BY <1>1, <1>4, <1>5, <2>1 DEF SpawnThread, SpawnIn, Move, LoopOK, others, build, IInv, Types
  <2>2. CASE EnterLoop(w)
    <3>1. todo'[w] = added /\ pc'[w] = "init"
      BY <1>3, <2>2 DEF EnterLoop, Move, IInv, Types
    <3>2. <<>> \o added = added
      BY ConcatEmptySeq DEF IInv, Types
    <3> QED
      BY <1>1, <1>5, <3>1, <3>2 DEF LoopOK, others, build
  <2> QED BY <2>1, <2>2
<1>8. \A v \in AllWorkers : LoopOK(v)'
  BY <1>1, <1>4, <1>5, <1>6, <1>7 DEF IInv, LoopOK, others, build
<1>9. Types'
  BY <1>1, <1>4, <1>6 DEF IInv, Types, others, build, stopping
<1>10. ClearOK'
  BY <1>1, <1>4, <1>5 DEF IInv, ClearOK, others, build
<1>11. StopOK' /\ LivesUntilStopped'
  <2>1. stop # "none" => early
    BY <1>1 DEF IInv, StopOK, Serving
  <2> QED
    BY <1>1, <1>4, <2>1 DEF IInv, StopOK, LivesUntilStopped, Serving, others, build, stopping
<1> QED BY <1>8, <1>9, <1>10, <1>11 DEF IInv

(* A function is run: the functions are there, the server and the queue    *)
(* too unless BuildAndStart() failed or stop() came early                  *)
(* (server.cpp:20-22).                                                     *)
LEMMA RunningKeeps ==
    ASSUME IInv, fault = "none", NEW w \in AllWorkers, RunInitializer(w)
    PROVE  IInv'
<1>1. /\ pc[w] = "init" /\ todo[w] # <<>> /\ w \in Workers /\ m_server # "unbuilt"
      /\ w \notin Online
  BY DEF RunInitializer, IInv, LoopOK, Online
<1>2. m_cq_initializers # <<>>
  <2>1. m_cq_initializers = ran[w] \o todo[w]
    BY <1>1 DEF IInv, ClearOK, LoopOK
  <2>2. ran[w] \in Seq(Tasks) /\ todo[w] \in Seq(Tasks)
    BY DEF IInv, Types
  <2> QED BY <1>1, <2>1, <2>2, ConcatEqualIffEmpty
<1>3. CASE m_server = "null" \/ m_cqs[w] = "shut"
  <2>1. /\ UNCHANGED <<build, m_server, m_cqs, workers, stopping>>
        /\ fault' \in {"no_server", "queue_shut"}
        /\ fault' = "no_server" \/ m_cqs[w] = "shut"
        /\ fault' = "queue_shut" \/ m_server = "null"
    BY <1>2, <1>3 DEF RunInitializer, Dies
  <2>2. stop # "done" /\ (stop # "none" => early)
    BY <1>1 DEF IInv, StopOK, Serving
  <2>3. LivesUntilStopped'
    BY <2>1, <2>2 DEF IInv, StopOK, LivesUntilStopped, stopping, build, workers
  <2>4. Online' = Online
    BY <2>1 DEF Online, workers
  <2> QED
    BY <2>1, <2>3, <2>4
    DEF IInv, Types, ClearOK, StopOK, LoopOK, Serving, build, workers, stopping
<1>4. CASE ~(m_server = "null" \/ m_cqs[w] = "shut")
  <2>1. /\ ran' = [ran EXCEPT ![w] = Append(@, Head(todo[w]))]
        /\ todo' = [todo EXCEPT ![w] = Tail(@)]
        /\ UNCHANGED <<others, m_cq_initializers, m_threads_online, pc>>
    BY <1>2, <1>4 DEF RunInitializer
  <2>2. /\ ran[w] \in Seq(Tasks) /\ todo[w] \in Seq(Tasks)
        /\ ran'[w] = Append(ran[w], Head(todo[w])) /\ todo'[w] = Tail(todo[w])
        /\ \A v \in AllWorkers \ {w} : ran'[v] = ran[v] /\ todo'[v] = todo[v]
    BY <2>1 DEF IInv, Types
  <2>3. /\ ran'[w] \in Seq(Tasks) /\ todo'[w] \in Seq(Tasks)
        /\ ran'[w] \o todo'[w] = ran[w] \o todo[w]
    <3>1. /\ Append(ran[w], Head(todo[w])) \in Seq(Tasks) /\ Tail(todo[w]) \in Seq(Tasks)
          /\ Append(ran[w], Head(todo[w])) \o Tail(todo[w]) = ran[w] \o todo[w]
      <4>1. ran[w] \in Seq(Tasks) /\ todo[w] \in Seq(Tasks) /\ todo[w] # <<>>
        BY <1>1, <2>2
      <4> QED BY <4>1, OneTurn
    <3> QED BY <2>2, <3>1
  <2>4. Types'
    BY <2>1, <2>3 DEF IInv, Types, others, build, stopping
  <2>5. Online' = Online
    BY <2>1 DEF Online
  <2>6. LoopOK(w)'
    BY <1>1, <2>1, <2>3, <2>5 DEF IInv, LoopOK, others, build
  <2>7. \A v \in AllWorkers \ {w} : LoopOK(v)'
    BY <2>1, <2>2, <2>5 DEF IInv, LoopOK, others, build
  <2> QED
    BY <2>1, <2>4, <2>5, <2>6, <2>7
    DEF IInv, ClearOK, StopOK, LivesUntilStopped, Serving, others, build, stopping
<1> QED BY <1>3, <1>4

(* A worker counts itself; only the last one finds that all have           *)
(* (server.cpp:23).                                                        *)
LEMMA OnlineKeeps ==
    ASSUME IInv, fault = "none", NEW w \in AllWorkers, ComeOnline(w)
    PROVE  IInv'
<1>1. /\ pc[w] = "init" /\ todo[w] = <<>> /\ w \in Workers /\ m_server # "unbuilt"
      /\ m_threads_online' = m_threads_online + 1
      /\ UNCHANGED <<others, m_cq_initializers, todo, ran>>
  BY DEF ComeOnline, ComeOnlineIf, IInv, LoopOK
<1>2. PICK p \in {"clear", "serve"} :
        /\ pc' = [pc EXCEPT ![w] = p]
        /\ p = "clear" => m_threads_online' = thread_count
  BY DEF ComeOnline, ComeOnlineIf
<1>3. /\ pc' \in [AllWorkers -> Places] /\ pc'[w] = p
      /\ \A v \in AllWorkers \ {w} : pc'[v] = pc[v]
  BY <1>2 DEF IInv, Types, Places
<1>4. Online' = Online \cup {w} /\ w \notin Online
  BY <1>1, <1>3 DEF Online
<1>5. ran[w] = added
  <2>1. ran[w] \o <<>> = added /\ ran[w] \in Seq(Tasks)
    BY <1>1 DEF IInv, LoopOK, Types
  <2> QED BY <2>1, ConcatEmptySeq
<1>6. Types'
  <2>1. m_threads_online' \in Nat
    BY <1>1 DEF IInv, Types
  <2> QED BY <1>1, <1>3, <2>1 DEF IInv, Types, others, build, stopping
<1>7. \A v \in AllWorkers : LoopOK(v)'
  BY <1>1, <1>3, <1>4, <1>5 DEF IInv, LoopOK, others, build
<1>8. Online \subseteq 1..thread_count /\ thread_count \in Nat
  BY DEF IInv, Types, LoopOK, Online
<1>9. m_threads_online' = Cardinality(Online')
  <2>1. IsFiniteSet(Online)
    BY <1>8, CountedAll
  <2>2. Cardinality(Online \cup {w}) = Cardinality(Online) + 1
    BY <1>4, <2>1, FS_AddElement
  <2> QED BY <1>1, <1>4, <2>2 DEF IInv, ClearOK
<1>10. p = "clear" => Online' = Workers'
  <2>1. Cardinality(Online \cup {w}) = thread_count => Online \cup {w} = 1..thread_count
    BY <1>1, <1>8, CountedAll
  <2> QED BY <1>1, <1>2, <1>4, <1>9, <2>1 DEF others, build
<1>11. ClearOK'
  BY <1>1, <1>3, <1>4, <1>9, <1>10 DEF IInv, ClearOK, others, build
<1>12. StopOK' /\ LivesUntilStopped'
  <2>1. stop # "none" => early
    BY <1>1 DEF IInv, StopOK, Serving
  <2> QED
    BY <1>1, <1>3, <2>1 DEF IInv, StopOK, LivesUntilStopped, Serving, others, build, stopping
<1> QED BY <1>6, <1>7, <1>11, <1>12 DEF IInv

(* The functions are cleared, and a worker ends (server.cpp:23, 27-31).    *)
LEMMA ServingKeeps ==
    ASSUME IInv, fault = "none", NEW w \in AllWorkers, Clear(w) \/ LeaveLoop(w)
    PROVE  IInv'
<1>1. /\ pc[w] \in {"clear", "serve"} /\ w \in Workers /\ w \in Online
      /\ UNCHANGED <<others, m_threads_online, todo, ran>>
      /\ m_cq_initializers' \in Seq(Tasks)
      /\ pc[w] = "clear" \/ m_cq_initializers' = m_cq_initializers
  <2>1. pc[w] \in {"clear", "serve"} /\ UNCHANGED <<others, m_threads_online, todo, ran>>
    BY DEF Clear, LeaveLoop, Move
  <2>2. /\ m_cq_initializers' \in Seq(Tasks)
        /\ pc[w] = "clear" \/ m_cq_initializers' = m_cq_initializers
    <3>1. (m_cq_initializers' = <<>> /\ pc[w] = "clear") \/ m_cq_initializers' = m_cq_initializers
      BY DEF Clear, LeaveLoop, Move
    <3>2. <<>> \in Seq(Tasks) /\ m_cq_initializers \in Seq(Tasks)
      BY DEF IInv, Types
    <3> QED BY <3>1, <3>2
  <2>3. w \in Workers /\ w \in Online
    BY <2>1 DEF IInv, LoopOK, Online
  <2> QED BY <2>1, <2>2, <2>3
<1>2. PICK p \in {"serve", "exited"} : pc' = [pc EXCEPT ![w] = p] /\ (p = "serve" => pc[w] = "clear")
  BY DEF Clear, LeaveLoop, Move
<1>3. /\ pc' \in [AllWorkers -> Places] /\ pc'[w] = p
      /\ \A v \in AllWorkers \ {w} : pc'[v] = pc[v]
  BY <1>2 DEF IInv, Types, Places
<1>4. Online' = Online
  BY <1>1, <1>3 DEF Online
<1>5. Types'
  BY <1>1, <1>3 DEF IInv, Types, others, build, stopping
<1>6. \A v \in AllWorkers : LoopOK(v)'
  BY <1>1, <1>3, <1>4 DEF IInv, LoopOK, others, build
<1>7. ClearOK'
  BY <1>1, <1>3, <1>4 DEF IInv, ClearOK, others, build
<1>8. stop # "done"
  BY <1>1 DEF IInv, StopOK
<1>9. StopOK'
  <2>1. UNCHANGED <<thread_count, m_server, m_cqs, stop, stopper, early>>
    BY <1>1 DEF others, build, stopping
  <2>2. Workers \subseteq AllWorkers
    BY DEF IInv, Types
  <2> QED BY <1>1, <1>3, <1>8, <2>1, <2>2 DEF IInv, StopOK, Serving
<1>10. LivesUntilStopped'
  BY <1>1, <1>8 DEF IInv, LivesUntilStopped, others, build, stopping
<1> QED BY <1>5, <1>6, <1>7, <1>9, <1>10 DEF IInv

(* stop() begins (server.cpp:68).                                          *)
LEMMA StopBegins ==
    ASSUME IInv, fault = "none",
           UserStops \/ \E w \in AllWorkers : WorkerStops(w)
    PROVE  IInv'
<1>1. /\ stop = "none" /\ stop' = "server" /\ m_server # "unbuilt"
      /\ early' = \E w \in Workers : ~Serving(w)
      /\ UNCHANGED <<build, m_server, m_cqs, m_cq_initializers, m_threads_online,
                     todo, ran, fault>>
  BY DEF UserStops, WorkerStops, BeginStop, workers
<1>2. \A w \in AllWorkers : pc[w] \notin {"stop", "stop_in_call"} /\ m_cqs[w] # "shut"
  BY <1>1 DEF IInv, StopOK
<1>3. ASSUME UserStops PROVE IInv'
  <2>1. stopper' = User /\ UNCHANGED pc
    BY <1>3 DEF UserStops, BeginStop, workers
  <2>2. Online' = Online
    BY <2>1 DEF Online
  <2>3. StopOK'
    BY <1>1, <1>2, <2>1 DEF IInv, StopOK, Serving, build
  <2> QED
    BY <1>1, <2>1, <2>2, <2>3 DEF IInv, Types, LoopOK, ClearOK, LivesUntilStopped, build
<1>4. ASSUME NEW w \in AllWorkers, WorkerStops(w) PROVE IInv'
  <2>1. stopper' = w /\ pc[w] = "serve" /\ w \in Online /\ w \in Workers
    BY <1>1, <1>4 DEF WorkerStops, BeginStop, IInv, LoopOK, Online
  <2>2. PICK p \in {"stop", "stop_in_call"} : pc' = [pc EXCEPT ![w] = p]
    BY <1>4 DEF WorkerStops
  <2>3. /\ pc' \in [AllWorkers -> Places] /\ pc'[w] = p
        /\ \A v \in AllWorkers \ {w} : pc'[v] = pc[v]
    BY <2>2 DEF IInv, Types, Places
  <2>4. Online' = Online
    BY <2>1, <2>3 DEF Online
  <2>5. Types'
    BY <1>1, <2>1, <2>3 DEF IInv, Types, build
  <2>6. \A v \in AllWorkers : LoopOK(v)'
    BY <1>1, <2>1, <2>3, <2>4 DEF IInv, LoopOK, build
  <2>7. ClearOK'
    BY <1>1, <2>1, <2>3, <2>4 DEF IInv, ClearOK, build
  <2>8. StopOK'
    <3>1. Workers \subseteq AllWorkers
      BY DEF IInv, Types
    <3>2. ~early' => \A v \in Workers' : Serving(v)'
      BY <1>1, <2>3, <3>1 DEF Serving, build
    <3>3. \A v \in AllWorkers : pc'[v] \in {"stop", "stop_in_call"} <=> stopper' = v
      BY <1>2, <2>1, <2>3
    <3> QED BY <1>1, <1>2, <2>1, <3>2, <3>3 DEF IInv, StopOK, build
  <2>9. LivesUntilStopped'
    BY <1>1, <2>1 DEF IInv, LivesUntilStopped, build
  <2> QED BY <2>5, <2>6, <2>7, <2>8, <2>9 DEF IInv
<1> QED BY <1>3, <1>4

(* stop() goes on: the server, the queues, the joins (server.cpp:69-78).   *)
LEMMA StopKeeps ==
    ASSUME IInv, fault = "none", StopStep
    PROVE  IInv'
<1>1. /\ stop \in {"server", "queues"} /\ m_server # "unbuilt"
      /\ UNCHANGED <<build, workers, stopper, early>>
  BY DEF StopStep, ServerIsShut, ShutdownCq, Joined, JoinsItself, CanJoin, Dies,
         stopping, IInv, StopOK
<1>2. Online' = Online
  BY <1>1 DEF Online, workers
<1>3. CASE ServerIsShut
  BY <1>1, <1>2, <1>3 DEF ServerIsShut, IInv, Types, LoopOK, ClearOK, StopOK, Serving,
                          LivesUntilStopped, build, workers
<1>4. CASE \E w \in AllWorkers : ShutdownCq(w)
  BY <1>1, <1>2, <1>4 DEF ShutdownCq, IInv, Types, LoopOK, ClearOK, StopOK, Serving,
                          LivesUntilStopped, build, workers, stopping
<1>5. CASE Joined
  <2>1. /\ stop = "queues" /\ stop' = "done" /\ m_server' = "null"
        /\ UNCHANGED <<build, m_cqs, workers, stopper, early, fault>>
        /\ \A w \in Workers : pc[w] = "exited"
    BY <1>5 DEF Joined, CanJoin
  <2>2. stopper = User
    <3>1. stopper \in {User} \cup Workers /\ Workers \subseteq AllWorkers
      BY <2>1 DEF IInv, StopOK, Types
    <3>2. stopper \in AllWorkers => pc[stopper] \in {"stop", "stop_in_call"}
      BY <2>1 DEF IInv, StopOK
    <3> QED BY <2>1, <3>1, <3>2
  <2>3. StopOK' /\ LivesUntilStopped'
    BY <1>1, <2>1, <2>2 DEF IInv, StopOK, Serving, LivesUntilStopped, build, workers
  <2> QED
    BY <1>1, <1>2, <2>1, <2>3 DEF IInv, Types, LoopOK, ClearOK, build, workers
<1>6. CASE \E w \in AllWorkers : JoinsItself(w)
  <2>1. PICK w \in AllWorkers : JoinsItself(w)
    BY <1>6
  <2>2. stopper = w /\ w \in Workers
    BY <2>1 DEF JoinsItself, IInv, StopOK, LoopOK
  <2>3. fault' = "self_join" /\ UNCHANGED <<build, m_server, m_cqs, workers, stopping>>
    BY <2>1 DEF JoinsItself, Dies
  <2>4. LivesUntilStopped'
    BY <1>1, <2>2, <2>3 DEF LivesUntilStopped, build, stopping
  <2> QED
    BY <1>1, <1>2, <2>2, <2>3, <2>4 DEF IInv, Types, LoopOK, ClearOK,
           StopOK, Serving, build, workers, stopping
<1> QED BY <1>3, <1>4, <1>5, <1>6 DEF StopStep

(* Every step keeps the invariant.                                         *)
LEMMA Inductive == IInv /\ [Next]_vars => IInv'
<1> SUFFICES ASSUME IInv, [Next]_vars PROVE IInv'
  OBVIOUS
<1>1. CASE UNCHANGED vars
  <2>1. Online' = Online
    BY <1>1 DEF Online, vars, workers
  <2> QED
    BY <1>1, <2>1 DEF vars, build, workers, stopping, IInv, Types, LoopOK, ClearOK,
                      StopOK, Serving, LivesUntilStopped
<1>2. ASSUME fault = "none", NEW w \in AllWorkers, SpawnFails(w) PROVE IInv'
  <2>1. fault' = "no_thread" /\ UNCHANGED <<build, m_server, m_cqs, workers, stopping>>
    BY <1>2 DEF SpawnFails, Dies
  <2>2. Online' = Online
    BY <2>1 DEF Online, workers
  <2> QED
    BY <2>1, <2>2 DEF build, workers, stopping, IInv, Types, LoopOK, ClearOK, StopOK,
                      Serving, LivesUntilStopped
<1> QED
  BY <1>1, <1>2, BuildingKeeps, StartingKeeps, RunningKeeps, OnlineKeeps, ServingKeeps,
     StopBegins, StopKeeps
  DEF Next, WorkerStep, Terminated

-----------------------------------------------------------------------------
(* The strengthened invariant of the start and the stop                    *)
(* (server.cpp:3-33, 68-79).                                               *)
THEOREM Invariance == Spec => []IInv
BY Initially, Inductive, PTL DEF Spec

(* A worker that has come online has run every function, once and in order *)
(* (server.cpp:20-23).                                                     *)
THEOREM FunctionsRunOnce == Spec => []InitializersRunOnce
<1>1. IInv => InitializersRunOnce
  BY DEF IInv, LoopOK, Online, InitializersRunOnce
<1> QED BY <1>1, Invariance, PTL

(* The server lives until it is stopped, and no function is used after the *)
(* clear (server.cpp:20-23, 68-79).                                        *)
THEOREM ServerLives == Spec => []LivesUntilStopped
<1>1. IInv => LivesUntilStopped
  BY DEF IInv
<1> QED BY <1>1, Invariance, PTL
=============================================================================
