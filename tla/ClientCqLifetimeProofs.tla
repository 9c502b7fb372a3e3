----------------------- MODULE ClientCqLifetimeProofs -----------------------
(***************************************************************************)
(* Proofs about ClientCqLifetime for every set of calls.                   *)
(***************************************************************************)
EXTENDS ClientCqLifetime, TLAPS

(* A call that is under way.                                               *)
Underway(c) == call[c] \in {"made", "flying", "held", "last"}

(* Exactly the calls under way that do not borrow own the client_cq, and   *)
(* the events in the queue are those of operations in flight.              *)
Ownership ==
    /\ call \in [Calls -> {"idle", "made", "flying", "held", "last", "done"}]
    /\ owners \subseteq Calls \ Borrowers
    /\ \A c \in Calls \ Borrowers : c \in owners <=> Underway(c)
    /\ \A c \in events : call[c] \in {"flying", "last"}

(* As long as the static or a call owns it, nobody shuts the queue down;   *)
(* the static is given up by exit() only.                                  *)
OwnersKeepItOpen ==
    /\ instance \in {"unset", "held", "dropped"}
    /\ instance = "unset" => cq = "none" /\ owners = {}
    /\ instance = "held" \/ owners # {} => cq = "open" \/ fault # "none"
    /\ instance = "dropped" => main # "running"

IInv == Ownership /\ OwnersKeepItOpen /\ FaultsOnlyAfterMain

-----------------------------------------------------------------------------
(* What the destructor of an awaiter or of a state does to the shares in   *)
(* the client_cq (client_cq.cpp:29-32, call.h:90-104).                     *)
LEMMA ReleaseKeeps ==
    ASSUME IInv, NEW t \in Threads, NEW c \in Calls, fault = "none",
           Underway(c), call' = [call EXCEPT ![c] = "done"],
           Release(t, c), UNCHANGED <<instance, main>>,
           events' = events \ {c}
    PROVE  IInv'
<1>1. Ownership'
  BY DEF IInv, Ownership, Underway, Release
<1>2. CASE owners = {c} /\ instance # "held"
  <2>1. instance = "dropped" /\ main # "running" /\ owners' = {}
    BY <1>2 DEF IInv, OwnersKeepItOpen, Release
  <2> QED
    BY <1>1, <2>1 DEF IInv, OwnersKeepItOpen, FaultsOnlyAfterMain
<1>3. CASE ~(owners = {c} /\ instance # "held")
  <2>1. UNCHANGED <<cq, fault>> /\ owners' \subseteq owners
    BY <1>3 DEF Release
  <2> QED
    BY <1>1, <2>1 DEF IInv, OwnersKeepItOpen, FaultsOnlyAfterMain
<1> QED BY <1>2, <1>3

(* The first call makes the client_cq, the next ones find it               *)
(* (client_cq.cpp:39-42, call.h:42-49, 152-158).                           *)
LEMMA MakeKeeps ==
    ASSUME IInv, NEW t \in Threads, NEW c \in Calls, fault = "none", Make(t, c)
    PROVE  IInv'
<1>1. CASE instance = "dropped" /\ owners = {}
  BY <1>1 DEF IInv, Ownership, OwnersKeepItOpen, FaultsOnlyAfterMain, Underway,
              Make, MakeAs, Dies
<1>2. CASE ~(instance = "dropped" /\ owners = {})
  <2>1. /\ call[c] = "idle" /\ call' = [call EXCEPT ![c] = "made"]
        /\ owners' = IF c \notin Borrowers THEN owners \cup {c} ELSE owners
        /\ UNCHANGED <<events, main, fault>>
    BY <1>2 DEF Make, MakeAs
  <2>2. Ownership'
    BY <2>1 DEF IInv, Ownership, Underway
  <2>3. CASE instance = "unset"
    BY <1>2, <2>1, <2>2, <2>3
    DEF IInv, OwnersKeepItOpen, FaultsOnlyAfterMain, Make, MakeAs, GetDefault,
        GetDefaultAs
  <2>4. CASE instance # "unset"
    <3>1. UNCHANGED <<instance, cq>>
      BY <1>2, <2>4 DEF Make, MakeAs, GetDefault, GetDefaultAs
    <3>2. instance = "held" \/ owners # {}
      BY <1>2, <2>4 DEF IInv, OwnersKeepItOpen
    <3> QED
      BY <2>1, <2>2, <2>4, <3>1, <3>2
      DEF IInv, OwnersKeepItOpen, FaultsOnlyAfterMain
  <2> QED BY <2>3, <2>4
<1> QED BY <1>1, <1>2

(* An operation finds the queue gone or shut only after exit()             *)
(* (call.h:58-63, 90-104, generic_method_awaiter.h:27-30).                 *)
LEMMA BeginKeeps ==
    ASSUME IInv, NEW t \in Threads, NEW c \in Calls, fault = "none", Underway(c),
           NEW flight \in {"flying", "last"}, Begin(t, c, flight)
    PROVE  IInv'
<1>1. CASE cq = "gone" \/ Drained
  <2>1. main # "running"
    BY <1>1 DEF IInv, OwnersKeepItOpen, Drained
  <2>2. UNCHANGED <<instance, owners, cq, call, events, main>>
    BY <1>1 DEF Begin, Dies
  <2> QED
    BY <2>1, <2>2 DEF IInv, Ownership, OwnersKeepItOpen, FaultsOnlyAfterMain, Underway
<1>2. CASE ~(cq = "gone" \/ Drained)
  <2>1. /\ call' = [call EXCEPT ![c] = flight]
        /\ UNCHANGED <<instance, owners, cq, events, main, fault>>
    BY <1>2 DEF Begin
  <2>2. Ownership'
    BY <2>1 DEF IInv, Ownership, Underway
  <2> QED
    BY <2>1, <2>2 DEF IInv, OwnersKeepItOpen, FaultsOnlyAfterMain
<1> QED BY <1>1, <1>2

(* exit() destroys the static, and the client_cq with it if no call owns   *)
(* it.                                                                     *)
LEMMA ExitKeeps ==
    ASSUME IInv, NEW t \in Threads, fault = "none", Exit(t) PROVE IInv'
<1>1. main' # "running" /\ UNCHANGED <<owners, call, events>>
  BY DEF Exit
<1>2. Ownership'
  BY <1>1 DEF IInv, Ownership, Underway
<1>3. CASE instance = "held" /\ owners = {}
  BY <1>1, <1>2, <1>3 DEF IInv, OwnersKeepItOpen, FaultsOnlyAfterMain, Exit
<1>4. CASE ~(instance = "held" /\ owners = {})
  <2>1. UNCHANGED <<cq, fault>>
    BY <1>4 DEF Exit
  <2>2. instance' = IF instance = "held" THEN "dropped" ELSE instance
    BY DEF Exit
  <2> QED
    BY <1>1, <1>2, <1>4, <2>1, <2>2 DEF IInv, OwnersKeepItOpen, FaultsOnlyAfterMain
<1> QED BY <1>3, <1>4

(* The invariant holds before the first call is made.                      *)
LEMMA Initially == Init => IInv
  BY DEF Init, IInv, Ownership, Underway, OwnersKeepItOpen, FaultsOnlyAfterMain

(* Every step keeps the invariant.                                         *)
LEMMA Inductive == IInv /\ [Next]_vars => IInv'
<1> SUFFICES ASSUME IInv, [Next]_vars PROVE IInv'
  OBVIOUS
<1>1. CASE UNCHANGED vars
  BY <1>1 DEF IInv, Ownership, Underway, OwnersKeepItOpen, FaultsOnlyAfterMain, vars
<1>2. ASSUME Alive, NEW c \in Calls, NEW t \in Threads,
             Make(t, c) \/ Issue(t, c) \/ Destroy(t, c) \/ Drop(t, c)
      PROVE  IInv'
  <2>1. fault = "none"
    BY <1>2 DEF Alive
  <2>2. CASE Make(t, c)
    BY <2>1, <2>2, MakeKeeps
  <2>3. CASE Issue(t, c)
    BY <2>1, <2>3, BeginKeeps DEF Issue, Underway
  <2>4. CASE Destroy(t, c)
    BY <2>1, <2>4, BeginKeeps DEF Destroy, Underway
  <2>5. CASE Drop(t, c)
    <3>1. events' = events \ {c}
      BY <2>5 DEF Drop, IInv, Ownership
    <3> QED BY <2>1, <2>5, <3>1, ReleaseKeeps DEF Drop, Underway
  <2> QED BY <1>2, <2>2, <2>3, <2>4, <2>5
<1>3. ASSUME Alive, NEW c \in Calls, HandleEvent(c) PROVE IInv'
  <2>1. fault = "none" /\ "worker" \in Threads
    BY <1>3 DEF Alive, Threads
  <2>2. CASE call[c] = "last"
    BY <1>3, <2>1, <2>2, ReleaseKeeps DEF HandleEvent, Underway
  <2>3. CASE call[c] # "last"
    <3>1. /\ call[c] = "flying"
          /\ call' = [call EXCEPT ![c] = "held"]
          /\ events' = events \ {c}
          /\ UNCHANGED <<instance, owners, cq, main, fault>>
      BY <1>3, <2>3 DEF HandleEvent, IInv, Ownership
    <3>2. Ownership'
      BY <3>1 DEF IInv, Ownership, Underway
    <3> QED
      BY <3>1, <3>2 DEF IInv, OwnersKeepItOpen, FaultsOnlyAfterMain
  <2> QED BY <2>2, <2>3
<1>4. ASSUME Alive, NEW t \in Threads, Exit(t) PROVE IInv'
  BY <1>4, ExitKeeps DEF Alive
<1>5. ASSUME NEW c \in Calls, Complete(c) PROVE IInv'
  BY <1>5
  DEF Complete, InFlight, IInv, Ownership, Underway, OwnersKeepItOpen, FaultsOnlyAfterMain
<1>6. CASE WorkerStep
  BY <1>6 DEF WorkerStep, HandlerReturns, WorkerExits, IInv, Ownership, Underway,
              OwnersKeepItOpen, FaultsOnlyAfterMain
<1>7. CASE Joined
  BY <1>7 DEF Joined, IInv, Ownership, Underway, OwnersKeepItOpen, FaultsOnlyAfterMain
<1>8. CASE ProcessEnds
  BY <1>8
  DEF ProcessEnds, IInv, Ownership, Underway, OwnersKeepItOpen, FaultsOnlyAfterMain
<1> QED
  BY <1>1, <1>2, <1>3, <1>4, <1>5, <1>6, <1>7, <1>8 DEF Next, Terminated

-----------------------------------------------------------------------------
(* The inductive invariant holds in every reachable state.                 *)
THEOREM Invariance == Spec => []IInv
  BY Initially, Inductive, PTL DEF Spec

(* No call that owns the client_cq meets a queue that was shut down, for   *)
(* any number of calls (call.h:45-48, 152-158, client_cq.cpp:29-32).       *)
THEOREM OwnersAreSafe == Spec => []OwnedQueueIsOpen
<1>1. IInv => OwnedQueueIsOpen
  BY DEF IInv, Ownership, Underway, OwnersKeepItOpen, OwnedQueueIsOpen
<1> QED BY <1>1, Invariance, PTL

(* Until main() has returned nothing goes wrong, whoever drops its share   *)
(* last and on whatever thread (client_cq.cpp:29-42).                      *)
THEOREM SafeUntilExit == Spec => []FaultsOnlyAfterMain
<1>1. IInv => FaultsOnlyAfterMain
  BY DEF IInv
<1> QED BY <1>1, Invariance, PTL
=============================================================================
