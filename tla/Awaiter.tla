------------------------------- MODULE Awaiter -------------------------------
(***************************************************************************)
(* What calldata_interface promises a coroutine and gRPC: a coroutine that *)
(* awaits has one operation in flight, whose tag is valid until its event  *)
(* is handled; every event is handled once, by its own awaiter, which      *)
(* resumes the coroutine, begins a follow-up operation on its behalf, or   *)
(* frees the object the tag points into.  Nothing else resumes or frees an *)
(* object that waits.                                                      *)
(*                                                                         *)
(* A party is the frame of a coroutine or the state of a call.  Where it   *)
(* waits for anything but an operation of gRPC, it counts as running.  The *)
(* process may die in any step; an operation is then begun or is not.      *)
(***************************************************************************)

CONSTANT Parties

VARIABLES at,    \* "none", "running", "waiting" or, when freed, "gone"
          tag,   \* the tag of the party: "idle", "issued", or "queued"
          dead   \* the process has died

vars == <<at, tag, dead>>

Init == /\ at \in [Parties -> {"none", "running"}]
        /\ tag = [p \in Parties |-> "idle"]
        /\ dead = FALSE

Goes(p, from, to) == at[p] \in from /\ at' = [at EXCEPT ![p] = to]

TagGoes(p, from, to) == tag[p] = from /\ tag' = [tag EXCEPT ![p] = to]

(* await_suspend(), or a constructor or destructor that works like it.     *)
Await(p) == Goes(p, {"none", "running"}, "waiting") /\ TagGoes(p, "idle", "issued")

(* The event of the operation is queued. *)
Complete(p) == TagGoes(p, "issued", "queued") /\ UNCHANGED at

(* handle_event() resumes the coroutine. *)
Resume(p) == Goes(p, {"waiting"}, "running") /\ TagGoes(p, "queued", "idle")

(* handle_event() begins a follow-up operation.                            *)
Again(p) == at[p] = "waiting" /\ TagGoes(p, "queued", "issued") /\ UNCHANGED at

(* handle_event() frees the object.                                        *)
Free(p) == Goes(p, {"waiting"}, "gone") /\ TagGoes(p, "queued", "idle")

(* The object is destroyed with nothing in flight.                         *)
Leave(p) == Goes(p, {"running"}, "gone") /\ tag[p] = "idle" /\ UNCHANGED tag

(* The process dies as an operation is begun, or of something else.        *)
Dies == /\ dead'
        /\ UNCHANGED tag
        /\ \/ \E p \in Parties : Goes(p, {"none", "running"}, "waiting")
           \/ UNCHANGED at

Next == /\ ~dead
        /\ \/ /\ UNCHANGED dead
              /\ \E p \in Parties : \/ Await(p) \/ Complete(p) \/ Resume(p)
                                    \/ Again(p) \/ Free(p) \/ Leave(p)
           \/ Dies

Spec == Init /\ [][Next]_vars
=============================================================================
