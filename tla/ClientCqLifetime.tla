-------------------------- MODULE ClientCqLifetime --------------------------
(***************************************************************************)
(* Who owns the default client_cq, and on which thread it is destroyed.    *)
(*                                                                         *)
(* get_default() keeps one client_cq in a static shared_ptr, which exit()  *)
(* destroys.  A call that is not given a completion queue copies it: the   *)
(* awaiter of a unary_call until the co_await expression ends, the state   *)
(* of a streaming_call until it deletes itself.  Both usually happen on    *)
(* the thread of the client_cq, which takes the last event of the call.    *)
(* The destructor joins that thread, so it must run on another one.        *)
(*                                                                         *)
(* A call that is given the queue of the default client_cq by address      *)
(* (a borrower; grpc_generic_method_awaiter is always one) owns nothing.   *)
(*                                                                         *)
(* The calls are made by any thread of the program, or by coroutines on    *)
(* the thread of the client_cq.  External: gRPC, the C++ run time and the  *)
(* rest of the program, which may go on while exit() runs until the        *)
(* process ends.  A copy of the static after exit() has destroyed it is    *)
(* undefined; the library leaves the pointer in place, which works as long *)
(* as somebody else owns the client_cq.                                    *)
(***************************************************************************)
CONSTANTS Unary,      \* unary calls and generic awaiters: one operation each
          Streaming,  \* streaming calls
          Borrowers   \* those of them that are given the queue

ASSUME ClientCqLifetimeAssumption == /\ Unary \cap Streaming = {}
                                     /\ Borrowers \subseteq Unary \cup Streaming

VARIABLES instance,  \* the static: unset, held or dropped
          owners,    \* the calls with a copy of it
          cq,        \* the completion queue and its client_cq
          call,      \* per call: where it is
          events,    \* the calls whose event is in the queue
          worker,    \* the thread of the client_cq
          main,      \* the thread that calls exit()
          fault      \* why the process died

vars == <<instance, owners, cq, call, events, worker, main, fault>>

Calls == Unary \cup Streaming

(* "last" is the flight of the operation whose event releases the call. *)
InFlight(c) == call[c] \in {"flying", "last"}

Drained == cq = "shut" /\ \A c \in Calls : ~InFlight(c) \/ c \in events

Init == /\ instance = "unset" /\ owners = {} /\ cq = "none"
        /\ call = [c \in Calls |-> "idle"]
        /\ events = {}
        /\ worker = "none" /\ main = "running" /\ fault = "none"

Dies(why) == /\ fault' = why
             /\ UNCHANGED <<instance, owners, cq, call, events, worker, main>>

(* Code runs on a thread of the program, or in a handler on the worker. *)
On(t) == t = "worker" => worker = "busy"

(* Slip: the destructor does not shut the queue down before it joins. *)
Destruct_NoShutdown(t) == UNCHANGED <<cq, fault>>

(* ~client_cq(), up to the join, on thread t. *)
Destruct(t) == /\ cq' = "shut"
               /\ fault' = IF t = "worker" THEN "self_join" ELSE fault

(* Call c gives up its share, if it has one, on thread t. *)
Release(t, c) ==
    /\ owners' = owners \ {c}
    /\ IF owners = {c} /\ instance # "held"
       THEN Destruct(t)
       ELSE UNCHANGED <<cq, fault>>
-----------------------------------------------------------------------------
(* get_default(): the first call makes the client_cq and its thread. *)
GetDefaultAs(held) ==
    IF instance = "unset"
    THEN instance' = held /\ cq' = "open" /\ worker' = "next"
    ELSE UNCHANGED <<instance, cq, worker>>

(* Slip: the static is a weak_ptr. *)
GetDefault_Weak == GetDefaultAs("dropped")

GetDefault == GetDefaultAs("held")

(* The awaiter of a unary call, or of start(), is constructed. *)
MakeAs(t, c, copies) ==
    /\ On(t) /\ call[c] = "idle"
    /\ IF instance = "dropped" /\ owners = {}
       THEN Dies("dead_static")
       ELSE /\ call' = [call EXCEPT ![c] = "made"]
            /\ owners' = IF copies THEN owners \cup {c} ELSE owners
            /\ GetDefault
            /\ UNCHANGED <<events, main, fault>>

(* Slip: the call takes the address of the queue and no copy. *)
Make_NotOwned(t, c) == MakeAs(t, c, FALSE)

Make(t, c) == MakeAs(t, c, c \notin Borrowers)

(* An operation is begun with a tag of the call. *)
Begin(t, c, flight) ==
    /\ On(t)
    /\ IF cq = "gone" \/ Drained
       THEN Dies(IF cq = "gone" THEN "use_after_free" ELSE "queue_shut")
       ELSE /\ call' = [call EXCEPT ![c] = flight]
            /\ UNCHANGED <<instance, owners, cq, events, worker, main, fault>>

(* await_suspend(): the operation of a unary call is its last; a streaming *)
(* call begins any number, one after the other.                            *)
Issue(t, c) == /\ call[c] \in {"made", "held"}
               /\ Begin(t, c, IF c \in Unary THEN "last" ELSE "flying")

(* destruct() of a streaming call that has a stream: one more operation,   *)
(* or two in a row, before the state deletes itself.                       *)
Destroy(t, c) == call[c] = "held" /\ Begin(t, c, "last")

(* An awaiter is dropped before it was awaited, or a streaming call that   *)
(* has no stream (not started, in vain, or finished) is destroyed.         *)
Drop(t, c) ==
    /\ On(t)
    /\ call[c] \in {"made", "held"}
    /\ call' = [call EXCEPT ![c] = "done"]
    /\ Release(t, c)
    /\ UNCHANGED <<instance, events, worker, main>>

(* gRPC: the operation completes, well or not. *)
Complete(c) ==
    /\ InFlight(c) /\ c \notin events
    /\ events' = events \cup {c}
    /\ UNCHANGED <<instance, owners, cq, call, worker, main, fault>>

(* The worker takes an event; handle_event() resumes the coroutine, which  *)
(* ends the co_await expression and goes on inside the handler.  A state   *)
(* that was waiting for its last event deletes itself and resumes nobody.  *)
HandleEvent(c) ==
    /\ worker = "next" /\ c \in events
    /\ worker' = IF call[c] = "last" /\ c \in Streaming THEN "next" ELSE "busy"
    /\ events' = events \ {c}
    /\ IF call[c] = "last"
       THEN call' = [call EXCEPT ![c] = "done"] /\ Release("worker", c)
       ELSE call' = [call EXCEPT ![c] = "held"] /\ UNCHANGED <<owners, cq, fault>>
    /\ UNCHANGED <<instance, main>>

HandlerReturns ==
    /\ worker = "busy" /\ worker' = "next"
    /\ UNCHANGED <<instance, owners, cq, call, events, main, fault>>

(* Next() returns false. *)
WorkerExits ==
    /\ worker = "next" /\ Drained /\ events = {}
    /\ worker' = "exited"
    /\ UNCHANGED <<instance, owners, cq, call, events, main, fault>>

(* ~client_cq() on a thread of the program has joined the worker. *)
Joined ==
    /\ cq = "shut" /\ worker = "exited"
    /\ cq' = "gone"
    /\ UNCHANGED <<instance, owners, call, events, worker, main, fault>>

(* exit() destroys the static, on the thread that called it. *)
Exit(t) ==
    /\ On(t) /\ main = "running"
    /\ instance' = IF instance = "held" THEN "dropped" ELSE instance
    /\ main' = IF instance = "held" /\ owners = {} THEN "joining" ELSE "exiting"
    /\ IF main' = "joining" THEN Destruct(t) ELSE UNCHANGED <<cq, fault>>
    /\ UNCHANGED <<owners, call, events, worker>>

(* ... and the process ends, with all its threads. *)
ProcessEnds ==
    /\ main = "exiting" \/ (main = "joining" /\ cq = "gone")
    /\ main' = "ended"
    /\ UNCHANGED <<instance, owners, cq, call, events, worker, fault>>

Terminated == (main = "ended" \/ fault # "none") /\ UNCHANGED vars
-----------------------------------------------------------------------------
Alive == main # "ended" /\ fault = "none"

Threads == {"program", "worker"}

WorkerStep == HandlerReturns \/ WorkerExits

Next == \/ /\ Alive
           /\ \/ \E c \in Calls :
                    \/ \E t \in Threads : Make(t, c) \/ Issue(t, c) \/ Destroy(t, c) \/ Drop(t, c)
                    \/ Complete(c) \/ HandleEvent(c)
              \/ \E t \in Threads : Exit(t)
              \/ WorkerStep \/ Joined \/ ProcessEnds
        \/ Terminated

(* gRPC completes what was begun and the queue is first in first out; the  *)
(* program destroys its streaming calls; threads run.                      *)
Spec == /\ Init /\ [][Next]_vars
        /\ \A c \in Calls :
              /\ WF_vars(Alive /\ Complete(c))
              /\ SF_vars(Alive /\ HandleEvent(c))
              /\ SF_vars(Alive /\ \E t \in Threads : Destroy(t, c))
        /\ WF_vars(Alive /\ (WorkerStep \/ Joined \/ ProcessEnds))
-----------------------------------------------------------------------------
(* While a call owns the client_cq, from the construction of its awaiter   *)
(* to the event of its last operation, the queue is open: it never begins  *)
(* an operation on a queue that somebody else shut down (call.h:45-48,     *)
(* 152-158, client_cq.cpp:29-32).                                          *)
OwnedQueueIsOpen ==
    \A c \in Calls \ Borrowers :
        call[c] \in {"made", "flying", "held", "last"} /\ fault = "none" => cq = "open"

(* The last reference is never dropped on the client_cq's own thread, and  *)
(* nobody meets a client_cq under destruction, until exit() has destroyed  *)
(* the static: only calls that outlive main() can (client_cq.cpp:31, 40).  *)
FaultsOnlyAfterMain == fault # "none" => main # "running"

(* The event of a call's last operation frees the call, and exit() does    *)
(* not wait for ever for the thread, whatever calls are still under way    *)
(* (client_cq.cpp:29-32, call.h:51-64, generic_method_awaiter.h:21-31).    *)
ReleasedAndJoined ==
    /\ \A c \in Calls : call[c] = "last" ~> call[c] = "done" \/ ~Alive
    /\ main # "running" ~> ~Alive
=============================================================================
