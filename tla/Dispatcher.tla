----------------------------- MODULE Dispatcher -----------------------------
(***************************************************************************)
(* What asyncpp::dispatcher promises the code that pushes to it: a task    *)
(* that was pushed is taken from the backlog in the order of the pushes,   *)
(* is run at most once, and, if the dispatcher is Exclusive, never while   *)
(* another task of the same dispatcher is running.  client_cq is an        *)
(* exclusive dispatcher (one thread).                                      *)
(*                                                                         *)
(* An empty std::function is accepted by push and dropped when its turn    *)
(* comes.                                                                  *)
(***************************************************************************)
EXTENDS Integers, Sequences

CONSTANTS Tasks,       \* the closures that may be pushed, each at most once
          EmptyFns,    \* those of Tasks that are empty std::functions
          Exclusive    \* TRUE when one thread runs the tasks

VARIABLES backlog,     \* the tasks waiting, oldest first
          running,     \* the tasks being executed
          done         \* the tasks executed or dropped

vars == <<backlog, running, done>>

Waiting == {backlog[i] : i \in 1..Len(backlog)}

Init == /\ backlog = <<>>
        /\ running = {}
        /\ done = {}

(* push(fn) *)
Submit(t) == /\ t \notin Waiting \cup running \cup done
             /\ backlog' = Append(backlog, t)
             /\ UNCHANGED <<running, done>>

(* The oldest task is taken and its execution begins. *)
Start == /\ backlog # <<>>
         /\ Head(backlog) \notin EmptyFns
         /\ Exclusive => running = {}
         /\ backlog' = Tail(backlog)
         /\ running' = running \cup {Head(backlog)}
         /\ UNCHANGED done

(* The oldest task is an empty function: nothing is called. *)
Skip == /\ backlog # <<>>
        /\ Head(backlog) \in EmptyFns
        /\ Exclusive => running = {}
        /\ backlog' = Tail(backlog)
        /\ done' = done \cup {Head(backlog)}
        /\ UNCHANGED running

Finish(t) == /\ t \in running
             /\ running' = running \ {t}
             /\ done' = done \cup {t}
             /\ UNCHANGED backlog

Next == \/ \E t \in Tasks : Submit(t) \/ Finish(t)
        \/ Start
        \/ Skip

Spec == Init /\ [][Next]_vars
=============================================================================
