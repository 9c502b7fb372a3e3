-------------------------- MODULE MCServerDispatch --------------------------
(* The instance of ServerDispatch that TLC checks. *)
EXTENDS ServerDispatch

CONSTANTS t1, t2, t3, a, b, w1, w2

MCTasks == {t1, t2, t3}
MCEmptyFns == {t3}
MCThreads == {a, b}
MCWorkers == {w1, w2}
=============================================================================
