----------------------------- MODULE MCClientCq -----------------------------
(* The instance of ClientCq that TLC checks. *)
EXTENDS ClientCq

CONSTANTS t1, t2, t3, o1, o2, a, b

MCTasks == {t1, t2, t3}
MCEmptyFns == {t3}
MCOps == {o1, o2}
MCNullTags == {o2}
MCThreads == {a, b}
=============================================================================
