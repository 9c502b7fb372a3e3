------------------------------- MODULE MCTask -------------------------------
(* The instance of Task that TLC checks. *)
EXTENDS Task

CONSTANTS f1, f2

MCFrames == {f1, f2}
=============================================================================
