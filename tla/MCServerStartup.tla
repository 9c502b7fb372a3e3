--------------------------- MODULE MCServerStartup ---------------------------
(* The instance of ServerStartup that TLC checks. *)
EXTENDS ServerStartup

CONSTANTS t1, t2

MCTasks == {t1, t2}
=============================================================================
