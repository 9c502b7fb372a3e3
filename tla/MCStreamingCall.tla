--------------------------- MODULE MCStreamingCall ---------------------------
(* The instances of StreamingCall that TLC checks. *)
EXTENDS StreamingCall

(* All kinds of RPC. *)
MCKinds == AllKinds

(* start() is awaited on the thread of the completion queue or through a   *)
(* promise.                                                                *)
MCOrderlyCallers == {"cq", "promise"}

(* start() is awaited by a coroutine on any other thread. *)
MCForeignCoroutine == {"coroutine"}
=============================================================================
