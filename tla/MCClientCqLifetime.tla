------------------------- MODULE MCClientCqLifetime -------------------------
(* The instance of ClientCqLifetime that TLC checks. *)
EXTENDS ClientCqLifetime

CONSTANTS u, s, b

MCUnary == {u}
MCStreaming == {s, b}
MCBorrowers == {b}
=============================================================================
