--------------------------- MODULE MCConnections ---------------------------
(* An instance of Connections for TLC: one request of each kind. *)
EXTENDS Connections, TLC

CONSTANTS r1, r2, r3

Mixed == (r1 :> "history") @@ (r2 :> "account") @@ (r3 :> "photo")

=============================================================================
