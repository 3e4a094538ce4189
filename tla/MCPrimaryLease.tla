--------------------------- MODULE MCPrimaryLease ---------------------------
(* Two instances on a short clock.                                         *)
EXTENDS PrimaryLease, TLC

CONSTANTS a, b

Two == {a, b}

\* b's clock is one heartbeat ahead of a's.
SkewedClocks == (a :> 0) @@ (b :> Heartbeat)
=============================================================================
