----------------------------- MODULE MCPairing -----------------------------
(***************************************************************************)
(* Small instances of Pairing for TLC.                                     *)
(***************************************************************************)
EXTENDS Pairing, TLC

CONSTANT k1

\* A clock behind, with and ahead of the Connector's, within the skew and beyond it.
Clocks == {-1, 0, 1, 2}
Twice == (k1 :> 2)

=============================================================================
