----------------------------- MODULE MCPairing -----------------------------
(* Pairing on small instances. *)
EXTENDS Pairing, TLC

PairingSymmetry == Permutations(Pairings) \cup Permutations(Calls)
=============================================================================
