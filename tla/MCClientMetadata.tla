-------------------------- MODULE MCClientMetadata --------------------------
(***************************************************************************)
(* ClientMetadata for TLC: brokers are interchangeable, and so are calls.  *)
(***************************************************************************)
EXTENDS ClientMetadata, TLC

Symmetry == Permutations(Nodes) \cup Permutations(Calls)
=============================================================================
