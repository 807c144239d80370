------------------------- MODULE MCAttesterRegistry -------------------------
(* Small instances of the attester registry for TLC. *)
EXTENDS AttesterRegistryRefinement, TLC

\* Attesters are interchangeable: no instruction compares keys by order.
AttesterSymmetry == Permutations(Attesters)
=============================================================================
