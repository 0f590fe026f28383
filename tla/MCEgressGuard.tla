--------------------------- MODULE MCEgressGuard ---------------------------
(* The sessions of an instance are interchangeable. *)
EXTENDS EgressGuard, TLC

SessionSymmetry == Permutations(Sessions)
============================================================================
