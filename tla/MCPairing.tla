----------------------------- MODULE MCPairing -----------------------------
(* Instances of Pairing for TLC: the edges are interchangeable.            *)
EXTENDS Pairing, TLC

EdgeSymmetry == Permutations(Edges)

\* No kill and no reboot comes at one of the two moments at which it does harm.
UncutSpec == Init /\ [][Next /\ ~LeftBehind /\ \A h \in Hosts : ~CutShort(h)]_vars
============================================================================
