---------------------------- MODULE MCAtomicFile ----------------------------
(* AtomicFile with two PIDs, so that a later process may or may not have   *)
(* an earlier one's, and two nonces, so that names may collide.            *)
EXTENDS AtomicFile, TLC

CONSTANTS p1, p2, n1, n2

TwoPids == {p1, p2}
TwoNonces == {n1, n2}
Symmetric == Permutations(TwoPids) \cup Permutations(TwoNonces)
=============================================================================
