--------------------------- MODULE MCSessionLock ---------------------------
(* SessionLock on a small instance. *)
EXTENDS SessionLock, TLC
CONSTANTS w1, w2, w3
MCWorkers == {w1, w2, w3}
MCTwoWorkers == {w1, w2}
MCSymmetry == Permutations(MCWorkers)
=============================================================================
