--------------------------- MODULE MCSessionStore ---------------------------
(* SessionStore on small instances: the workers and the calls they make. *)
EXTENDS SessionStore
CONSTANTS w1, w2, w3
MCWorkers == {w1, w2, w3}
MCTwoWorkers == {w1, w2}

MCNoFaults == {{}}
MCSomeFaults == {{"expire"}, AllFaults}
MCReadersAndUpdates == {"get", "increment"}
=============================================================================
