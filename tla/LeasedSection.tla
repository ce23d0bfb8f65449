--------------------------- MODULE LeasedSection ---------------------------
(***************************************************************************)
(* What SessionLockManager.with_session_lock promises its callers, with no *)
(* Redis in it: a critical section may start only when every section still *)
(* running has outlived the lease it was entered under.                    *)
(***************************************************************************)
CONSTANT Workers          \* the callers of with_session_lock on one session

VARIABLES
    inside,               \* the callers running their function
    lapsed                \* those of them whose lease ran out meanwhile

Init == inside = {} /\ lapsed = {}

Enter(w) ==
    /\ w \notin inside
    /\ inside \subseteq lapsed
    /\ inside' = inside \cup {w}
    /\ UNCHANGED lapsed

Lapse(w) ==
    /\ w \in inside
    /\ lapsed' = lapsed \cup {w}
    /\ UNCHANGED inside

Exit(w) ==
    /\ w \in inside
    /\ inside' = inside \ {w}
    /\ lapsed' = lapsed \ {w}

Next == \E w \in Workers : Enter(w) \/ Lapse(w) \/ Exit(w)

Spec == Init /\ [][Next]_<<inside, lapsed>>
=============================================================================
