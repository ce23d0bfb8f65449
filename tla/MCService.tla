----------------------------- MODULE MCService -----------------------------
(***************************************************************************)
(* Five components that share no state, each on an instance of its own:    *)
(* a behaviour is one of queries being configured, a hook asked,           *)
(* checkpoints made, a walk through the sessions, or a life of the process.*)
(***************************************************************************)
EXTENDS QueryConfig, Checkpoints, SessionList, Lifetime, TLC

CONSTANTS q1, q2, a, b

VARIABLE part

vars == <<part, configVars, hookVars, ckVars, pageVars, lifeVars>>

Empty   == [n \in {a, b} |-> "none"]
NoFiles == [f \in Files |-> Empty]
Both(x, y)    == a :> x @@ b :> y
App(x, y)     == [NoFiles EXCEPT !["app"] = Both(x, y)]
Alone(routes) == {q1 :> r @@ q2 :> "none" : r \in routes}
Plan(files, var, key, routes, ask, n) ==
    [file |-> files, variable |-> var, record |-> key, entries |-> routes, asked |-> ask, edits |-> n]
Idle == Plan(NoFiles, TRUE, Empty, Alone({"http"}), {None}, 0)

MCPlans == {
    \* one query, with every tier of files and all a request may ask for
    Plan([App("good", "var") EXCEPT !["global"] = Both("good", "bad")], TRUE,
         Both("none", "bad"), Alone({"http"}), {None, {}, {a}, {a, b}}, 1),
    Plan([App("good", "good") EXCEPT !["mcpJson"] = Both("good", "good"),
                                     !["claudeJson"] = Both("bad", "good")], TRUE,
         Both("on", "on"), Alone({"http"}), {None, {b}}, 1),
    Plan([App("good", "good") EXCEPT !["mcpJson"] = Odd], TRUE,
         Both("on", "off"), Alone({"http", "socket"}), {None, {}, {a}}, 1),
    Plan([NoFiles EXCEPT !["app"] = Odd], TRUE, Both("on", "on"), Alone({"socket"}), {None, {a}}, 1),
    \* only the server side, which changes twice
    Plan(App("good", "var"), FALSE, Both("off", "on"), Alone({"http", "resume", "fork"}), {None}, 2),
    \* two prompts of a connection, two queries that heal one index
    Plan(App("good", "none"), TRUE, Both("none", "on"), {[q \in {q1, q2} |-> "socket"]}, {None}, 1),
    Plan(App("good", "none"), TRUE, Both("on", "none"), {[q \in {q1, q2} |-> "resume"]}, {None}, 1) }

Symmetric == Permutations(Makers)

MCHooks == [event : Events, matcher : {"none", "matches", "other", "invalid"}, configured : BOOLEAN]

\* Of four sessions the second and the third are born at once; a session at the
\* start is missing, without a mode, or what the one filter asks for.
MCBorn    == 1 :> 1 @@ 2 :> 2 @@ 3 :> 2 @@ 4 :> 3
MCFilters == {Plain, [mode |-> "code", tagged |-> TRUE]}
MCAtStart == {Missing} \cup MCFilters

\* Whatever a part that is not played might choose is settled first.
Init ==
    /\ part \in {"queries", "hook", "checkpoints", "list", "life"}
    /\ part = "hook" \/ hook = CHOOSE h \in Hooks : TRUE
    /\ part = "checkpoints" \/ /\ owner = [m \in Makers |-> CHOOSE s \in Sessions : TRUE]
                               /\ about = [m \in Makers |-> CHOOSE u \in Messages : TRUE]
    /\ part = "list" \/ (table = [s \in Rows |-> Missing] /\ filter = Plain /\ size = 1)
    /\ part = "life" \/ serves = [h \in Handlers |-> CHOOSE s \in Served : TRUE]
    /\ \E plan \in IF part = "queries" THEN Plans ELSE {Idle} : ConfigInit(plan)
    /\ HookInit /\ CheckpointInit /\ ListInit /\ LifeInit

Next ==
    /\ UNCHANGED part
    /\ \/ part = "queries" /\ ConfigNext /\ UNCHANGED <<hookVars, ckVars, pageVars, lifeVars>>
       \/ part = "hook" /\ HookNext /\ UNCHANGED <<configVars, ckVars, pageVars, lifeVars>>
       \/ part = "checkpoints" /\ CheckpointNext /\ UNCHANGED <<configVars, hookVars, pageVars, lifeVars>>
       \/ part = "list" /\ ListNext /\ UNCHANGED <<configVars, hookVars, ckVars, lifeVars>>
       \/ part = "life" /\ LifeNext /\ UNCHANGED <<configVars, hookVars, ckVars, pageVars>>

Spec == Init /\ [][Next]_vars
=============================================================================
