------------------------------ MODULE MCStream ------------------------------
(***************************************************************************)
(* The two halves of a streaming query, each on an instance of its own:    *)
(* what events the runner makes of the SDK's messages, and how a stream of *)
(* events passes the queue to the client.                                  *)
(***************************************************************************)
EXTENDS QueryStream, EventStream

CONSTANT Parts    \* bound: which halves are played, of "events" and "queue"

VARIABLE part

\* Which services of the queue's producer fail.
MCNoFaults == {}
MCAllFaults == {"create", "interrupt", "update"}

\* A few messages: texts, edits, with and without a type or a file, a question beside an
\* edit, a user's text, and a result that succeeds, fails or is malformed.
SDK(form, tag, type, name, what) ==
    [form |-> form, tag |-> tag, type |-> type, name |-> name, what |-> what]
Text   == SDK("object", "none", "text", "other", "t")
Empty  == SDK("dict", "own", "text", "other", "")
Thought == SDK("dict", "other", "thinking", "other", "t")
EditF  == SDK("object", "own", "tool_use", "Edit", "f")
WriteG == SDK("dict", "own", "tool_use", "Write", "g")
EditH  == SDK("object", "none", "tool_use", "Edit", "h")
Write0 == SDK("dict", "own", "tool_use", "Write", "")
Ask    == SDK("object", "own", "tool_use", "AskUserQuestion", "q")
Output == SDK("dict", "own", "tool_result", "other", "o")
MCBlocks == {Text, Empty, Thought, EditF, WriteG, EditH, Write0, Ask, Output}

Msg(kind, blocks) ==
    [kind |-> kind, blocks |-> blocks, turns |-> 1, error |-> FALSE, malformed |-> FALSE]
MCMessages ==
    {Msg("assistant", <<Text, EditF, EditH, WriteG>>),
     Msg("assistant", <<Empty, Text, Thought, Write0>>), Msg("assistant", <<Text>>),
     Msg("assistant", <<WriteG, Ask>>), Msg("user", <<Output, Text>>), Msg("user", <<EditF>>),
     Msg("partial", <<>>), Msg("system", <<>>), Msg("result", <<>>),
     [Msg("result", <<>>) EXCEPT !.error = TRUE],
     [Msg("result", <<>>) EXCEPT !.malformed = TRUE]}

\* The half that is not played is at one of its starts, and stays there.
HalvesInit ==
    /\ part \in Parts
    /\ Init
    /\ part = "events" => ~known
    /\ EventsInit
    /\ part = "queue" => \A o \in DOMAIN options : ~options[o]

\* The queue may stop for good (see EndsUnlessFull), the runner may not.
HalvesNext ==
    /\ UNCHANGED part
    /\ \/ part = "queue" /\ Next /\ UNCHANGED eventVars
       \/ part = "queue" /\ UNCHANGED <<vars, eventVars>>
       \/ part = "events" /\ EventsNext /\ UNCHANGED vars

\* The fairness is that of StreamSpec.
HalvesSpec ==
    /\ HalvesInit /\ [][HalvesNext]_<<part, vars, eventVars>>
    /\ WF_vars(Producer) /\ WF_vars(Generator) /\ WF_vars(Cancelled)
=============================================================================
