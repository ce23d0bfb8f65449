------------------------------ MODULE Webhooks ------------------------------
(***************************************************************************)
(* One hook of an agent's query: HookExecutor finds the webhook the        *)
(* request configures for the event, WebhookService asks it.  The webhook  *)
(* decides for itself when it has the request; its answer may come late,   *)
(* broken or never.                                                        *)
(***************************************************************************)
EXTENDS Integers

CONSTANT
    Hooks         \* the hooks asked: records of event, matcher, configured

Events     == {"PreToolUse", "PostToolUse", "Stop", "SubagentStop", "UserPromptSubmit"}
ToolEvents == {"PreToolUse", "PostToolUse"}
Decisions  == {"allow", "deny", "ask"}

VARIABLES
    hook,         \* the hook being asked
    hookStep,     \* "idle", "posting", "answered", "parsing", "done" or "gone"
    said,         \* what the webhook decided, "nothing" so far
    verdict       \* what the query is told, "none" before

hookVars == <<hook, hookStep, said, verdict>>

ASSUME HooksAssumption ==
    \A h \in Hooks : h.event \in Events /\ h.configured \in BOOLEAN
                     /\ h.matcher \in {"none", "matches", "other", "invalid"}

HookInit == hook \in Hooks /\ hookStep = "idle" /\ said = "nothing" /\ verdict = "none"

\* With no webhook the two events that ask a question get an answer.
Unconfigured(event) == IF event \in {"PreToolUse", "UserPromptSubmit"} THEN "allow" ELSE "acknowledged"

\* A matcher that is no regular expression matches every tool; only tools are matched.
Applies(h) == h.configured /\ (h.event \in ToolEvents => h.matcher # "other")

Tell(decision) == hookStep' = "done" /\ verdict' = decision /\ UNCHANGED hook

\* Mutant of ErrorResponse: a webhook that does not answer never stops a query.
ErrorAllows(event) == "allow"

ErrorResponse(event) == IF event = "PreToolUse" THEN "deny" ELSE "allow"

AskHook ==
    /\ hookStep = "idle"
    /\ \/ Applies(hook) /\ hookStep' = "posting" /\ UNCHANGED <<hook, verdict>>
       \/ ~hook.configured /\ Tell(Unconfigured(hook.event))
       \/ hook.configured /\ ~Applies(hook) /\ Tell("allow")
    /\ UNCHANGED said

\* The webhook has the request and decides, whether or not it is still waited for.
WebhookDecides ==
    /\ hookStep \in {"posting", "done"} /\ Applies(hook) /\ said = "nothing"
    /\ said' \in Decisions
    /\ UNCHANGED <<hook, hookStep, verdict>>

\* TimeoutError, ConnectionError, RequestError, or a header that cannot be encoded:
\* with the request sent or not, and the answer on its way or not.
PostFails ==
    /\ hookStep = "posting"
    /\ Tell(ErrorResponse(hook.event))
    /\ UNCHANGED said

Answered ==
    /\ hookStep = "posting" /\ said # "nothing"
    /\ hookStep' = "answered"
    /\ UNCHANGED <<hook, said, verdict>>

\* A status of 400 or more is an error whatever the body says.
CheckStatus ==
    /\ hookStep = "answered"
    /\ \/ Tell(ErrorResponse(hook.event))
       \/ hookStep' = "parsing" /\ UNCHANGED <<hook, verdict>>
    /\ UNCHANGED said

ParseAnswer ==
    /\ hookStep = "parsing"
    /\ Tell(said) \/ Tell(ErrorResponse(hook.event))
    /\ UNCHANGED said

\* The query is cancelled while it waits: nobody is told.
HookCancelled ==
    /\ hookStep \in {"posting", "answered", "parsing"}
    /\ hookStep' = "gone"
    /\ UNCHANGED <<hook, said, verdict>>

HookNext ==
    \/ AskHook \/ WebhookDecides \/ PostFails \/ Answered
    \/ CheckStatus \/ ParseAnswer \/ HookCancelled

HookSpec == HookInit /\ [][HookNext]_hookVars

----------------------------------------------------------------------------

\* A tool a webhook watches over is used only when that webhook said so: late,
\* lost, broken and failing answers deny it.  What a webhook can only comment
\* on, or a prompt, is stopped only by an answer (webhook.py 91-202).
FailsClosed ==
    hookStep = "done" /\ Applies(hook) =>
        /\ hook.event = "PreToolUse" /\ verdict = "allow" => said = "allow"
        /\ hook.event # "PreToolUse" /\ verdict = "deny" => said = "deny"

\* What execute_hook says of itself: "On error/timeout, returns default allow
\* response" (webhook.py 134), so only a webhook's own answer denies anything.
\* It does not hold of a tool a webhook watches over, see the README.
ErrorsAllow ==
    hookStep = "done" /\ Applies(hook) /\ verdict = "deny" => said = "deny"
=============================================================================
