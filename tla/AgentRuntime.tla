------------------------------ MODULE AgentRuntime ------------------------------
(***************************************************************************)
(* One turn of the agent runtime (agent/runtime.py, capability_tools.py):  *)
(* the model is asked, its tool calls run through the granted capability   *)
(* modules, its output passes the in-loop validators or is sent back for a *)
(* retry, and every way the framework can end becomes an owned outcome.    *)
(*                                                                         *)
(* The model is nondeterministic.  The framework (request loop, parallel   *)
(* tool calls, retry counters, usage limits, provider fallback,            *)
(* cancellation) is external and modelled by what runtime.py relies on:    *)
(* the tools of one response run on threads beside one another, and what   *)
(* each does to the turn takes effect in any order.  An answer is the set  *)
(* of marks its text carries: a placeholder handle, a fact tag, a broken   *)
(* tag, a malformed placeholder, a gap where a number belongs, or no       *)
(* content.                                                                *)
(***************************************************************************)
EXTENDS Integers, Sequences, FiniteSets

CONSTANTS
    Granted,        \* the tools of a scheduling turn
    RequestLimit,   \* budget.request_limit
    ToolCallsLimit, \* budget.tool_calls_limit
    RetriesLimit,   \* agent_runtime_retries_limit
    TransientRetries, \* OPENROUTER_TRANSIENT_RETRIES
    MaxMarks,       \* bound: marks one answer carries
    MaxBatch        \* bound: tool calls in one response of the model

ASSUME RuntimeAssumption ==
    /\ Granted \subseteq {"inspect", "compute", "draft", "discard", "baseline"}
    /\ RequestLimit \in Nat /\ ToolCallsLimit \in Nat
    /\ RetriesLimit \in Nat /\ TransientRetries \in Nat /\ MaxBatch \in Nat

VARIABLES
    route,      \* the route the turn was given
    asks,       \* the prompt asks "how many" or "how much"
    phase,      \* "model", "tools", "output", "ended"
    batch,      \* the tool calls of one response
    output,     \* the output the model offered
    attempt,    \* provider attempts of the current model request
    usage,      \* requests and tool calls made, tokens over their ceiling
    retries,    \* output retries and consecutive retries of each tool
    rule,       \* _last_retry_rule
    rejectedBy, \* what refused the last offer: a rule, the framework or nothing
    work,       \* what the tools left behind in the answered responses
    outcome

turnVars == <<route, asks, phase, batch, output, attempt, usage, retries, rule,
          rejectedBy, work, outcome>>

Routes == {"scheduling", "direct", "out_of_scope"}
Marks  == {"handle", "fact", "tag", "slip", "gap"}
\* A draft citation: a draft of this run by position, one of the history, or an
\* id the model garbled.
Old     == 0
Garbled == -1
NoDraft == -2
Blank   == [kind |-> "none", marks |-> {}, cite |-> Old]
Answer(marks) == [Blank EXCEPT !.kind = "answer", !.marks = marks]
DraftOutput(d) == [Blank EXCEPT !.kind = "draft", !.cite = d]
Running == [status |-> "running", reason |-> "none", source |-> "none",
            form |-> Blank]

\* The calls still running, the tools that asked for a retry, the calls that wait
\* for approval, and the drafts and the discard made beside them.
Batch   == [calls: Seq(Granted), failed: SUBSET Granted, pending: Nat, drafts: Nat,
            discarded: BOOLEAN]
NoBatch == [calls |-> << >>, failed |-> {}, pending |-> 0, drafts |-> 0,
            discarded |-> FALSE]

TurnTypeOK ==
    /\ route \in Routes /\ asks \in BOOLEAN
    /\ phase \in {"model", "tools", "output", "ended"}
    /\ batch \in Batch
    /\ attempt \in 0..TransientRetries
    /\ usage \in [requests: 0..RequestLimit, calls: 0..ToolCallsLimit, over: BOOLEAN]
    /\ retries \in [output: 0..RetriesLimit, tool: [Granted -> 0..RetriesLimit]]
    /\ work.drafts \in 0..ToolCallsLimit
    /\ outcome.status \in {"running", "completed", "suspended", "timed_out",
                           "failed", "provider_error", "invalid_output", "runtime_error"}

TurnInit ==
    /\ route \in Routes /\ asks \in BOOLEAN
    /\ phase = "model" /\ batch = NoBatch /\ output = Blank
    /\ attempt = 0
    /\ usage = [requests |-> 0, calls |-> 0, over |-> FALSE]
    /\ retries = [output |-> 0, tool |-> [t \in Granted |-> 0]]
    /\ rule = "none" /\ rejectedBy = "none"
    /\ work = [drafts |-> 0, discarded |-> FALSE, rows |-> FALSE, results |-> FALSE]
    /\ outcome = Running

\* Special routes are granted no tools.
Tools == IF route = "scheduling" THEN Granted ELSE {}

-----------------------------------------------------------------------------
(* How a turn ends.                                                          *)

End(status, reason, source, form) ==
    /\ outcome' = [status |-> status, reason |-> reason, source |-> source, form |-> form]
    /\ phase' = "ended"
    /\ UNCHANGED <<route, asks, attempt, retries>>

\* The last draft_id scheduling_draft returned after the current prompt.
LatestDraft == IF work.drafts > 0 THEN work.drafts ELSE NoDraft

\* UnexpectedModelBehavior: a draft of this run is cited from the trusted tool
\* result, anything else is an invalid output with the rule that refused last,
\* noted just before.
GiveUp ==
    /\ IF LatestDraft # NoDraft
       THEN End("completed", "none", "none", DraftOutput(LatestDraft))
       ELSE End("invalid_output", rule', "agent", Blank)
    /\ UNCHANGED <<batch, output, usage, work>>

\* The adapter's own timer cancels the run: the only timed_out.
Deadline ==
    /\ phase # "ended"
    /\ End("timed_out", "none", "agent", Blank)
    /\ UNCHANGED <<batch, output, usage, rule, rejectedBy, work>>

-----------------------------------------------------------------------------
(* One model request.                                                        *)

\* Mutant: the configured limits never reach the framework.
LimitHitNever == FALSE

\* _to_usage_limits: the merged request and token ceilings.
LimitHit == usage.requests >= RequestLimit \/ usage.over

\* Counted up to the ceiling, where the next request is refused.
Counted == IF usage.requests < RequestLimit THEN usage.requests + 1 ELSE RequestLimit

\* UsageLimitExceeded before the next request.
OutOfBudget ==
    /\ phase = "model" /\ LimitHit
    /\ End("failed", "budget_exhausted", "agent", Blank)
    /\ UNCHANGED <<batch, output, usage, rule, rejectedBy, work>>

\* A transient failure of one request is tried again with the next attempt of
\* the fallback model; nothing before the request is repeated.
ProviderHiccup ==
    /\ phase = "model" /\ ~LimitHit /\ attempt < TransientRetries
    /\ attempt' = attempt + 1
    /\ UNCHANGED <<route, asks, phase, batch, output, usage, retries, rule, rejectedBy,
                   work, outcome>>

\* FallbackExceptionGroup, or a request the provider rejected (ModelHTTPError).
ProviderFails ==
    /\ phase = "model" /\ ~LimitHit
    /\ End("provider_error", "provider_error", "agent", Blank)
    /\ UNCHANGED <<batch, output, usage, rule, rejectedBy, work>>

\* What the model may call in one response.
Calls == {s \in UNION {[1..n -> Granted] : n \in 1..MaxBatch} : \A i \in DOMAIN s : s[i] \in Tools}

Answered ==
    /\ phase = "model" /\ ~LimitHit
    /\ \E over \in BOOLEAN : usage' = [usage EXCEPT !.requests = Counted, !.over = over]

\* The model answers with tool calls; the framework starts them all.
CallTools(s) ==
    /\ Answered /\ s \in Calls
    /\ usage.calls + Len(s) <= ToolCallsLimit
    /\ batch' = [NoBatch EXCEPT !.calls = s]
    /\ attempt' = 0
    /\ phase' = "tools"
    /\ UNCHANGED <<route, asks, output, retries, rule, rejectedBy, work, outcome>>

\* More calls than the budget has left: UsageLimitExceeded before any of them runs.
CallTooMany(s) ==
    /\ Answered /\ s \in Calls
    /\ usage.calls + Len(s) > ToolCallsLimit
    /\ batch' = [NoBatch EXCEPT !.calls = s]
    /\ End("failed", "budget_exhausted", "agent", Blank)
    /\ UNCHANGED <<output, rule, rejectedBy, work>>

\* The output set of a route: a misroute narrows it, never widens it.
Outputs ==
    LET answers == {Answer(m) : m \in {s \in SUBSET Marks : Cardinality(s) <= MaxMarks}}
                   \cup {Answer({"empty"})}
        refusal == [Blank EXCEPT !.kind = "refusal"]
        malformed == [Blank EXCEPT !.kind = "malformed"]
    IN CASE route = "scheduling" ->
              answers \cup {refusal, malformed, [Blank EXCEPT !.kind = "clarification"]}
              \cup {DraftOutput(d) : d \in (0..work.drafts) \cup {Garbled}}
         [] route = "direct" -> answers \cup {malformed}
         [] OTHER -> {refusal, malformed}

Offer(o) ==
    /\ Answered /\ o \in Outputs
    /\ output' = o
    /\ attempt' = 0
    /\ phase' = "output"
    /\ UNCHANGED <<route, asks, batch, retries, rule, rejectedBy, work, outcome>>

-----------------------------------------------------------------------------
(* The tool calls: capability_tools.execute around each module's handler.    *)

\* The calls without the i-th.
Without(s, i) == [j \in 1..(Len(s) - 1) |-> IF j < i THEN s[j] ELSE s[j + 1]]

\* A missing argument, a request that does not validate, or an error code the
\* module marks retryable is a ModelRetry: the model may try the tool again,
\* RetriesLimit times.
ToolRefuses(i) ==
    LET t == batch.calls[i] IN
    /\ phase = "tools"
    /\ rejectedBy' = "tool"
    /\ UNCHANGED rule
    /\ IF retries.tool[t] >= RetriesLimit
       THEN GiveUp
       ELSE /\ batch' = [batch EXCEPT !.calls = Without(@, i), !.failed = @ \cup {t}]
            /\ UNCHANGED <<route, asks, phase, output, attempt, usage, retries, work, outcome>>

\* Mutant: the source of a failure is guessed from its code.
ToolFailsByCode(code, declared) ==
    /\ phase = "tools" /\ batch.calls # << >>
    /\ IF declared
       THEN End("failed", code, IF code = "budget_exhausted" THEN "agent" ELSE "capability", Blank)
       ELSE End("runtime_error", "none", "agent", Blank)
    /\ UNCHANGED <<batch, output, usage, rule, rejectedBy, work>>

\* A declared, not retryable failure keeps its code and ends the run beside its
\* siblings; one no granted manifest declares, or any other exception, is a
\* runtime error.
ToolFails(code, declared) ==
    /\ phase = "tools" /\ batch.calls # << >>
    /\ IF declared
       THEN End("failed", code, "capability", Blank)
       ELSE End("runtime_error", "none", "agent", Blank)
    /\ UNCHANGED <<batch, output, usage, rule, rejectedBy, work>>

\* scheduling_baseline refuses (retryably) once the turn has noted a draft or
\* recorded a discard.
BaselineAsks ==
    /\ work.drafts = 0 /\ ~work.discarded
    /\ batch.drafts = 0 /\ ~batch.discarded

\* CapabilityApprovalRequired: the call is deferred; its siblings go on.
ToolSuspends(i) ==
    /\ phase = "tools" /\ batch.calls[i] = "baseline"
    /\ BaselineAsks
    /\ batch' = [batch EXCEPT !.calls = Without(@, i), !.pending = @ + 1]
    /\ UNCHANGED <<route, asks, phase, output, attempt, usage, retries, rule, rejectedBy,
                   work, outcome>>

\* The handler's result goes to the sink and, through the view, to the model.
ToolReturns(i) ==
    LET t == batch.calls[i] IN
    /\ phase = "tools" /\ t # "baseline"
    /\ batch' = [batch EXCEPT !.calls = Without(@, i),
                              !.drafts = @ + (IF t = "draft" THEN 1 ELSE 0),
                              !.discarded = @ \/ t = "discard"]
    /\ work' = [work EXCEPT !.rows = @ \/ t = "inspect", !.results = @ \/ t = "compute"]
    /\ usage' = [usage EXCEPT !.calls = @ + 1]
    /\ UNCHANGED <<route, asks, phase, output, attempt, retries, rule, rejectedBy, outcome>>

\* Every call of the response has ended and none waits: the results go to the
\* model, and a tool that did not ask for a retry starts counting afresh.
ToolsAnswer ==
    /\ phase = "tools" /\ batch.calls = << >> /\ batch.pending = 0
    /\ retries' = [retries EXCEPT !.tool =
          [t \in Granted |-> IF t \in batch.failed THEN @[t] + 1 ELSE 0]]
    /\ work' = [work EXCEPT !.drafts = @ + batch.drafts, !.discarded = @ \/ batch.discarded]
    /\ batch' = NoBatch
    /\ phase' = "model"
    /\ UNCHANGED <<route, asks, output, attempt, usage, rule, rejectedBy, outcome>>

\* Every call has ended and one waits for approval: the run is suspended with the
\* pending calls, and what their siblings made goes nowhere.
ToolsSuspend ==
    /\ phase = "tools" /\ batch.calls = << >> /\ batch.pending > 0
    /\ End("suspended", "none", "none", Blank)
    /\ UNCHANGED <<batch, output, usage, rule, rejectedBy, work>>

-----------------------------------------------------------------------------
(* The output validators.                                                    *)

LastAttempt == retries.output >= RetriesLimit

\* _reject_uncited_claim: the first rule the answer breaks.  Slips with a
\* handle, a tag or a placeholder are let through on the last attempt; an empty
\* answer, a quantity without a number and a gap never are.
UncitedClaim(o) ==
    LET has(m) == m \in o.marks IN
    IF o.kind # "answer" THEN "none"
    ELSE IF has("empty") THEN "empty_answer"
    ELSE IF has("handle") /\ ~work.results /\ ~LastAttempt THEN "claim_without_calculation"
    ELSE IF has("fact") /\ ~work.rows /\ ~LastAttempt THEN "fact_without_inspection"
    ELSE IF has("tag") /\ ~LastAttempt THEN "claim_tag_malformed"
    ELSE IF has("slip") /\ ~LastAttempt THEN "claim_gap"
    ELSE IF ~has("handle") /\ asks THEN "quantity_without_claim"
    ELSE IF ~has("handle") /\ has("gap") THEN "claim_gap"
    ELSE "none"

\* Mutant: prose after a draft is accepted.
DraftRuleProseAccepted(o) ==
    IF o.kind = "draft" /\ work.drafts = 0 THEN "draft_output_without_draft" ELSE "none"

\* _require_draft_output_after_drafting.
DraftRule(o) ==
    IF o.kind = "draft"
    THEN IF work.drafts = 0 THEN "draft_output_without_draft" ELSE "none"
    ELSE IF work.drafts > 0 THEN "draft_output_missing" ELSE "none"

\* The rule that sends the output back; the validators run in this order.
BrokenRule(o) == IF UncitedClaim(o) # "none" THEN UncitedClaim(o) ELSE DraftRule(o)

\* What the validators turn an accepted output into: every refusal on the
\* out-of-scope route is the fixed one, and a citation of no draft of this run
\* is bound to the latest.
Accepted(o) ==
    IF route = "out_of_scope" THEN [Blank EXCEPT !.kind = "fixed_refusal"]
    ELSE IF o.kind = "draft" /\ o.cite \notin 1..work.drafts
    THEN [o EXCEPT !.cite = LatestDraft]
    ELSE o

OutputRetry(by) ==
    /\ rejectedBy' = by
    /\ IF LastAttempt
       THEN GiveUp
       ELSE /\ retries' = [retries EXCEPT !.output = @ + 1]
            /\ phase' = "model" /\ output' = Blank
            /\ UNCHANGED <<route, asks, batch, attempt, usage, work, outcome>>

\* The framework's own schema check; no rule of ours is named.
OutputMalformed ==
    /\ phase = "output" /\ output.kind = "malformed"
    /\ UNCHANGED rule
    /\ OutputRetry("schema")

OutputRejected ==
    /\ phase = "output" /\ output.kind # "malformed"
    /\ BrokenRule(output) # "none"
    /\ rule' = BrokenRule(output)
    /\ OutputRetry("rule")

OutputAccepted ==
    /\ phase = "output" /\ output.kind # "malformed"
    /\ BrokenRule(output) = "none"
    /\ End("completed", "none", "none", Accepted(output))
    /\ UNCHANGED <<batch, output, usage, rule, rejectedBy, work>>

TurnStep ==
    \/ OutOfBudget \/ ProviderHiccup \/ ProviderFails
    \/ (\E s \in Calls : CallTools(s) \/ CallTooMany(s)) \/ (\E o \in Outputs : Offer(o))
    \/ (\E i \in 1..Len(batch.calls) : ToolRefuses(i) \/ ToolSuspends(i) \/ ToolReturns(i))
    \/ (\E b \in BOOLEAN : ToolFails("budget_exhausted", b))
    \/ ToolsAnswer \/ ToolsSuspend
    \/ OutputMalformed \/ OutputRejected \/ OutputAccepted

TakeTurn == TurnStep \/ Deadline

TurnSpec == TurnInit /\ [][TakeTurn]_turnVars

-----------------------------------------------------------------------------
\* A completed turn that created a draft cites a draft of this very turn, and a
\* turn that created none cites none: a created draft is neither described in
\* prose and lost, nor replaced by a citation of history or a garbled id.
CompletedTurnCitesItsDraft ==
    outcome.status = "completed" =>
        /\ work.drafts > 0 => outcome.form.kind = "draft"
        /\ outcome.form.kind = "draft" => outcome.form.cite \in 1..work.drafts

\* A suspended turn carries only its pending calls, and the model is never suspended
\* after it was told of a draft or a discard that only a completed turn would
\* persist.  What a sibling of the pending call made is lost.
SuspensionFollowsNoDraft ==
    outcome.status = "suspended" => work.drafts = 0 /\ ~work.discarded

\* A slip with a handle, a tag or a placeholder never fails a turn by itself: the
\* last offer is delivered and the grounding gate renders it; the failure names the
\* rule that refused the last offer, not an earlier one.
SlipsAreNotFatal ==
    (outcome.status = "invalid_output" /\ rejectedBy = "rule") =>
        outcome.reason \in {"empty_answer", "quantity_without_claim", "claim_gap",
                            "draft_output_without_draft"}

\* Whatever the model says on the out-of-scope route, the planner sees the fixed
\* refusal or a failure; and no special route ever runs a tool.
OffTopicNeverAnswered ==
    /\ (route = "out_of_scope" /\ outcome.status = "completed")
            => outcome.form.kind = "fixed_refusal"
    /\ route # "scheduling" => usage.calls = 0

\* budget_exhausted of the agent means a ceiling was reached; the same code
\* raised by a capability keeps its own source.
BudgetFailureIsReal ==
    (outcome.reason = "budget_exhausted" /\ outcome.source = "agent") =>
        \/ usage.requests >= RequestLimit \/ usage.over
        \/ usage.calls + Len(batch.calls) > ToolCallsLimit

\* A turn ends without the deadline's help: retries and limits bound the loop.
TurnEnds == <>(phase = "ended")

\* A turn delivers the work it told the model of: a draft is cited by the turn that
\* made it, and no later response is suspended over it.
TurnDeliversItsWork == TurnTypeOK /\ CompletedTurnCitesItsDraft /\ SuspensionFollowsNoDraft

\* The end of a turn has the reason it is shown with: a slip, an off-topic request
\* and a capability's budget are not mistaken for something else.
TurnEndIsHonest == SlipsAreNotFatal /\ OffTopicNeverAnswered /\ BudgetFailureIsReal
=============================================================================
