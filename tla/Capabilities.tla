---------------------------- MODULE Capabilities ----------------------------
(***************************************************************************)
(* The governed capabilities: what is installed, what one agent run is     *)
(* granted, and the one path on which a granted tool is called: validated, *)
(* suspended for an approval, retried, or captured for the grounding gate. *)
(***************************************************************************)
EXTENDS Questions, Sequences, Naturals, FiniteSets

CONSTANTS
    CallIds,          \* tool calls one run can make
    MaxRepeat,        \* demonstration.MAX_REPEAT
    Contexts          \* grant contexts: role, site, policies, conversation, explicit

VARIABLES
    grant,            \* the context the run's tools were composed from
    tools,            \* the granted modules
    call,             \* each tool call: what the model sent and where it stands
    captured,             \* results captured for the gate, in order
    acted             \* how often each call's work was done

toolVars == <<grant, tools, call, captured, acted>>

----------------------------------------------------------------------------
(* The declarations                                                          *)

Manifest(name, risk, approval, budget, errors) ==
    [name |-> name, risk |-> risk, approval |-> approval, budget |-> budget, errors |-> errors]
Module(manifest, policy, argument, retryable) ==
    [manifest |-> manifest, role |-> "planner", policy |-> policy, argument |-> argument, retryable |-> retryable]

ComputeErrors ==
    {"scenario_not_found", "version_mismatch", "site_mismatch", "invalid_query",
     "metric_dimension_mismatch", "calculation_failed", "budget_exhausted"}
ComputeManifest == Manifest("scheduling_compute", "inspect", "none", 400, ComputeErrors)
ComputeModule == Module(ComputeManifest, "scheduling_compute_enabled", "request", {"invalid_query", "metric_dimension_mismatch"})

DraftErrors ==
    {"scenario_not_found", "version_mismatch", "site_mismatch", "invalid_query", "draft_failed",
     "budget_exhausted"}
DraftManifest == Manifest("scheduling_draft", "draft", "none", 10, DraftErrors)
DraftModule == Module(DraftManifest, "scheduling_draft_enabled", "request", {"invalid_query"})

DiscardErrors ==
    {"no_working_draft", "draft_changed_this_turn", "budget_exhausted", "draft_discard_failed"}
DiscardManifest == Manifest("scheduling_draft_discard", "draft", "none", 1, DiscardErrors)
DiscardModule == Module(DiscardManifest, "scheduling_draft_discard_enabled", "request", {"no_working_draft", "draft_changed_this_turn"})

InspectErrors ==
    {"inspection_failed", "scenario_not_found", "version_mismatch", "site_mismatch", "invalid_query",
     "budget_exhausted", "inspection_timeout"}
InspectManifest == Manifest("scheduling_inspect", "inspect", "none", 200, InspectErrors)
InspectModule == Module(InspectManifest, "scheduling_inspect_enabled", "request", {"invalid_query"})

OptimizeErrors ==
    {"optimize_failed", "invalid_query", "budget_exhausted"}
OptimizeManifest == Manifest("scheduling_optimize", "compute", "none", 2, OptimizeErrors)
OptimizeModule == Module(OptimizeManifest, "scheduling_optimize_enabled", "request", {"invalid_query"})

BaselineErrors ==
    {"baseline_request_failed", "invalid_query", "draft_changed_this_turn", "approval_required"}
BaselineManifest == Manifest("scheduling_baseline", "consequential", "exact_action", 1, BaselineErrors)
BaselineModule == Module(BaselineManifest, "scheduling_baseline_enabled", "request", {"invalid_query", "draft_changed_this_turn"})

DemonstrationErrors ==
    {"demonstration_failed", "approval_required", "budget_exhausted", "invalid_repeat"}
DemonstrationManifest == Manifest("shiftmind_demonstration", "consequential", "exact_action", 1, DemonstrationErrors)
DemonstrationModule == Module(DemonstrationManifest, "demonstration_enabled", "payload", {"invalid_repeat"})

InstalledModules ==
    <<ComputeModule, DraftModule, DiscardModule, InspectModule, OptimizeModule, BaselineModule, DemonstrationModule>>
Installed == {InstalledModules[i] : i \in DOMAIN InstalledModules}
Policies == {m.policy : m \in Installed}

ValidManifest(m) == m.budget >= 1 /\ m.errors # {} /\ m.risk # "prohibited"
ValidModule(m) == ValidManifest(m.manifest) /\ m.retryable \subseteq m.manifest.errors

\* Every module is valid and no name is installed twice.
InstalledSetIsValid ==
    /\ \A i \in DOMAIN InstalledModules : ValidModule(InstalledModules[i])
    /\ \A i, j \in DOMAIN InstalledModules :
          InstalledModules[i].manifest.name = InstalledModules[j].manifest.name => i = j

ASSUME InstallationAssumption == InstalledSetIsValid
ASSUME MaxRepeatAssumption == MaxRepeat \in Nat
ASSUME MissingAssumption == Missing \notin {m.manifest.name : m \in Installed}

\* The policies whose setting is on.
EnabledPolicy(settings) == Policies \cap settings

\* What a run is granted: nothing across sites or for a revoked conversation,
\* a compute capability only for an explicit run request.
Compose(c) ==
    IF c.site # c.conversationSite \/ c.conversation \in c.revoked
    THEN {}
    ELSE {m \in Installed : (m.manifest.risk # "compute" \/ c.explicit)
                            /\ c.role = m.role /\ m.policy \in c.policy}

\* A turn resumed after an approval never drafts.
ResumeWithheld == {"scheduling_draft", "scheduling_draft_discard"}
RunTools(c) == {m \in Compose(c) : c.resume => m.manifest.name \notin ResumeWithheld}

Granted(name) == {m \in tools : m.manifest.name = name}

----------------------------------------------------------------------------
(* The handlers.  An outcome is a result, a request for approval, or an error *)
(* with its code; c is the call, with the argument that decides (a repeat    *)
(* count, an identifier, a version) as a number.                             *)

Gives == [kind |-> "result", code |-> Missing]
Asks == [kind |-> "approval", code |-> "approval_required"]
Fails(code) == [kind |-> "error", code |-> code]

DoneThisTurn(names) == \E d \in CallIds : acted[d] > 0 /\ call[d].name \in names

DemonstrateUnasked(c) ==
    IF c.n \notin 1..MaxRepeat THEN {Fails("invalid_repeat")} ELSE {Gives}

\* The demonstration: authority before effect.
Demonstrate(c) ==
    IF c.n \notin 1..MaxRepeat THEN {Fails("invalid_repeat")}
    ELSE IF c.n > 1 /\ ~c.approved THEN {Asks} ELSE {Gives}

\* A promotion asks on every call, and not once the turn changed the draft.
RequestBaseline(c) ==
    IF c.n = 0 THEN {Fails("invalid_query")}
    ELSE IF DoneThisTurn({"scheduling_draft", "scheduling_draft_discard"}) THEN {Fails("draft_changed_this_turn")}
    ELSE {Asks}

\* The run command's proposal, version and key are in range.
Optimize(c) == IF c.n \in 1..MaxRepeat THEN {Gives} ELSE {Fails("invalid_query")}

\* One discard in a turn, of a draft the turn found and did not change.
DiscardDraft ==
    IF DoneThisTurn({"scheduling_draft"}) THEN {Fails("draft_changed_this_turn")}
    ELSE IF DoneThisTurn({"scheduling_draft_discard"}) THEN {Fails("no_working_draft")}
    ELSE {Gives, Fails("no_working_draft")}

\* The reads and the draft end as their own modules say: any declared code.
Outcomes(m, c) ==
    IF grant.budget = 0
    THEN {Fails(IF m.manifest.name = "scheduling_baseline" THEN "baseline_request_failed" ELSE "budget_exhausted")}
    ELSE
    CASE m.manifest.name = "shiftmind_demonstration" -> Demonstrate(c)
      [] m.manifest.name = "scheduling_baseline" -> RequestBaseline(c)
      [] m.manifest.name = "scheduling_optimize" -> Optimize(c)
      [] m.manifest.name = "scheduling_draft_discard" -> DiscardDraft
      [] OTHER -> {Gives} \cup {Fails(e) : e \in m.manifest.errors}

----------------------------------------------------------------------------
(* The calls                                                                 *)

NoCall == [pc |-> "idle", name |-> Missing, given |-> FALSE, n |-> 0, approved |-> FALSE, code |-> Missing]

ToolsInit ==
    /\ grant \in Contexts
    /\ tools = RunTools(grant)
    /\ call = [c \in CallIds |-> NoCall]
    /\ captured = <<>>
    /\ acted = [c \in CallIds |-> 0]

\* The model calls a tool of the run: what is not granted does not exist.
\* It may flatten the arguments, so that the declared one is missing.
ModelCalls(c) ==
    /\ call[c].pc = "idle" /\ ~grant.explicit
    /\ \E m \in tools, given \in BOOLEAN, n \in {0, 1, 2, MaxRepeat + 1} :
          call' = [call EXCEPT ![c] = [NoCall EXCEPT !.pc = "called", !.name = m.manifest.name,
                                                     !.given = given, !.n = n]]
    /\ UNCHANGED <<grant, tools, captured, acted>>

Settled(c, pc, code) == call' = [call EXCEPT ![c].pc = pc, ![c].code = code]

\* execute(): a missing argument, a declared approval and a retryable code go
\* back to the model; a result is captured before it is rendered.
Execute(c) ==
    /\ call[c].pc = "called"
    /\ \E m \in Granted(call[c].name) :
          IF ~call[c].given
          THEN Settled(c, "retry", "missing_argument") /\ UNCHANGED <<captured, acted>>
          ELSE \E o \in Outcomes(m, call[c]) :
                 \/ /\ o.kind = "approval"
                    /\ Settled(c, IF m.manifest.approval = "none" THEN "raised" ELSE "suspended", o.code)
                    /\ UNCHANGED <<captured, acted>>
                 \/ /\ o.kind = "error"
                    /\ Settled(c, IF o.code \in m.retryable THEN "retry" ELSE "failed", o.code)
                    /\ UNCHANGED <<captured, acted>>
                 \/ /\ o.kind = "result"
                    /\ Settled(c, "done", Missing)
                    /\ captured' = Append(captured, c)
                    /\ acted' = [acted EXCEPT ![c] = @ + 1]
    /\ UNCHANGED <<grant, tools>>

\* A person decides: the approved call is made again, a denied one is not.
PersonDecides(c) ==
    /\ call[c].pc = "suspended"
    /\ call[c].name = "shiftmind_demonstration"
    /\ \/ call' = [call EXCEPT ![c].pc = "called", ![c].approved = TRUE]
       \/ Settled(c, "denied", Missing)
    /\ UNCHANGED <<grant, tools, captured, acted>>

\* POST /schedule-runs: the only explicit run request, and no model in it.
StartRoute(c) ==
    /\ call[c].pc = "idle" /\ grant.explicit
    /\ \E n \in {0, 1, MaxRepeat + 1} :
          LET asking == [NoCall EXCEPT !.name = "scheduling_optimize", !.given = TRUE, !.n = n]
          IN  IF Granted("scheduling_optimize") = {}
              THEN /\ call' = [call EXCEPT ![c] = [asking EXCEPT !.pc = "refused", !.code = "compute_not_granted"]]
                   /\ UNCHANGED <<captured, acted>>
              ELSE \E o \in Outcomes(OptimizeModule, asking) :
                     /\ call' = [call EXCEPT ![c] = [asking EXCEPT !.pc = IF o = Gives THEN "started" ELSE "refused",
                                                                   !.code = o.code]]
                     /\ acted' = IF o = Gives THEN [acted EXCEPT ![c] = @ + 1] ELSE acted
                     /\ UNCHANGED captured
    /\ UNCHANGED <<grant, tools>>

UseTools == \E c \in CallIds : ModelCalls(c) \/ Execute(c) \/ PersonDecides(c) \/ StartRoute(c)

ToolsSpec == ToolsInit /\ [][UseTools]_toolVars

----------------------------------------------------------------------------
DeclaredOf(name) == UNION {m.manifest.errors : m \in {k \in Installed : k.manifest.name = name}}

\* A tool call works at most once, under an approval when it must have one:
\* one that waits or was denied did nothing.  What a model may correct is a
\* declared error, and only the start route, with its policy on, computes.
CallsAreGoverned ==
    /\ \A c \in CallIds :
          /\ acted[c] <= 1
          /\ call[c].pc \in {"suspended", "denied", "retry", "failed", "refused"} => acted[c] = 0
          /\ acted[c] = 1 => \/ call[c].name \notin {"shiftmind_demonstration", "scheduling_baseline"}
                             \/ call[c].name = "shiftmind_demonstration" /\ (call[c].approved \/ call[c].n = 1)
          /\ call[c].pc = "retry" => call[c].code \in DeclaredOf(call[c].name) \cup {"missing_argument"}
          /\ call[c].pc # "raised"
          /\ call[c].name = "scheduling_optimize" => grant.explicit
          /\ acted[c] = 1 => \E m \in Installed : m.manifest.name = call[c].name /\ m.policy \in grant.policy
    /\ \A c \in CallIds : Cardinality({i \in DOMAIN captured : captured[i] = c}) = IF call[c].pc = "done" THEN 1 ELSE 0
    /\ grant.resume => \A c \in CallIds : call[c].name \notin ResumeWithheld
=============================================================================
