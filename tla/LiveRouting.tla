---------------------------- MODULE LiveRouting ----------------------------
(***************************************************************************)
(* The recorded live measurements Gate B reads (evals/live_golden_routing, *)
(* evals/report.py): the code binding is resolved, several paid passes run *)
(* over the golden cases, each recording the tree it found, and one        *)
(* evidence file carries them with a verdict.  The tree may be edited and  *)
(* committed, and the process may die, at any time between.                *)
(*                                                                         *)
(* A case costs one unit; which cases are routed wrongly, which cost is    *)
(* unknown and which case raises is the model's choice.                    *)
(***************************************************************************)
EXTENDS EvidenceBinding

CONSTANTS
    ChatGrant,        \* the capabilities production offers a chat turn
    AllowedTags,      \* the capabilities the release configuration allows
    RequiredRuns,     \* REQUIRED_RUNS, MULTI_TURN_REQUIRED_RUNS
    SpendCeiling,     \* spend_ceiling_usd over one invocation
    TurnLimit,        \* the tightest of a LiveSuiteBudgetV1's ceilings, in turns
    CaseLimit,        \* LiveSuiteBudgetV1.case_limit
    TurnsOf,          \* the multi-turn cases, as their numbers of turns
    PassOutcomes      \* what a pass may meet: [wrong, unpriced, raises]

ASSUME LiveAssumption == RequiredRuns \in Nat \ {0} /\ SpendCeiling \in Nat \ {0}

VARIABLES
    files,      \* the evidence files of the working tree
    measure     \* a live measurement under way

liveVars == <<files, measure>>

Protected == {"consequential", "prohibited"}
LiveKinds == {"routing", "multi_turn"}

----------------------------------------------------------------------------
\* run_routing_pass: cases in order until the invocation's ceiling is reached
\* or a cost is unknown; cases the chat never offers are recorded, not run.
RoutingPass(cases, outcome, before) ==
    LET eligible   == SelectSeq(cases, LAMBDA c : c.live)
        Offered(i) == eligible[i].capability \in ChatGrant
        Spent(i)   == before + Cardinality({j \in 1..(i - 1) : Offered(j)})
        ceiling    == {i \in DOMAIN eligible : Spent(i) >= SpendCeiling}
        unpriced   == {i \in DOMAIN eligible : Offered(i) /\ eligible[i].id \in outcome.unpriced}
        stop       == Min({Len(eligible)} \cup {i - 1 : i \in ceiling} \cup unpriced)
        counted    == {i \in 1..stop : Offered(i) /\ eligible[i].capability \in AllowedTags}
        protected  == {i \in counted : eligible[i].risk \in Protected}
        Right(S)   == Cardinality({i \in S : eligible[i].id \notin outcome.wrong \cup outcome.unpriced})
    IN [complete   |-> stop = Len(eligible) /\ stop \notin unpriced,
        overall    |-> counted # {} /\ 100 * Right(counted) >= 90 * Cardinality(counted),
        protected  |-> protected # {} /\ Right(protected) = Cardinality(protected),
        priced     |-> unpriced \cap (1..stop) = {},
        population |-> {eligible[i].id : i \in 1..stop},
        cost       |-> Cardinality({i \in (1..stop) \ unpriced : Offered(i)})]

\* run_bounded_live_multi_turn_suite: the ceilings are looked at before each case
\* and after each turn, so a case whose last turn reaches one stays partial; a
\* case that raises is failed and costs what its turns before did.
MultiTurnPass(outcome) ==
    LET Cost(k)  == IF k \in outcome.raises THEN 0 ELSE TurnsOf[k]
        Used[k \in 0..Len(TurnsOf)] == IF k = 0 THEN 0 ELSE Used[k - 1] + Cost(k)
        before   == {k \in DOMAIN TurnsOf : k > CaseLimit \/ Used[k - 1] >= TurnLimit}
        within   == {k \in DOMAIN TurnsOf : k \notin outcome.raises /\ Used[k] >= TurnLimit}
        stop     == Min({Len(TurnsOf)} \cup {k - 1 : k \in before} \cup within)
        Passed(k) == k \notin outcome.raises \cup outcome.wrong /\ k \notin within
    IN [complete   |-> stop = Len(TurnsOf) /\ stop \notin within,
        overall    |-> stop > 0 /\ \A k \in 1..stop : Passed(k),
        priced     |-> TRUE,
        protected  |-> TRUE,
        population |-> 1..stop,
        cost       |-> 0]

\* multi_turn_verdict_reasons: why the passes cannot support a `passed`.
MultiTurnVerdict(runs, bound) ==
    LET codes == {r.code : r \in Range(runs)} \cup {bound} IN
    {why \in {"runs", "incomplete", "overall", "spend", "code", "dirty", "population"} :
        \/ why = "runs" /\ Len(runs) < RequiredRuns
        \/ why = "incomplete" /\ \E r \in Range(runs) : ~r.complete
        \/ why = "overall" /\ \E r \in Range(runs) : ~r.overall
        \/ why = "spend" /\ \E r \in Range(runs) : ~r.priced
        \/ why = "code" /\ Cardinality(codes) > 1
        \/ why = "dirty" /\ \E r \in Range(runs) : r.code.dirty
        \/ why = "population" /\ Cardinality({r.population : r \in Range(runs)}) > 1}

\* routing_verdict: the same, and every protected case right.
RoutingVerdict(runs, bound) ==
    MultiTurnVerdict(runs, bound)
        \cup (IF \E r \in Range(runs) : ~r.protected THEN {"protected"} ELSE {})

\* LiveReadinessExceptionV1.is_valid, and the verdict it may turn.
LiveVerdict(reasons, expires) ==
    IF reasons = {} THEN "passed" ELSE IF clock < expires THEN "excepted" ELSE "blocked"

----------------------------------------------------------------------------
\* generate_live_routing_evidence, generate_live_multi_turn_evidence: a dirty
\* tree is refused before the first paid call; the process has loaded its code.
StartMeasure(kind, allowDirty, expires) ==
    LET code == CodeBinding(allowDirty, {kind}) IN
    /\ measure = Null /\ code.ok
    /\ measure' = [kind |-> kind, code |-> code, allowDirty |-> allowDirty, expires |-> expires,
                   tree |-> work, cases |-> GoldenAt[work.live], runs |-> <<>>, spent |-> 0]
    /\ UNCHANGED <<files, repoVars>>

MeasurePass(outcome) ==
    /\ measure # Null /\ Len(measure.runs) < RequiredRuns
    /\ LET code == CodeBinding(TRUE, {measure.kind})
           run  == IF measure.kind = "routing"
                   THEN RoutingPass(measure.cases, outcome, measure.spent)
                   ELSE MultiTurnPass(outcome)
       IN measure' = [measure EXCEPT
                !.runs = Append(@, [code |-> code, complete |-> run.complete, overall |-> run.overall,
                                    protected |-> run.protected, priced |-> run.priced,
                                    population |-> run.population]),
                !.spent = @ + run.cost]
    /\ UNCHANGED <<files, repoVars>>

\* The document: its verdict and what it is bound to.
LiveRecord(bindings, reasons) ==
    [bound |-> bindings, verdict |-> LiveVerdict(reasons, measure.expires),
     expires |-> measure.expires, tree |-> measure.tree]

\* The verdict, then the bindings around the code block of the start.
FinishMeasure ==
    /\ measure # Null /\ Len(measure.runs) = RequiredRuns
    /\ LET reasons  == IF measure.kind = "routing" THEN RoutingVerdict(measure.runs, measure.code)
                       ELSE MultiTurnVerdict(measure.runs, measure.code)
           bindings == ResolveBindings(measure.code, measure.allowDirty, {measure.kind}, {"golden", "images"})
       IN IF bindings.ok
          THEN /\ files' = [files EXCEPT ![measure.kind] = LiveRecord(bindings, reasons)]
               /\ dirt' = dirt \cup {measure.kind}
          ELSE UNCHANGED <<files, dirt>>
    /\ measure' = Null
    /\ UNCHANGED <<commits, head, work, manifest, clock, strayed, edits>>

MeasureDies ==
    /\ measure # Null
    /\ measure' = Null
    /\ UNCHANGED <<files, repoVars>>
=============================================================================
