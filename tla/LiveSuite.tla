----------------------------- MODULE LiveSuite -----------------------------
(***************************************************************************)
(* The live conversation suite (evals/live_conversations): an invocation   *)
(* records the code it found, builds the images, and runs every authored   *)
(* scenario some number of times against a disposable stack, judging each  *)
(* turn.  It may be killed, and another invocation may resume its report.  *)
(* The evidence builder combines saved reports into one verdict, a         *)
(* baseline is derived from it, and a report is published turn by turn.    *)
(*                                                                         *)
(* A scenario is its place in the authored order.  The content id of an    *)
(* image is the code it was built from, which may be another than the code *)
(* the invocation recorded before: nothing compares the two.               *)
(***************************************************************************)
EXTENDS LiveRouting

CONSTANTS
    AuthoredTurns,      \* turns of each scenario, in the authored order
    RequiredReps,       \* REQUIRED_REPETITIONS
    ExecutionRetries,   \* --execution-retries
    SuiteSpend,         \* --spend-limit-usd, in calls
    AggregateFloor,     \* AGGREGATE_FLOOR
    Configs,            \* measured configurations
    OperationsAt,       \* live version -> operations a chat turn can address
    UnreachableInChat,  \* operations with a recorded deterministic proof
    Meets,              \* what an execution may meet: [fault, turns]
    MaxReports          \* bound on saved reports

ASSUME SuiteAssumption == RequiredReps \in Nat \ {0} /\ Len(AuthoredTurns) > 0

VARIABLES
    images,     \* the code the live-eval images were built from
    suite,      \* the invocation under way
    reports,    \* the saved run reports
    baseline    \* evals/baselines/live-conversations.json

suiteVars == <<images, suite, reports, baseline>>

Scenarios == DOMAIN AuthoredTurns

----------------------------------------------------------------------------
(* Judging one turn.                                                         *)

\* verdict_from, passes: every applicable dimension's probability of "meets".
JudgmentVerdict(levels) ==
    IF levels = {} THEN "uncertain"
    ELSE IF "low" \in levels THEN "fail"
    ELSE IF levels = {"high"} THEN "pass" ELSE "uncertain"

\* _call: a transport fault or a malformed answer is retried once; another
\* status is final; an answer is charged even when it cannot be read.
JudgeCall(answers) ==
    LET attempts == IF answers[1].kind \in {"transport", "malformed"} THEN 2 ELSE 1
        last     == answers[attempts]
    IN [judgment |-> IF last.kind = "judged" THEN JudgmentVerdict(last.levels) ELSE "down",
        charged  |-> Cardinality({i \in 1..attempts : answers[i].kind \in {"malformed", "judged"}})]

\* turn_verdict, verdict_from_checks: a factual failure wins, a judge that is
\* down leaves the turn ungraded.
TurnVerdict(failures, judgment) ==
    IF judgment = "down" THEN "incomplete"
    ELSE IF failures # {} THEN "fail"
    ELSE IF judgment = "uncertain" THEN "needs_review" ELSE judgment

Unjudged == [verdict |-> "incomplete", failures |-> {}, ops |-> {}]

\* ConversationBudget: a call is admitted while one more unit fits, and a charge
\* beyond the limit ends the execution with what it cost retained.
Admits(spent) == spent + 1 <= SuiteSpend
Overdrawn(spent) == spent > SuiteSpend

\* execute_prefix: turn after turn until one exhausts the budget or the
\* application cannot be read; a judge out of budget only leaves its turn ungraded.
ExecutePrefix(turns, spent) ==
    LET at[i \in 0..Len(turns)] ==
          IF i = 0 THEN [spent |-> spent, rows |-> <<>>, reason |-> Null]
          ELSE LET before == at[i - 1]
                   turn   == turns[i]
                   used   == before.spent + turn.cost
                   judge  == JudgeCall(turn.judge)
                   after  == IF Admits(used) THEN used + judge.charged ELSE used
                   graded == Admits(used) /\ ~Overdrawn(after)
               IN IF before.reason # Null THEN before
                  ELSE IF ~Admits(before.spent) THEN [before EXCEPT !.reason = "budget"]
                  ELSE IF Overdrawn(used) \/ turn.aborts
                  THEN [spent |-> used, rows |-> Append(before.rows, Unjudged),
                        reason |-> IF Overdrawn(used) THEN "budget" ELSE "fault"]
                  ELSE [spent |-> after, reason |-> Null,
                        rows |-> Append(before.rows,
                            [verdict  |-> IF graded THEN TurnVerdict(turn.failures, judge.judgment)
                                          ELSE "incomplete",
                             failures |-> turn.failures, ops |-> turn.ops])]
    IN at[Len(turns)]

----------------------------------------------------------------------------
(* suite.main.                                                               *)

AllCells ==
    [i \in 1..(RequiredReps * Len(AuthoredTurns)) |->
        [rep |-> 1 + ((i - 1) \div Len(AuthoredTurns)), scenario |-> 1 + ((i - 1) % Len(AuthoredTurns))]]

NewReport(code, rebuilt, config, kept) ==
    [code |-> code, images |-> Null, rebuilt |-> rebuilt, steady |-> FALSE, config |-> config,
     prefixes |-> kept, incomplete |-> Null, finished |-> FALSE]

\* The code is recorded first.  A resume keeps the executions that passed; it is
\* refused when the code or the configuration differ.
StartSuite(resume, skipBuild, config) ==
    LET code == CodeBinding(TRUE, {})
        kept == IF resume = 0 THEN <<>>
                ELSE SelectSeq(reports[resume].prefixes, LAMBDA p : p.status = "passed")
        Done(c) == \E p \in Range(kept) : p.rep = c.rep /\ p.scenario = c.scenario
    IN /\ suite = Null /\ Len(reports) < MaxReports
       /\ resume # 0 => reports[resume].code = code /\ reports[resume].config = config
       /\ suite' = [report |-> NewReport(code, ~skipBuild, config, kept), resume |-> resume, found |-> work,
                    attempt |-> 1, spent |-> 0, todo |-> SelectSeq(AllCells, LAMBDA c : ~Done(c))]
       /\ UNCHANGED <<images, reports, baseline, liveVars, repoVars>>

Building == suite # Null /\ suite.report.images = Null

\* build_live_images, live_image_digests: the images of the tree as it is by now.
\* A build that fails leaves a report that says so and is not finished; images
\* other than those of the report that is resumed refuse the resume.
BuildImages(builds) ==
    LET built == IF ~suite.report.rebuilt THEN images ELSE IF builds THEN work ELSE Null
        same  == suite.resume # 0 => reports[suite.resume].images = built
    IN /\ Building
       /\ images' = IF suite.report.rebuilt /\ builds THEN work ELSE images
       /\ suite' = IF built # Null /\ same
                   THEN [suite EXCEPT !.report.images = built, !.report.steady = (work = suite.found)]
                   ELSE Null
       /\ reports' = IF built = Null
                     THEN Append(reports, [suite.report EXCEPT !.incomplete = "build"]) ELSE reports
       /\ UNCHANGED <<baseline, liveVars, repoVars>>

Prefix(turns, status, reason, started) ==
    [scenario |-> Head(suite.todo).scenario, rep |-> Head(suite.todo).rep,
     attempt |-> suite.attempt, status |-> status, reason |-> reason, turns |-> turns,
     conv |-> IF started THEN <<Len(reports) + 1, Len(suite.report.prefixes) + 1>> ELSE Null,
     tree |-> images]

Finished(report) ==
    /\ reports' = Append(reports, [report EXCEPT !.finished = TRUE])
    /\ suite' = Null

\* One execution.  An execution that ends incomplete is tried again on a fresh
\* stack; a budget that is spent, the last retry, and a fault of the stack or of
\* creating the conversation end the invocation.
Execute(met) ==
    /\ suite # Null /\ ~Building /\ suite.todo # <<>>
    /\ met.fault = Null => Len(met.turns) = AuthoredTurns[Head(suite.todo).scenario]
    /\ LET started == met.fault = Null
           walked  == IF started THEN ExecutePrefix(met.turns, suite.spent)
                      ELSE [spent |-> suite.spent, rows |-> <<>>,
                            reason |-> IF met.fault = "setup" THEN "fault" ELSE Null]
           status  == IF met.fault # Null \/ walked.reason # Null THEN "incomplete"
                      ELSE IF \A row \in Range(walked.rows) : row.verdict = "pass"
                      THEN "passed" ELSE "failed"
           report  == [suite.report EXCEPT !.prefixes =
                        Append(@, Prefix(walked.rows, status, walked.reason, started))]
           fatal   == \/ met.fault = "stack" \/ walked.reason = "budget"
                      \/ walked.reason = "fault" /\ suite.attempt > ExecutionRetries
       IN \/ /\ fatal
             /\ Finished([report EXCEPT !.incomplete =
                    IF met.fault = "stack" THEN "stack" ELSE walked.reason])
          \/ /\ ~fatal
             /\ suite' = [suite EXCEPT !.report = report, !.spent = walked.spent,
                            !.attempt = IF walked.reason = Null THEN 1 ELSE @ + 1,
                            !.todo = IF walked.reason = Null THEN Tail(@) ELSE @]
             /\ UNCHANGED reports
    /\ UNCHANGED <<images, baseline, liveVars, repoVars>>

SuiteFinishes ==
    /\ suite # Null /\ ~Building /\ suite.todo = <<>>
    /\ Finished(suite.report)
    /\ UNCHANGED <<images, baseline, liveVars, repoVars>>

\* The process is killed: the report on disk is the one of the last save, with
\* the rows of the turns it had begun.  Before its images are there it has saved
\* nothing.
SuiteDies(begun) ==
    /\ suite # Null /\ ~Building /\ suite.todo # <<>> /\ begun <= AuthoredTurns[Head(suite.todo).scenario]
    /\ reports' = Append(reports, [suite.report EXCEPT !.prefixes =
           Append(@, Prefix([i \in 1..begun |-> Unjudged], "incomplete", Null, begun > 0))])
    /\ suite' = Null
    /\ UNCHANGED <<images, baseline, liveVars, repoVars>>

BuildDies ==
    /\ Building
    /\ suite' = Null
    /\ UNCHANGED <<images, reports, baseline, liveVars, repoVars>>

----------------------------------------------------------------------------
(* evidence.generate, reporting.summarize_runs.                              *)

RepsOf(run) == {p.rep : p \in Range(run.prefixes)}

\* Only the last attempt of a scenario in a repetition counts.
Finals(run, rep) ==
    LET of(s) == {k \in DOMAIN run.prefixes : run.prefixes[k].rep = rep /\ run.prefixes[k].scenario = s}
    IN {run.prefixes[Max(of(s))] : s \in {t \in Scenarios : of(t) # {}}}

\* A conversation some earlier execution of the same reading already was.
Repeated(runs, i, rep, x) ==
    \E j \in 1..i : \E r \in RepsOf(runs[j]) : \E y \in Finals(runs[j], r) :
        /\ y.conv = x.conv
        /\ j < i \/ (j = i /\ r < rep) \/ (j = i /\ r = rep /\ y.scenario < x.scenario)

\* A repetition is complete when every scenario ran to its last turn, in a
\* conversation and a stack of its own, in a run that did not stop early.
CompleteRep(runs, i, rep) ==
    /\ runs[i].incomplete = Null
    /\ {x.scenario : x \in Finals(runs[i], rep)} = Scenarios
    /\ \A x \in Finals(runs[i], rep) :
        /\ x.reason = Null /\ x.conv # Null
        /\ Len(x.turns) = AuthoredTurns[x.scenario]
        /\ ~Repeated(runs, i, rep, x)

CompleteReps(runs) == {<<i, r>> \in (DOMAIN runs) \X (1..RequiredReps) :
                          r \in RepsOf(runs[i]) /\ CompleteRep(runs, i, r)}

Counted(runs, complete) == UNION {Finals(runs[c[1]], c[2]) : c \in complete}

Reliability == {"unsuccessful_agent_turn"}
Acceptable == {"unsupported_claim"}

\* A wrong fact or effect, or a refused claim nobody accepted for this turn.
FalseClaim(turn, key, accepted) ==
    LET claims == turn.failures \ Reliability
    IN claims \ Acceptable # {} \/ (claims # {} /\ key \notin accepted)

\* build_coverage, require_complete_coverage: the operations of the inventory
\* neither observed in any execution nor recorded as unreachable.
CoverageGaps(runs) ==
    OperationsAt[work.live] \ (UnreachableInChat \cup
        UNION {t.ops : t \in UNION {Range(p.turns) : p \in UNION {Range(r.prefixes) : r \in Range(runs)}}})

\* summarize_runs: why the runs do not support a `passed`.
Summarize(runs, dirty, accepted) ==
    LET complete == CompleteReps(runs)
        counted == Counted(runs, complete)
        turns   == UNION {{<<x, k>> : k \in DOMAIN x.turns} : x \in counted}
        Bad(p)  == FalseClaim(p[1].turns[p[2]], <<p[1].scenario, p[2]>>, accepted)
        clean   == {x.scenario : x \in {y \in counted : y.status = "passed"}}
    IN [reps    |-> Cardinality(complete),
        all     |-> \A i \in DOMAIN runs : \A r \in RepsOf(runs[i]) : <<i, r>> \in complete,
        clean   |-> clean,
        rates   |-> [key \in {<<p[1].scenario, p[2]>> : p \in turns} |->
                        LET of == {p \in turns : <<p[1].scenario, p[2]>> = key}
                        IN [passed   |-> Cardinality({p \in of : p[1].turns[p[2]].verdict = "pass"}),
                            executed |-> Cardinality(of)]],
        false   |-> {p \in turns : Bad(p)} # {},
        reasons |-> {why \in {"gap", "false_claim", "clean_run", "repetitions", "unaccepted", "binding"} :
            \/ why = "gap" /\ CoverageGaps(runs) # {}
            \/ why = "false_claim" /\ \E p \in turns : Bad(p)
            \/ why = "clean_run" /\ clean # Scenarios
            \/ why = "repetitions" /\ Cardinality(complete) < RequiredReps
            \/ why = "unaccepted" /\ \E p \in turns : /\ ~Bad(p)
                                                      /\ p[1].turns[p[2]].verdict # "pass"
                                                      /\ <<p[1].scenario, p[2]>> \notin accepted
            \/ why = "binding" /\ dirty}]

\* _agreed: every report names the same value, and names one.
Agreed(values) == Null \notin values /\ Cardinality(values) = 1

\* generate: the code the reports recorded, at the commit that last touched it;
\* the inventory is that of the tree the builder runs in.
GenerateJourneys(paths, accepted, allowDirty) ==
    LET runs   == [i \in DOMAIN paths |-> reports[paths[i]]]
        code   == runs[1].code
        commit == NearestCodeCommit(code.commit)
        bound  == ResolveBindings([commit |-> commit, dirty |-> code.dirty], allowDirty, {"journeys"}, {})
        found  == Summarize(runs, code.dirty, accepted)
    IN /\ suite = Null /\ paths # <<>>
       /\ Cardinality({r.code : r \in Range(runs)}) = 1
       /\ commit # Null
       /\ Agreed({r.images : r \in Range(runs)}) /\ Agreed({r.config : r \in Range(runs)})
       /\ \E r \in Range(runs) : r.rebuilt
       /\ bound.ok
       /\ files' = [files EXCEPT !["journeys"] =
            [bound |-> bound, verdict |-> IF found.reasons = {} THEN "passed" ELSE "blocked",
             expires |-> 0, inventory |-> OperationsAt[work.live], config |-> runs[1].config,
             found |-> found, counted |-> Counted(runs, CompleteReps(runs)),
             steady |-> \E r \in Range(runs) : r.rebuilt /\ r.steady]]
       /\ dirt' = dirt \cup {"journeys"}
       /\ UNCHANGED <<commits, head, work, manifest, clock, strayed, edits, measure, suiteVars>>

----------------------------------------------------------------------------
(* The regression baseline.                                                  *)

\* derive_baseline, _ensure_source_is_clean: a projection of clean evidence,
\* written under the live-freshness paths.
DeriveBaseline ==
    LET f == files["journeys"] IN
    /\ f # Null /\ f.found.reasons = {} /\ f.found.reps >= RequiredReps /\ f.found.all
    /\ baseline # Null => baseline.source # f
    /\ NewVersion("live")
    /\ baseline' = [source |-> f, config |-> f.config, clean |-> f.found.clean,
                    rates |-> f.found.rates, reps |-> f.found.reps]
    /\ UNCHANGED <<commits, head, dirt, manifest, clock, images, suite, reports, liveVars>>

\* configuration_refusal, truncation_refusal.
ComparisonRefused(b, f) ==
    \/ f.config # b.config
    \/ b.reps < RequiredReps
    \/ f.found.reasons # {} \/ f.found.reps < RequiredReps \/ ~f.found.all

Tier1(b, f) == \A t \in DOMAIN b.rates :
    /\ t \in DOMAIN f.found.rates
    /\ b.rates[t].passed = b.rates[t].executed => f.found.rates[t].passed > 0
Tier2(f) == ~f.found.false
PassedTurns(b, f) == MapThenSumSet(LAMBDA t : f.found.rates[t].passed,
                                   DOMAIN b.rates \cap DOMAIN f.found.rates)
Tier3(b, f) == PassedTurns(b, f) >= AggregateFloor
StructuralCheck(b, f) == b.clean \subseteq f.found.clean

\* compare: no tier is read when the comparison is refused.
Compare(b, f) ==
    IF ComparisonRefused(b, f) THEN {"refused"}
    ELSE {c \in {"tier_1", "tier_2", "tier_3", "structural"} :
            \/ c = "tier_1" /\ ~Tier1(b, f)
            \/ c = "tier_2" /\ ~Tier2(f)
            \/ c = "tier_3" /\ ~Tier3(b, f)
            \/ c = "structural" /\ ~StructuralCheck(b, f)}

----------------------------------------------------------------------------
\* plan_publication: a finished report whose attempts of a scenario come in order
\* and whose conversations are distinct.
PlanPublication(report) ==
    LET ps == report.prefixes
        ordered   == \A i, j \in DOMAIN ps :
            i < j /\ ps[i].rep = ps[j].rep /\ ps[i].scenario = ps[j].scenario
                => ps[i].attempt < ps[j].attempt
        distinct  == \A i, j \in DOMAIN ps : i # j /\ ps[i].conv # Null => ps[i].conv # ps[j].conv
        attached  == \A p \in Range(ps) : p.conv = Null => p.turns = <<>>
    IN IF ~report.finished THEN "report_unfinished"
       ELSE IF ~(ordered /\ distinct /\ attached) THEN "report_malformed"
       ELSE IF \A p \in Range(ps) : p.turns = <<>> THEN "report_nothing_to_publish"
       ELSE "published"

----------------------------------------------------------------------------
(***************************************************************************)
(* Evidence that says the journeys passed rests on the required number of  *)
(* distinct conversations of every scenario (a report and its resumption,  *)
(* read together, count none of them twice), all against the same images;  *)
(* no counted turn told a wrong fact, and every scenario was clean at      *)
(* least once.  The evidence is bound to clean code, and the images were   *)
(* built from it if an invocation it reads found the same tree when it     *)
(* built them as when it recorded the code.                                *)
(***************************************************************************)
JourneysAreEarned ==
    LET f == files["journeys"] IN
    f # Null /\ f.verdict = "passed" =>
        /\ ~f.bound.dirty
        /\ \A s \in Scenarios :
            LET of == {x \in f.counted : x.scenario = s} IN
            /\ Cardinality({x.conv : x \in of}) >= RequiredReps
            /\ \E x \in of : \A t \in Range(x.turns) : t.verdict = "pass"
        /\ Cardinality({x.tree : x \in f.counted}) = 1
        /\ \A x \in f.counted :
            /\ f.steady => x.tree = commits[f.bound.commit].tree
            /\ \A t \in Range(x.turns) : t.failures \subseteq Reliability \cup Acceptable

(***************************************************************************)
(* A report the suite finished is never malformed to the publisher, and a  *)
(* baseline compared with the very evidence it came from fails on nothing  *)
(* but the fixed aggregate floor.                                          *)
(***************************************************************************)
ReportsAreUsable ==
    /\ \A r \in Range(reports) : PlanPublication(r) # "report_malformed"
    /\ baseline # Null /\ files["journeys"] = baseline.source =>
        Compare(baseline, files["journeys"]) \subseteq {"tier_3"}
=============================================================================
