---------------------------- MODULE ReleaseGate ----------------------------
(***************************************************************************)
(* The release gates (scripts/gate_a_readiness.py, gate_b_readiness.py):   *)
(* test suites run and leave a JUnit file each, evidence files record past *)
(* measurements, and a gate reads all of them at one moment and says       *)
(* whether the release may go out.  The tree changes under all of it.      *)
(*                                                                         *)
(* The registries keep one check for each kind of source in each row.      *)
(***************************************************************************)
EXTENDS LiveSuite

CONSTANTS
    Declared,       \* test file -> the test functions of its source: [name, live]
    XmlCases,       \* runner -> what a run of it may leave: sets of cases
    CaseFloor, CapabilityFloor, ProtectedFloor,
    ConsequentialCapabilities,   \* by their manifests
    MaxMeasures     \* bound on test runs, measurements and rewrites of evidence

ASSUME GateAssumption == CaseFloor \in Nat /\ CapabilityFloor \in Nat /\ ProtectedFloor \in Nat

VARIABLES
    xml,        \* the JUnit file of each runner
    testing,    \* the suite under way
    gate,       \* the result of the gate run just made
    measures

gateVars == <<xml, testing, gate, measures>>

Runners == {"pytest", "pytest-postgres", "playwright"}
Evidence == {"stored", "repair", "routing", "multi_turn", "journeys", "report"}

----------------------------------------------------------------------------
(* The registries.                                                           *)

Tests(name, row, runner, file, projects) ==
    [check |-> name, row |-> row, kind |-> "tests", runner |-> runner, file |-> file,
     projects |-> projects]
NamedCases(name, row, file, cases) ==
    [check |-> name, row |-> row, kind |-> "cases", runner |-> "pytest-postgres", file |-> file,
     cases |-> cases]
Stored(name, row, file) == [check |-> name, row |-> row, kind |-> "gate_a", file |-> file]
Live(name, row, file, mayExcept, fresh) ==
    [check |-> name, row |-> row, kind |-> "evidence", file |-> file, mayExcept |-> mayExcept,
     fresh |-> fresh]
Computed(name, row) == [check |-> name, row |-> row, kind |-> "computed"]

\* GATE_A_CHECKS.
GateAChecks == {
    Tests("backend_mutation_denial", "negative_mutation_tests", "pytest", "denial", {}),
    Tests("accessibility_browser_layer", "accessibility", "playwright", "browser",
          {"chromium", "msedge"}),
    Stored("accessibility_evidence", "accessibility", "stored"),
    Stored("repair_browser_journey_evidence", "repair_browser_journey", "repair")}

\* GATE_B_CHECKS, the deterministic and live halves.
ReadinessChecks == {
    Tests("deterministic_evaluation_harness", "readiness", "pytest", "harness", {}),
    Live("live_multi_turn_release_configuration", "readiness", "multi_turn", TRUE, TRUE),
    Live("live_conversation_journeys_evidence", "journeys", "journeys", FALSE, FALSE),
    Computed("live_conversation_inventory_fresh", "journeys"),
    Computed("live_conversation_configuration_fresh", "journeys"),
    Live("live_golden_routing", "tool_routing", "routing", TRUE, TRUE),
    Computed("golden_case_floor", "golden"), Computed("per_capability_floor", "golden"),
    Computed("protected_floor_and_tag_integrity", "golden"),
    NamedCases("nfr35_threshold_tests", "nfr35", "thresholds", {"load"})}

\* GATE_B_CHECKS, the blocking regressions: Gate A's checks, by import.
RegressionChecks == {[c EXCEPT !.row = "regressions"] :
    c \in {a \in GateAChecks : a.check # "repair_browser_journey_evidence"}}

GateBChecks == ReadinessChecks \cup RegressionChecks

Rows == {c.row : c \in GateBChecks} \cup {"report_version_binding"}

----------------------------------------------------------------------------
(* The JUnit files.                                                          *)

\* _case_status: the first child that says so.
CaseStatus(case) ==
    LET marks == SelectSeq(case.children, LAMBDA t : t \in {"skipped", "failure", "error"})
    IN IF marks = <<>> THEN "passed" ELSE IF Head(marks) = "skipped" THEN "skipped" ELSE "failed"

Worst(statuses) ==
    IF "failed" \in statuses THEN "failed"
    ELSE IF "missing" \in statuses THEN "missing"
    ELSE IF "skipped" \in statuses THEN "skipped" ELSE "passed"

CasesOf(runner, file) == {c \in xml[runner].cases : c.file = file}

\* file_outcomes.
FileStatus(runner, file) ==
    IF CasesOf(runner, file) = {} THEN "missing"
    ELSE Worst({CaseStatus(c) : c \in CasesOf(runner, file)})
ProjectsOf(runner, file) == {c.project : c \in CasesOf(runner, file)} \ {""}

\* missing_pytest_cases: a function of the source that left no case.
MissingCases(checks) ==
    {c \in {d \in checks : d.kind = "tests" /\ d.runner = "pytest"} :
        \E f \in Declared[c.file] : ~f.live /\ f.name \notin {x.name : x \in CasesOf("pytest", c.file)}}

\* _xml_provenance: the run began before the commit it is bound to was made.  A
\* file that does not say when its run began is never stale.
StaleXml(runner, commit) == xml[runner].stamp # Null /\ xml[runner].stamp < commits[commit].date

----------------------------------------------------------------------------
(* Single checks.                                                            *)

\* tag_integrity_violations.
TagViolations(cases) ==
    {c \in Range(cases) :
        LET calls == c.calls \cap ConsequentialCapabilities # {} IN
        \/ c.risk \notin Protected /\ c.capability \in AllowedTags /\ calls
        \/ c.risk = "consequential" /\ ~calls
        \/ c.risk = "prohibited" /\ c.outcome # "refuse"}

\* golden_dataset_summary, _dataset_result.
DatasetResult(name) ==
    LET cases     == GoldenAt[work.live]
        Of(cap)   == {i \in DOMAIN cases : cases[i].capability = cap}
        protected == {i \in DOMAIN cases :
                        cases[i].risk \in Protected /\ cases[i].capability \in AllowedTags}
        ok == CASE name = "golden_case_floor" -> Len(cases) + Len(TurnsOf) >= CaseFloor
                [] name = "per_capability_floor" ->
                     \A cap \in AllowedTags : Cardinality(Of(cap)) >= CapabilityFloor
                [] OTHER -> TagViolations(cases) = {} /\ Cardinality(protected) >= ProtectedFloor
    IN IF ok THEN "passed" ELSE "failed"

\* _live_conversation_freshness.
LiveFreshness(name) ==
    LET f == files["journeys"] IN
    IF f = Null THEN "missing"
    ELSE IF name = "live_conversation_inventory_fresh"
         THEN IF f.inventory = OperationsAt[work.live] THEN "passed" ELSE "missing"
    ELSE IF baseline # Null /\ baseline.config = f.config THEN "passed" ELSE "missing"

\* code_ancestor_staleness.
Stale(bound, commit) ==
    /\ bound # commit
    /\ ~IsAncestor(bound, commit) \/ commits[bound].tree.live # commits[commit].tree.live

\* gate_a's _evidence_result: a recorded pass and a pass of every manual gate.
StoredResult(file) ==
    IF files[file] = Null THEN [result |-> "missing", bound |-> FALSE]
    ELSE [result |-> IF files[file].verdict = "passed" /\ files[file].manual = "passed"
                     THEN "passed" ELSE "failed",
          bound  |-> Audit(files[file].bound) = {}]

\* gate_b's _evidence_result: an exception counts while it lasts, and nothing
\* stale counts.
EvidenceResult(check, commit) ==
    LET f       == files[check.file]
        verdict == IF f.verdict = "passed" THEN "passed"
                   ELSE IF check.mayExcept /\ f.verdict = "excepted" /\ clock < f.expires
                   THEN "excepted" ELSE "failed"
        stale   == check.fresh /\ Stale(f.bound.commit, commit)
    IN IF f = Null THEN [result |-> "missing", bound |-> FALSE]
       ELSE [result |-> IF stale /\ verdict # "failed" THEN "missing" ELSE verdict,
             bound  |-> Audit(f.bound) = {}]

\* _test_cases_result, _tests_result.
TestsResult(check, dirty) ==
    LET named(n) == {CaseStatus(c) : c \in {d \in CasesOf(check.runner, check.file) : d.name = n}}
        status   == IF check.kind = "cases"
                    THEN Worst({IF named(n) = {} THEN "missing" ELSE Worst(named(n)) : n \in check.cases})
                    ELSE FileStatus(check.runner, check.file)
        absent   == check.kind = "tests" /\ ~(check.projects \subseteq ProjectsOf(check.runner, check.file))
    IN [result |-> IF status = "passed" /\ absent THEN "missing" ELSE status, bound |-> ~dirty]

ComputedResult(check) ==
    [result |-> IF check.check \in {"live_conversation_inventory_fresh",
                                    "live_conversation_configuration_fresh"}
                THEN LiveFreshness(check.check) ELSE DatasetResult(check.check),
     bound  |-> TRUE]

CheckResult(check, bound) ==
    CASE check.kind = "evidence" -> EvidenceResult(check, bound.commit)
      [] check.kind = "gate_a" -> StoredResult(check.file)
      [] check.kind = "computed" -> ComputedResult(check)
      [] OTHER -> TestsResult(check, bound.dirty)

Proves(r) == r.result \in {"passed", "excepted"} /\ r.bound

\* build_report's run-level gates: functions without a case and stale files.
RunLevelBlocks(checks, runners, bound) ==
    MissingCases(checks) # {} \/ \E r \in runners : StaleXml(r, bound.commit)

\* build_report's rows.
RowResult(row, results, runLevel) ==
    LET of == {results[c] : c \in {d \in DOMAIN results : d.row = row}}
        outcomes == {r.result : r \in of}
        blocked == (\E r \in of : ~Proves(r)) \/ (row = "report_version_binding" /\ runLevel)
    IN IF "failed" \in outcomes THEN "failed"
       ELSE IF "missing" \in outcomes THEN "missing"
       ELSE IF "skipped" \in outcomes THEN "skipped"
       ELSE IF blocked THEN "unbound"
       ELSE IF "excepted" \in outcomes THEN "excepted" ELSE "passed"

----------------------------------------------------------------------------
(* The gate commands.                                                        *)

\* A plausible slip: any donor will do while nothing is uncommitted.
DonorAcceptedAnywhere(donor, allowDirty) == allowDirty \/ DirtyPaths(Evidence) = {}

\* donor_code_binding: the donor describes HEAD, or the code commit HEAD is the
\* same code as, and nothing but evidence is uncommitted.
DonorAccepted(donor, allowDirty) ==
    /\ donor.commit \in {head, NearestCodeCommit(head)}
    /\ NearestCodeCommit(head) # Null
    /\ allowDirty \/ DirtyPaths(Evidence) = {}

Present(runners) == \A r \in runners : xml[r] # Null

\* A file no case names aborts the command unless the caller allows it.
AllPresent(checks) ==
    \A c \in {d \in checks : d.kind = "tests"} : CasesOf(c.runner, c.file) # {}

\* The report is written, and audited as any evidence: an unbound one is refused.
Report(kind, bound, passed, rowsOk, donor, allowDirty) ==
    /\ gate' = [kind |-> kind, commit |-> bound.commit, passed |-> passed, rowsOk |-> rowsOk,
                exit |-> IF Audit(bound) = {} /\ passed THEN 0 ELSE 1,
                donor |-> donor # Null, allowDirty |-> allowDirty]
    /\ dirt' = dirt \cup {"report"}
    /\ UNCHANGED <<commits, head, work, manifest, clock, strayed, edits, liveVars, suiteVars, xml, testing, measures>>

\* build_report: every check once.
Results(checks, bound) == [c \in checks |-> CheckResult(c, bound)]

GateB(donor, allowDirty, allowMissing) ==
    /\ gate = Null /\ Present(Runners)
    /\ donor # Null => files[donor] # Null /\ DonorAccepted(files[donor].bound, allowDirty)
    /\ allowMissing \/ AllPresent(GateBChecks)
    /\ LET bound == ResolveBindings(IF donor = Null THEN Null ELSE files[donor].bound,
                                    allowDirty, {"report"}, {"golden", "images"})
           results == Results(GateBChecks, bound)
           runLevel == RunLevelBlocks(GateBChecks, Runners, bound)
       IN /\ bound.ok
          /\ Report("B", bound, ~runLevel /\ \A c \in GateBChecks : Proves(results[c]),
                    \A row \in Rows : RowResult(row, results, runLevel) \in {"passed", "excepted"},
                    donor, allowDirty)

\* gate_a's build_report: every check proves its invariant, and the run-level
\* gates do not block.
GateAPassed(runners, bound) ==
    LET results == Results(GateAChecks, bound) IN
    ~RunLevelBlocks(GateAChecks, runners, bound) /\ \A c \in GateAChecks : Proves(results[c])

\* Gate A takes any clean donor.
GateA(donor, allowDirty, allowMissing) ==
    LET runners == {"pytest", "playwright"} IN
    /\ gate = Null /\ Present(runners)
    /\ donor # Null => files[donor] # Null
    /\ allowMissing \/ AllPresent(GateAChecks)
    /\ LET bound == ResolveBindings(IF donor = Null THEN Null ELSE files[donor].bound,
                                    donor = Null /\ allowDirty, {"report"}, {"images"})
       IN /\ bound.ok
          /\ LET passed == GateAPassed(runners, bound)
             IN Report("A", bound, passed, passed, donor, allowDirty)

----------------------------------------------------------------------------
(* The measurements the gates read.                                          *)

Measured == measures < MaxMeasures /\ measures' = measures + 1

\* A test run's code is what the tree held from its start to its end.  Its file
\* may be written without the time it began.
StartTests(runner) ==
    /\ testing = Null /\ Measured
    /\ testing' = [runner |-> runner, stamp |-> clock, seen |-> {work}]
    /\ gate' = Null
    /\ UNCHANGED <<xml, repoVars, liveVars, suiteVars>>

FinishTests(cases, stamped) ==
    /\ testing # Null /\ cases \in XmlCases[testing.runner]
    /\ xml' = [xml EXCEPT ![testing.runner] =
                 [stamp |-> IF stamped THEN testing.stamp ELSE Null, seen |-> testing.seen, cases |-> cases]]
    /\ testing' = Null /\ gate' = Null
    /\ UNCHANGED <<measures, repoVars, liveVars, suiteVars>>

WriteEvidence(file, record) ==
    /\ files' = [files EXCEPT ![file] = record]
    /\ dirt' = dirt \cup {file}
    /\ gate' = Null
    /\ UNCHANGED <<commits, head, work, manifest, clock, strayed, edits, measure, suiteVars, xml, testing>>

\* regenerate: every file's bindings are resolved, then each is rewritten with
\* the measurements it had.
Regenerate(allowDirty) ==
    LET bound == ResolveBindings(Null, allowDirty, {}, {"images"}) IN
    /\ files["stored"] # Null /\ bound.ok /\ Measured
    /\ WriteEvidence("stored", [files["stored"] EXCEPT !.bound = bound])

\* A manual accessibility pass is recorded by hand.
RecordManualGate ==
    /\ files["stored"] # Null /\ files["stored"].manual # "passed" /\ Measured
    /\ WriteEvidence("stored", [files["stored"] EXCEPT !.manual = "passed"])

\* generate_repair_journey_evidence: both browsers, every case passed.
GenerateRepairJourney(allowDirty) ==
    LET bound == ResolveBindings(Null, allowDirty, {"repair"}, {"images"}) IN
    /\ xml["playwright"] # Null /\ bound.ok /\ Measured
    /\ FileStatus("playwright", "browser") = "passed"
    /\ {"chromium", "msedge"} \subseteq ProjectsOf("playwright", "browser")
    /\ WriteEvidence("repair", [bound |-> bound, verdict |-> "passed", manual |-> "passed",
                                stale |-> StaleXml("playwright", bound.commit)])

----------------------------------------------------------------------------
(***************************************************************************)
(* A gate that exits 0, with no dirty tree waved past a donor, names a     *)
(* commit whose code is the code in front of the reader.  Every test file  *)
(* it counts that says when it began comes from that code, from the first  *)
(* test to the last, unless the working tree strayed from it after the     *)
(* commit and was brought back: that a run on edits since discarded is     *)
(* counted, the gate cannot see.  Gate B's live measurements ran the live  *)
(* code of that commit, and its journeys are judged against today's        *)
(* inventory; its rows and its verdict agree.  (Gate A with a donor is     *)
(* left out: it does not look where HEAD is.)                              *)
(***************************************************************************)
GateIsEarned ==
    gate # Null =>
        /\ gate.kind = "B" => (gate.passed <=> gate.rowsOk)
        /\ gate.exit = 0 /\ ~(gate.donor /\ (gate.allowDirty \/ gate.kind = "A")) =>
            /\ work = commits[gate.commit].tree
            /\ \A r \in Runners \ (IF gate.kind = "A" THEN {"pytest-postgres"} ELSE {}) :
                gate.commit \notin strayed /\ xml[r].stamp # Null => xml[r].seen = {commits[gate.commit].tree}
            /\ gate.kind = "B" =>
                /\ \A kind \in LiveKinds :
                    /\ files[kind].tree.live = commits[gate.commit].tree.live
                    /\ files[kind].verdict = "excepted" => clock < files[kind].expires
                /\ files["journeys"].verdict = "passed"
                /\ files["journeys"].inventory = OperationsAt[work.live]
=============================================================================
