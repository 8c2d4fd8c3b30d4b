---------------------------- MODULE ScenarioData ----------------------------
(***************************************************************************)
(* Scenario data in use: maintenance jobs import fixture versions, the     *)
(* site's baseline moves, planners read pages and follow citations, and    *)
(* the agent computes metrics page by page.  Every read is a short         *)
(* transaction of its own (ShortTransactionScenarioProjectionReader), so   *)
(* imports and promotions fall between any two of them.                    *)
(*                                                                         *)
(* Importers run at READ COMMITTED: a row another importer has inserted    *)
(* and not committed blocks an insert of the same key and is invisible to  *)
(* a read.                                                                 *)
(***************************************************************************)
EXTENDS ScenarioProjection

CONSTANTS Importers, Readers, Computes,
          Offer,         \* [Importers -> [version, payload]]: what each imports
          Payload,       \* payloads by name; the name is the canonical digest
          Schedules,     \* [Baselines -> [version, assignments]]
          MetricRequests,\* what a compute call may ask
          PageSize, MaxRows

\* Bound: a table has at most MaxTable rows.  Up to there the numbers RecordId
\* makes are distinct, and ordered as the strings they stand for.
MaxTable == 9
ShortTables(p) ==
    /\ \A t \in {p.outbound, p.inbound, p.indirect} : Len(t) <= MaxTable
    /\ \A i \in DOMAIN p.inbound : Len(p.inbound[i].tasks) <= MaxTable

Versions == {Offer[i].version : i \in Importers}

ASSUME DataAssumption ==
    /\ IsFiniteSet(Importers) /\ Versions \subseteq Nat
    /\ \A i \in Importers : Offer[i].payload \in DOMAIN Payload
    /\ \A d \in DOMAIN Payload : IsPayload(Payload[d]) /\ ShortTables(Payload[d])
    /\ PageSize \in Nat /\ MaxRows \in Nat

\* A missing value is no importer, no outcome and no row.
ASSUME NullAssumption ==
    /\ "row" \notin Importers
    /\ None \notin Importers \cup {"row", "resolved", "version_mismatch", "calculation_failed"}
    /\ None \notin [by : Importers, committed : BOOLEAN, digest : DOMAIN Payload]

\* An assignment's record id is the digest of what it assigns (_assignment of
\* the governed adapter): two schedules of one version agree on it.
ASSUME SchedulesAssumption ==
    /\ \A b \in DOMAIN Schedules : Schedules[b].assignments \in Seq(ToSet(Schedules[b].assignments))
    /\ \A b, d \in DOMAIN Schedules : Schedules[b].version = Schedules[d].version =>
          \A x \in ToSet(Schedules[b].assignments), y \in ToSet(Schedules[d].assignments) :
              x.record = y.record => x = y

VARIABLES
    sites,        \* seed sites created
    siteLock,     \* the advisory transaction lock of ensure_seed_site
    scenarioRow,  \* None, the importer holding it uncommitted, or "row"
    versionRow,   \* [Versions -> None or [by, committed, digest]]
    lineage,      \* fixture_lineage rows, by version
    baseline,     \* the site's baseline schedule, or None
    imp, reader, compute

store == <<sites, siteLock, scenarioRow, versionRow, lineage>>
dataVars == <<sites, siteLock, scenarioRow, versionRow, lineage, baseline, imp, reader, compute>>

Committed(v) == versionRow[v] # None /\ versionRow[v].committed

----------------------------------------------------------------------------
(* Imports.                                                                 *)

LockSeedSite(i) ==
    /\ imp[i].pc = "start"
    /\ siteLock = None
    /\ siteLock' = i
    /\ imp' = [imp EXCEPT ![i] = [@ EXCEPT !.pc = "site", !.found = sites > 0]]
    /\ UNCHANGED <<sites, scenarioRow, versionRow, lineage, baseline, reader, compute>>

\* ensure_seed_site: the select under the lock found a site, or one is created.
EnsureSeedSite(i) ==
    /\ imp[i].pc = "site"
    /\ sites' = IF imp[i].found THEN sites ELSE sites + 1
    /\ siteLock' = None
    /\ imp' = [imp EXCEPT ![i].pc = "scenario"]
    /\ UNCHANGED <<scenarioRow, versionRow, lineage, baseline, reader, compute>>

\* INSERT ... ON CONFLICT DO NOTHING waits for an uncommitted row of another.
InsertScenario(i) ==
    /\ imp[i].pc = "scenario"
    /\ scenarioRow \in {None, "row"}
    /\ scenarioRow' = IF scenarioRow = None THEN i ELSE scenarioRow
    /\ imp' = [imp EXCEPT ![i].pc = "find"]
    /\ UNCHANGED <<sites, siteLock, versionRow, lineage, baseline, reader, compute>>

\* A replay of the same canonical payload succeeds, any other payload is refused.
ReplayOrRejectAny(i) == "replayed"
ReplayOrReject(i) ==
    IF versionRow[Offer[i].version].digest = Offer[i].payload THEN "replayed" ELSE "conflict"

\* A refused import raises, and its transaction is undone.
FindVersion(i) ==
    /\ imp[i].pc = "find"
    /\ IF ~Committed(Offer[i].version)
       THEN imp' = [imp EXCEPT ![i].pc = "insert"] /\ UNCHANGED scenarioRow
       ELSE /\ imp' = [imp EXCEPT ![i].pc = ReplayOrReject(i)]
            /\ scenarioRow' = IF scenarioRow # i THEN scenarioRow
                              ELSE IF ReplayOrReject(i) = "replayed" THEN "row" ELSE None
    /\ UNCHANGED <<sites, siteLock, versionRow, lineage, baseline, reader, compute>>

InsertVersion(i) ==
    LET v == Offer[i].version
    IN  /\ imp[i].pc = "insert"
        /\ versionRow[v] = None
        /\ versionRow' = [versionRow EXCEPT ![v] =
               [by |-> i, committed |-> FALSE, digest |-> Offer[i].payload]]
        /\ lineage' = [lineage EXCEPT ![v] = @ + 1]
        /\ imp' = [imp EXCEPT ![i].pc = "commit"]
        /\ UNCHANGED <<sites, siteLock, scenarioRow, baseline, reader, compute>>

\* IntegrityError: the row committed after FindVersion looked.
InsertLost(i) ==
    /\ imp[i].pc = "insert"
    /\ Committed(Offer[i].version)
    /\ imp' = [imp EXCEPT ![i].pc = "find"]
    /\ UNCHANGED <<store, baseline, reader, compute>>

CommitImport(i) ==
    LET v == Offer[i].version
    IN  /\ imp[i].pc = "commit"
        /\ versionRow' = [versionRow EXCEPT ![v].committed = TRUE]
        /\ scenarioRow' = IF scenarioRow = i THEN "row" ELSE scenarioRow
        /\ imp' = [imp EXCEPT ![i].pc = "created"]
        /\ UNCHANGED <<sites, siteLock, lineage, baseline, reader, compute>>

\* The job dies: PostgreSQL undoes its transaction.  It may be run again.
CrashImport(i) ==
    LET v == Offer[i].version
    IN  /\ imp[i].pc \in {"site", "scenario", "find", "insert", "commit"}
        /\ imp[i].crashes = 0
        /\ imp' = [imp EXCEPT ![i] = [pc |-> "start", found |-> FALSE, crashes |-> 1]]
        /\ siteLock' = IF siteLock = i THEN None ELSE siteLock
        /\ scenarioRow' = IF scenarioRow = i THEN None ELSE scenarioRow
        /\ versionRow' = IF imp[i].pc = "commit" THEN [versionRow EXCEPT ![v] = None] ELSE versionRow
        /\ lineage' = IF imp[i].pc = "commit" THEN [lineage EXCEPT ![v] = @ - 1] ELSE lineage
        /\ UNCHANGED <<sites, baseline, reader, compute>>

----------------------------------------------------------------------------
(* Reads.                                                                   *)

\* _projection_row: the governed latest version, by the number in its name.
Latest == CHOOSE v \in {u \in Versions : Committed(u)} :
              \A u \in Versions : Committed(u) => u <= v
Known == \E v \in Versions : Committed(v)
LatestPayload == Payload[versionRow[Latest].digest]

\* The pointer is site-wide; another version's assignments are never projected.
BaselineAssignments ==
    IF baseline = None \/ Schedules[baseline].version # Latest THEN <<>>
    ELSE Schedules[baseline].assignments

GetTasks(q) == ApplyQuery(NormalizeTasks(LatestPayload), q)
GetWorkers(q) == ApplyQuery(NormalizeWorkers(LatestPayload), q)
GetDemand(q) == ApplyQuery(NormalizeDemand(LatestPayload), q)
GetBaselineAssignments(q) == ApplyQuery(BaselineAssignments, q)
GetLocks(q) == ApplyQuery(<<>>, q)
GetConstraints(q) == ApplyQuery(NormalizeConstraints(LatestPayload), q)

\* read_scenario_facts
ReadFacts(group, q) ==
    CASE group = "tasks" -> GetTasks(q)
      [] group = "workers" -> GetWorkers(q)
      [] group = "demand" -> GetDemand(q)
      [] group = "assignments" -> GetBaselineAssignments(q)
      [] group = "locks" -> GetLocks(q)
      [] OTHER -> GetConstraints(q)

PromoteBaseline ==
    /\ \E b \in DOMAIN Schedules : b # baseline /\ baseline' = b
    /\ UNCHANGED <<store, imp, reader, compute>>

\* A page of a group, with the version it was read from.
Show(r, group) ==
    /\ reader[r].pc = "idle" /\ Known
    /\ \E c \in {0, 1} :
          LET page == ReadFacts(group, [cursor |-> c, limit |-> 1, sort |-> None, order |-> "asc", filters |-> {}])
          IN  reader' = [reader EXCEPT ![r] =
                  [pc |-> "shown", group |-> group, version |-> Latest,
                   item |-> IF page.items = <<>> THEN None ELSE page.items[1],
                   outcome |-> None, got |-> None]]
    /\ UNCHANGED <<store, baseline, imp, compute>>

ShowTasks(r) == Show(r, "tasks")
ShowWorkers(r) == Show(r, "workers")
ShowDemand(r) == Show(r, "demand")
ShowAssignments(r) == Show(r, "assignments")
ShowLocks(r) == Show(r, "locks")
ShowConstraints(r) == Show(r, "constraints")

\* Follows the citation of what was shown: its version, its group, its record.
Cite(r, group, items) ==
    LET q == reader[r]
        res == ResolveItems(items, q.version, Latest, q.item.record)
    IN  /\ q.pc = "shown" /\ q.group = group /\ q.item # None
        /\ reader' = [reader EXCEPT ![r] =
               [@ EXCEPT !.pc = "cited", !.outcome = res.outcome, !.got = res.item]]
        /\ UNCHANGED <<store, baseline, imp, compute>>

ResolveTask(r) == Cite(r, "tasks", NormalizeTasks(LatestPayload))
ResolveWorker(r) == Cite(r, "workers", NormalizeWorkers(LatestPayload))
ResolveDemandInterval(r) == Cite(r, "demand", NormalizeDemand(LatestPayload))
ResolveAssignment(r) == Cite(r, "assignments", BaselineAssignments)
ResolveConstraint(r) == Cite(r, "constraints", NormalizeConstraints(LatestPayload))

----------------------------------------------------------------------------
(* scheduling_compute: the overview, then page after page until the group   *)
(* is drained, each compared with the version the turn is pinned to.        *)

Fail(c, code) == compute' = [compute EXCEPT ![c] = [@ EXCEPT !.pc = "failed", !.error = code]]

StartCompute(c) ==
    /\ compute[c].pc = "idle" /\ Known
    /\ \E r \in MetricRequests :
          compute' = [compute EXCEPT ![c] = [@ EXCEPT
              !.pc = "overview", !.pinned = Latest, !.metric = r.metric, !.args = r.args]]
    /\ UNCHANGED <<store, baseline, imp, reader>>

ComputeOverview(c) ==
    /\ compute[c].pc = "overview"
    /\ IF compute[c].pinned # Latest THEN Fail(c, "version_mismatch")
       ELSE IF ~ArgumentsValid(compute[c].metric, compute[c].args) THEN Fail(c, "invalid_query")
       ELSE compute' = [compute EXCEPT ![c].pc = "drain"]
    /\ UNCHANGED <<store, baseline, imp, reader>>

Min2(a, b) == IF a < b THEN a ELSE b

DrainNoPin(q, page, items) ==
    IF q.expect = None /\ page.matching > MaxRows THEN "calculation_failed"
    ELSE IF q.expect # None /\ page.matching # q.expect THEN "calculation_failed"
    ELSE IF page.next = None /\ Len(items) # page.matching THEN "calculation_failed"
    ELSE None

\* What drain_projection_group refuses of one page.
DrainFault(q, page, items) ==
    IF q.pinned # Latest THEN "version_mismatch"
    ELSE IF q.expect = None /\ page.matching > MaxRows THEN "calculation_failed"
    ELSE IF q.expect # None /\ page.matching # q.expect THEN "calculation_failed"
    ELSE IF page.next = None /\ Len(items) # page.matching THEN "calculation_failed"
    ELSE None

DrainPage(c) ==
    LET q == compute[c]
        page == ReadFacts(GroupOf(q.metric),
                    [cursor |-> q.cursor, limit |-> Min2(PageSize, MaxRows - Len(q.items)),
                     sort |-> None, order |-> "asc", filters |-> FiltersOf(q.metric, q.args)])
        items == q.items \o page.items
        fault == DrainFault(q, page, items)
        result == Calculate(q.metric, q.args, items)
    IN  /\ q.pc = "drain"
        /\ IF Len(q.items) >= MaxRows THEN Fail(c, "calculation_failed")
           ELSE IF fault # None THEN Fail(c, fault)
           ELSE IF page.next # None
           THEN compute' = [compute EXCEPT ![c] = [@ EXCEPT
                    !.cursor = page.next, !.expect = page.matching, !.items = items]]
           ELSE IF result.error # None THEN Fail(c, result.error)
           ELSE compute' = [compute EXCEPT ![c] = [@ EXCEPT !.pc = "done", !.items = items,
                    !.value = result.value, !.refs = result.refs]]
        /\ UNCHANGED <<store, baseline, imp, reader>>

\* A drain that took longer than the manifest's timeout is thrown away at its end;
\* its pages change nothing, so it may as well fail here.
DrainTooSlow(c) ==
    /\ compute[c].pc = "drain"
    /\ Fail(c, "calculation_failed")
    /\ UNCHANGED <<store, baseline, imp, reader>>

----------------------------------------------------------------------------
DataInit ==
    /\ sites = 0 /\ siteLock = None /\ scenarioRow = None
    /\ versionRow = [v \in Versions |-> None]
    /\ lineage = [v \in Versions |-> 0]
    /\ baseline = None
    /\ imp = [i \in Importers |-> [pc |-> "start", found |-> FALSE, crashes |-> 0]]
    /\ reader = [r \in Readers |-> [pc |-> "idle", group |-> None, version |-> None,
                                    item |-> None, outcome |-> None, got |-> None]]
    /\ compute = [c \in Computes |-> [pc |-> "idle", pinned |-> None, metric |-> None, args |-> None,
                                      cursor |-> 0, expect |-> None, items |-> <<>>, value |-> 0,
                                      refs |-> {}, error |-> None]]

UseData ==
    \/ PromoteBaseline
    \/ \E i \in Importers :
          \/ LockSeedSite(i) \/ EnsureSeedSite(i) \/ InsertScenario(i) \/ FindVersion(i)
          \/ InsertVersion(i) \/ InsertLost(i) \/ CommitImport(i) \/ CrashImport(i)
    \/ \E r \in Readers :
          \/ ShowTasks(r) \/ ShowWorkers(r) \/ ShowDemand(r) \/ ShowAssignments(r) \/ ShowLocks(r)
          \/ ShowConstraints(r)
          \/ ResolveTask(r) \/ ResolveWorker(r) \/ ResolveDemandInterval(r) \/ ResolveAssignment(r)
          \/ ResolveConstraint(r)
    \/ \E c \in Computes : StartCompute(c) \/ ComputeOverview(c) \/ DrainPage(c) \/ DrainTooSlow(c)

DataSpec == DataInit /\ [][UseData]_dataVars

----------------------------------------------------------------------------
\* Types, and that every row committed is traced to the import that made it.
DataTypeOK ==
    /\ sites \in Nat /\ siteLock \in Importers \cup {None}
    /\ scenarioRow \in Importers \cup {None, "row"}
    /\ \A v \in Versions : lineage[v] = IF versionRow[v] = None THEN 0 ELSE 1
    /\ \A c \in Computes : compute[c].cursor \in Nat /\ Len(compute[c].items) <= MaxRows

\* Import jobs started together, and started again after a crash, create one
\* seed site (the advisory lock of ensure_seed_site).
OneSeedSite == sites <= 1

\* An import that was told yes, created or replayed, finds its own payload under
\* the version it named; of all that were told yes one created it.
ImportKeepsItsWord ==
    /\ \A i \in Importers : imp[i].pc \in {"created", "replayed"} =>
          Committed(Offer[i].version) /\ versionRow[Offer[i].version].digest = Offer[i].payload
    /\ \A i, j \in Importers : (imp[i].pc = "created" /\ imp[j].pc = "created"
                                  /\ Offer[i].version = Offer[j].version) => i = j

\* A citation resolves to exactly what was shown under it, or it does not
\* resolve: an import or a promotion in between never puts another record in
\* its place (the version check of _resolve_items).
CitationIsHonest ==
    \A r \in Readers : reader[r].outcome = "resolved" => reader[r].got = reader[r].item

\* A metric that was answered is the metric of the version the turn is pinned
\* to, every row of it read, however the pages interleave with imports.
MetricOfPinnedVersion ==
    \A c \in Computes :
        LET q == compute[c]
            p == Payload[versionRow[q.pinned].digest]
            rows == Matching(IF GroupOf(q.metric) = "workers" THEN NormalizeWorkers(p) ELSE NormalizeDemand(p),
                             FiltersOf(q.metric, q.args))
        IN  q.pc = "done" /\ GroupOf(q.metric) # "assignments" =>
                /\ q.value = Calculate(q.metric, q.args, rows).value
                /\ q.refs = Calculate(q.metric, q.args, rows).refs

\* An import is what it was told to be, under one site, whatever races or crashes.
ImportsAreExact == DataTypeOK /\ OneSeedSite /\ ImportKeepsItsWord

\* What is read names the version it came from: a citation never changes meaning
\* and a metric never mixes versions.
ReadsAreHonest == CitationIsHonest /\ MetricOfPinnedVersion
=============================================================================
