--------------------------- MODULE GovernedSolver ---------------------------
(***************************************************************************)
(* One governed solve: two rounds under one budget, the extraction of the  *)
(* schedule, its independent validation, the metrics of the candidate, and *)
(* a later comparison that recomputes them from the scenario projection.   *)
(*                                                                         *)
(* The CP-SAT search itself is external: it may return any solution, an    *)
(* optimal one when it says so, or give up; a solution may carry more      *)
(* slack than it needs (Slop).                                             *)
(***************************************************************************)
EXTENDS SolverModel

CONSTANTS Payloads, Overrides, Slop,
          RateScale      \* a multiple of every sum of rates

\* What ingest leaves of a payload: whole numbers, templates of some length
\* (input_adapter.py skips the others), and interval lengths that divide Scale.
SolverPayload(p) ==
    /\ IsPayload(p) /\ p.quals \in Seq(ToSet(p.quals)) /\ p.windows \in Seq(ToSet(p.windows))
    /\ p.horizon \in Nat /\ p.weekCap \in Nat
    /\ \A q \in ToSet(p.quals) : q.rate \in Nat /\ q.override \in Nat \cup {None}
    /\ \A r \in ToSet(p.windows) \cup ToSet(p.outbound) \cup ToSet(p.inbound) : r.start \in Int /\ r.end \in Int
    /\ \A r \in ToSet(p.outbound) \cup ToSet(p.indirect) : r.amount \in Int
    /\ \A r \in ToSet(p.inbound) : \A x \in ToSet(r.tasks) : x.amount \in Int
    /\ \A r \in ToSet(p.indirect) : r.day \in Int /\ r.from \in Int /\ r.to \in Int
    /\ IsFiniteSet(p.templates)
    /\ \A tpl \in p.templates :
          /\ tpl.length \in Nat \ {0} /\ IsFiniteSet(tpl.breaks)
          /\ \A b \in tpl.breaks : b.offset \in Int /\ b.length \in Int
    /\ \A b \in ToSet(SolverDemand(p)) : Scale = (b.end - b.start) * (Scale \div (b.end - b.start))

ASSUME SolverAssumption ==
    /\ Day \in Nat \ {0} /\ Scale \in Nat \ {0} /\ Hour \in Nat \ {0} /\ HourScale \in Nat
    /\ {MinGap, MaxStarts, ShiftsPerDay, Slop} \subseteq Nat /\ None # "INFEASIBLE"
    /\ \A p \in Payloads : SolverPayload(p)
    /\ \A o \in Overrides :
          /\ o \in Seq(ToSet(o))
          /\ \A x \in ToSet(o) : x.tool = "set_max_hours" => x.max \in Nat
          /\ \A x \in ToSet(o) : x.tool = "scale_demand" => x.factor \in Nat

VARIABLES payload, ov,
          space,      \* the solutions of the model built for them
          stage, r1, outcome, verdict

input == <<payload, ov>>
solveVars == <<payload, ov, space, stage, r1, outcome, verdict>>

Budget == {None, "wall", "deterministic"}
NoSolve == [status |-> None, sel |-> None, r1 |-> None, r2 |-> None, reason |-> None]

SolveInit ==
    /\ payload \in Payloads /\ ov \in Overrides
    /\ space = {} /\ stage = "build" /\ r1 = NoSolve /\ outcome = NoSolve /\ verdict = None

\* CpSatBuilder(problem, overrides).build()
BuildModel ==
    /\ stage = "build"
    /\ space' = Solutions(Build(payload, ov), ov)
    /\ stage' = "round1"
    /\ UNCHANGED <<input, r1, outcome, verdict>>

Return(o) == outcome' = o /\ stage' = "solved"

ReasonOf(exhausted) == IF exhausted = "deterministic" THEN "deterministic_budget_exhausted" ELSE None

----------------------------------------------------------------------------
(* _solve_lexicographic_governed.                                           *)

Best(F(_), S) == {x \in S : \A y \in S : F(x) <= F(y)}

\* apply_remaining_budget finds a ceiling already used up.
Round1Exhausted ==
    \E x \in Budget \ {None} :
        /\ stage = "round1"
        /\ Return([NoSolve EXCEPT !.status = "UNKNOWN", !.reason = ReasonOf(x)])
        /\ UNCHANGED <<input, space, r1, verdict>>

Round1Fails ==
    \E s \in {"UNKNOWN", "INFEASIBLE"} :
        /\ stage = "round1"
        /\ s = "INFEASIBLE" => space = {}
        /\ Return([NoSolve EXCEPT !.status = s])
        /\ UNCHANGED <<input, space, r1, verdict>>

Round1 ==
    \E s \in {"OPTIMAL", "FEASIBLE"} :
        \E x \in (IF s = "OPTIMAL" THEN Best(LAMBDA y : y.unmet, space) ELSE space),
           extra \in (IF s = "OPTIMAL" THEN {0} ELSE 0..Slop) :
            /\ stage = "round1"
            /\ r1' = [NoSolve EXCEPT !.status = s, !.sel = x.sel, !.r1 = x.unmet + extra, !.r2 = x.cost]
            /\ stage' = "round2"
            /\ UNCHANGED <<input, space, outcome, verdict>>

\* The round-1 value is locked as a constraint before the cost is minimised.
Locked == {x \in space : x.unmet <= r1.r1}

Round2Exhausted ==
    \E x \in Budget \ {None} :
        /\ stage = "round2"
        /\ Return([r1 EXCEPT !.status = "UNKNOWN", !.reason = ReasonOf(x)])
        /\ UNCHANGED <<input, space, r1, verdict>>

\* No solution of round 2: the round-1 snapshot is what is read.
Round2Fails ==
    \E s \in {"UNKNOWN", "INFEASIBLE"} :
        /\ stage = "round2"
        /\ s = "INFEASIBLE" => Locked = {}
        /\ Return([r1 EXCEPT !.status = s])
        /\ UNCHANGED <<input, space, r1, verdict>>

Round2 ==
    /\ stage = "round2"
    /\ \E s \in {"OPTIMAL", "FEASIBLE"} :
          \E x \in (IF s = "OPTIMAL" THEN Best(LAMBDA y : y.cost, Locked) ELSE Locked) :
              Return([status |-> s, sel |-> x.sel, r1 |-> r1.r1, r2 |-> x.cost, reason |-> None])
    /\ UNCHANGED <<input, space, r1, verdict>>

----------------------------------------------------------------------------
(* Extraction, hard_constraints and candidate_metrics.                      *)

\* The name of a shift variable: two templates of one window share their names
\* when the first six letters of their ids agree.
ShiftId(s) == <<s.worker, s.window, s.tpl.prefix, s.start>>

AssignmentOf(v) == [worker |-> v.shift.worker, task |-> v.task, shift |-> ShiftId(v.shift),
                    start |-> FirstMinute(v), end |-> EndMinute(v)]
AssignmentsOf(sel) == {AssignmentOf(v) : v \in sel}
ShiftFacts(sel) ==
    {[id |-> ShiftId(s), worker |-> s.worker, window |-> s.window, start |-> s.start, end |-> s.end,
      effective |-> Effective(s.tpl)] : s \in SelectedShifts(sel)}

\* validate_hard_constraints: only assignments and selected shifts, no solver.
HardConstraintsHold(p, asgs, shifts) ==
    /\ \A a \in asgs : \E s \in shifts : /\ s.id = a.shift /\ s.worker = a.worker
                                          /\ s.start <= a.start /\ a.end <= s.end
    /\ \A a, b \in asgs : (a # b /\ a.worker = b.worker) => (a.end <= b.start \/ b.end <= a.start)
    /\ \A s \in shifts : \E a \in asgs : a.shift = s.id
    /\ \A s, t \in shifts : (s.worker = t.worker /\ s.window = t.window) => s = t
    /\ \A s \in shifts : Cardinality({t \in shifts : t.worker = s.worker /\ t.start \div Day = s.start \div Day})
                            <= ShiftsPerDay
    /\ \A s \in shifts : SumFunction([t \in {t \in shifts : t.worker = s.worker} |-> t.effective]) <= p.weekCap
    /\ \A s, t \in shifts : (s # t /\ s.worker = t.worker /\ s.start <= t.start) => t.start - s.end >= MinGap
    /\ \A a \in asgs : \E i \in DOMAIN SolverQuals(p, a.worker) : SolverQuals(p, a.worker)[i].task = a.task

\* calculate_candidate_metrics on workers' rates and demand rows: the multisets
\* of required and served minutes, by counting how often each value occurs.
Minutes(asgs, row) ==
    SumFunction([a \in asgs |-> IF a.task = row.task THEN OverlapOf(a.start, a.end, row.start, row.end) ELSE 0])
Required(rates, row) ==
    IF row.unit = "headcount" THEN (row.end - row.start) * row.amount * RateScale
    ELSE row.amount * Hour * rates[row.task][2] * (RateScale \div rates[row.task][1])
CountValues(values) ==
    {<<values[i], Cardinality({j \in DOMAIN values : values[j] = values[i]})>> : i \in DOMAIN values}

\* A volume of a task nobody is qualified for has no reference rate: it raises.
MetricsRaise(rates, rows) ==
    \E i \in DOMAIN rows : rows[i].unit = "volume" /\ rates[rows[i].task][2] = 0

CandidateMetrics(asgs, rates, rows) ==
    [required |-> CountValues([i \in DOMAIN rows |-> Required(rates, rows[i])]),
     served |-> CountValues([i \in DOMAIN rows |-> Minutes(asgs, rows[i])]),
     count |-> Cardinality(asgs), members |-> Cardinality({a.worker : a \in asgs})]

SolverRates == [t \in TaskIds(payload) |-> RefRate(payload, t)]

\* finalize_schedule_run: an outcome with a solution becomes a candidate.
Finalize ==
    LET asgs == AssignmentsOf(outcome.sel)
        rows == SolverDemand(payload)
    IN  /\ stage = "solved" /\ outcome.status \in {"OPTIMAL", "FEASIBLE"}
        /\ IF ~HardConstraintsHold(payload, asgs, ShiftFacts(outcome.sel))
           THEN verdict' = [kind |-> "hard_constraint_violated"] /\ stage' = "failed"
           ELSE IF MetricsRaise(SolverRates, rows)
           THEN verdict' = [kind |-> "raised"] /\ stage' = "failed"
           ELSE verdict' = [kind |-> "candidate", metrics |-> CandidateMetrics(asgs, SolverRates, rows)] /\ stage' = "candidate"
        /\ UNCHANGED <<input, space, r1, outcome>>

----------------------------------------------------------------------------
(* calculate_comparison: the metrics again, from the projection's facts.    *)

ProjectionRates ==
    [t \in TaskIds(payload) |->
        LET workers == NormalizeWorkers(payload)
            rates == UNION {{<<n, i>> : i \in {i \in DOMAIN workers[n].quals : workers[n].quals[i].task = t}} :
                               n \in DOMAIN workers}
        IN  <<SumFunction([x \in rates |-> workers[x[1]].quals[x[2]].rate]), Cardinality(rates)>>]

Compare ==
    LET rows == NormalizeDemand(payload)
    IN  /\ stage = "candidate"
        /\ verdict' = [kind |-> IF MetricsRaise(ProjectionRates, rows) THEN "raised"
                                ELSE IF CandidateMetrics(AssignmentsOf(outcome.sel), ProjectionRates, rows) = verdict.metrics
                                THEN "compared" ELSE "integrity_error"]
        /\ stage' = "compared"
        /\ UNCHANGED <<input, space, r1, outcome>>

Solve ==
    \/ BuildModel \/ Round1Exhausted \/ Round1Fails \/ Round1
    \/ Round2Exhausted \/ Round2Fails \/ Round2
    \/ Finalize \/ Compare

SolveSpec == SolveInit /\ [][Solve]_solveVars

----------------------------------------------------------------------------
\* What the solver selects under its own constraints always passes the
\* independent re-check, in minutes and by shift names: slots, breaks, windows
\* clipped to the horizon, template ids that share their first letters.
SolutionsValidate == verdict # None => verdict.kind # "hard_constraint_violated"

\* "an override can therefore never make the solve infeasible": neither round
\* is, whatever constraints are drafted; and the preferences other than
\* scale_demand leave the least unmet demand where it is without them.
OverridesNeverBind ==
    /\ outcome.status # "INFEASIBLE"
    /\ stage = "round1" /\ (\A i \in DOMAIN ov : ov[i].tool # "scale_demand") =>
          \A x \in Solutions(Build(payload, <<>>), <<>>) : \E y \in space : y.unmet <= x.unmet

\* The schedule that is read, from the second solve or from the snapshot of the
\* first, leaves no more demand unmet than the reported round-1 value, which
\* round 2 never gives up for cost.
CoverageIsLocked ==
    stage = "solved" /\ outcome.sel # None => \E x \in space : x.sel = outcome.sel /\ x.unmet <= outcome.r1

\* The hourly demand of a task adds up to the volume of its bands.
VolumeConserved ==
    stage = "round1" =>
        \A t \in TaskIds(payload) :
            SumFunction([h \in Hours(payload) |-> VolDemand(payload, ov, t, h)]) =
            SumSeq(LAMBDA b : IF b.task = t /\ b.family # Indirect THEN b.amount * Factor(ov, t) * Scale ELSE 0,
                   SolverDemand(payload))

\* A candidate of a payload whose rows lie within the horizon, with positive
\* amounts, whose workers with an id all have a window, a task and one row, and
\* none a rate override of zero, is never refused by the comparison that
\* recomputes its metrics from the projection, where a worker's rows are one.
Clean ==
    /\ Len(SolverDemand(payload)) = Len(NormalizeDemand(payload))
    /\ \A i \in DOMAIN SolverDemand(payload) : SolverDemand(payload)[i] = NormalizeDemand(payload)[i]
    /\ \A i \in DOMAIN payload.quals : payload.quals[i].override # 0
    /\ {m \in DOMAIN payload.workers : payload.workers[m] # None} = SolverMembers(payload)
    /\ \A m, n \in SolverMembers(payload) : payload.workers[m] = payload.workers[n] => m = n
CleanCandidatesCompare == stage = "compared" /\ Clean => verdict.kind = "compared"

\* A governed solve is sound: its schedule passes the independent re-check, no
\* override makes it infeasible, coverage is never traded for cost, no volume is
\* lost to the hourly split, and a clean candidate compares with itself.
SolveIsSound ==
    /\ SolutionsValidate /\ OverridesNeverBind /\ CoverageIsLocked
    /\ VolumeConserved /\ CleanCandidatesCompare
=============================================================================
