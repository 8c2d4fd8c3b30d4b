---------------------------- MODULE SolverModel ----------------------------
(***************************************************************************)
(* The model the solver is given for one scenario payload and one set of   *)
(* drafted constraints: ingest.build_problem and CpSatBuilder.  The boolean*)
(* variables are the members of TaskVars; a selection is the set of those  *)
(* that are 1, and a shift is selected when one of its tasks is (the       *)
(* builder forbids a task without its shift and a shift without a task).   *)
(* Slack variables appear as the least slack a selection needs.            *)
(*                                                                         *)
(* Times are minutes, an hour has Hour of them.  Volumes are in Scale-ths. *)
(***************************************************************************)
EXTENDS ScenarioProjection, Integers, FiniteSetsExt

CONSTANTS Hour,            \* minutes in an hour
          HourScale,       \* HOUR_SCALE
          SlotLength,      \* a longer shift has two task slots
          MinGap,          \* DEFAULT_MIN_GAP_HOURS
          MaxStarts,       \* MAX_STARTS_PER_TEMPLATE
          ShiftsPerDay     \* DEFAULT_MAX_SHIFTS_PER_DAY

Lesser(a, b) == IF a < b THEN a ELSE b
Greater(a, b) == IF a > b THEN a ELSE b
SumSeq(F(_), s) == SumFunction([i \in DOMAIN s |-> F(s[i])])
OverlapOf(s, e, t, u) == Greater(0, Lesser(e, u) - Greater(s, t))

----------------------------------------------------------------------------
(* build_problem.                                                           *)

\* Everything is clipped to the horizon; what is empty then is dropped.
Clip(p, s, e) == <<Greater(s, 0), Lesser(e, p.horizon)>>
Survives(p, s, e) == Clip(p, s, e)[1] < Clip(p, s, e)[2]

\* `override or default`: here an override of zero falls back to the default.
SolverRate(q) == IF q.override \in {None, 0} THEN q.rate ELSE q.override

SolverQuals(p, w) ==
    Rows(p.quals, LAMBDA i : /\ p.quals[i].worker = w
                             /\ p.quals[i].task \in TaskIds(p)
                             /\ SolverRate(p.quals[i]) > 0,
         LAMBDA i : [task |-> p.quals[i].task, rate |-> SolverRate(p.quals[i])])

SolverWindows(p, w) ==
    Rows(p.windows, LAMBDA i : /\ p.windows[i].worker = w /\ p.windows[i].ok
                               /\ Survives(p, p.windows[i].start, p.windows[i].end),
         LAMBDA i : LET c == Clip(p, p.windows[i].start, p.windows[i].end)
                    IN  [id |-> i, kind |-> p.windows[i].kind, start |-> c[1], end |-> c[2]])

\* One member per row of the worker table, by its position: a worker in two rows
\* is two members.  A row without a window or a qualification is left out.
SolverMembers(p) ==
    {m \in DOMAIN p.workers : SolverQuals(p, p.workers[m]) # <<>> /\ SolverWindows(p, p.workers[m]) # <<>>}

SolverDemand(p) ==
    LET all == NormalizeDemand(p)
    IN  Rows(all, LAMBDA i : all[i].amount > 0 /\ Survives(p, all[i].start, all[i].end),
             LAMBDA i : LET c == Clip(p, all[i].start, all[i].end)
                        IN  [all[i] EXCEPT !.start = c[1], !.end = c[2]])

----------------------------------------------------------------------------
(* CpSatBuilder: demand by hour.                                            *)

Hours(p) == 0..(p.horizon \div Hour)
Factor(ov, task) ==
    LET mine == Rows(ov, LAMBDA i : ov[i].tool = "scale_demand" /\ ov[i].task = task, LAMBDA i : ov[i].factor)
    IN  IF mine = <<>> THEN 1 ELSE mine[Len(mine)]

InHour(b, h) == OverlapOf(b.start, b.end, Hour * h, Hour * (h + 1))

IsIndirect(p, task) == \E i \in DOMAIN SolverDemand(p) :
    SolverDemand(p)[i].task = task /\ SolverDemand(p)[i].family = Indirect

\* A band's volume is spread over its hours in proportion to the time in each.
VolDemand(p, ov, task, h) ==
    SumSeq(LAMBDA b : IF b.task = task /\ b.family # Indirect
                      THEN b.amount * Factor(ov, task) * InHour(b, h) * (Scale \div (b.end - b.start))
                      ELSE 0, SolverDemand(p))

HcDemand(p, ov, task, h) ==
    SumSeq(LAMBDA b : IF b.task = task /\ b.family = Indirect /\ InHour(b, h) > 0
                      THEN b.amount * Factor(ov, task) ELSE 0, SolverDemand(p))

\* The reference rate of a task is the mean over its qualified members, so that
\* a worker in two rows weighs twice: the sum of the rates and their number.
MemberQuals(p, m) == SolverQuals(p, p.workers[m])
RatesOf(p, task) ==
    UNION {{<<m, i>> : i \in {i \in DOMAIN MemberQuals(p, m) : MemberQuals(p, m)[i].task = task}} : m \in SolverMembers(p)}
RefRate(p, task) == <<SumFunction([x \in RatesOf(p, task) |-> MemberQuals(p, x[1])[x[2]].rate]),
                      Cardinality(RatesOf(p, task))>>

----------------------------------------------------------------------------
(* Shift candidates and their task slots.                                   *)

\* The window's start, the hours after it, the latest start that fits, capped.
CandidateStarts(window, tpl) ==
    LET latest == window.end - tpl.length
        grid == {g \in window.start..latest : g % Hour = 0}
        all == InOrder({window.start, latest} \cup grid)
    IN  IF latest < window.start THEN {}
        ELSE {all[i] : i \in 1..Lesser(MaxStarts, Len(all))}

\* The minutes worked: the shift less its breaks.
Working(start, tpl) ==
    {t \in start..(start + tpl.length - 1) :
        \A b \in tpl.breaks : ~(start + b.offset <= t /\ t < start + b.offset + b.length)}

\* The runs of minutes of _subtract, then _split_into_slots: the second slot
\* begins at the first run after which half of the work is done.
SegmentStarts(minutes) == {t \in minutes : t - 1 \notin minutes}
SlotsOf(start, tpl) ==
    LET minutes == Working(start, tpl)
        starts == SegmentStarts(minutes)
        half == {s \in starts : 2 * Cardinality({t \in minutes : t < s}) >= Cardinality(minutes)}
    IN  IF tpl.length <= SlotLength \/ Cardinality(starts) <= 1 \/ half = {} THEN <<minutes>>
        ELSE LET cut == CHOOSE s \in half : \A t \in half : s <= t
             IN  <<{t \in minutes : t < cut}, {t \in minutes : t >= cut}>>

Effective(tpl) == Greater(0, tpl.length - SumFunction([b \in tpl.breaks |-> IF b.paid THEN 0 ELSE b.length]))

ShiftsOf(p, m) ==
    LET wins == SolverWindows(p, p.workers[m])
    IN  UNION {UNION {{[row |-> m, worker |-> p.workers[m], window |-> wins[k].id, kind |-> wins[k].kind,
                        tpl |-> tpl, start |-> s, end |-> s + tpl.length] :
                            s \in CandidateStarts(wins[k], tpl)} : tpl \in p.templates} : k \in DOMAIN wins}

\* A task variable per shift, slot and qualified task with demand in the slot.
TaskVars(p, demanded) ==
    UNION {UNION {LET slots == SlotsOf(sv.start, sv.tpl)
                      tasks == {MemberQuals(p, r)[i].task : i \in DOMAIN MemberQuals(p, r)}
                  IN  {v \in {[shift |-> sv, slot |-> k, task |-> t, minutes |-> slots[k]] :
                                 k \in DOMAIN slots, t \in tasks} :
                        \E m \in v.minutes : <<v.task, m \div Hour>> \in demanded} :
                  sv \in ShiftsOf(p, r)} : r \in SolverMembers(p)}

SelectedShifts(sel) == {v.shift : v \in sel}
FirstMinute(v) == Min(v.minutes)
EndMinute(v) == Max(v.minutes) + 1

----------------------------------------------------------------------------
(* Hard constraints, on a selection.                                        *)

OneTaskPerSlot(sel) == \A v, u \in sel : (v.shift = u.shift /\ v.slot = u.slot) => v = u
OneShiftPerWindow(sel) == \A s, t \in SelectedShifts(sel) : s.window = t.window => s = t

DayCap(sel) ==
    \A s \in SelectedShifts(sel) :
        Cardinality({t \in SelectedShifts(sel) : t.worker = s.worker
                        /\ t.start \div Day = s.start \div Day}) <= ShiftsPerDay

WeekHours(sel, w) == SumFunction([s \in {s \in SelectedShifts(sel) : s.worker = w} |-> Effective(s.tpl)])
WeekCap(b, sel) == \A s \in SelectedShifts(sel) : WeekHours(sel, s.worker) <= b.weekCap

GapAdjacent(sel) ==
    \A s, t \in SelectedShifts(sel) : (s.worker = t.worker /\ s.end <= t.start) => t.start - s.end >= MinGap

\* Two selected shifts of a worker keep the gap, whichever starts first.
Gap(sel) ==
    \A s, t \in SelectedShifts(sel) : (s.worker = t.worker /\ s # t) =>
        Greater(s.start, t.start) - Lesser(s.end, t.end) >= MinGap

Base(b, sel) ==
    /\ OneTaskPerSlot(sel) /\ OneShiftPerWindow(sel)
    /\ DayCap(sel) /\ WeekCap(b, sel) /\ Gap(sel)

----------------------------------------------------------------------------
(* Objectives.                                                              *)

InSlot(v, h) == Cardinality({m \in v.minutes : m \div Hour = h})
Bodies(sel, task, h) == {v \in sel : v.task = task /\ InSlot(v, h) > 0}

\* rate_for: the first qualification of the worker for the task.
RateFor(p, w, task) ==
    LET quals == SolverQuals(p, w)
        mine == Rows(quals, LAMBDA i : quals[i].task = task, LAMBDA i : quals[i].rate)
    IN  IF mine = <<>> THEN 0 ELSE mine[1]

HoursPerVolume(p, task) ==
    LET ref == RefRate(p, task)
    IN  IF ref[1] = 0 THEN 1 ELSE Greater(1, (HourScale * ref[2]) \div (Scale * ref[1]))

\* What build() leaves in the builder.
Build(p, ov) ==
    LET cells == TaskIds(p) \X Hours(p)
        vol == [x \in cells |-> VolDemand(p, ov, x[1], x[2])]
        hc == [x \in cells |-> HcDemand(p, ov, x[1], x[2])]
        vars == TaskVars(p, {x \in cells : vol[x] > 0 \/ hc[x] > 0})
    IN  [vars |-> vars, vol |-> vol, hc |-> hc, weekCap |-> p.weekCap, wage |-> p.wage,
         ind |-> {t \in TaskIds(p) : IsIndirect(p, t)},
         rate |-> [x \in {p.workers[m] : m \in SolverMembers(p)} \X TaskIds(p) |-> RateFor(p, x[1], x[2])],
         perVol |-> [t \in TaskIds(p) |-> HoursPerVolume(p, t)],
         rosters |-> {<<v.shift.window, Clip(p, p.windows[v.shift.window].start, p.windows[v.shift.window].end)>> :
                         v \in {u \in vars : u.shift.kind = "roster"}}]

UnmetVolume(b, sel, x) ==
    Greater(0, b.vol[x] -
        SumFunction([v \in Bodies(sel, x[1], x[2]) |->
                        (b.rate[<<v.shift.worker, v.task>>] * InSlot(v, x[2]) * Scale * 100) \div (110 * Hour)]))
UnmetHeads(b, sel, x) == Greater(0, b.hc[x] - Cardinality(Bodies(sel, x[1], x[2])))

\* round1_unmet: hours of demand not met, and rosters not filled.
Unmet(b, sel) ==
    SumFunction([x \in {x \in DOMAIN b.vol : b.vol[x] > 0 \/ b.hc[x] > 0} |->
                    IF x[1] \in b.ind THEN HourScale * UnmetHeads(b, sel, x)
                    ELSE b.perVol[x[1]] * UnmetVolume(b, sel, x)])
    + SumFunction([r \in {r \in b.rosters : ~\E v \in sel : v.shift.window = r[1]} |->
                      Greater(1, ((r[2][2] - r[2][1]) * HourScale) \div Hour)])

\* The slack an override needs on a selection.
OverrideSlack(b, o, sel) ==
    CASE o.tool = "set_min_workers_per_task" ->
            SumFunction([x \in {x \in DOMAIN b.vol : x[1] = o.task /\ (b.vol[x] > 0 \/ b.hc[x] > 0)} |->
                            Greater(0, o.n - Cardinality(Bodies(sel, x[1], x[2])))])
      [] o.tool = "lock_worker_shift" ->
            IF \E s \in SelectedShifts(sel) : s.worker = o.worker /\ s.start \div Day = o.day THEN 0 ELSE 1
      [] o.tool = "exclude_worker_from_task" ->
            Cardinality({v \in sel : v.shift.worker = o.worker /\ v.task = o.task})
      [] o.tool = "set_max_hours" -> Greater(0, WeekHours(sel, o.worker) - o.max)
      [] OTHER -> 0

MaxHoursBound(b, o) == Greater(0, b.weekCap - o.max)

\* Only the overflow above a soft cap has a bound a selection could meet.
OverrideHolds(b, o, sel) ==
    o.tool = "set_max_hours" => OverrideSlack(b, o, sel) <= MaxHoursBound(b, o)

Penalty(o) == CASE o.tool = "exclude_worker_from_task" -> 5 [] OTHER -> 10

\* round2_cost: wages, and a penalty for every preference not met.
Cost(b, ov, sel) ==
    SumFunction([s \in SelectedShifts(sel) |-> Effective(s.tpl) * b.wage])
    + SumSeq(LAMBDA o : Penalty(o) * OverrideSlack(b, o, sel), ov)

\* The solutions of the model, with the value of each objective.
Solutions(b, ov) ==
    {[sel |-> sel, unmet |-> Unmet(b, sel), cost |-> Cost(b, ov, sel)] :
        sel \in {s \in SUBSET b.vars : Base(b, s) /\ \A i \in DOMAIN ov : OverrideHolds(b, ov[i], s)}}
=============================================================================
