------------------------- MODULE ScenarioProjection -------------------------
(***************************************************************************)
(* How one immutable scenario payload becomes the facts planners and the   *)
(* agent read: normalisation of its tables, the query every fact group     *)
(* answers, the resolution of a cited record, and the metrics computed     *)
(* from the facts.                                                         *)
(*                                                                         *)
(* A payload is a record of tables, a table a sequence of rows.  Times are *)
(* minutes (or, in an indirect row, a day and two times of day); `ok` says *)
(* whether a row's times can be parsed at all.  Names and numbers of a row *)
(* that no property tells apart are left out.  Record ids keep the order   *)
(* of the strings they stand for.                                          *)
(***************************************************************************)
EXTENDS Naturals, Sequences, FiniteSets, SequencesExt, Functions

CONSTANTS None,       \* a missing field
          Day,        \* minutes in a day
          Scale       \* volumes are counted in Scale-ths: a multiple of the
                      \* length of every demand interval (VOL_SCALE)

Inbound == 1  Indirect == 2  Outbound == 3      \* "inbound" < "indirect" < "outbound"
RecordId(family, i, k) == 100 * family + 10 * i + k

\* A finite set of numbers in ascending order: each stands where as many of
\* them are not above it.
InOrder(S) == [n \in 1..Cardinality(S) |-> CHOOSE i \in S : Cardinality({j \in S : j <= i}) = n]

\* The rows i of a table that satisfy Keep, each turned into Make(i).
Rows(table, Keep(_), Make(_)) ==
    LET kept == InOrder({i \in 1..Len(table) : Keep(i)})
    IN  [n \in DOMAIN kept |-> Make(kept[n])]

IsTable(t) == t \in Seq(ToSet(t))
IsPayload(p) ==
    /\ IsTable(p.tasks) /\ IsTable(p.workers) /\ IsTable(p.constraints)
    /\ IsTable(p.outbound) /\ IsTable(p.inbound) /\ IsTable(p.indirect)
    /\ \A i \in DOMAIN p.inbound : IsTable(p.inbound[i].tasks)

----------------------------------------------------------------------------
(* Normalisation.                                                           *)

TaskIds(p) == {p.tasks[i].id : i \in DOMAIN p.tasks} \ {None}

\* The first row of every task id; an area the payload does not list is Unknown.
NormalizeTasks(p) ==
    Rows(p.tasks,
         LAMBDA i : /\ p.tasks[i].id # None
                    /\ \A j \in 1..(i - 1) : p.tasks[j].id # p.tasks[i].id,
         LAMBDA i : [record |-> p.tasks[i].id, task |-> p.tasks[i].id,
                     area |-> IF p.tasks[i].area \in p.areas THEN p.tasks[i].area ELSE "Unknown"])

Rate(q) == IF q.override # None THEN q.override ELSE q.rate

\* The override wins even when it is zero, and then the row qualifies nobody.
Qualifications(p, w) ==
    Rows(p.quals,
         LAMBDA i : /\ p.quals[i].worker = w
                    /\ p.quals[i].task \in TaskIds(p)
                    /\ Rate(p.quals[i]) > 0,
         LAMBDA i : [task |-> p.quals[i].task, rate |-> Rate(p.quals[i])])

Windows(p, w) ==
    Rows(p.windows, LAMBDA i : p.windows[i].worker = w /\ p.windows[i].ok,
         LAMBDA i : [start |-> p.windows[i].start, end |-> p.windows[i].end])

NormalizeWorkers(p) ==
    Rows(p.workers,
         LAMBDA i : /\ p.workers[i] # None
                    /\ \A j \in 1..(i - 1) : p.workers[j] # p.workers[i],
         LAMBDA i : [record |-> p.workers[i], worker |-> p.workers[i],
                     quals |-> Qualifications(p, p.workers[i]),
                     windows |-> Windows(p, p.workers[i])])

Interval(record, family, task, start, end, amount) ==
    [record |-> record, family |-> family, task |-> task, start |-> start, end |-> end,
     amount |-> amount, unit |-> IF family = Indirect THEN "headcount" ELSE "volume"]

OutboundDemand(p) ==
    Rows(p.outbound, LAMBDA i : p.outbound[i].task \in TaskIds(p) /\ p.outbound[i].ok,
         LAMBDA i : LET r == p.outbound[i]
                    IN  Interval(RecordId(Outbound, i, 0), Outbound, r.task, r.start, r.end, r.amount))

\* One inbound row holds several tasks over one window.
InboundDemand(p) ==
    FlattenSeq(Rows(p.inbound, LAMBDA i : p.inbound[i].ok,
        LAMBDA i : LET r == p.inbound[i]
                   IN  Rows(r.tasks, LAMBDA k : r.tasks[k].task \in TaskIds(p),
                            LAMBDA k : Interval(RecordId(Inbound, i, k), Inbound, r.tasks[k].task,
                                                r.start, r.end, r.tasks[k].amount))))

\* _day_window_offsets: a window that does not end after it starts ends the next day.
DayWindow(r) == <<Day * r.day + r.from,
                  Day * r.day + r.to + (IF r.to <= r.from THEN Day ELSE 0)>>

IndirectDemand(p) ==
    Rows(p.indirect, LAMBDA i : p.indirect[i].task \in TaskIds(p) /\ p.indirect[i].ok,
         LAMBDA i : LET r == p.indirect[i]
                    IN  Interval(RecordId(Indirect, i, 0), Indirect, r.task,
                                 DayWindow(r)[1], DayWindow(r)[2], r.amount))

NormalizeDemand(p) == OutboundDemand(p) \o InboundDemand(p) \o IndirectDemand(p)

NormalizeConstraints(p) ==
    [i \in DOMAIN p.constraints |-> [record |-> i, kind |-> p.constraints[i]]]

----------------------------------------------------------------------------
(* Queries.  A filter is a pair <<name, value>>; a sort key is a field.     *)

Matches(item, f) ==
    CASE f[1] = "start_minute_gte" -> item.start >= f[2]
      [] f[1] = "end_minute_lte" -> item.end <= f[2]
      [] f[1] = "qualified_task_id" -> \E n \in DOMAIN item.quals : item.quals[n].task = f[2]
      [] OTHER -> item[f[1]] = f[2]

SliceWindow(items, cursor, limit) ==
    LET page == SubSeq(items, cursor + 1, IF cursor + limit < Len(items)
                                          THEN cursor + limit ELSE Len(items))
        end == cursor + Len(page)
    IN  [page |-> page, next |-> IF end < Len(items) THEN end ELSE None]

\* Two stable sorts: by record id, then by the key; a descending sort keeps
\* equal keys in ascending record order.
Ordered(items, sort, order) ==
    IF sort = None THEN items
    ELSE SortSeq(items, LAMBDA a, b :
            \/ a[sort] # b[sort] /\ (a[sort] < b[sort] <=> order = "asc")
            \/ a[sort] = b[sort] /\ a.record < b.record)

Matching(items, filters) ==
    Rows(items, LAMBDA i : \A f \in filters : Matches(items[i], f), LAMBDA i : items[i])

ApplyQuery(items, q) ==
    LET matching == Matching(items, q.filters)
        slice == SliceWindow(Ordered(matching, q.sort, q.order), q.cursor, q.limit)
    IN  [items |-> slice.page, next |-> slice.next,
         total |-> Len(items), matching |-> Len(matching)]

ResolveItems(items, requested, actual, record) ==
    LET found == Rows(items, LAMBDA i : items[i].record = record, LAMBDA i : items[i])
    IN  IF requested # actual THEN [outcome |-> "version_mismatch", item |-> None]
        ELSE IF found = <<>> THEN [outcome |-> "not_found", item |-> None]
        ELSE [outcome |-> "resolved", item |-> found[1]]

----------------------------------------------------------------------------
(* The metrics the agent may cite, computed from drained fact groups.       *)
(* Volumes are counted in Scale-ths of a unit, so that the pro-rating of a  *)
(* quantity over its interval stays exact.                                  *)

DemandMetrics == {"required_headcount_minutes", "required_demand_volume"}

\* interval_overlap_minutes: the intersection of two half-open intervals.
Overlap(ls, le, rs, re) ==
    LET hi == IF le < re THEN le ELSE re
        lo == IF ls > rs THEN ls ELSE rs
    IN  IF hi > lo THEN hi - lo ELSE 0

SumOver(seq, F(_)) == FoldFunction(LAMBDA x, y : x + y, 0, [n \in DOMAIN seq |-> F(seq[n])])

Error(code) == [error |-> code, value |-> 0, refs |-> {}, consumed |-> 0]
Result(value, rows) ==
    [error |-> None, value |-> value, refs |-> {rows[n].record : n \in DOMAIN rows},
     consumed |-> Len(rows)]

\* The arguments a metric understands: no window where it is scenario-wide, no
\* family where it reads no demand, a non-empty window where it needs one.
ArgumentsValid(m, a) ==
    CASE m = "worker_count" -> a.task = None /\ a.family = None /\ a.start = None /\ a.end = None
      [] m = "qualified_worker_count" -> a.task # None /\ a.family = None /\ a.start = None /\ a.end = None
      [] OTHER -> /\ a.task # None
                  /\ (a.family # None => m \in DemandMetrics)
                  /\ a.start # None /\ a.end # None
                  /\ a.end > a.start

\* What is drained for a metric: never narrowed by the window, whose query keys
\* mean containment and not overlap.
GroupOf(m) == CASE m \in {"worker_count", "qualified_worker_count"} -> "workers"
                [] m \in DemandMetrics -> "demand"
                [] OTHER -> "assignments"

FiltersOf(m, a) ==
    CASE m = "worker_count" -> {}
      [] m = "qualified_worker_count" -> {<<"qualified_task_id", a.task>>}
      [] m \in DemandMetrics -> {<<"task", a.task>>} \cup
                                (IF a.family = None THEN {} ELSE {<<"family", a.family>>})
      [] OTHER -> {<<"task", a.task>>}

InWindow(row, a) == Overlap(row.start, row.end, a.start, a.end) > 0

WantedUnit(m) == IF m = "required_demand_volume" THEN "volume" ELSE "headcount"

MinutesOf(rows, a) ==
    SumOver(rows, LAMBDA r : Overlap(r.start, r.end, a.start, a.end) * r.amount)
VolumeOf(rows, a) ==
    SumOver(rows, LAMBDA r : Overlap(r.start, r.end, a.start, a.end) * r.amount
                             * (Scale \div (r.end - r.start)))
StaffedOf(rows, a) == SumOver(rows, LAMBDA r : Overlap(r.start, r.end, a.start, a.end))

DemandMetricZero(m, a, drained) ==
    LET window == SelectSeq(drained, LAMBDA r : InWindow(r, a))
        matched == SelectSeq(window, LAMBDA r : r.unit = WantedUnit(m))
    IN  Result(IF m = "required_demand_volume" THEN VolumeOf(matched, a) ELSE MinutesOf(matched, a), matched)

\* Demand in the window but none in the metric's unit is an error, not a zero.
DemandMetric(m, a, drained) ==
    LET window == SelectSeq(drained, LAMBDA r : InWindow(r, a))
        matched == SelectSeq(window, LAMBDA r : r.unit = WantedUnit(m))
    IN  IF window # <<>> /\ matched = <<>> THEN Error("metric_dimension_mismatch")
        ELSE Result(IF m = "required_demand_volume" THEN VolumeOf(matched, a)
                    ELSE MinutesOf(matched, a), matched)

\* calculate_metric on the drained rows of GroupOf(m) under FiltersOf(m, a).
Calculate(m, a, drained) ==
    CASE GroupOf(m) = "workers" -> Result(Len(drained), drained)
      [] m \in DemandMetrics -> DemandMetric(m, a, drained)
      [] OTHER -> LET matched == SelectSeq(drained, LAMBDA r : InWindow(r, a))
                  IN  Result(StaffedOf(matched, a), matched)
=============================================================================
