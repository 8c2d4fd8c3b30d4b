------------------------ MODULE ProjectionAlgorithms ------------------------
(***************************************************************************)
(* The projection's and the calculators' algorithms on every payload and   *)
(* request of a bounded set, against reference definitions.  A behaviour   *)
(* picks a payload and asks one question of it.                            *)
(***************************************************************************)
EXTENDS ScenarioProjection, Questions

CONSTANTS FactPayloads, Requests, Queries

ProjectionQuestions ==
    [kind: {"pages"}, payload: FactPayloads, query: Queries]
        \cup [kind: {"metric"}, payload: FactPayloads, request: Requests]

Walk(p, q) ==
    LET RECURSIVE From(_)
        From(c) == LET r == ApplyQuery(NormalizeDemand(p), [q EXCEPT !.cursor = c])
                   IN  IF r.next = None THEN r.items ELSE r.items \o From(r.next)
    IN  From(0)

\* Page after page of the demand group, following next_cursor.
AnswerPages ==
    Answers("pages", [items |-> Walk(asked.payload, asked.query),
                      matching |-> ApplyQuery(NormalizeDemand(asked.payload), asked.query).matching])

\* One metric, on the rows its filters let through.
MetricOf(p, r) ==
    IF ~ArgumentsValid(r.metric, r.args) THEN Error("invalid_query")
    ELSE LET items == IF GroupOf(r.metric) = "workers" THEN NormalizeWorkers(p) ELSE NormalizeDemand(p)
         IN  Calculate(r.metric, r.args, Matching(items, FiltersOf(r.metric, r.args)))

AnswerMetric == Answers("metric", MetricOf(asked.payload, asked.request))

AnswerProjection == AnswerPages \/ AnswerMetric

----------------------------------------------------------------------------
Demand == NormalizeDemand(asked.payload)
Tasks == NormalizeTasks(asked.payload)
Workers == NormalizeWorkers(asked.payload)
RecordsOf(s) == {s[n].record : n \in DOMAIN s}

\* Every fact group names each record once, so a citation has one meaning, and
\* whatever a fact refers to is itself a fact: no qualification or demand row
\* of a task the payload does not list (the filters of _normalize_workers and
\* _normalize_demand, the `seen` sets).
FactsAreClosed ==
    Answered("pages") =>
    /\ \A s \in {Demand, Tasks, Workers, NormalizeConstraints(asked.payload)} :
          Cardinality(RecordsOf(s)) = Len(s)
    /\ \A n \in DOMAIN Demand : Demand[n].task \in RecordsOf(Tasks)
    /\ \A n \in DOMAIN Workers : \A k \in DOMAIN Workers[n].quals :
          Workers[n].quals[k].task \in RecordsOf(Tasks)

\* A window of the day is never empty and never longer than a day, also when it
\* crosses midnight or names the same time twice.
DayWindowsAreDays ==
    Answered("pages") => \A n \in DOMAIN Demand : Demand[n].family = Indirect =>
        Demand[n].end - Demand[n].start \in 1..Day

\* The pages of a walk are the matching records, each once, in the order asked
\* for, whatever the page size (_slice_window's cursor arithmetic).
WalkIsExact ==
    Answered("pages") =>
        LET want == {n \in DOMAIN Demand : \A f \in asked.query.filters : Matches(Demand[n], f)}
            items == answer.items
        IN  /\ Len(items) = Cardinality(want) /\ answer.matching = Cardinality(want)
            /\ RecordsOf(items) = {Demand[n].record : n \in want}
            /\ asked.query.sort # None =>
                  \A j, k \in DOMAIN items : j < k =>
                      LET a == items[j][asked.query.sort] b == items[k][asked.query.sort]
                      IN  IF asked.query.order = "asc" THEN a <= b ELSE a >= b

\* Required minutes are what one gets by counting, minute by minute, the heads
\* required in that minute: partly overlapping rows, empty and inverted rows and
\* rows of other tasks, families and units included.
Headcount(a, t) ==
    LET rows == {n \in DOMAIN Demand :
                    /\ Demand[n].task = a.task /\ Demand[n].unit = "headcount"
                    /\ (a.family # None => Demand[n].family = a.family)
                    /\ Demand[n].start <= t /\ t < Demand[n].end}
    IN  FoldFunction(LAMBDA x, y : x + y, 0, [n \in rows |-> Demand[n].amount])

MetricIsCounted ==
    Answered("metric") /\ asked.request.metric = "required_headcount_minutes"
        /\ answer.error = None =>
        answer.value = FoldFunction(LAMBDA x, y : x + y, 0,
                          [t \in asked.request.args.start..(asked.request.args.end - 1) |-> Headcount(asked.request.args, t)])

\* Volume over a window that covers every interval of the task is all of its
\* volume, none of it lost to the pro-rating of a quantity over its interval.
VolumeIsWhole ==
    Answered("metric") /\ asked.request.metric = "required_demand_volume"
        /\ answer.error = None =>
        LET rows == {n \in DOMAIN Demand :
                        /\ Demand[n].task = asked.request.args.task /\ Demand[n].unit = "volume"
                        /\ (asked.request.args.family # None => Demand[n].family = asked.request.args.family)
                        /\ Demand[n].start < Demand[n].end}
        IN  (\A n \in rows : asked.request.args.start <= Demand[n].start /\ Demand[n].end <= asked.request.args.end) =>
                answer.value = Scale * FoldFunction(LAMBDA x, y : x + y, 0, [n \in rows |-> Demand[n].amount])

\* A metric that found demand it cannot express says so instead of answering
\* zero, and a value is backed by exactly the rows it was folded from.
ZeroMeansNothingThere ==
    Answered("metric") /\ asked.request.metric \in DemandMetrics
        /\ answer.error = None =>
        /\ Cardinality(answer.refs) = answer.consumed
        /\ answer.consumed = 0 =>
              ~\E n \in DOMAIN Demand :
                  /\ Demand[n].task = asked.request.args.task
                  /\ (asked.request.args.family # None => Demand[n].family = asked.request.args.family)
                  /\ \E t \in asked.request.args.start..(asked.request.args.end - 1) :
                        Demand[n].start <= t /\ t < Demand[n].end

\* Facts, pages and metrics agree with what they are defined to be.
ProjectionIsExact ==
    /\ FactsAreClosed /\ DayWindowsAreDays /\ WalkIsExact
    /\ MetricIsCounted /\ VolumeIsWhole /\ ZeroMeansNothingThere
=============================================================================
