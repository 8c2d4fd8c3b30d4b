------------------------------ MODULE Drafting ------------------------------
(***************************************************************************)
(* From a proposal of the model, or of the browser, to solver input: one   *)
(* scheduling_draft call resolves each constraint against the pinned       *)
(* scenario version and drains the locks, while the clock runs and imports *)
(* replace the version; and the solver's arguments of what it returned.    *)
(***************************************************************************)
EXTENDS Questions, ScenarioProjection, Integers

CONSTANTS
    Records,          \* version -> the <<group, id>> that exist in it
    Locks,            \* version -> the sequence of its locks
    Horizon,          \* version -> the end of its horizon, in minutes
    DayMinutes,       \* 1440
    HardMaxHours,     \* resolve.HARD_MAX_HOURS_PER_WEEK
    MaxConstraints,   \* settings.scheduling_draft_max_constraints
    MaxLocks,         \* MAX_PRESERVED_LOCKS
    LockPage,         \* the 50 of _preserved_locks
    MaxCandidates,    \* clarification.MAX_CANDIDATES
    Proposals,        \* proposed lists of constraints
    Candidates        \* proposed lists of clarification candidates

Kinds == {"set_min_workers_per_task", "scale_demand", "lock_worker_shift", "set_max_hours", "exclude_worker_from_task"}

\* A proposal is parsed before it is resolved: its kind is one of the five, its
\* numbers are integers.
ASSUME DraftingAssumption ==
    /\ 1 \in DOMAIN Records /\ DayMinutes \in Nat \ {0}
    /\ MaxLocks \in Nat /\ LockPage \in Nat /\ MaxCandidates \in Nat
    /\ \A v \in DOMAIN Records : Horizon[v] \in Nat /\ Locks[v] \in Seq(ToSet(Locks[v]))
    /\ \A todo \in Proposals :
          /\ todo \in Seq(ToSet(todo))
          /\ \A p \in ToSet(todo) : p.kind \in Kinds /\ \A x \in DOMAIN p.nums : p.nums[x] \in Int
    /\ \A cands \in Candidates : cands \in Seq(ToSet(cands))

VARIABLES
    current,          \* the scenario's current version
    late,             \* the deadline has passed
    draft             \* the draft call

draftVars == <<current, late, draft>>

TaskGroup == "work-areas-and-tasks"
WorkerGroup == "workers"

----------------------------------------------------------------------------
(* The resolver.  A proposal is a kind, a record, a related record (or       *)
(* Missing) and the numbers given, by name.                                  *)

\* The exact-target reader: the record, if the pinned version is current.
Resolves(pin, rec) == current = pin /\ rec \in Records[pin]

PrimaryGroup(kind) ==
    IF kind \in {"set_min_workers_per_task", "scale_demand"} THEN TaskGroup ELSE WorkerGroup

\* The numbers a kind takes.
Accepts(kind) ==
    CASE kind = "set_min_workers_per_task" -> {"n"}
      [] kind = "scale_demand" -> {"factor"}
      [] kind = "lock_worker_shift" -> {"start", "end"}
      [] kind = "set_max_hours" -> {"max_hours"}
      [] OTHER -> {}

WindowInHorizon(nums, horizon) ==
    /\ {"start", "end"} \subseteq DOMAIN nums
    /\ nums.start >= 0 /\ nums.end > nums.start /\ nums.end <= horizon

\* Each number the kind requires is given and in its range.
NumbersInRange(p, horizon) ==
    CASE p.kind = "set_min_workers_per_task" -> "n" \in DOMAIN p.nums /\ p.nums.n > 0
      [] p.kind = "scale_demand" -> "factor" \in DOMAIN p.nums /\ p.nums.factor > 0
      [] p.kind = "lock_worker_shift" -> WindowInHorizon(p.nums, horizon)
      [] p.kind = "set_max_hours" -> "max_hours" \in DOMAIN p.nums /\ p.nums.max_hours \in 1..HardMaxHours
      [] OTHER -> TRUE

\* The related record of an exclusion is a task, and exists.
RelatedResolves(pin, p) ==
    p.kind = "exclude_worker_from_task" =>
        p.related # Missing /\ p.related[1] = TaskGroup /\ Resolves(pin, p.related)

ConstraintResolves(pin, p, horizon) ==
    /\ DOMAIN p.nums \subseteq Accepts(p.kind)
    /\ p.rec[1] = PrimaryGroup(p.kind) /\ Resolves(pin, p.rec)
    /\ NumbersInRange(p, horizon)
    /\ RelatedResolves(pin, p)

\* Trusted input: the records it names, and its numbers.
Trusted(p) ==
    [kind |-> p.kind, nums |-> p.nums,
     entities |-> IF p.kind = "exclude_worker_from_task" THEN <<p.rec, p.related>> ELSE <<p.rec>>]

\* The draft's records in the order of their first mention.
UniqueEntities(constraints) ==
    LET all == FlattenSeq([i \in DOMAIN constraints |-> constraints[i].entities])
    IN  Rows(all, LAMBDA i : \A j \in 1..(i - 1) : all[j] # all[i], LAMBDA i : all[i])

\* derive_draft_id: a citation of the content.
DraftId(pin, constraints, locks) == <<pin, constraints, locks>>

----------------------------------------------------------------------------
(* The call                                                                  *)

NoDraft == [pc |-> "idle", pin |-> 0, todo |-> <<>>, horizon |-> 0, done |-> <<>>, cursor |-> 0, locks |-> <<>>,
            result |-> Missing, code |-> Missing]

DraftInit == current = 1 /\ late = FALSE /\ draft = NoDraft

\* A turn pins the current version; the call's own checks come before any read.
CallDraft ==
    /\ draft.pc = "idle"
    /\ \E todo \in Proposals, stale \in BOOLEAN :
          draft' = IF todo = <<>> \/ Len(todo) > MaxConstraints \/ stale
                   THEN [NoDraft EXCEPT !.pc = "failed", !.pin = current, !.code = "invalid_query"]
                   ELSE [NoDraft EXCEPT !.pc = "overview", !.pin = current, !.todo = todo]
    /\ UNCHANGED <<current, late>>

DraftFails(code) == draft' = [draft EXCEPT !.pc = "failed", !.code = code]

ReadOverview ==
    /\ draft.pc = "overview"
    /\ IF current # draft.pin THEN DraftFails("version_mismatch")
       ELSE draft' = [draft EXCEPT !.pc = "resolve", !.horizon = Horizon[current]]
    /\ UNCHANGED <<current, late>>

\* The deadline is checked between resolutions, not within one.
ResolveNext ==
    /\ draft.pc = "resolve" /\ draft.todo # <<>>
    /\ IF late THEN DraftFails("invalid_query")
       ELSE IF ~ConstraintResolves(draft.pin, Head(draft.todo), draft.horizon) THEN DraftFails("invalid_query")
       ELSE draft' = [draft EXCEPT !.todo = Tail(@), !.done = Append(@, Trusted(Head(draft.todo)))]
    /\ UNCHANGED <<current, late>>

AllResolved ==
    /\ draft.pc = "resolve" /\ draft.todo = <<>>
    /\ draft' = [draft EXCEPT !.pc = "locks"]
    /\ UNCHANGED <<current, late>>

LockLimit == IF LockPage <= MaxLocks - Len(draft.locks) THEN LockPage ELSE MaxLocks - Len(draft.locks)

DrainLocksUnchecked ==
    /\ draft.pc = "locks"
    /\ LET all == Locks[current]
           to == IF draft.cursor + LockLimit > Len(all) THEN Len(all) ELSE draft.cursor + LockLimit
       IN  draft' = [draft EXCEPT !.locks = @ \o SubSeq(all, draft.cursor + 1, to), !.cursor = to,
                                  !.pc = IF to < Len(all) THEN "locks" ELSE "return"]
    /\ UNCHANGED <<current, late>>

\* One page of locks, of the pinned version, within the bound.
DrainLocks ==
    /\ draft.pc = "locks"
    /\ IF late THEN DraftFails("invalid_query")
       ELSE IF Len(draft.locks) >= MaxLocks THEN DraftFails("draft_failed")
       ELSE IF current # draft.pin THEN DraftFails("version_mismatch")
       ELSE LET all == Locks[current]
                to == IF draft.cursor + LockLimit > Len(all) THEN Len(all) ELSE draft.cursor + LockLimit
            IN  draft' = [draft EXCEPT !.locks = @ \o SubSeq(all, draft.cursor + 1, to), !.cursor = to,
                                       !.pc = IF to < Len(all) THEN "locks" ELSE "return"]
    /\ UNCHANGED <<current, late>>

ReturnDraft ==
    /\ draft.pc = "return"
    /\ IF late THEN DraftFails("invalid_query")
       ELSE draft' = [draft EXCEPT !.pc = "returned",
                        !.result = [id |-> DraftId(draft.pin, draft.done, draft.locks), version |-> draft.pin,
                                    entities |-> UniqueEntities(draft.done),
                                    constraints |-> draft.done, locks |-> draft.locks]]
    /\ UNCHANGED <<current, late>>

DeadlinePasses ==
    /\ draft.pc \notin {"idle", "returned", "failed"} /\ ~late
    /\ late' = TRUE
    /\ UNCHANGED <<current, draft>>

\* An import makes the next version current.
VersionImported ==
    /\ current + 1 \in DOMAIN Records
    /\ current' = current + 1
    /\ UNCHANGED <<late, draft>>

Draft ==
    CallDraft \/ ReadOverview \/ ResolveNext \/ AllResolved \/ DrainLocks \/ ReturnDraft
    \/ DeadlinePasses \/ VersionImported

----------------------------------------------------------------------------
(* The solver's reading of a constraint, and of a draft                      *)

RecordOf(c, group) == {i \in DOMAIN c.entities : c.entities[i][1] = group}

\* _record_id raises unless exactly one record of the group is named.
Names(c, groups) == \A g \in groups : Cardinality(RecordOf(c, g)) = 1

Wanted(kind) ==
    CASE kind \in {"set_min_workers_per_task", "scale_demand"} -> {TaskGroup}
      [] kind \in {"lock_worker_shift", "set_max_hours"} -> {WorkerGroup}
      [] kind = "exclude_worker_from_task" -> {TaskGroup, WorkerGroup}
      [] OTHER -> {}

ArgsRaise(c) ==
    \/ Wanted(c.kind) = {}
    \/ ~Names(c, Wanted(c.kind))
    \/ c.kind = "lock_worker_shift" /\ "start" \notin DOMAIN c.nums

\* The override the solver is given; a lock keeps the day of its start.
Override(c) ==
    [tool |-> c.kind,
     records |-> ToSet(c.entities),
     day |-> IF c.kind = "lock_worker_shift" THEN c.nums.start \div DayMinutes ELSE Missing]

----------------------------------------------------------------------------
(* A clarification: candidates the planner may choose from                   *)

ClarificationOf(cands) ==
    LET looked == SubSeq(cands, 1, IF Len(cands) < MaxCandidates THEN Len(cands) ELSE MaxCandidates)
        Shown(i) == looked[i] \in Records[1] /\ \A j \in 1..(i - 1) : looked[j] # looked[i]
    IN  [kept |-> Rows(looked, Shown, LAMBDA i : looked[i]),
         dropped |-> Cardinality({i \in DOMAIN looked : ~Shown(i)})
                     + (IF Len(cands) > MaxCandidates THEN Len(cands) - MaxCandidates ELSE 0)]

ClarificationQuestions == {[kind |-> "clarify", cands |-> c] : c \in Candidates}
AnswerClarification == asked.kind = "clarify" /\ Answers("clarify", ClarificationOf(asked.cands))

----------------------------------------------------------------------------
\* A draft call, beside a clarification that is asked for.
DraftSpec ==
    /\ DraftInit /\ asked \in {[kind |-> "none"]} \cup ClarificationQuestions /\ Unanswered
    /\ [][\/ Draft /\ UNCHANGED questionVars
          \/ AnswerClarification /\ UNCHANGED draftVars]_<<draftVars, questionVars>>

\* A draft that was returned is solver input: no constraint of it raises in
\* the adapter, each names records of the version the draft is pinned to and
\* a day of its horizon, and the locks beside it are all of that version's,
\* each once, whatever was imported while the call ran.  A clarification
\* shows each proposed record at most once and counts every one it left out.
DraftsAreSolvable ==
    /\ draft.pc = "returned" =>
         LET r == draft.result
         IN  /\ r.constraints # <<>>
             /\ \A i \in DOMAIN r.constraints :
                   LET c == r.constraints[i]
                   IN  /\ ~ArgsRaise(c)
                       /\ Override(c).records \subseteq Records[r.version]
                       /\ c.kind = "lock_worker_shift" => Override(c).day * DayMinutes < Horizon[r.version]
                       /\ c.kind = "set_max_hours" => c.nums.max_hours <= HardMaxHours
             /\ r.locks = Locks[r.version]
             /\ ToSet(r.entities) = UNION {ToSet(r.constraints[i].entities) : i \in DOMAIN r.constraints}
             /\ Len(r.entities) = Cardinality(ToSet(r.entities))
    /\ Answered("clarify") =>
         /\ Len(answer.kept) + answer.dropped = Len(asked.cands)
         /\ Len(answer.kept) <= MaxCandidates
         /\ Len(answer.kept) = Cardinality(ToSet(answer.kept))
         /\ ToSet(answer.kept) \subseteq Records[1] \cap ToSet(asked.cands)
=============================================================================
