---------------------------- MODULE ScheduleRunSystem ----------------------------
(***************************************************************************)
(* Workers and cancellation commands over one store: the start command     *)
(* creates runs (enqueue_compute), workers lease and execute them, and     *)
(* planners cancel them (cancel_schedule_run.py, POST /cancellation).      *)
(*                                                                         *)
(* A cancellation is one READ COMMITTED transaction of three visible steps:*)
(* the unlocked read of the run, the read of the idempotency row, and the  *)
(* writes.  Its route answers every CancelScheduleRunError with a problem  *)
(* document and returns, so the request's transaction COMMITS on a refusal *)
(* too (api/deps.py, get_site_context).  A request that dies before its    *)
(* commit is one that takes no further step.                               *)
(***************************************************************************)
EXTENDS LeaseWorker

CONSTANTS
    Requests,   \* cancellation requests planners may send
    RunOf,      \* the run each one names
    KeyOf,      \* the Idempotency-Key each one carries; a retry repeats the key
    Versions    \* the resource versions a planner may present

ASSUME RequestAssumption ==
    /\ RunOf \in [Requests -> Runs]
    /\ KeyOf \in [Requests -> STRING]
    /\ Versions \subseteq Nat

VARIABLES
    reqPc,      \* where each request is
    expected,   \* the expected_resource_version it carries
    seen,       \* the run state it read: status and resource version
    reply,      \* what the planner was answered
    idem        \* command_idempotency rows of the cancel operation

cancelVars == <<reqPc, expected, seen, reply, idem>>
vars       == <<storeVars, workerVars, cancelVars>>

\* The unique key of a command_idempotency row: the operation names the run.
Slot(q) == <<RunOf[q], KeyOf[q]>>
Slots   == {Slot(q) : q \in Requests}

NoReply   == [kind |-> "none", status |-> "absent", version |-> 0, flag |-> FALSE]
Refusals  == {"not_found", "key_conflict", "stale_version", "not_cancellable"}
Reply     == [kind: {"none", "ok"} \cup Refusals, status: RunStatus,
              version: Nat, flag: BOOLEAN]
\* The body hash covers the run and the expected version.
NoRow     == [body |-> 0, reply |-> NoReply]
Row       == [body: Nat, reply: Reply]
NoState   == [status |-> "absent", version |-> 0]

CancelType ==
    /\ reqPc \in [Requests -> {"new", "read", "checked", "done"}]
    /\ expected \in [Requests -> Nat]
    /\ seen \in [Requests -> [status: RunStatus, version: Nat]]
    /\ reply \in [Requests -> Reply]
    /\ idem \in [Slots -> Row]

CancelInit ==
    /\ reqPc = [q \in Requests |-> "new"]
    /\ expected = [q \in Requests |-> 0]
    /\ seen = [q \in Requests |-> NoState]
    /\ reply = [q \in Requests |-> NoReply]
    /\ idem = [s \in Slots |-> NoRow]

-----------------------------------------------------------------------------
\* The request is answered; what it read is forgotten with it.
Answer(q, value) ==
    /\ reqPc' = [reqPc EXCEPT ![q] = "done"]
    /\ reply' = [reply EXCEPT ![q] = value]
    /\ seen' = [seen EXCEPT ![q] = NoState]

\* _command_problem: the refusal the route turns into a problem document.
Refuse(q, kind) == Answer(q, [NoReply EXCEPT !.kind = kind])

\* The stored row answers a request with the same body and refuses another one.
Replay(q) ==
    IF idem[Slot(q)].body = expected[q]
    THEN Answer(q, idem[Slot(q)].reply)
    ELSE Refuse(q, "key_conflict")

\* _store_idempotent_result: ON CONFLICT DO NOTHING.
StoreReply(q, value) ==
    idem' = [idem EXCEPT ![Slot(q)] =
                IF @ = NoRow THEN [body |-> expected[q], reply |-> value] ELSE @]

\* get_run_state, unlocked.
CancelRead(q, v) ==
    LET r == RunOf[q] IN
    /\ reqPc[q] = "new"
    /\ IF status[r] = "absent"
       THEN Refuse(q, "not_found") /\ UNCHANGED expected
       ELSE /\ reqPc' = [reqPc EXCEPT ![q] = "read"]
            /\ expected' = [expected EXCEPT ![q] = v]
            /\ seen' = [seen EXCEPT ![q] = [status |-> status[r],
                                            version |-> version[r]]]
            /\ UNCHANGED reply
    /\ UNCHANGED <<storeVars, workerVars, idem>>

\* get_idempotent_result, then the refusals decided on what was read.
CancelCheck(q) ==
    /\ reqPc[q] = "read"
    /\ IF idem[Slot(q)] # NoRow THEN Replay(q)
       ELSE IF seen[q].version # expected[q] THEN Refuse(q, "stale_version")
       ELSE IF seen[q].status \notin Active THEN Refuse(q, "not_cancellable")
       ELSE reqPc' = [reqPc EXCEPT ![q] = "checked"] /\ UNCHANGED <<reply, seen>>
    /\ UNCHANGED <<storeVars, workerVars, expected, idem>>

\* set_job_cancellation_requested: the job row first, whatever comes of it.
SetFlag(r) ==
    /\ lock[r] = NoOne
    /\ flag' = [flag EXCEPT ![r] = TRUE]
    /\ UNCHANGED <<jobStatus, epoch, expired, lock>>

\* The flag is set, the compare-and-set matches, the reply is stored.
CancelApply(q) ==
    LET r == RunOf[q]
        s == seen[q].status
        value == [kind |-> "ok", status |-> CancelTarget(s),
                  version |-> seen[q].version + 1, flag |-> flag'[r]]
    IN
    /\ reqPc[q] = "checked"
    /\ s \in {"solver_queued", "solver_running"}
    /\ SetFlag(r)
    /\ CancelMatches(r, s, expected[q])
    /\ CancelTransition(r, s)
    /\ Answer(q, value)
    /\ StoreReply(q, value)
    /\ UNCHANGED <<workerVars, expected>>

\* Mutant: a lost compare-and-set is always answered as a stale version.
ResolveLostRaceNoReplay(q) == Refuse(q, "stale_version")

\* _resolve_lost_race: a request with the same key may have won meanwhile.
ResolveLostRace(q) ==
    IF idem[Slot(q)] # NoRow THEN Replay(q)
    ELSE IF version[RunOf[q]] # expected[q] THEN Refuse(q, "stale_version")
    ELSE Refuse(q, "not_cancellable")

\* The compare-and-set matches no row.  The flag written before it commits with
\* the rest of the request's transaction.
CancelLost(q) ==
    LET r == RunOf[q]
        s == seen[q].status
    IN
    /\ reqPc[q] = "checked"
    /\ s \in {"solver_queued", "solver_running"}
    /\ SetFlag(r)
    /\ ~CancelMatches(r, s, expected[q])
    /\ ResolveLostRace(q)
    /\ UNCHANGED <<runVars, workerVars, expected, idem>>

\* Cancellation was already requested: the state is echoed and nothing written
\* but the idempotency row.
CancelEcho(q) ==
    LET value == [kind |-> "ok", status |-> "cancellation_requested",
                  version |-> seen[q].version, flag |-> flag[RunOf[q]]]
    IN
    /\ reqPc[q] = "checked"
    /\ seen[q].status = "cancellation_requested"
    /\ Answer(q, value)
    /\ StoreReply(q, value)
    /\ UNCHANGED <<storeVars, workerVars, expected>>

CancelStep(q) ==
    \/ \E v \in Versions : CancelRead(q, v)
    \/ CancelCheck(q)
    \/ CancelApply(q)
    \/ CancelLost(q)
    \/ CancelEcho(q)

\* The start command's transaction, as far as this system sees it.
StartRun(r) ==
    /\ CreateQueuedRun(r)
    /\ UNCHANGED <<workerVars, cancelVars>>

-----------------------------------------------------------------------------
Init == StoreInit /\ WorkerInit /\ CancelInit

Next ==
    \/ WorkerNext /\ UNCHANGED cancelVars
    \/ \E r \in Runs : StartRun(r)
    \/ \E q \in Requests : CancelStep(q)

Spec == Init /\ [][Next]_vars

\* A worker that can go on does (the poll loop, the solver's wall-time limit),
\* and a lease nobody renews runs out.
Fairness ==
    /\ \A w \in Workers : WF_vars(WorkerStep(w) /\ UNCHANGED cancelVars)
    /\ \A r \in Runs : WF_vars(LeaseLapses(r) /\ UNCHANGED cancelVars)

FairSpec == Spec /\ Fairness
-----------------------------------------------------------------------------
(* Properties.                                                               *)

\* Type invariant.
TypeOK == StoreType /\ WorkerType /\ CancelType

\* The event stream and the run row never disagree: the stream has one event
\* per resource version, numbered without gaps, and its last event is the
\* status the row shows (_write_progress_event in every transition's writer).
StreamMirrorsRun ==
    \A r \in Runs :
        /\ Len(events[r]) = version[r]
        /\ \A i \in 1..Len(events[r]) : events[r][i].version = i
        /\ version[r] = 0 => status[r] = "absent"
        /\ version[r] > 0 => events[r][version[r]].status = status[r]

\* A schedule candidate exists exactly when the run completed, there is at most
\* one, and it was written by the attempt that wrote the terminal event: a
\* fenced-out worker leaves no candidate behind (finalize_run).
OneCandidate ==
    \A r \in Runs :
        candidates[r] = IF status[r] = "solver_completed"
                        THEN {events[r][Len(events[r])].attempt} ELSE {}

\* Once an attempt has written to a run no older attempt writes again, and none
\* writes under an epoch the queue has not handed out (_claim_epoch).
AttemptsInOrder ==
    \A r \in Runs :
        \A i, j \in 1..Len(events[r]) :
            /\ events[r][i].attempt <= epoch[r]
            /\ i < j /\ events[r][j].attempt > 0 =>
                    events[r][i].attempt <= events[r][j].attempt

\* A job leaves the queue for good only with its run terminal: no run is left
\* queued or running with nobody to execute it (complete_job, fail_job).
EndedJobEndedRun ==
    \A r \in Runs :
        jobStatus[r] \in {"completed", "failed"} => status[r] \in Terminal

\* A worker that still owns the newest epoch finds its job leased: the branch
\* "job is no longer leased" of complete_job and fail_job is never taken, and
\* two workers never own the same epoch.
OwnerFindsLease ==
    \A w \in Workers : held[w] # NoLease =>
        /\ held[w].epoch <= epoch[held[w].run]
        /\ held[w].epoch = epoch[held[w].run] => jobStatus[held[w].run] = "leased"
        /\ \A u \in Workers : held[u] = held[w] => u = w

\* An accepted cancellation is true: the version it names is in the stream with
\* the status it names, and the job carries the flag (cancel_schedule_run).
AcceptedIsRecorded ==
    \A q \in Requests : reply[q].kind = "ok" =>
        LET r == RunOf[q]  v == reply[q].version IN
        /\ v \in 1..Len(events[r])
        /\ events[r][v].status = reply[q].status
        /\ reply[q].flag /\ flag[r]

\* Requests with one key and one body that were accepted got the same answer,
\* the one that is stored (AD-8 in cancel_schedule_run).
OneAnswerPerKey ==
    \A q \in Requests : reply[q].kind = "ok" =>
        idem[Slot(q)] = [body |-> expected[q], reply |-> reply[q]]

\* A request whose key already has a stored answer for its body is never
\* refused, even when it lost the race to its own retry (_resolve_lost_race).
RetryNeverRefused ==
    [][\A q \in Requests :
          reply'[q].kind \in Refusals /\ reply[q].kind = "none" =>
              idem[Slot(q)] = NoRow \/ idem[Slot(q)].body # expected'[q]]_vars

\* Every run that is started ends, and its job with it, whatever crashes, lapses
\* and cancellations happen, as long as they are finitely many; an unmeasurable run
\* at least once it is cancelled.  A run that ended stays ended, so it is enough that
\* again and again no other run is active.
EveryRunEnds ==
    []<>(\A r \in Runs :
            \/ status[r] = "absent"
            \/ status[r] \in Terminal /\ jobStatus[r] \in {"completed", "failed"}
            \/ r \in Unmeasurable /\ status[r] # "cancellation_requested")

\* What the comment on _FATAL_EXECUTION_ERRORS says of deterministic causes: they
\* end the attempt "permanently rather than re-leasing forever at the head of the
\* queue".  A job is leased again only after something that may not recur.
ReleasedOnlyAfterFault == \A r \in Runs : epoch[r] <= faults + 1

-----------------------------------------------------------------------------
(* The inductive invariant behind the safety properties of the worker side. *)

\* A job exists with its run, and only a lease moves its epoch off zero.
JobOfRun ==
    \A r \in Runs :
        /\ jobStatus[r] = "absent" <=> status[r] = "absent"
        /\ jobStatus[r] \in {"absent", "queued"} => epoch[r] = 0

\* What a worker's position says of its lease, of its result and of its run: the
\* unlocked reads it acted on have gone stale, but only in these ways.
Control(w) ==
    /\ pc[w] = "idle" <=> held[w] = NoLease
    /\ pc[w] # "idle" =>
           /\ held[w] \in Lease
           /\ held[w].epoch > 0
           /\ status[held[w].run] # "absent"
    /\ pc[w] \in {"checkpoint2", "solving"} =>
           status[held[w].run] # "solver_queued"
    /\ pc[w] = "complete" => status[held[w].run] \in Terminal
    /\ pc[w] \in {"claim", "finalize"} => result[w] \in Result
    /\ pc[w] = "recover" /\ result[w] = NoResult =>
           status[held[w].run] \in Terminal

WorkerControl == \A w \in Workers : Control(w)

\* The inductive invariant: each safety property above is one of its conjuncts.
FencingInvariant ==
    /\ TypeOK
    /\ JobOfRun
    /\ WorkerControl
    /\ OwnerFindsLease
    /\ StreamMirrorsRun
    /\ OneCandidate
    /\ AttemptsInOrder
    /\ EndedJobEndedRun

\* The run as its readers see it.
Statuses(q) == [i \in 1..Len(q) |-> q[i].status]
Lifecycle == INSTANCE RunLifecycle WITH
    history   <- [r \in Runs |-> Statuses(events[r])],
    published <- [r \in Runs |-> candidates[r] # {}]

\* The system implements the run lifecycle: no interleaving of workers, lapses
\* and cancellations publishes a status out of order, after a terminal one, or a
\* candidate without its completion.
ImplementsLifecycle == Lifecycle!LifecycleSpec

\* An accepted cancellation is answered once and truly: its version and status are
\* in the stream, and every retry of it is told the same.
AcceptedOnce == AcceptedIsRecorded /\ OneAnswerPerKey
=============================================================================
