---------------------------- MODULE ScheduleRunStore ----------------------------
(***************************************************************************)
(* The rows PostgreSQL keeps for one site's schedule runs, and the         *)
(* repository methods that write them (adapters/postgres/schedule_run.py   *)
(* and the two SQL functions of migration a2b3c4d5e6f7).                   *)
(*                                                                         *)
(* A run has exactly one job (uq_job_queue_schedule_run), so jobs are      *)
(* indexed by run.  The lease clock is reduced to what the code compares:  *)
(* `expired[r]` stands for lease_expires_at < now().  A method is written  *)
(* as the change it makes when its compare-and-set matches; the callers    *)
(* decide what a lost compare-and-set means.                               *)
(*                                                                         *)
(* READ COMMITTED: a read sees only committed rows, so a step of this      *)
(* model is either one unlocked read or one transaction's writes made      *)
(* visible by its commit.  `lock[r]` is the row lock on the job row; every *)
(* writer of a run takes it before it writes the run row.                  *)
(***************************************************************************)
EXTENDS Naturals, Sequences, FiniteSets

CONSTANTS
    Runs,       \* schedule runs, numbered in the order of (created_at, id)
    Workers,    \* worker processes
    NoOne       \* the owner of a row lock nobody holds

ASSUME StoreAssumption == Runs \subseteq Nat /\ NoOne \notin Workers

VARIABLES
    status,     \* schedule_run.status
    version,    \* schedule_run.resource_version
    events,     \* persisted_event rows of the run's stream, in sequence order
    candidates, \* schedule_version rows of the run, by the attempt that wrote them
    jobStatus,  \* job_queue.status
    epoch,      \* job_queue.fencing_epoch; one attempt_id is minted per epoch
    expired,    \* job_queue.lease_expires_at < now()
    flag,       \* job_queue.cancellation_requested
    lock        \* the transaction holding the job row's lock

runVars   == <<status, version, events, candidates>>
jobVars   == <<jobStatus, epoch, expired, flag>>
storeVars == <<runVars, jobVars, lock>>

Active       == {"solver_queued", "solver_running", "cancellation_requested"}
Terminal     == {"solver_completed", "solver_infeasible", "solver_timed_out",
                 "solver_cancelled", "solver_failed"}
\* "absent" is a run whose row does not exist yet.
RunStatus    == Active \cup Terminal \cup {"absent"}
JobStatus    == {"absent", "queued", "leased", "completed", "failed"}
\* The reasons a transition writes; "none" is NULL, "solver" any reason the
\* solver outcome carries (model_infeasible, budget_exhausted, ...).
Reason       == {"none", "cancelled", "cancellation_requested", "solver",
                 "job_execution_failed"}
Event        == [status: Active \cup Terminal, version: Nat, reason: Reason,
                 attempt: Nat]

StoreType ==
    /\ status \in [Runs -> RunStatus]
    /\ version \in [Runs -> Nat]
    /\ events \in [Runs -> Seq(Event)]
    /\ candidates \in [Runs -> SUBSET Nat]
    /\ jobStatus \in [Runs -> JobStatus]
    /\ epoch \in [Runs -> Nat]
    /\ expired \in [Runs -> BOOLEAN]
    /\ flag \in [Runs -> BOOLEAN]
    /\ lock \in [Runs -> Workers \cup {NoOne}]

StoreInit ==
    /\ status = [r \in Runs |-> "absent"]
    /\ version = [r \in Runs |-> 0]
    /\ events = [r \in Runs |-> << >>]
    /\ candidates = [r \in Runs |-> {}]
    /\ jobStatus = [r \in Runs |-> "absent"]
    /\ epoch = [r \in Runs |-> 0]
    /\ expired = [r \in Runs |-> FALSE]
    /\ flag = [r \in Runs |-> FALSE]
    /\ lock = [r \in Runs |-> NoOne]

-----------------------------------------------------------------------------
(* The run row and its event stream: every transition bumps the resource    *)
(* version by one and appends exactly one event that carries it.            *)

\* The UPDATE of schedule_run together with _write_progress_event.
Transition(r, s, reason, attempt) ==
    /\ status' = [status EXCEPT ![r] = s]
    /\ version' = [version EXCEPT ![r] = @ + 1]
    /\ events' = [events EXCEPT ![r] =
                    Append(@, [status |-> s, version |-> version[r] + 1,
                               reason |-> reason, attempt |-> attempt])]

\* create_queued_run and enqueue_job, one transaction of the start command.
CreateQueuedRun(r) ==
    /\ status[r] = "absent"
    /\ Transition(r, "solver_queued", "none", 0)
    /\ jobStatus' = [jobStatus EXCEPT ![r] = "queued"]
    /\ UNCHANGED <<candidates, epoch, expired, flag, lock>>

-----------------------------------------------------------------------------
(* The job row: lease, renewal, fence.                                       *)

\* Mutant: a lapsed lease is never taken over.
LeasableQueuedOnly == {r \in Runs : lock[r] = NoOne /\ jobStatus[r] = "queued"}

\* The rows lease_next_job may take: queued, or leased and lapsed; SKIP LOCKED
\* passes over a row another transaction has locked.
Leasable ==
    {r \in Runs : /\ lock[r] = NoOne
                  /\ \/ jobStatus[r] = "queued"
                     \/ jobStatus[r] = "leased" /\ expired[r]}

\* workflow.lease_next_job: the oldest leasable row, a fresh lease, epoch + 1.
LeaseNextJob(r) ==
    /\ r \in Leasable
    /\ \A k \in Leasable : r <= k
    /\ jobStatus' = [jobStatus EXCEPT ![r] = "leased"]
    /\ epoch' = [epoch EXCEPT ![r] = @ + 1]
    /\ expired' = [expired EXCEPT ![r] = FALSE]
    /\ UNCHANGED <<runVars, flag, lock>>

\* Mutant: the fence forgets to compare epochs.
HoldsEpochAnyLease(r, e) == jobStatus[r] = "leased" /\ e > 0

\* The predicate of _claim_epoch, _has_current_epoch, complete_job, fail_job
\* and renew_job_lease: the job is leased under the caller's own epoch.
HoldsEpoch(r, e) == jobStatus[r] = "leased" /\ epoch[r] = e /\ e > 0

\* workflow.renew_job_lease: a no-op unless the caller still holds the epoch.
\* A lapsed lease that nobody has taken is renewed all the same.
RenewJobLease(r, e) ==
    /\ expired' = [expired EXCEPT ![r] = @ /\ ~HoldsEpoch(r, e)]
    /\ UNCHANGED <<runVars, jobStatus, epoch, flag>>

\* complete_job ("completed") and fail_job ("failed"): the caller's guard is
\* HoldsEpoch.
EndJob(r, s) ==
    /\ jobStatus' = [jobStatus EXCEPT ![r] = s]
    /\ UNCHANGED <<epoch, expired, flag>>

-----------------------------------------------------------------------------
(* Run transitions by a worker.                                              *)

\* mark_running, its fence claimed and its compare-and-set matched.
MarkRunning(r, e) ==
    /\ HoldsEpoch(r, e)
    /\ status[r] = "solver_queued"
    /\ Transition(r, "solver_running", "none", e)
    /\ UNCHANGED candidates

\* Mutant: a cancelled outcome may also end a run nobody asked to stop.
FinalizeExpectedLoose(s) ==
    {t \in Active : t = "solver_queued" => s \in {"solver_timed_out", "solver_failed"}}

\* _FINALIZE_EXPECTED_STATUSES: where a terminal status may be reached from.
FinalizeExpected(s) ==
    {t \in Active :
        /\ t = "solver_queued" => s \in {"solver_timed_out", "solver_failed"}
        /\ t = "solver_running" => s # "solver_cancelled"}

\* Mutant: a candidate is inserted whatever the terminal status.
FinalizeRunAnyCandidate(r, e, s, reason) ==
    /\ status[r] \in FinalizeExpected(s)
    /\ Transition(r, s, reason, e)
    /\ candidates' = [candidates EXCEPT ![r] = @ \cup {e}]

\* finalize_run under a claimed fence: the candidate rows, then the run row.
FinalizeRun(r, e, s, reason) ==
    /\ status[r] \in FinalizeExpected(s)
    /\ Transition(r, s, reason, e)
    /\ candidates' = IF s = "solver_completed"
                     THEN [candidates EXCEPT ![r] = @ \cup {e}]
                     ELSE candidates

-----------------------------------------------------------------------------
(* Run transitions by the cancellation command.                              *)

\* cancel_queued_run and request_cancellation: where _cancel_transition leads.
CancelTarget(s) ==
    IF s = "solver_queued" THEN "solver_cancelled" ELSE "cancellation_requested"

CancelReason(s) ==
    IF s = "solver_queued" THEN "cancelled" ELSE "cancellation_requested"

\* Mutant: the compare-and-set forgets the resource version and the status.
CancelMatchesAny(r, s, v) == status[r] \in Active

\* The compare-and-set predicate of _cancel_transition.
CancelMatches(r, s, v) == status[r] = s /\ version[r] = v

\* The matched compare-and-set of _cancel_transition, with its event.
CancelTransition(r, s) ==
    /\ Transition(r, CancelTarget(s), CancelReason(s), 0)
    /\ UNCHANGED candidates
=============================================================================
