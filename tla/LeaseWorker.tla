------------------------------- MODULE LeaseWorker -------------------------------
(***************************************************************************)
(* The worker process: worker/main.py polls, worker/lease_worker.py leases *)
(* one job, and lease_and_execute_schedule_run.py carries it through two   *)
(* transactions around the solve.                                          *)
(*                                                                         *)
(*   Transaction A   Checkpoint1 (unlocked read), then MarkRun             *)
(*   Transaction B   Checkpoint2 (unlocked read), Solve, Claim, Finalize   *)
(*   recovery        FatalRead (unlocked read), Recover                    *)
(*                                                                         *)
(* Each step is one unlocked read or one locked write, so cancellations,   *)
(* lapses and other workers come between them.  The claimed row lock is    *)
(* visible between Claim and Finalize, where the code inserts one row per  *)
(* assignment.                                                             *)
(***************************************************************************)
EXTENDS ScheduleRunStore

CONSTANTS
    Unmeasurable,   \* runs with a volume demand nobody is qualified to serve
    MaxFaults,      \* bound on crashes, transient failures and late renewals
    MaxAttempts     \* bound on the attempts at an unmeasurable run

ASSUME FaultAssumption == MaxFaults \in Nat /\ MaxAttempts \in Nat

VARIABLES
    pc,       \* where each worker is
    held,     \* the lease it works under: run and fencing epoch
    result,   \* the terminal status and reason it is about to write
    beats,    \* heartbeat threads that may still renew a lease
    faults    \* faults spent of MaxFaults

workerVars == <<pc, held, result, beats, faults>>

PC       == {"idle", "checkpoint1", "mark", "checkpoint2", "solving", "claim",
             "finalize", "complete", "fatal", "recover"}
NoLease  == [run |-> NoOne, epoch |-> 0]
NoResult == [status |-> "none", reason |-> "none"]
Lease    == [run: Runs, epoch: Nat]
Result   == [status: Terminal, reason: Reason]
Beat     == [worker: Workers, run: Runs, epoch: Nat, stopping: BOOLEAN]

WorkerType ==
    /\ pc \in [Workers -> PC]
    /\ held \in [Workers -> Lease \cup {NoLease}]
    /\ result \in [Workers -> Result \cup {NoResult}]
    /\ beats \in SUBSET Beat
    /\ faults \in 0..MaxFaults

WorkerInit ==
    /\ pc = [w \in Workers |-> "idle"]
    /\ held = [w \in Workers |-> NoLease]
    /\ result = [w \in Workers |-> NoResult]
    /\ beats = {}
    /\ faults = 0

Goto(w, label) == pc' = [pc EXCEPT ![w] = label]

\* run_once returned or raised: the worker is back in its poll loop.
StandDown(w) ==
    /\ Goto(w, "idle")
    /\ held' = [held EXCEPT ![w] = NoLease]
    /\ result' = [result EXCEPT ![w] = NoResult]

\* The transaction of w ends, by commit or rollback.
Unlock(w) == lock' = [r \in Runs |-> IF lock[r] = w THEN NoOne ELSE lock[r]]

\* A statement of w on the job row waits while another transaction locks it.
MayLock(w, r) == lock[r] \in {NoOne, w}

Cancelled == [status |-> "solver_cancelled", reason |-> "cancelled"]

-----------------------------------------------------------------------------
(* What the solver's outcome becomes: finalize_schedule_run.                 *)

\* What SchedulerPort.solve returns, or what execute_schedule_run puts in its
\* place when it raises.  facts: whether the assignments come with validation
\* facts, and whether the hard constraints hold on them.
SolverOutcome ==
    [solver: {"OPTIMAL", "FEASIBLE", "INFEASIBLE", "MODEL_INVALID", "UNKNOWN"},
     reason: {"none", "cancelled", "deterministic_budget_exhausted", "other"},
     facts:  {"missing", "violated", "valid"}]

\* _terminal, then the candidate checks of finalize_schedule_run.
TerminalOf(o) ==
    CASE o.reason = "cancelled" -> Cancelled
      [] o.reason \in {"deterministic_budget_exhausted", "other"} ->
            [status |-> "solver_failed", reason |-> "solver"]
      [] o.reason = "none" /\ o.solver = "INFEASIBLE" ->
            [status |-> "solver_infeasible", reason |-> "solver"]
      [] o.reason = "none" /\ o.solver = "MODEL_INVALID" ->
            [status |-> "solver_failed", reason |-> "solver"]
      [] o.reason = "none" /\ o.solver = "UNKNOWN" ->
            [status |-> "solver_timed_out", reason |-> "solver"]
      [] o.reason = "none" /\ o.solver \in {"OPTIMAL", "FEASIBLE"} ->
            IF o.facts = "valid"
            THEN [status |-> "solver_completed", reason |-> "none"]
            ELSE [status |-> "solver_failed", reason |-> "solver"]

\* What finalize_schedule_run gets to write.  calculate_candidate_metrics raises a
\* plain ValueError on a schedule of an unmeasurable run, so no such run completes.
Outcomes(r) ==
    {o \in SolverOutcome : r \in Unmeasurable => TerminalOf(o).status # "solver_completed"}

-----------------------------------------------------------------------------
(* Leasing.                                                                  *)

\* run_once leases a job; the lease commits before any domain work starts.
LeaseJob(w, r) ==
    /\ pc[w] = "idle"
    /\ LeaseNextJob(r)
    /\ held' = [held EXCEPT ![w] = [run |-> r, epoch |-> epoch'[r]]]
    /\ Goto(w, "checkpoint1")
    /\ UNCHANGED <<result, beats, faults>>

\* lease_next_job found nothing; run_worker_loop waits and polls again.
Poll(w) ==
    /\ pc[w] = "idle"
    /\ Leasable = {}
    /\ UNCHANGED <<storeVars, workerVars>>

-----------------------------------------------------------------------------
(* Transaction A.                                                            *)

\* Mutant: a cancellation seen at the first checkpoint only completes the job.
Route1NoFinalize(s) ==
    CASE s = "solver_queued" -> "mark"
      [] s = "solver_running" -> "checkpoint2"
      [] OTHER -> "complete"

\* The branches taken on the state read in Transaction A.
Route1(s) ==
    CASE s = "solver_queued" -> "mark"
      [] s = "solver_running" -> "checkpoint2"
      [] s = "cancellation_requested" -> "claim"
      [] OTHER -> "complete"

Checkpoint1(w) ==
    LET s == status[held[w].run] IN
    /\ pc[w] = "checkpoint1"
    /\ Goto(w, Route1(s))
    /\ result' = [result EXCEPT ![w] =
                    IF s = "cancellation_requested" THEN Cancelled ELSE @]
    /\ UNCHANGED <<storeVars, held, beats, faults>>

\* mark_running commits solver_running before the solve.
MarkRun(w) ==
    /\ pc[w] = "mark"
    /\ MayLock(w, held[w].run)
    /\ MarkRunning(held[w].run, held[w].epoch)
    /\ Goto(w, "checkpoint2")
    /\ Unlock(w)
    /\ UNCHANGED <<jobVars, held, result, beats, faults>>

\* mark_running claimed the fence but a cancellation had committed first.  The
\* loop re-reads the state once, still holding the claimed row lock, and takes
\* the branches of Checkpoint1 again.
MarkConflict(w) ==
    LET r == held[w].run
        s == status[r]
    IN
    /\ pc[w] = "mark"
    /\ MayLock(w, r)
    /\ HoldsEpoch(r, held[w].epoch)
    /\ s # "solver_queued"
    /\ Goto(w, Route1(s))
    /\ result' = [result EXCEPT ![w] =
                    IF s = "cancellation_requested" THEN Cancelled ELSE @]
    /\ lock' = [lock EXCEPT ![r] = IF s = "solver_running" THEN NoOne ELSE w]
    /\ UNCHANGED <<runVars, jobVars, held, beats, faults>>

\* The recovery's own compare-and-set finds the run elsewhere; the original
\* cause is raised again.
RecoveryRefused(w) ==
    /\ pc[w] = "recover"
    /\ result[w] # NoResult
    /\ status[held[w].run] \notin FinalizeExpected(result[w].status)

\* StaleLeaseError: a newer epoch owns the job, or the job has ended.
StaleLease(w) ==
    /\ pc[w] \in {"mark", "claim", "complete", "recover"}
    /\ MayLock(w, held[w].run)
    /\ HoldsEpoch(held[w].run, held[w].epoch) => RecoveryRefused(w)
    /\ StandDown(w)
    /\ Unlock(w)
    /\ UNCHANGED <<runVars, jobVars, beats, faults>>

\* complete_job for a run that was already terminal when it was read.
CompleteJob(w) ==
    /\ pc[w] = "complete"
    /\ MayLock(w, held[w].run)
    /\ HoldsEpoch(held[w].run, held[w].epoch)
    /\ EndJob(held[w].run, "completed")
    /\ StandDown(w)
    /\ Unlock(w)
    /\ UNCHANGED <<runVars, beats, faults>>

-----------------------------------------------------------------------------
(* Transaction B.                                                            *)

\* The branches taken on the state read in Transaction B.
Route2(s) ==
    CASE s = "solver_running" -> "solving"
      [] s = "cancellation_requested" -> "claim"
      [] OTHER -> "complete"

\* The second unlocked read; the heartbeat thread starts with the solve.
Checkpoint2(w) ==
    LET s == status[held[w].run] IN
    /\ pc[w] = "checkpoint2"
    /\ Goto(w, Route2(s))
    /\ result' = [result EXCEPT ![w] =
                    IF s = "cancellation_requested" THEN Cancelled ELSE @]
    /\ beats' = IF s = "solver_running"
                THEN beats \cup {[worker |-> w, run |-> held[w].run,
                                  epoch |-> held[w].epoch, stopping |-> FALSE]}
                ELSE beats
    /\ UNCHANGED <<storeVars, held, faults>>

\* The thread is asked to stop.  It has ended, or it outlives the bounded join
\* with one renewal in flight.
StopBeats(w, linger) ==
    LET own  == {b \in beats : b.worker = w /\ ~b.stopping}
        late == {[b EXCEPT !.stopping = TRUE] : b \in own}
    IN  beats' = (beats \ own) \cup (IF linger THEN late ELSE {})

\* SchedulerPort.solve returns or raises; finalize_schedule_run maps it.
Solve(w) ==
    /\ pc[w] = "solving"
    /\ \E t \in {TerminalOf(o) : o \in Outcomes(held[w].run)} :
            result' = [result EXCEPT ![w] = t]
    /\ \E linger \in BOOLEAN : StopBeats(w, linger)
    /\ Goto(w, "claim")
    /\ UNCHANGED <<storeVars, held, faults>>

\* The solver found a schedule and its metrics raise.  The ValueError is no
\* _FATAL_EXECUTION_ERRORS, so the transaction rolls back and the job stays leased,
\* although the next attempt will raise it again.
MetricsRaise(w) ==
    /\ pc[w] = "solving"
    /\ held[w].run \in Unmeasurable /\ held[w].epoch < MaxAttempts
    /\ \E linger \in BOOLEAN : StopBeats(w, linger)
    /\ StandDown(w)
    /\ UNCHANGED <<storeVars, faults>>

\* _claim_epoch: the row lock is taken before any effect is written.
Claim(w) ==
    /\ pc[w] = "claim"
    /\ MayLock(w, held[w].run)
    /\ HoldsEpoch(held[w].run, held[w].epoch)
    /\ lock' = [lock EXCEPT ![held[w].run] = w]
    /\ Goto(w, "finalize")
    /\ UNCHANGED <<runVars, jobVars, held, result, beats, faults>>

\* finalize_run and complete_job commit together.
Finalize(w) ==
    LET r == held[w].run IN
    /\ pc[w] = "finalize"
    /\ HoldsEpoch(r, held[w].epoch)
    /\ FinalizeRun(r, held[w].epoch, result[w].status, result[w].reason)
    /\ EndJob(r, "completed")
    /\ StandDown(w)
    /\ Unlock(w)
    /\ UNCHANGED <<beats, faults>>

\* IllegalTransitionError or RunTransitionConflictError: the transaction rolls
\* back and the fatal path takes over.
FinalizeRefused(w) ==
    /\ pc[w] = "finalize"
    /\ status[held[w].run] \notin FinalizeExpected(result[w].status)
    /\ Goto(w, "fatal")
    /\ result' = [result EXCEPT ![w] = NoResult]
    /\ Unlock(w)
    /\ UNCHANGED <<runVars, jobVars, held, beats, faults>>

-----------------------------------------------------------------------------
(* _record_fatal_failure.                                                    *)

\* The unlocked read: an acknowledged cancellation ends as cancelled, any other
\* live run as failed, and a terminal run is left alone.
FatalRead(w) ==
    LET s == status[held[w].run] IN
    /\ pc[w] = "fatal"
    /\ Goto(w, "recover")
    /\ result' = [result EXCEPT ![w] =
          CASE s = "cancellation_requested" -> Cancelled
            [] s \in Terminal -> NoResult
            [] OTHER -> [status |-> "solver_failed",
                         reason |-> "job_execution_failed"]]
    /\ UNCHANGED <<storeVars, held, beats, faults>>

\* finalize_run, unless the run was terminal, and fail_job in one transaction.
Recover(w) ==
    LET r == held[w].run IN
    /\ pc[w] = "recover"
    /\ MayLock(w, r)
    /\ HoldsEpoch(r, held[w].epoch)
    /\ IF result[w] = NoResult
       THEN UNCHANGED runVars
       ELSE FinalizeRun(r, held[w].epoch, result[w].status, result[w].reason)
    /\ EndJob(r, "failed")
    /\ StandDown(w)
    /\ Unlock(w)
    /\ UNCHANGED <<beats, faults>>

-----------------------------------------------------------------------------
(* The heartbeat thread, and time.                                           *)

\* One renewal in a transaction of its own.  The thread ends when it was asked
\* to stop or when the lease is no longer its own.
Heartbeat(b) ==
    /\ b \in beats
    /\ lock[b.run] = NoOne
    /\ RenewJobLease(b.run, b.epoch)
    /\ beats' = IF b.stopping \/ ~HoldsEpoch(b.run, b.epoch)
                THEN beats \ {b} ELSE beats
    /\ UNCHANGED <<lock, pc, held, result, faults>>

Held(r) == \E w \in Workers : held[w] = [run |-> r, epoch |-> epoch[r]]

\* The lease of a worker that is gone runs out.
LeaseLapses(r) ==
    /\ jobStatus[r] = "leased"
    /\ ~expired[r]
    /\ ~Held(r)
    /\ expired' = [expired EXCEPT ![r] = TRUE]
    /\ UNCHANGED <<runVars, jobStatus, epoch, flag, lock, workerVars>>

\* The lease runs out under a worker that is still at it: renewals failed or
\* came late, or the lease lapsed outside the solve, where nothing renews it.
LateRenewal(r) ==
    /\ faults < MaxFaults
    /\ jobStatus[r] = "leased"
    /\ ~expired[r]
    /\ Held(r)
    /\ expired' = [expired EXCEPT ![r] = TRUE]
    /\ faults' = faults + 1
    /\ UNCHANGED <<runVars, jobStatus, epoch, flag, lock, pc, held, result, beats>>

-----------------------------------------------------------------------------
(* Failures.                                                                 *)

\* A dropped connection, a saturated pool or a failed commit: the transaction
\* rolls back, the job stays leased, the poll loop goes on.  An exception of the
\* solve itself never gets here, execute_schedule_run turns it into an outcome;
\* what is raised after it, for the metrics, is MetricsRaise.
Transient(w) ==
    /\ faults < MaxFaults
    /\ pc[w] \notin {"idle", "solving"}
    /\ StandDown(w)
    /\ Unlock(w)
    /\ faults' = faults + 1
    /\ UNCHANGED <<runVars, jobVars, beats>>

\* The process dies and is restarted: its transaction and its threads are gone.
Crash(w) ==
    /\ faults < MaxFaults
    /\ pc[w] # "idle"
    /\ StandDown(w)
    /\ Unlock(w)
    /\ beats' = {b \in beats : b.worker # w}
    /\ faults' = faults + 1
    /\ UNCHANGED <<runVars, jobVars>>

-----------------------------------------------------------------------------
\* A step the worker takes by itself once it can.
WorkerStep(w) ==
    \/ \E r \in Runs : LeaseJob(w, r)
    \/ Checkpoint1(w)
    \/ MarkRun(w)
    \/ MarkConflict(w)
    \/ StaleLease(w)
    \/ CompleteJob(w)
    \/ Checkpoint2(w)
    \/ Solve(w)
    \/ MetricsRaise(w)
    \/ Claim(w)
    \/ Finalize(w)
    \/ FinalizeRefused(w)
    \/ FatalRead(w)
    \/ Recover(w)

WorkerNext ==
    \/ \E w \in Workers : WorkerStep(w) \/ Poll(w) \/ Transient(w) \/ Crash(w)
    \/ \E b \in beats : Heartbeat(b)
    \/ \E r \in Runs : LeaseLapses(r) \/ LateRenewal(r)
=============================================================================
