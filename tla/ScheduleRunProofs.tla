---------------------------- MODULE ScheduleRunProofs ----------------------------
(***************************************************************************)
(* The worker side of ScheduleRunSystem keeps FencingInvariant, for any    *)
(* number of runs, workers, requests and faults, and implements            *)
(* RunLifecycle.                                                           *)
(*                                                                         *)
(* The argument is layered.  A step changes the run rows by at most one    *)
(* legal write (RunsStep); what a legal write does to the stream, to the   *)
(* candidates and to the order of attempts needs no knowledge of the step  *)
(* that made it.  Statuses only move forward, so what a worker's unlocked  *)
(* read established stays true in the sense of WorkerControl.              *)
(*                                                                         *)
(* The cancellation command rests on the same layer: a published event     *)
(* stays published (CancelTruth), so an answer stored under a key remains  *)
(* true of the run, and a retry that loses its compare-and-set finds it.   *)
(***************************************************************************)
EXTENDS ScheduleRunSystem, SequenceTheorems, TLAPS

\* The statuses that may follow s, "absent" included.
MayFollow(s) == IF s = "absent" THEN {"solver_queued"} ELSE Lifecycle!Successors(s)

\* One legal write of a run: a forward edge, by the API (attempt 0) or by the
\* attempt that holds the newest epoch, with a candidate exactly on completion.
RunWrite(r, s, reason, a) ==
    /\ s \in MayFollow(status[r])
    /\ a \in {0, epoch[r]}
    /\ Transition(r, s, reason, a)
    /\ candidates' = IF s = "solver_completed"
                     THEN [candidates EXCEPT ![r] = @ \cup {a}]
                     ELSE candidates

RunsStep ==
    \/ UNCHANGED runVars
    \/ \E r \in Runs, s \in Active \cup Terminal, reason \in Reason, a \in Nat :
            RunWrite(r, s, reason, a)

-----------------------------------------------------------------------------
(* Facts about the operators.                                                *)

\* Every solver outcome becomes a terminal result (finalize_schedule_run).
LEMMA TerminalResult ==
    ASSUME NEW r, NEW o \in Outcomes(r)
    PROVE  TerminalOf(o) \in Result
  BY DEF Outcomes, SolverOutcome, TerminalOf, Result, Cancelled, Terminal, Reason

\* The compare-and-set table of finalize_run allows only lifecycle edges.
LEMMA FinalizeEdges ==
    ASSUME NEW s \in Terminal, NEW t \in FinalizeExpected(s)
    PROVE  s \in MayFollow(t)
  BY DEF Terminal, FinalizeExpected, Active, MayFollow, Lifecycle!Successors

\* A finalization is a legal write.
LEMMA FinalizeWrites ==
    ASSUME TypeOK, NEW r \in Runs, HoldsEpoch(r, epoch[r]), NEW res \in Result,
           FinalizeRun(r, epoch[r], res.status, res.reason)
    PROVE  RunsStep
  <1>1. res.status \in Terminal /\ res.reason \in Reason
    BY DEF Result
  <1>2. epoch[r] \in Nat
    BY DEF TypeOK, StoreType
  <1>3. res.status \in MayFollow(status[r])
    BY <1>1, FinalizeEdges DEF FinalizeRun
  <1>4. RunWrite(r, res.status, res.reason, epoch[r])
    BY <1>3 DEF FinalizeRun, RunWrite
  <1> QED
    BY <1>1, <1>2, <1>4 DEF RunsStep

\* Where the two checkpoints lead (_execute_leased_schedule_run).
LEMMA Routes ==
    ASSUME NEW s \in RunStatus
    PROVE  /\ Route1(s) \in {"mark", "checkpoint2", "claim", "complete"}
           /\ Route1(s) = "mark" => s = "solver_queued"
           /\ Route1(s) = "checkpoint2" => s = "solver_running"
           /\ Route1(s) = "claim" => s = "cancellation_requested"
           /\ Route1(s) = "complete" => s \in Terminal \cup {"absent"}
           /\ Route2(s) \in {"solving", "claim", "complete"}
           /\ Route2(s) = "solving" => s = "solver_running"
           /\ Route2(s) = "claim" => s = "cancellation_requested"
           /\ Route2(s) = "complete" =>
                  s \in Terminal \cup {"absent", "solver_queued"}
  <1>1. s \in {"solver_queued", "solver_running", "cancellation_requested", "absent"}
             \cup Terminal
    BY DEF RunStatus, Active
  <1>2. CASE s = "solver_queued"
    BY <1>2 DEF Route1, Route2
  <1>3. CASE s = "solver_running"
    BY <1>3 DEF Route1, Route2
  <1>4. CASE s = "cancellation_requested"
    BY <1>4 DEF Route1, Route2
  <1>5. CASE s \in Terminal \cup {"absent"}
    <2>1. Route1(s) = "complete" /\ Route2(s) = "complete"
      BY <1>5 DEF Route1, Route2, Terminal
    <2> QED
      BY <2>1, <1>5
  <1> QED
    BY <1>1, <1>2, <1>3, <1>4, <1>5

-----------------------------------------------------------------------------
(* What a legal write does.                                                  *)

\* A run never returns to an earlier status: a terminal run stays as it is, a
\* run that exists goes on existing, a run that started is never queued again.
LEMMA StatusForward ==
    ASSUME TypeOK, RunsStep, NEW r \in Runs
    PROVE  /\ status[r] \in Terminal => status'[r] = status[r]
           /\ status[r] # "absent" => status'[r] # "absent"
           /\ status[r] \notin {"absent", "solver_queued"} =>
                  status'[r] \notin {"absent", "solver_queued"}
  <1>1. CASE UNCHANGED runVars
    BY <1>1 DEF runVars
  <1>2. ASSUME NEW k \in Runs, NEW s \in Active \cup Terminal, NEW reason \in Reason,
               NEW a \in Nat, RunWrite(k, s, reason, a)
        PROVE  /\ status[r] \in Terminal => status'[r] = status[r]
               /\ status[r] # "absent" => status'[r] # "absent"
               /\ status[r] \notin {"absent", "solver_queued"} =>
                      status'[r] \notin {"absent", "solver_queued"}
    <2>1. status' = [status EXCEPT ![k] = s] /\ s \in MayFollow(status[k])
      BY <1>2 DEF RunWrite, Transition
    <2>2. CASE k # r
      BY <2>1, <2>2 DEF TypeOK, StoreType
    <2>3. CASE k = r
      <3>1. status'[r] = s
        BY <2>1, <2>3 DEF TypeOK, StoreType
      <3>2. status[r] \notin Terminal
        BY <2>1, <2>3 DEF MayFollow, Lifecycle!Successors, Terminal
      <3>3. s # "absent"
        BY DEF Active, Terminal
      <3>4. status[r] # "absent" => s # "solver_queued"
        BY <2>1, <2>3 DEF MayFollow, Lifecycle!Successors
      <3> QED
        BY <3>1, <3>2, <3>3, <3>4
    <2> QED
      BY <2>2, <2>3
  <1> QED
    BY <1>1, <1>2 DEF RunsStep

\* A legal write keeps the types of the run rows.
LEMMA RunTypes ==
    ASSUME TypeOK, RunsStep
    PROVE  /\ status' \in [Runs -> RunStatus]
           /\ version' \in [Runs -> Nat]
           /\ events' \in [Runs -> Seq(Event)]
           /\ candidates' \in [Runs -> SUBSET Nat]
  <1>1. CASE UNCHANGED runVars
    BY <1>1 DEF runVars, TypeOK, StoreType
  <1>2. ASSUME NEW r \in Runs, NEW s \in Active \cup Terminal, NEW reason \in Reason,
               NEW a \in Nat, RunWrite(r, s, reason, a)
        PROVE  /\ status' \in [Runs -> RunStatus]
               /\ version' \in [Runs -> Nat]
               /\ events' \in [Runs -> Seq(Event)]
               /\ candidates' \in [Runs -> SUBSET Nat]
    <2>1. s \in RunStatus
      BY DEF RunStatus
    <2>2. [status |-> s, version |-> version[r] + 1, reason |-> reason, attempt |-> a]
             \in Event
      BY DEF Event, TypeOK, StoreType
    <2>3. status' \in [Runs -> RunStatus] /\ version' \in [Runs -> Nat]
      BY <1>2, <2>1 DEF RunWrite, Transition, TypeOK, StoreType
    <2>4. events' \in [Runs -> Seq(Event)]
      BY <1>2, <2>2 DEF RunWrite, Transition, TypeOK, StoreType
    <2>5. candidates' \in [Runs -> SUBSET Nat]
      BY <1>2 DEF RunWrite, TypeOK, StoreType
    <2> QED
      BY <2>3, <2>4, <2>5
  <1> QED
    BY <1>1, <1>2 DEF RunsStep

\* A legal write appends exactly the event of the version it creates.
LEMMA KeepStream ==
    ASSUME TypeOK, StreamMirrorsRun, RunsStep
    PROVE  StreamMirrorsRun'
  <1>1. CASE UNCHANGED runVars
    BY <1>1 DEF runVars, StreamMirrorsRun
  <1>2. ASSUME NEW r \in Runs, NEW s \in Active \cup Terminal, NEW reason \in Reason,
               NEW a \in Nat, RunWrite(r, s, reason, a)
        PROVE  StreamMirrorsRun'
    <2> DEFINE ev == [status |-> s, version |-> version[r] + 1,
                      reason |-> reason, attempt |-> a]
    <2>1. /\ status' = [status EXCEPT ![r] = s]
          /\ version' = [version EXCEPT ![r] = version[r] + 1]
          /\ events' = [events EXCEPT ![r] = Append(events[r], ev)]
      BY <1>2 DEF RunWrite, Transition
    <2>2. ev \in Event
      BY DEF Event, TypeOK, StoreType
    <2>3. SUFFICES ASSUME NEW k \in Runs
                   PROVE  /\ Len(events'[k]) = version'[k]
                          /\ \A i \in 1..Len(events'[k]) : events'[k][i].version = i
                          /\ version'[k] = 0 => status'[k] = "absent"
                          /\ version'[k] > 0 =>
                                 events'[k][version'[k]].status = status'[k]
      BY DEF StreamMirrorsRun
    <2>4. CASE k # r
      BY <2>1, <2>4 DEF StreamMirrorsRun, TypeOK, StoreType
    <2>5. CASE k = r
      <3>1. /\ version[r] \in Nat
            /\ events[r] \in Seq(Event)
            /\ Len(events[r]) = version[r]
            /\ \A i \in 1..Len(events[r]) : events[r][i].version = i
        BY DEF TypeOK, StoreType, StreamMirrorsRun
      <3>2. /\ status'[r] = s
            /\ version'[r] = version[r] + 1
            /\ events'[r] = Append(events[r], ev)
        BY <2>1 DEF TypeOK, StoreType
      <3>3. /\ Len(events'[r]) = version[r] + 1
            /\ events'[r][version[r] + 1] = ev
            /\ \A i \in 1..version[r] : events'[r][i] = events[r][i]
        BY <3>1, <3>2, <2>2
      <3>4. ev.status = s /\ ev.version = version[r] + 1
        OBVIOUS
      <3> HIDE DEF ev
      <3> QED
        BY <2>5, <3>1, <3>2, <3>3, <3>4
    <2> QED
      BY <2>4, <2>5
  <1> QED
    BY <1>1, <1>2 DEF RunsStep

\* A completed run gets its one candidate with its terminal event.
LEMMA KeepCandidate ==
    ASSUME TypeOK, StreamMirrorsRun, OneCandidate, RunsStep
    PROVE  OneCandidate'
  <1>1. CASE UNCHANGED runVars
    BY <1>1 DEF runVars, OneCandidate
  <1>2. ASSUME NEW r \in Runs, NEW s \in Active \cup Terminal, NEW reason \in Reason,
               NEW a \in Nat, RunWrite(r, s, reason, a)
        PROVE  OneCandidate'
    <2> DEFINE ev == [status |-> s, version |-> version[r] + 1,
                      reason |-> reason, attempt |-> a]
    <2>1. /\ status' = [status EXCEPT ![r] = s]
          /\ events' = [events EXCEPT ![r] = Append(events[r], ev)]
          /\ candidates' = IF s = "solver_completed"
                           THEN [candidates EXCEPT ![r] = candidates[r] \cup {a}]
                           ELSE candidates
          /\ s \in MayFollow(status[r])
      BY <1>2 DEF RunWrite, Transition
    <2>2. ev \in Event /\ ev.attempt = a
      BY DEF Event, TypeOK, StoreType
    <2>3. SUFFICES ASSUME NEW k \in Runs
                   PROVE  candidates'[k] = IF status'[k] = "solver_completed"
                                           THEN {events'[k][Len(events'[k])].attempt}
                                           ELSE {}
      BY DEF OneCandidate
    <2>4. CASE k # r
      BY <2>1, <2>4 DEF OneCandidate, TypeOK, StoreType
    <2>5. CASE k = r
      <3>1. status[r] # "solver_completed"
        BY <2>1 DEF MayFollow, Lifecycle!Successors
      <3>2. candidates[r] = {}
        BY <3>1 DEF OneCandidate
      <3>3. events[r] \in Seq(Event) /\ events'[r] = Append(events[r], ev)
        BY <2>1 DEF TypeOK, StoreType
      <3>4. events'[r][Len(events'[r])] = ev
        BY <3>3, <2>2
      <3>5. status'[r] = s
        BY <2>1 DEF TypeOK, StoreType
      <3>6. candidates'[r] = IF s = "solver_completed" THEN {a} ELSE {}
        BY <2>1, <3>2 DEF TypeOK, StoreType
      <3> QED
        BY <2>2, <2>5, <3>4, <3>5, <3>6
    <2> QED
      BY <2>4, <2>5
  <1> QED
    BY <1>1, <1>2 DEF RunsStep

\* The attempt of an event is a number.
LEMMA EventAttempt ==
    ASSUME NEW q \in Seq(Event), NEW i \in 1..Len(q)
    PROVE  q[i].attempt \in Nat
  <1>1. q[i] \in Event
    OBVIOUS
  <1> QED
    BY <1>1 DEF Event

\* Epochs only grow.
EpochForward == \A r \in Runs : epoch'[r] \in Nat /\ epoch[r] <= epoch'[r]

\* The newest attempt writes after every attempt that wrote before it.
LEMMA KeepAttempts ==
    ASSUME TypeOK, AttemptsInOrder, RunsStep, EpochForward
    PROVE  AttemptsInOrder'
  <1> USE DEF EpochForward
  <1>1. CASE UNCHANGED runVars
    <2>1. events' = events
      BY <1>1 DEF runVars
    <2>2. \A r \in Runs : events[r] \in Seq(Event) /\ epoch[r] \in Nat
      BY DEF TypeOK, StoreType
    <2>3. SUFFICES ASSUME NEW r \in Runs,
                          NEW i \in 1..Len(events[r]), NEW j \in 1..Len(events[r])
                   PROVE  /\ events[r][i].attempt <= epoch'[r]
                          /\ i < j /\ events[r][j].attempt > 0 =>
                                 events[r][i].attempt <= events[r][j].attempt
      BY <2>1 DEF AttemptsInOrder
    <2>4. events[r][i].attempt \in Nat
      BY <2>2, EventAttempt
    <2>5. /\ events[r][i].attempt <= epoch[r]
          /\ i < j /\ events[r][j].attempt > 0 =>
                 events[r][i].attempt <= events[r][j].attempt
      BY DEF AttemptsInOrder
    <2> QED
      BY <2>2, <2>4, <2>5
  <1>2. ASSUME NEW r \in Runs, NEW s \in Active \cup Terminal, NEW reason \in Reason,
               NEW a \in Nat, RunWrite(r, s, reason, a)
        PROVE  AttemptsInOrder'
    <2> DEFINE ev == [status |-> s, version |-> version[r] + 1,
                      reason |-> reason, attempt |-> a]
    <2>1. /\ events' = [events EXCEPT ![r] = Append(events[r], ev)]
          /\ a \in {0, epoch[r]}
      BY <1>2 DEF RunWrite, Transition
    <2>2. ev \in Event /\ ev.attempt = a
      BY DEF Event, TypeOK, StoreType
    <2>3. \A k \in Runs : events[k] \in Seq(Event) /\ epoch[k] \in Nat
      BY DEF TypeOK, StoreType
    <2>4. \A k \in Runs : \A i \in 1..Len(events[k]) : events[k][i].attempt \in Nat
      BY <2>3, EventAttempt
    <2>5. SUFFICES ASSUME NEW k \in Runs,
                          NEW i \in 1..Len(events'[k]), NEW j \in 1..Len(events'[k])
                   PROVE  /\ events'[k][i].attempt <= epoch'[k]
                          /\ i < j /\ events'[k][j].attempt > 0 =>
                                 events'[k][i].attempt <= events'[k][j].attempt
      BY DEF AttemptsInOrder
    <2>6. CASE k # r
      <3>1. events'[k] = events[k]
        BY <2>1, <2>6, <2>3 DEF TypeOK, StoreType
      <3>2. i \in 1..Len(events[k]) /\ j \in 1..Len(events[k])
        BY <3>1
      <3>3. /\ events[k][i].attempt <= epoch[k]
            /\ i < j /\ events[k][j].attempt > 0 =>
                   events[k][i].attempt <= events[k][j].attempt
        BY <3>2 DEF AttemptsInOrder
      <3>4. events[k][i].attempt \in Nat
        BY <3>2, <2>4
      <3> QED
        BY <3>1, <3>3, <3>4, <2>3
    <2>7. CASE k = r
      <3> DEFINE n == Len(events[r])
      <3>1. events'[r] = Append(events[r], ev) /\ n \in Nat
        BY <2>1, <2>3 DEF TypeOK, StoreType
      <3>2. /\ Len(events'[r]) = n + 1
            /\ events'[r][n + 1] = ev
            /\ \A m \in 1..n : events'[r][m] = events[r][m]
        BY <3>1, <2>2, <2>3
      <3>3. \A m \in 1..n : events[r][m].attempt <= epoch[r]
        BY DEF AttemptsInOrder
      <3>4. i \in 1..n \/ i = n + 1
        BY <2>7, <3>1, <3>2
      <3>5. j \in 1..n \/ j = n + 1
        BY <2>7, <3>1, <3>2
      <3>6. events'[r][i].attempt <= epoch'[r]
        <4>1. CASE i = n + 1
          BY <4>1, <3>2, <2>1, <2>2, <2>3
        <4>2. CASE i \in 1..n
          <5>1. events'[r][i] = events[r][i]
            BY <4>2, <3>2
          <5>2. events[r][i].attempt \in Nat /\ events[r][i].attempt <= epoch[r]
            BY <4>2, <3>3, <2>4
          <5> QED
            BY <5>1, <5>2, <2>3
        <4> QED
          BY <4>1, <4>2, <3>4
      <3>7. ASSUME i < j, events'[r][j].attempt > 0
            PROVE  events'[r][i].attempt <= events'[r][j].attempt
        <4>1. i \in 1..n
          BY <3>7, <3>1, <3>4, <3>5
        <4>2. CASE j = n + 1
          BY <4>1, <4>2, <3>7, <3>2, <3>3, <2>1, <2>2, <2>3
        <4>3. CASE j \in 1..n
          <5>1. i < j /\ events[r][j].attempt > 0 =>
                    events[r][i].attempt <= events[r][j].attempt
            BY <4>1, <4>3 DEF AttemptsInOrder
          <5>2. events'[r][i] = events[r][i] /\ events'[r][j] = events[r][j]
            BY <4>1, <4>3, <3>2
          <5> QED
            BY <3>7, <5>1, <5>2
        <4> QED
          BY <4>2, <4>3, <3>5
      <3> QED
        BY <2>7, <3>6, <3>7
    <2> QED
      BY <2>6, <2>7
  <1> QED
    BY <1>1, <1>2 DEF RunsStep

-----------------------------------------------------------------------------
(* Every step is a legal write of the runs.                                  *)

\* A worker that is at work holds a lease of a run that exists.
LEMMA AtWork ==
    ASSUME TypeOK, WorkerControl, NEW w \in Workers, pc[w] # "idle"
    PROVE  /\ held[w] \in Lease
           /\ held[w].run \in Runs
           /\ held[w].epoch \in Nat
           /\ held[w] # NoLease
  <1>1. held[w] \in Lease /\ held[w] # NoLease
    BY DEF WorkerControl, Control
  <1> QED
    BY <1>1 DEF Lease

\* Every step of the system changes the run rows by at most one legal write.
LEMMA StepRuns ==
    ASSUME TypeOK, WorkerControl, [Next]_vars
    PROVE  RunsStep
  <1>1. ASSUME NEW w \in Workers, MarkRun(w)
        PROVE  RunsStep
    <2> DEFINE r == held[w].run
    <2>1. r \in Runs
      BY <1>1, AtWork DEF MarkRun
    <2>2. /\ HoldsEpoch(r, held[w].epoch)
          /\ status[r] = "solver_queued"
          /\ Transition(r, "solver_running", "none", held[w].epoch)
          /\ UNCHANGED candidates
      BY <1>1 DEF MarkRun, MarkRunning
    <2>3. held[w].epoch = epoch[r] /\ epoch[r] \in Nat
      BY <2>1, <2>2 DEF HoldsEpoch, TypeOK, StoreType
    <2>4. "solver_running" \in MayFollow(status[r])
      BY <2>2 DEF MayFollow, Lifecycle!Successors
    <2>5. RunWrite(r, "solver_running", "none", epoch[r])
      BY <2>2, <2>3, <2>4 DEF RunWrite
    <2>6. "solver_running" \in Active \cup Terminal /\ "none" \in Reason
      BY DEF Active, Reason
    <2> HIDE DEF r
    <2> QED
      BY <2>1, <2>3, <2>5, <2>6 DEF RunsStep
  <1>2. ASSUME NEW w \in Workers, Finalize(w)
        PROVE  RunsStep
    <2>1. pc[w] = "finalize" /\ HoldsEpoch(held[w].run, held[w].epoch)
      BY <1>2 DEF Finalize
    <2>2. held[w].run \in Runs /\ result[w] \in Result
      BY <2>1, AtWork DEF WorkerControl, Control
    <2>3. held[w].epoch = epoch[held[w].run]
      BY <2>1 DEF HoldsEpoch
    <2>4. FinalizeRun(held[w].run, held[w].epoch, result[w].status, result[w].reason)
      BY <1>2 DEF Finalize
    <2> QED
      BY <2>1, <2>2, <2>3, <2>4, FinalizeWrites
  <1>3. ASSUME NEW w \in Workers, Recover(w)
        PROVE  RunsStep
    <2>1. pc[w] = "recover" /\ HoldsEpoch(held[w].run, held[w].epoch)
      BY <1>3 DEF Recover
    <2>2. held[w].run \in Runs /\ result[w] \in Result \cup {NoResult}
      BY <2>1, AtWork DEF TypeOK, WorkerType
    <2>3. held[w].epoch = epoch[held[w].run]
      BY <2>1 DEF HoldsEpoch
    <2>4. CASE result[w] = NoResult
      BY <1>3, <2>4 DEF Recover, RunsStep
    <2>5. CASE result[w] # NoResult
      <3>1. FinalizeRun(held[w].run, held[w].epoch, result[w].status, result[w].reason)
        BY <1>3, <2>5 DEF Recover
      <3> QED
        BY <2>1, <2>2, <2>3, <2>5, <3>1, FinalizeWrites
    <2> QED
      BY <2>4, <2>5
  <1>4. ASSUME NEW q \in Requests, CancelApply(q)
        PROVE  RunsStep
    <2> DEFINE r == RunOf[q]
               s == seen[q].status
    <2>1. r \in Runs
      BY RequestAssumption
    <2>2. /\ s \in {"solver_queued", "solver_running"}
          /\ status[r] = s
          /\ Transition(r, CancelTarget(s), CancelReason(s), 0)
          /\ UNCHANGED candidates
      BY <1>4 DEF CancelApply, CancelMatches, CancelTransition
    <2>3. /\ CancelTarget(s) \in Active \cup Terminal
          /\ CancelTarget(s) # "solver_completed"
          /\ CancelReason(s) \in Reason
          /\ CancelTarget(s) \in MayFollow(status[r])
      BY <2>2 DEF CancelTarget, CancelReason, Active, Terminal, Reason, MayFollow,
                  Lifecycle!Successors
    <2>4. RunWrite(r, CancelTarget(s), CancelReason(s), 0)
      BY <2>2, <2>3 DEF RunWrite
    <2> HIDE DEF r, s
    <2> QED
      BY <2>1, <2>3, <2>4 DEF RunsStep
  <1>5. ASSUME NEW r \in Runs, StartRun(r)
        PROVE  RunsStep
    <2>1. /\ status[r] = "absent"
          /\ Transition(r, "solver_queued", "none", 0)
          /\ UNCHANGED candidates
      BY <1>5 DEF StartRun, CreateQueuedRun
    <2>2. "solver_queued" \in MayFollow(status[r])
      BY <2>1 DEF MayFollow
    <2>3. RunWrite(r, "solver_queued", "none", 0)
      BY <2>1, <2>2 DEF RunWrite
    <2>4. "solver_queued" \in Active \cup Terminal /\ "none" \in Reason
      BY DEF Active, Reason
    <2> QED
      BY <2>3, <2>4 DEF RunsStep
  <1>6. ASSUME NEW w \in Workers, WorkerStep(w) \/ Poll(w) \/ Transient(w) \/ Crash(w)
        PROVE  RunsStep
    <2>1. CASE MarkRun(w) \/ Finalize(w) \/ Recover(w)
      BY <2>1, <1>1, <1>2, <1>3
    <2>2. CASE ~(MarkRun(w) \/ Finalize(w) \/ Recover(w))
      <3>1. UNCHANGED runVars
        BY <1>6, <2>2 DEF WorkerStep, LeaseJob, LeaseNextJob, Checkpoint1, MarkConflict,
           StaleLease, CompleteJob, Checkpoint2, Solve, MetricsRaise, Claim, FinalizeRefused,
           FatalRead, Poll, Transient, Crash, storeVars
      <3> QED
        BY <3>1 DEF RunsStep
    <2> QED
      BY <2>1, <2>2
  <1>7. ASSUME WorkerNext
        PROVE  RunsStep
    <2>1. CASE \E w \in Workers : WorkerStep(w) \/ Poll(w) \/ Transient(w) \/ Crash(w)
      BY <2>1, <1>6
    <2>2. CASE ~ \E w \in Workers : WorkerStep(w) \/ Poll(w) \/ Transient(w) \/ Crash(w)
      BY <1>7, <2>2 DEF WorkerNext, Heartbeat, RenewJobLease, LeaseLapses, LateRenewal,
                        RunsStep
    <2> QED
      BY <2>1, <2>2
  <1>8. ASSUME NEW q \in Requests, CancelStep(q)
        PROVE  RunsStep
    <2>1. CASE CancelApply(q)
      BY <2>1, <1>4
    <2>2. CASE ~CancelApply(q)
      BY <1>8, <2>2 DEF CancelStep, CancelRead, CancelCheck, CancelLost, CancelEcho,
                        storeVars, RunsStep
    <2> QED
      BY <2>1, <2>2
  <1>9. CASE UNCHANGED vars
    BY <1>9 DEF vars, storeVars, RunsStep
  <1> QED
    BY <1>5, <1>7, <1>8, <1>9 DEF Next

-----------------------------------------------------------------------------
(* Type correctness.                                                         *)

\* The result read from a run's status in the recovery is one finalize_run knows.
LEMMA FatalResult ==
    ASSUME NEW s \in RunStatus
    PROVE  LET res == CASE s = "cancellation_requested" -> Cancelled
                        [] s \in Terminal -> NoResult
                        [] OTHER -> [status |-> "solver_failed",
                                     reason |-> "job_execution_failed"]
           IN  /\ res \in Result \cup {NoResult}
               /\ res = NoResult => s \in Terminal
  <1>1. "cancellation_requested" \notin Terminal
    BY DEF Terminal
  <1>2. /\ Cancelled \in Result
        /\ [status |-> "solver_failed", reason |-> "job_execution_failed"] \in Result
        /\ NoResult \notin Result
    BY DEF Cancelled, Result, NoResult, Terminal, Reason
  <1>3. CASE s = "cancellation_requested"
    BY <1>1, <1>2, <1>3
  <1>4. CASE s \in Terminal
    BY <1>1, <1>4
  <1>5. CASE s # "cancellation_requested" /\ s \notin Terminal
    BY <1>2, <1>5
  <1> QED
    BY <1>3, <1>4, <1>5

\* A worker's step keeps the types of the job rows and of the workers.
LEMMA WorkerTypes ==
    ASSUME TypeOK, WorkerControl, NEW w \in Workers,
           WorkerStep(w) \/ Poll(w) \/ Transient(w) \/ Crash(w)
    PROVE  /\ jobStatus' \in [Runs -> JobStatus]
           /\ epoch' \in [Runs -> Nat]
           /\ expired' \in [Runs -> BOOLEAN]
           /\ flag' \in [Runs -> BOOLEAN]
           /\ lock' \in [Runs -> Workers \cup {NoOne}]
           /\ WorkerType'
  <1> DEFINE Good == /\ jobStatus' \in [Runs -> JobStatus]
                     /\ epoch' \in [Runs -> Nat]
                     /\ expired' \in [Runs -> BOOLEAN]
                     /\ flag' \in [Runs -> BOOLEAN]
                     /\ lock' \in [Runs -> Workers \cup {NoOne}]
                     /\ WorkerType'
  <1> USE DEF TypeOK, StoreType, WorkerType, JobStatus, Goto, Unlock
  <1>1. /\ Cancelled \in Result
        /\ NoResult \in Result \cup {NoResult}
        /\ NoLease \in Lease \cup {NoLease}
    BY DEF Cancelled, Result, Terminal, Reason
  <1>2. ASSUME NEW r \in Runs, LeaseJob(w, r)
        PROVE  Good
    <2>1. epoch' = [epoch EXCEPT ![r] = @ + 1]
      BY <1>2 DEF LeaseJob, LeaseNextJob
    <2>2. [run |-> r, epoch |-> epoch'[r]] \in Lease
      BY <2>1 DEF Lease
    <2> QED
      BY <1>2, <2>1, <2>2 DEF LeaseJob, LeaseNextJob, PC
  <1>3. ASSUME NEW s \in RunStatus
        PROVE  Route1(s) \in PC /\ Route2(s) \in PC
    BY Routes DEF PC
  <1>4. CASE Checkpoint1(w)
    <2>1. status[held[w].run] \in RunStatus
      BY <1>4, AtWork DEF Checkpoint1
    <2> QED
      BY <1>4, <1>1, <1>3, <2>1 DEF Checkpoint1, storeVars, jobVars
  <1>5. CASE MarkRun(w)
    BY <1>5 DEF MarkRun, jobVars, PC
  <1>6. CASE MarkConflict(w)
    <2>1. status[held[w].run] \in RunStatus
      BY <1>6, AtWork DEF MarkConflict
    <2> QED
      BY <1>6, <1>1, <1>3, <2>1 DEF MarkConflict, jobVars
  <1>7. CASE StaleLease(w)
    BY <1>7, <1>1 DEF StaleLease, StandDown, jobVars, PC
  <1>8. CASE CompleteJob(w)
    BY <1>8, <1>1 DEF CompleteJob, EndJob, StandDown, PC
  <1>9. CASE Checkpoint2(w)
    <2>1. status[held[w].run] \in RunStatus /\ held[w].run \in Runs /\ held[w].epoch \in Nat
      BY <1>9, AtWork DEF Checkpoint2
    <2>2. [worker |-> w, run |-> held[w].run, epoch |-> held[w].epoch,
           stopping |-> FALSE] \in Beat
      BY <2>1 DEF Beat
    <2>3. beats' \in SUBSET Beat
      BY <1>9, <2>2 DEF Checkpoint2
    <2> QED
      BY <1>9, <1>1, <1>3, <2>1, <2>3 DEF Checkpoint2, storeVars, jobVars
  <1>19. ASSUME NEW linger \in BOOLEAN, StopBeats(w, linger)
         PROVE  beats' \in SUBSET Beat
    <2>1. \A b \in beats : [b EXCEPT !.stopping = TRUE] \in Beat
      BY DEF Beat
    <2>2. {[b EXCEPT !.stopping = TRUE] : b \in {x \in beats : x.worker = w /\ ~x.stopping}}
              \in SUBSET Beat
      BY <2>1
    <2> QED
      BY <1>19, <2>2 DEF StopBeats
  <1>10. CASE Solve(w)
    <2>1. result' \in [Workers -> Result \cup {NoResult}]
      BY <1>10, TerminalResult DEF Solve
    <2>2. beats' \in SUBSET Beat
      BY <1>10, <1>19 DEF Solve
    <2> QED
      BY <1>10, <2>1, <2>2 DEF Solve, storeVars, jobVars, PC
  <1>20. CASE MetricsRaise(w)
    <2>1. beats' \in SUBSET Beat
      BY <1>20, <1>19 DEF MetricsRaise
    <2> QED
      BY <1>20, <1>1, <2>1 DEF MetricsRaise, StandDown, storeVars, jobVars, PC
  <1>11. CASE Claim(w)
    BY <1>11 DEF Claim, jobVars, PC
  <1>12. CASE Finalize(w)
    BY <1>12, <1>1 DEF Finalize, EndJob, StandDown, PC
  <1>13. CASE FinalizeRefused(w)
    BY <1>13, <1>1 DEF FinalizeRefused, jobVars, PC
  <1>14. CASE FatalRead(w)
    <2>1. status[held[w].run] \in RunStatus
      BY <1>14, AtWork DEF FatalRead
    <2>2. \E x \in Result \cup {NoResult} : result' = [result EXCEPT ![w] = x]
      BY <1>14, <2>1, FatalResult DEF FatalRead
    <2>3. /\ pc' = [pc EXCEPT ![w] = "recover"]
          /\ UNCHANGED <<storeVars, held, beats, faults>>
      BY <1>14 DEF FatalRead
    <2> QED
      BY <2>2, <2>3 DEF storeVars, jobVars, PC
  <1>15. CASE Recover(w)
    BY <1>15, <1>1 DEF Recover, EndJob, StandDown, PC
  <1>16. CASE Poll(w)
    BY <1>16 DEF Poll, storeVars, jobVars, workerVars
  <1>17. CASE Transient(w)
    BY <1>17, <1>1, FaultAssumption DEF Transient, StandDown, jobVars, PC
  <1>18. CASE Crash(w)
    BY <1>18, <1>1, FaultAssumption DEF Crash, StandDown, jobVars, PC
  <1> QED
    BY <1>2, <1>4, <1>5, <1>6, <1>7, <1>8, <1>9, <1>10, <1>11, <1>12, <1>13, <1>14,
       <1>15, <1>16, <1>17, <1>18, <1>20 DEF WorkerStep

\* The steps of the heartbeat threads and of time keep those types too.
LEMMA ClockTypes ==
    ASSUME TypeOK,
           \/ \E b \in beats : Heartbeat(b)
           \/ \E r \in Runs : LeaseLapses(r) \/ LateRenewal(r)
    PROVE  /\ jobStatus' \in [Runs -> JobStatus]
           /\ epoch' \in [Runs -> Nat]
           /\ expired' \in [Runs -> BOOLEAN]
           /\ flag' \in [Runs -> BOOLEAN]
           /\ lock' \in [Runs -> Workers \cup {NoOne}]
           /\ WorkerType'
  <1> USE DEF TypeOK, StoreType, WorkerType
  <1>1. ASSUME NEW b \in beats, Heartbeat(b)
        PROVE  /\ UNCHANGED <<jobStatus, epoch, flag, lock, pc, held, result, faults>>
               /\ expired' \in [Runs -> BOOLEAN]
               /\ beats' \in SUBSET Beat
    BY <1>1 DEF Heartbeat, RenewJobLease, HoldsEpoch
  <1>2. ASSUME NEW r \in Runs, LeaseLapses(r)
        PROVE  /\ UNCHANGED <<jobStatus, epoch, flag, lock, pc, held, result, beats, faults>>
               /\ expired' \in [Runs -> BOOLEAN]
    BY <1>2 DEF LeaseLapses, workerVars
  <1>3. ASSUME NEW r \in Runs, LateRenewal(r)
        PROVE  /\ UNCHANGED <<jobStatus, epoch, flag, lock, pc, held, result, beats>>
               /\ expired' \in [Runs -> BOOLEAN]
               /\ faults' \in 0..MaxFaults
    BY <1>3, FaultAssumption DEF LateRenewal
  <1> QED
    BY <1>1, <1>2, <1>3

\* A cancellation's step keeps its own types and those of the job row it flags.
LEMMA CancelTypes ==
    ASSUME TypeOK, NEW q \in Requests, CancelStep(q)
    PROVE  /\ CancelType'
           /\ UNCHANGED <<jobStatus, epoch, expired, lock, workerVars>>
           /\ flag' \in [Runs -> BOOLEAN]
  <1> USE DEF TypeOK, StoreType, CancelType
  <1>1. Slot(q) \in Slots /\ RunOf[q] \in Runs
    BY RequestAssumption DEF Slots
  <1>2. /\ idem[Slot(q)].reply \in Reply
        /\ NoState \in [status: RunStatus, version: Nat]
        /\ \A kind \in Refusals : [NoReply EXCEPT !.kind = kind] \in Reply
    BY <1>1 DEF Row, NoState, RunStatus, Refusals, NoReply, Reply
  <1>3. ASSUME NEW value \in Reply, Answer(q, value)
        PROVE  /\ reqPc' \in [Requests -> {"new", "read", "checked", "done"}]
               /\ reply' \in [Requests -> Reply]
               /\ seen' \in [Requests -> [status: RunStatus, version: Nat]]
    BY <1>2, <1>3 DEF Answer
  <1>4. ASSUME NEW kind \in Refusals, Refuse(q, kind)
        PROVE  /\ reqPc' \in [Requests -> {"new", "read", "checked", "done"}]
               /\ reply' \in [Requests -> Reply]
               /\ seen' \in [Requests -> [status: RunStatus, version: Nat]]
    BY <1>2, <1>3, <1>4 DEF Refuse
  <1>5. ASSUME Replay(q)
        PROVE  /\ reqPc' \in [Requests -> {"new", "read", "checked", "done"}]
               /\ reply' \in [Requests -> Reply]
               /\ seen' \in [Requests -> [status: RunStatus, version: Nat]]
    <2>1. "key_conflict" \in Refusals
      BY DEF Refusals
    <2> QED
      BY <1>2, <1>3, <1>4, <1>5, <2>1 DEF Replay
  <1>6. ASSUME NEW value \in Reply, StoreReply(q, value)
        PROVE  idem' \in [Slots -> Row]
    <2>1. [body |-> expected[q], reply |-> value] \in Row
      BY DEF Row
    <2> QED
      BY <1>1, <1>6, <2>1 DEF StoreReply
  <1>7. ASSUME SetFlag(RunOf[q])
        PROVE  /\ UNCHANGED <<jobStatus, epoch, expired, lock>>
               /\ flag' \in [Runs -> BOOLEAN]
               /\ flag'[RunOf[q]] \in BOOLEAN
    BY <1>1, <1>7 DEF SetFlag
  <1>8. ASSUME NEW v \in Versions, CancelRead(q, v)
        PROVE  CancelType' /\ UNCHANGED <<storeVars, workerVars>>
    <2>1. UNCHANGED <<storeVars, workerVars, idem>> /\ v \in Nat
      BY <1>8, RequestAssumption DEF CancelRead
    <2>2. CASE status[RunOf[q]] = "absent"
      <3>1. Refuse(q, "not_found") /\ UNCHANGED expected /\ "not_found" \in Refusals
        BY <1>8, <2>2 DEF CancelRead, Refusals
      <3> QED
        BY <2>1, <3>1, <1>4
    <2>3. CASE status[RunOf[q]] # "absent"
      <3>1. [status |-> status[RunOf[q]], version |-> version[RunOf[q]]]
                \in [status: RunStatus, version: Nat]
        BY <1>1
      <3> QED
        BY <1>8, <2>1, <2>3, <3>1 DEF CancelRead
    <2> QED
      BY <2>2, <2>3
  <1>9. CASE CancelCheck(q)
    <2>1. UNCHANGED <<storeVars, workerVars, expected, idem>>
      BY <1>9 DEF CancelCheck
    <2>2. \/ Replay(q)
          \/ \E kind \in Refusals : Refuse(q, kind)
          \/ reqPc' = [reqPc EXCEPT ![q] = "checked"] /\ UNCHANGED <<reply, seen>>
      BY <1>9 DEF CancelCheck, Refusals
    <2>3. /\ reqPc' \in [Requests -> {"new", "read", "checked", "done"}]
          /\ reply' \in [Requests -> Reply]
          /\ seen' \in [Requests -> [status: RunStatus, version: Nat]]
      BY <2>2, <1>4, <1>5
    <2> QED
      BY <2>1, <2>3 DEF storeVars, jobVars
  <1>10. CASE CancelApply(q)
    <2> DEFINE value == [kind |-> "ok", status |-> CancelTarget(seen[q].status),
                         version |-> seen[q].version + 1, flag |-> flag'[RunOf[q]]]
    <2>1. /\ SetFlag(RunOf[q])
          /\ Answer(q, value)
          /\ StoreReply(q, value)
          /\ UNCHANGED <<workerVars, expected>>
      BY <1>10 DEF CancelApply
    <2>2. value \in Reply
      BY <1>7, <2>1 DEF Reply, CancelTarget, RunStatus, Active, Terminal
    <2> HIDE DEF value
    <2> QED
      BY <2>1, <2>2, <1>3, <1>6, <1>7
  <1>11. CASE CancelLost(q)
    <2>1. /\ SetFlag(RunOf[q])
          /\ ResolveLostRace(q)
          /\ UNCHANGED <<workerVars, expected, idem>>
      BY <1>11 DEF CancelLost
    <2>2. Replay(q) \/ \E kind \in Refusals : Refuse(q, kind)
      BY <2>1 DEF ResolveLostRace, Refusals
    <2> QED
      BY <2>1, <2>2, <1>4, <1>5, <1>7
  <1>12. CASE CancelEcho(q)
    <2> DEFINE value == [kind |-> "ok", status |-> "cancellation_requested",
                         version |-> seen[q].version, flag |-> flag[RunOf[q]]]
    <2>1. /\ Answer(q, value)
          /\ StoreReply(q, value)
          /\ UNCHANGED <<storeVars, workerVars, expected>>
      BY <1>12 DEF CancelEcho
    <2>2. value \in Reply
      BY <1>1 DEF Reply, RunStatus, Active
    <2> HIDE DEF value
    <2> QED
      BY <2>1, <2>2, <1>3, <1>6 DEF storeVars, jobVars
  <1> QED
    BY <1>8, <1>9, <1>10, <1>11, <1>12 DEF CancelStep, storeVars, jobVars

\* Every step keeps every variable in its type.
LEMMA StepTypes ==
    ASSUME TypeOK, WorkerControl, [Next]_vars
    PROVE  TypeOK'
  <1>1. /\ status' \in [Runs -> RunStatus]
        /\ version' \in [Runs -> Nat]
        /\ events' \in [Runs -> Seq(Event)]
        /\ candidates' \in [Runs -> SUBSET Nat]
    BY StepRuns, RunTypes
  <1>2. CASE WorkerNext /\ UNCHANGED cancelVars
    <2>1. CancelType'
      BY <1>2 DEF cancelVars, CancelType, TypeOK
    <2> QED
      BY <1>1, <1>2, <2>1, WorkerTypes, ClockTypes DEF WorkerNext, TypeOK, StoreType
  <1>3. ASSUME NEW r \in Runs, StartRun(r)
        PROVE  TypeOK'
    <2>1. /\ jobStatus' = [jobStatus EXCEPT ![r] = "queued"]
          /\ UNCHANGED <<epoch, expired, flag, lock, workerVars, cancelVars>>
      BY <1>3 DEF StartRun, CreateQueuedRun
    <2> QED
      BY <1>1, <2>1 DEF TypeOK, StoreType, WorkerType, CancelType, JobStatus,
                        workerVars, cancelVars
  <1>4. ASSUME NEW q \in Requests, CancelStep(q)
        PROVE  TypeOK'
    <2>1. /\ CancelType'
          /\ UNCHANGED <<jobStatus, epoch, expired, lock, workerVars>>
          /\ flag' \in [Runs -> BOOLEAN]
      BY <1>4, CancelTypes
    <2> QED
      BY <1>1, <2>1 DEF TypeOK, StoreType, WorkerType, workerVars
  <1>5. CASE UNCHANGED vars
    BY <1>5 DEF vars, storeVars, runVars, jobVars, workerVars, cancelVars,
                TypeOK, StoreType, WorkerType, CancelType
  <1> QED
    BY <1>2, <1>3, <1>4, <1>5 DEF Next

-----------------------------------------------------------------------------
(* The queue: what a step does to jobs, epochs and leases.                   *)

\* No run comes into being.
NoBirth == \A r \in Runs : status[r] = "absent" => status'[r] = "absent"

\* Jobs and epochs stay; leases are kept or dropped.
QueueKeeps ==
    /\ UNCHANGED <<jobStatus, epoch>>
    /\ \A w \in Workers : held'[w] \in {held[w], NoLease}

\* An idle worker takes a job under a new epoch.
QueueLeases(w, r) ==
    /\ jobStatus[r] \in {"queued", "leased"}
    /\ jobStatus' = [jobStatus EXCEPT ![r] = "leased"]
    /\ epoch' = [epoch EXCEPT ![r] = epoch[r] + 1]
    /\ held' = [held EXCEPT ![w] = [run |-> r, epoch |-> epoch[r] + 1]]
    /\ UNCHANGED status

\* The holder of the newest epoch ends its job, the run being terminal.
QueueEnds(w, s) ==
    /\ held[w] \in Lease
    /\ HoldsEpoch(held[w].run, held[w].epoch)
    /\ jobStatus' = [jobStatus EXCEPT ![held[w].run] = s]
    /\ UNCHANGED epoch
    /\ held' = [held EXCEPT ![w] = NoLease]
    /\ status'[held[w].run] \in Terminal

QueueStep ==
    \/ /\ NoBirth
       /\ \/ QueueKeeps
          \/ \E w \in Workers, r \in Runs : QueueLeases(w, r)
          \/ \E w \in Workers, s \in {"completed", "failed"} : QueueEnds(w, s)
    \/ \E r \in Runs : CreateQueuedRun(r) /\ UNCHANGED held

\* A transition of a run that exists makes no other run come into being.
LEMMA NoBirthByTransition ==
    ASSUME TypeOK, NEW r \in Runs, status[r] # "absent",
           NEW s, NEW reason, NEW a, Transition(r, s, reason, a)
    PROVE  NoBirth /\ status'[r] = s
  BY DEF TypeOK, StoreType, Transition, NoBirth

\* A worker's step moves the queue in one of these ways.
LEMMA WorkerQueue ==
    ASSUME TypeOK, WorkerControl, NEW w \in Workers,
           WorkerStep(w) \/ Poll(w) \/ Transient(w) \/ Crash(w)
    PROVE  QueueStep
  <1>1. ASSUME UNCHANGED status
        PROVE  NoBirth
    BY <1>1 DEF NoBirth
  <1>2. held \in [Workers -> Lease \cup {NoLease}]
    BY DEF TypeOK, WorkerType
  <1>3. ASSUME UNCHANGED held \/ held' = [held EXCEPT ![w] = NoLease]
        PROVE  \A u \in Workers : held'[u] \in {held[u], NoLease}
    BY <1>2, <1>3
  <1>4. ASSUME NEW r \in Runs, LeaseJob(w, r)
        PROVE  QueueStep
    <2>1. QueueLeases(w, r)
      BY <1>4 DEF LeaseJob, LeaseNextJob, Leasable, QueueLeases, runVars, TypeOK, StoreType
    <2> QED
      BY <1>1, <2>1 DEF QueueStep, QueueLeases
  <1>5. CASE MarkRun(w)
    <2>1. held[w].run \in Runs /\ status[held[w].run] # "absent"
      BY <1>5, AtWork DEF MarkRun, MarkRunning
    <2>2. NoBirth
      BY <1>5, <2>1, NoBirthByTransition DEF MarkRun, MarkRunning
    <2>3. QueueKeeps
      BY <1>3, <1>5 DEF MarkRun, jobVars, QueueKeeps
    <2> QED
      BY <2>2, <2>3 DEF QueueStep
  <1>6. ASSUME CompleteJob(w) \/ Finalize(w) \/ Recover(w)
        PROVE  QueueStep
    <2>1. held[w] \in Lease /\ held[w].run \in Runs
      BY <1>6, AtWork DEF CompleteJob, Finalize, Recover
    <2>2. status[held[w].run] # "absent"
      BY <1>6 DEF CompleteJob, Finalize, Recover, WorkerControl, Control
    <2>3. PICK s \in {"completed", "failed"} :
              /\ HoldsEpoch(held[w].run, held[w].epoch)
              /\ jobStatus' = [jobStatus EXCEPT ![held[w].run] = s]
              /\ UNCHANGED epoch
              /\ held' = [held EXCEPT ![w] = NoLease]
      BY <1>6 DEF CompleteJob, Finalize, Recover, EndJob, StandDown
    <2>4. NoBirth /\ status'[held[w].run] \in Terminal
      <3>1. CASE CompleteJob(w)
        BY <3>1, <1>1 DEF CompleteJob, runVars, WorkerControl, Control
      <3>2. ASSUME result[w] \in Result,
                   FinalizeRun(held[w].run, held[w].epoch, result[w].status, result[w].reason)
            PROVE  NoBirth /\ status'[held[w].run] \in Terminal
        BY <3>2, <2>1, <2>2, NoBirthByTransition DEF FinalizeRun, Result
      <3>3. CASE Finalize(w)
        BY <3>2, <3>3 DEF Finalize, WorkerControl, Control
      <3>4. CASE Recover(w) /\ result[w] = NoResult
        BY <3>4, <1>1 DEF Recover, runVars, WorkerControl, Control
      <3>5. CASE Recover(w) /\ result[w] # NoResult
        <4>1. result[w] \in Result
          BY <3>5 DEF TypeOK, WorkerType
        <4> QED
          BY <3>2, <3>5, <4>1 DEF Recover
      <3> QED
        BY <1>6, <3>1, <3>3, <3>4, <3>5
    <2>5. QueueEnds(w, s)
      BY <2>1, <2>3, <2>4 DEF QueueEnds
    <2> QED
      BY <2>4, <2>5 DEF QueueStep
  <1>7. CASE /\ ~(\E r \in Runs : LeaseJob(w, r))
             /\ ~(MarkRun(w) \/ CompleteJob(w) \/ Finalize(w) \/ Recover(w))
    <2>1. /\ UNCHANGED <<status, jobStatus, epoch>>
          /\ UNCHANGED held \/ held' = [held EXCEPT ![w] = NoLease]
      BY <1>7 DEF WorkerStep, Checkpoint1, MarkConflict, StaleLease, Checkpoint2, Solve,
         MetricsRaise, Claim, FinalizeRefused, FatalRead, Poll, Transient, Crash, StandDown,
         storeVars, runVars, jobVars, workerVars
    <2> QED
      BY <1>1, <1>3, <2>1 DEF QueueStep, QueueKeeps
  <1> QED
    BY <1>4, <1>5, <1>6, <1>7

\* Every step moves the queue in one of these ways.
LEMMA StepQueue ==
    ASSUME TypeOK, WorkerControl, [Next]_vars
    PROVE  QueueStep
  <1>1. ASSUME UNCHANGED <<status, jobStatus, epoch, held>>
        PROVE  QueueStep
    BY <1>1 DEF QueueStep, NoBirth, QueueKeeps
  <1>2. CASE WorkerNext
    <2>1. CASE \E w \in Workers : WorkerStep(w) \/ Poll(w) \/ Transient(w) \/ Crash(w)
      BY <2>1, WorkerQueue
    <2>2. CASE ~ \E w \in Workers : WorkerStep(w) \/ Poll(w) \/ Transient(w) \/ Crash(w)
      <3>1. UNCHANGED <<status, jobStatus, epoch, held>>
        BY <1>2, <2>2 DEF WorkerNext, Heartbeat, RenewJobLease, LeaseLapses, LateRenewal,
                          runVars, workerVars
      <3> QED
        BY <1>1, <3>1
    <2> QED
      BY <2>1, <2>2
  <1>3. ASSUME NEW r \in Runs, StartRun(r)
        PROVE  QueueStep
    BY <1>3 DEF StartRun, workerVars, QueueStep
  <1>4. ASSUME NEW q \in Requests, CancelStep(q)
        PROVE  QueueStep
    <2>1. UNCHANGED <<jobStatus, epoch, held>>
      BY <1>4, CancelTypes DEF workerVars
    <2>2. NoBirth
      <3>1. CASE CancelApply(q)
        <4>1. RunOf[q] \in Runs /\ status[RunOf[q]] # "absent"
          BY <3>1, RequestAssumption DEF CancelApply, CancelMatches
        <4> QED
          BY <3>1, <4>1, NoBirthByTransition DEF CancelApply, CancelTransition
      <3>2. CASE ~CancelApply(q)
        <4>1. UNCHANGED status
          BY <1>4, <3>2 DEF CancelStep, CancelRead, CancelCheck, CancelLost, CancelEcho,
                            storeVars, runVars
        <4> QED
          BY <4>1 DEF NoBirth
      <3> QED
        BY <3>1, <3>2
    <2> QED
      BY <2>1, <2>2 DEF QueueStep, QueueKeeps
  <1>5. CASE UNCHANGED vars
    BY <1>1, <1>5 DEF vars, storeVars, runVars, jobVars, workerVars
  <1> QED
    BY <1>2, <1>3, <1>4, <1>5 DEF Next

\* Leasing is the only move of an epoch, and it moves it up.
LEMMA StepEpochs ==
    ASSUME TypeOK, QueueStep
    PROVE  EpochForward
  <1> USE DEF TypeOK, StoreType, EpochForward
  <1>1. CASE UNCHANGED epoch
    BY <1>1
  <1>2. ASSUME NEW w \in Workers, NEW r \in Runs, QueueLeases(w, r)
        PROVE  EpochForward
    BY <1>2 DEF QueueLeases
  <1> QED
    BY <1>1, <1>2 DEF QueueStep, QueueKeeps, QueueEnds, CreateQueuedRun

\* Jobs come with their runs, and their epochs start at zero.
LEMMA KeepJobs ==
    ASSUME TypeOK, WorkerControl, JobOfRun, RunsStep, QueueStep
    PROVE  JobOfRun'
  <1> USE DEF TypeOK, StoreType, JobOfRun
  <1>1. ASSUME NoBirth, NEW r \in Runs
        PROVE  status'[r] = "absent" <=> status[r] = "absent"
    BY <1>1, StatusForward DEF NoBirth
  <1>2. ASSUME NoBirth, QueueKeeps
        PROVE  JobOfRun'
    BY <1>1, <1>2 DEF QueueKeeps
  <1>3. ASSUME NoBirth, NEW w \in Workers, NEW r \in Runs, QueueLeases(w, r)
        PROVE  JobOfRun'
    BY <1>1, <1>3 DEF QueueLeases
  <1>4. ASSUME NoBirth, NEW w \in Workers, NEW s \in {"completed", "failed"},
               QueueEnds(w, s)
        PROVE  JobOfRun'
    BY <1>1, <1>4 DEF QueueEnds, HoldsEpoch, Lease
  <1>5. ASSUME NEW r \in Runs, CreateQueuedRun(r)
        PROVE  JobOfRun'
    BY <1>5 DEF CreateQueuedRun, Transition
  <1> QED
    BY <1>2, <1>3, <1>4, <1>5 DEF QueueStep

\* A job that ended has its run ended, and the run stays ended.
LEMMA KeepEnded ==
    ASSUME TypeOK, JobOfRun, EndedJobEndedRun, RunsStep, QueueStep
    PROVE  EndedJobEndedRun'
  <1> USE DEF TypeOK, StoreType, EndedJobEndedRun
  <1>1. \A r \in Runs : status[r] \in Terminal => status'[r] \in Terminal
    BY StatusForward
  <1>2. CASE QueueKeeps
    BY <1>1, <1>2 DEF QueueKeeps
  <1>3. ASSUME NEW w \in Workers, NEW r \in Runs, QueueLeases(w, r)
        PROVE  EndedJobEndedRun'
    BY <1>1, <1>3 DEF QueueLeases
  <1>4. ASSUME NEW w \in Workers, NEW s \in {"completed", "failed"}, QueueEnds(w, s)
        PROVE  EndedJobEndedRun'
    BY <1>1, <1>4 DEF QueueEnds, Lease
  <1>5. ASSUME NEW r \in Runs, CreateQueuedRun(r)
        PROVE  EndedJobEndedRun'
    BY <1>1, <1>5 DEF CreateQueuedRun
  <1> QED
    BY <1>2, <1>3, <1>4, <1>5 DEF QueueStep

\* A lease taken over leaves its old holder with an older epoch, and a job that
\* ended leaves no worker holding its newest epoch.
LEMMA KeepOwner ==
    ASSUME TypeOK, WorkerControl, OwnerFindsLease, QueueStep
    PROVE  OwnerFindsLease'
  <1>1. /\ held \in [Workers -> Lease \cup {NoLease}]
        /\ jobStatus \in [Runs -> JobStatus]
        /\ epoch \in [Runs -> Nat]
    BY DEF TypeOK, StoreType, WorkerType
  <1>2. \A w \in Workers : held[w] # NoLease =>
            /\ held[w] = [run |-> held[w].run, epoch |-> held[w].epoch]
            /\ held[w].run \in Runs
            /\ held[w].epoch \in Nat
            /\ status[held[w].run] # "absent"
            /\ held[w].epoch <= epoch[held[w].run]
            /\ held[w].epoch = epoch[held[w].run] => jobStatus[held[w].run] = "leased"
            /\ \A u \in Workers : held[u] = held[w] => u = w
    BY <1>1 DEF WorkerControl, Control, OwnerFindsLease, Lease
  <1>3. CASE QueueKeeps
    BY <1>2, <1>3 DEF QueueKeeps, OwnerFindsLease
  <1>4. ASSUME NEW w \in Workers, NEW r \in Runs, QueueLeases(w, r)
        PROVE  OwnerFindsLease'
    <2>1. /\ \A u \in Workers \ {w} : held'[u] = held[u]
          /\ held'[w] = [run |-> r, epoch |-> epoch[r] + 1]
          /\ \A k \in Runs \ {r} : epoch'[k] = epoch[k] /\ jobStatus'[k] = jobStatus[k]
          /\ epoch'[r] = epoch[r] + 1
          /\ jobStatus'[r] = "leased"
          /\ epoch[r] \in Nat
      BY <1>1, <1>4 DEF QueueLeases
    <2>2. \A u \in Workers \ {w} : held'[u] # held'[w]
      BY <1>2, <2>1 DEF NoLease
    <2>3. SUFFICES ASSUME NEW u \in Workers, held'[u] # NoLease
                   PROVE  /\ held'[u].epoch <= epoch'[held'[u].run]
                          /\ held'[u].epoch = epoch'[held'[u].run] =>
                                 jobStatus'[held'[u].run] = "leased"
                          /\ \A x \in Workers : held'[x] = held'[u] => x = u
      BY DEF OwnerFindsLease
    <2>4. CASE u = w
      BY <2>1, <2>2, <2>4
    <2>5. CASE u # w
      <3>1. held'[u] = held[u] /\ held[u] # NoLease
        BY <2>1, <2>3, <2>5
      <3>2. /\ held[u].run \in Runs
            /\ held[u].epoch \in Nat
            /\ held[u].epoch <= epoch[held[u].run]
            /\ held[u].epoch = epoch[held[u].run] => jobStatus[held[u].run] = "leased"
            /\ \A x \in Workers : held[x] = held[u] => x = u
        BY <1>2, <3>1
      <3>3. ASSUME NEW x \in Workers, held'[x] = held'[u]
            PROVE  x = u
        <4>1. x # w
          BY <2>2, <2>5, <3>3
        <4>2. held[x] = held[u]
          BY <2>1, <3>1, <3>3, <4>1
        <4> QED
          BY <3>2, <4>2
      <3>4. /\ held[u].epoch <= epoch'[held[u].run]
            /\ held[u].epoch = epoch'[held[u].run] => jobStatus'[held[u].run] = "leased"
        <4>1. CASE held[u].run = r
          BY <2>1, <3>2, <4>1
        <4>2. CASE held[u].run # r
          BY <2>1, <3>2, <4>2
        <4> QED
          BY <4>1, <4>2
      <3> QED
        BY <3>1, <3>3, <3>4
    <2> QED
      BY <2>4, <2>5
  <1>5. ASSUME NEW w \in Workers, NEW s \in {"completed", "failed"}, QueueEnds(w, s)
        PROVE  OwnerFindsLease'
    <2> DEFINE r == held[w].run
    <2>1. /\ held[w] # NoLease
          /\ r \in Runs
          /\ held[w].epoch = epoch[r]
          /\ epoch' = epoch
          /\ \A u \in Workers \ {w} : held'[u] = held[u]
          /\ held'[w] = NoLease
          /\ \A k \in Runs \ {r} : jobStatus'[k] = jobStatus[k]
      BY <1>1, <1>5 DEF QueueEnds, HoldsEpoch, Lease, NoLease
    <2>2. ASSUME NEW u \in Workers, u # w, held[u] # NoLease, held[u].run = r
          PROVE  held[u].epoch # epoch[r]
      <3>1. held[u] = [run |-> r, epoch |-> held[u].epoch]
        BY <1>2, <2>2
      <3>2. held[w] = [run |-> r, epoch |-> epoch[r]]
        BY <1>2, <2>1
      <3>3. held[u] = held[w] => u = w
        BY <1>2, <2>1
      <3> QED
        BY <2>2, <3>1, <3>2, <3>3
    <2>3. SUFFICES ASSUME NEW u \in Workers, held'[u] # NoLease
                   PROVE  /\ held'[u].epoch <= epoch'[held'[u].run]
                          /\ held'[u].epoch = epoch'[held'[u].run] =>
                                 jobStatus'[held'[u].run] = "leased"
                          /\ \A x \in Workers : held'[x] = held'[u] => x = u
      BY DEF OwnerFindsLease
    <2>4. u # w /\ held'[u] = held[u] /\ held[u] # NoLease
      BY <2>1, <2>3
    <2>5. /\ held[u].run \in Runs
          /\ held[u].epoch <= epoch[held[u].run]
          /\ held[u].epoch = epoch[held[u].run] => jobStatus[held[u].run] = "leased"
          /\ \A x \in Workers : held[x] = held[u] => x = u
      BY <1>2, <2>4
    <2>6. ASSUME NEW x \in Workers, held'[x] = held'[u]
          PROVE  x = u
      <3>1. x # w
        BY <2>1, <2>3, <2>6
      <3> QED
        BY <2>1, <2>4, <2>5, <2>6, <3>1
    <2>7. held[u].epoch = epoch[held[u].run] => jobStatus'[held[u].run] = "leased"
      <3>1. CASE held[u].run = r
        BY <2>2, <2>4, <3>1
      <3>2. CASE held[u].run # r
        BY <2>1, <2>5, <3>2
      <3> QED
        BY <3>1, <3>2
    <2> QED
      BY <2>1, <2>4, <2>5, <2>6, <2>7
  <1>6. ASSUME NEW r \in Runs, CreateQueuedRun(r), UNCHANGED held
        PROVE  OwnerFindsLease'
    <2>1. \A w \in Workers : held[w] # NoLease => held[w].run # r
      BY <1>2, <1>6 DEF CreateQueuedRun
    <2> QED
      BY <1>1, <1>2, <1>6, <2>1 DEF CreateQueuedRun, OwnerFindsLease
  <1> QED
    BY <1>3, <1>4, <1>5, <1>6 DEF QueueStep

-----------------------------------------------------------------------------
(* What workers know: stale reads stay true in the sense of Control.         *)

\* Whatever others do to its run, a worker that does not move keeps its control.
LEMMA RestControl ==
    ASSUME TypeOK, WorkerControl, RunsStep, NEW w \in Workers,
           pc'[w] = pc[w], held'[w] = held[w], result'[w] = result[w]
    PROVE  Control(w)'
  <1>1. CASE pc[w] = "idle"
    BY <1>1 DEF WorkerControl, Control
  <1>2. CASE pc[w] # "idle"
    <2>1. held[w] \in Lease /\ held[w].run \in Runs
      BY <1>2, AtWork
    <2>2. /\ status[held[w].run] \in Terminal =>
                 status'[held[w].run] = status[held[w].run]
          /\ status[held[w].run] # "absent" => status'[held[w].run] # "absent"
          /\ status[held[w].run] \notin {"absent", "solver_queued"} =>
                 status'[held[w].run] \notin {"absent", "solver_queued"}
      BY <2>1, StatusForward
    <2> QED
      BY <2>2 DEF WorkerControl, Control
  <1> QED
    BY <1>1, <1>2

\* A worker that stands down holds nothing.
LEMMA IdleControl ==
    ASSUME TypeOK, NEW w \in Workers, StandDown(w)
    PROVE  Control(w)'
  BY DEF TypeOK, WorkerType, StandDown, Goto, Control

\* A worker's own step leaves it in control.
LEMMA MoverControl ==
    ASSUME TypeOK, WorkerControl, JobOfRun, RunsStep, NEW w \in Workers,
           WorkerStep(w) \/ Poll(w) \/ Transient(w) \/ Crash(w)
    PROVE  Control(w)'
  <1> DEFINE r == held[w].run
  <1>1. pc \in [Workers -> PC] /\ result \in [Workers -> Result \cup {NoResult}]
        /\ held \in [Workers -> Lease \cup {NoLease}]
    BY DEF TypeOK, WorkerType
  <1>2. Cancelled \in Result /\ NoResult \notin Result
    BY DEF Cancelled, NoResult, Result, Terminal, Reason
  <1>3. ASSUME pc[w] # "idle"
        PROVE  /\ held[w] \in Lease
               /\ held[w] # NoLease
               /\ held[w].epoch > 0
               /\ r \in Runs
               /\ status[r] \in RunStatus
               /\ status[r] # "absent"
               /\ status'[r] # "absent"
               /\ status[r] \in Terminal => status'[r] = status[r]
    <2>1. held[w] \in Lease /\ held[w] # NoLease /\ r \in Runs
      BY <1>3, AtWork
    <2>2. held[w].epoch > 0 /\ status[r] # "absent"
      BY <1>3 DEF WorkerControl, Control
    <2> QED
      BY <2>1, <2>2, StatusForward DEF TypeOK, StoreType
  <1>4. ASSUME NEW k \in Runs, LeaseJob(w, k)
        PROVE  Control(w)'
    <2>1. /\ pc'[w] = "checkpoint1"
          /\ held'[w] = [run |-> k, epoch |-> epoch[k] + 1]
          /\ epoch[k] \in Nat
          /\ jobStatus[k] \in {"queued", "leased"}
          /\ UNCHANGED status
      BY <1>1, <1>4 DEF LeaseJob, LeaseNextJob, Leasable, Goto, runVars, TypeOK, StoreType
    <2>2. status[k] # "absent"
      BY <2>1 DEF JobOfRun
    <2>3. held'[w] \in Lease /\ held'[w] # NoLease /\ held'[w].epoch > 0 /\ held'[w].run = k
      BY <2>1 DEF Lease, NoLease
    <2> QED
      BY <2>1, <2>2, <2>3 DEF Control
  <1>5. ASSUME Checkpoint1(w) \/ MarkConflict(w)
        PROVE  Control(w)'
    <2>1. pc[w] # "idle"
      BY <1>5 DEF Checkpoint1, MarkConflict
    <2>2. /\ pc'[w] = Route1(status[r])
          /\ held'[w] = held[w]
          /\ result'[w] = IF status[r] = "cancellation_requested" THEN Cancelled
                          ELSE result[w]
          /\ UNCHANGED status
      BY <1>1, <1>5 DEF Checkpoint1, MarkConflict, Goto, storeVars, runVars
    <2>3. /\ pc'[w] \in {"mark", "checkpoint2", "claim", "complete"}
          /\ pc'[w] = "checkpoint2" => status[r] = "solver_running"
          /\ pc'[w] = "claim" => status[r] = "cancellation_requested"
          /\ pc'[w] = "complete" => status[r] \in Terminal
      BY <1>3, <2>1, <2>2, Routes
    <2> QED
      BY <1>2, <1>3, <2>1, <2>2, <2>3 DEF Control
  <1>6. CASE MarkRun(w)
    <2>1. /\ pc[w] # "idle"
          /\ pc'[w] = "checkpoint2"
          /\ held'[w] = held[w]
          /\ Transition(r, "solver_running", "none", held[w].epoch)
      BY <1>1, <1>6 DEF MarkRun, MarkRunning, Goto
    <2>2. status'[r] = "solver_running"
      BY <1>3, <2>1 DEF Transition, TypeOK, StoreType
    <2> QED
      BY <1>3, <2>1, <2>2 DEF Control
  <1>7. CASE StaleLease(w) \/ CompleteJob(w) \/ Finalize(w) \/ Recover(w)
             \/ Transient(w) \/ Crash(w) \/ MetricsRaise(w)
    <2>1. StandDown(w)
      BY <1>7 DEF StaleLease, CompleteJob, Finalize, Recover, Transient, Crash, MetricsRaise
    <2> QED
      BY <2>1, IdleControl
  <1>8. CASE Checkpoint2(w)
    <2>1. pc[w] # "idle" /\ status[r] # "solver_queued"
      BY <1>8 DEF Checkpoint2, WorkerControl, Control
    <2>2. /\ pc'[w] = Route2(status[r])
          /\ held'[w] = held[w]
          /\ result'[w] = IF status[r] = "cancellation_requested" THEN Cancelled
                          ELSE result[w]
          /\ UNCHANGED status
      BY <1>1, <1>8 DEF Checkpoint2, Goto, storeVars, runVars
    <2>3. /\ pc'[w] \in {"solving", "claim", "complete"}
          /\ pc'[w] = "claim" => status[r] = "cancellation_requested"
          /\ pc'[w] = "complete" => status[r] \in Terminal
      BY <1>3, <2>1, <2>2, Routes
    <2> QED
      BY <1>2, <1>3, <2>1, <2>2, <2>3 DEF Control
  <1>9. CASE Solve(w)
    <2>1. pc[w] # "idle" /\ pc'[w] = "claim" /\ held'[w] = held[w] /\ UNCHANGED status
      BY <1>1, <1>9 DEF Solve, Goto, storeVars, runVars
    <2>2. result'[w] \in Result
      BY <1>1, <1>9, TerminalResult DEF Solve
    <2> QED
      BY <1>3, <2>1, <2>2 DEF Control
  <1>10. CASE Claim(w)
    <2>1. /\ pc[w] = "claim" /\ pc'[w] = "finalize" /\ held'[w] = held[w]
          /\ result'[w] = result[w] /\ UNCHANGED status
      BY <1>1, <1>10 DEF Claim, Goto, runVars
    <2>2. result[w] \in Result
      BY <2>1 DEF WorkerControl, Control
    <2> QED
      BY <1>3, <2>1, <2>2 DEF Control
  <1>11. CASE FinalizeRefused(w)
    <2>1. pc[w] # "idle" /\ pc'[w] = "fatal" /\ held'[w] = held[w] /\ UNCHANGED status
      BY <1>1, <1>11 DEF FinalizeRefused, Goto, runVars
    <2> QED
      BY <1>3, <2>1 DEF Control
  <1>12. CASE FatalRead(w)
    <2>1. pc[w] # "idle" /\ pc'[w] = "recover" /\ held'[w] = held[w] /\ UNCHANGED status
      BY <1>1, <1>12 DEF FatalRead, Goto, storeVars, runVars
    <2>2. result'[w] = NoResult => status[r] \in Terminal
      <3>1. status[r] \in RunStatus
        BY <1>3, <2>1
      <3> QED
        BY <1>1, <1>12, <3>1, FatalResult DEF FatalRead
    <2> QED
      BY <1>3, <2>1, <2>2 DEF Control
  <1>13. CASE Poll(w)
    BY <1>13, RestControl DEF Poll, workerVars
  <1> QED
    BY <1>4, <1>5, <1>6, <1>7, <1>8, <1>9, <1>10, <1>11, <1>12, <1>13 DEF WorkerStep

\* A worker's step moves no other worker.
LEMMA OthersRest ==
    ASSUME TypeOK, NEW w \in Workers, NEW u \in Workers, u # w,
           WorkerStep(w) \/ Poll(w) \/ Transient(w) \/ Crash(w)
    PROVE  pc'[u] = pc[u] /\ held'[u] = held[u] /\ result'[u] = result[u]
  <1> USE DEF TypeOK, WorkerType, Goto, StandDown
  <1>1. ASSUME NEW x, NEW y, NEW z,
               pc' = pc \/ pc' = [pc EXCEPT ![w] = x],
               held' = held \/ held' = [held EXCEPT ![w] = y],
               result' = result \/ result' = [result EXCEPT ![w] = z]
        PROVE  pc'[u] = pc[u] /\ held'[u] = held[u] /\ result'[u] = result[u]
    BY <1>1
  <1>2. \E x : pc' = pc \/ pc' = [pc EXCEPT ![w] = x]
    BY DEF WorkerStep, LeaseJob, Checkpoint1, MarkRun, MarkConflict, StaleLease,
           CompleteJob, Checkpoint2, Solve, MetricsRaise, Claim, Finalize, FinalizeRefused, FatalRead,
           Recover, Poll, Transient, Crash, workerVars
  <1>3. \E y : held' = held \/ held' = [held EXCEPT ![w] = y]
    BY DEF WorkerStep, LeaseJob, Checkpoint1, MarkRun, MarkConflict, StaleLease,
           CompleteJob, Checkpoint2, Solve, MetricsRaise, Claim, Finalize, FinalizeRefused, FatalRead,
           Recover, Poll, Transient, Crash, workerVars
  <1>4. \E z : result' = result \/ result' = [result EXCEPT ![w] = z]
    BY DEF WorkerStep, LeaseJob, Checkpoint1, MarkRun, MarkConflict, StaleLease,
           CompleteJob, Checkpoint2, Solve, MetricsRaise, Claim, Finalize, FinalizeRefused, FatalRead,
           Recover, Poll, Transient, Crash, workerVars
  <1> QED
    BY <1>1, <1>2, <1>3, <1>4

\* Every step leaves every worker in control.
LEMMA StepControl ==
    ASSUME TypeOK, WorkerControl, JobOfRun, [Next]_vars
    PROVE  WorkerControl'
  <1>1. RunsStep
    BY StepRuns
  <1>2. ASSUME UNCHANGED <<pc, held, result>>
        PROVE  WorkerControl'
    BY <1>1, <1>2, RestControl DEF WorkerControl
  <1>3. ASSUME NEW w \in Workers, WorkerStep(w) \/ Poll(w) \/ Transient(w) \/ Crash(w)
        PROVE  WorkerControl'
    <2>1. Control(w)'
      BY <1>1, <1>3, MoverControl
    <2>2. \A u \in Workers \ {w} : Control(u)'
      BY <1>1, <1>3, OthersRest, RestControl
    <2> QED
      BY <2>1, <2>2 DEF WorkerControl
  <1>4. CASE WorkerNext
    <2>1. CASE \E w \in Workers : WorkerStep(w) \/ Poll(w) \/ Transient(w) \/ Crash(w)
      BY <2>1, <1>3
    <2>2. CASE ~ \E w \in Workers : WorkerStep(w) \/ Poll(w) \/ Transient(w) \/ Crash(w)
      <3>1. UNCHANGED <<pc, held, result>>
        BY <1>4, <2>2 DEF WorkerNext, Heartbeat, LeaseLapses, LateRenewal, workerVars
      <3> QED
        BY <1>2, <3>1
    <2> QED
      BY <2>1, <2>2
  <1>5. CASE \E r \in Runs : StartRun(r)
    BY <1>2, <1>5 DEF StartRun, workerVars
  <1>6. ASSUME NEW q \in Requests, CancelStep(q)
        PROVE  WorkerControl'
    <2>1. UNCHANGED workerVars
      BY <1>6, CancelTypes
    <2> QED
      BY <1>2, <2>1 DEF workerVars
  <1>7. CASE UNCHANGED vars
    BY <1>2, <1>7 DEF vars, workerVars
  <1> QED
    BY <1>4, <1>5, <1>6, <1>7 DEF Next

-----------------------------------------------------------------------------
(* The invariant.                                                            *)

\* The empty store with idle workers satisfies every part of the invariant.
LEMMA InitInvariant ==
    ASSUME Init
    PROVE  FencingInvariant
  <1> USE DEF Init, StoreInit, WorkerInit, CancelInit
  <1>1. StoreType
    BY DEF StoreType, RunStatus, JobStatus
  <1>2. WorkerType
    BY FaultAssumption DEF WorkerType, PC
  <1>3. CancelType
    BY DEF CancelType, NoState, NoReply, NoRow, Row, Reply, RunStatus
  <1>4. JobOfRun /\ EndedJobEndedRun
    BY DEF JobOfRun, EndedJobEndedRun
  <1>5. WorkerControl /\ OwnerFindsLease
    BY DEF WorkerControl, Control, OwnerFindsLease
  <1>6. StreamMirrorsRun /\ OneCandidate /\ AttemptsInOrder
    BY DEF StreamMirrorsRun, OneCandidate, AttemptsInOrder
  <1> QED
    BY <1>1, <1>2, <1>3, <1>4, <1>5, <1>6 DEF FencingInvariant, TypeOK

\* Every step keeps it.
LEMMA StepInvariant ==
    ASSUME FencingInvariant, [Next]_vars
    PROVE  FencingInvariant'
  <1> USE DEF FencingInvariant
  <1>1. RunsStep /\ QueueStep
    BY StepRuns, StepQueue
  <1>2. EpochForward
    BY <1>1, StepEpochs
  <1>3. TypeOK'
    BY StepTypes
  <1>4. JobOfRun' /\ EndedJobEndedRun'
    BY <1>1, KeepJobs, KeepEnded
  <1>5. WorkerControl'
    BY StepControl
  <1>6. OwnerFindsLease'
    BY <1>1, KeepOwner
  <1>7. StreamMirrorsRun' /\ OneCandidate'
    BY <1>1, KeepStream, KeepCandidate
  <1>8. AttemptsInOrder'
    BY <1>1, <1>2, KeepAttempts
  <1> QED
    BY <1>3, <1>4, <1>5, <1>6, <1>7, <1>8

\* For any number of runs, workers, requests and faults, the fencing invariant
\* holds throughout: the inductive strengthening of the safety properties below.
THEOREM Fencing == Spec => []FencingInvariant
  <1>1. Init => FencingInvariant
    BY InitInvariant
  <1>2. FencingInvariant /\ [Next]_vars => FencingInvariant'
    BY StepInvariant
  <1> QED
    BY <1>1, <1>2, PTL DEF Spec

\* Every variable keeps its type.
THEOREM TypeCorrect == Spec => []TypeOK
  <1>1. FencingInvariant => TypeOK
    BY DEF FencingInvariant
  <1> QED
    BY <1>1, Fencing, PTL

\* The event stream always mirrors the run row.
THEOREM StreamMirrors == Spec => []StreamMirrorsRun
  <1>1. FencingInvariant => StreamMirrorsRun
    BY DEF FencingInvariant
  <1> QED
    BY <1>1, Fencing, PTL

\* A run has a candidate exactly when it completed, written by the attempt that
\* completed it.
THEOREM CandidateOnce == Spec => []OneCandidate
  <1>1. FencingInvariant => OneCandidate
    BY DEF FencingInvariant
  <1> QED
    BY <1>1, Fencing, PTL

\* No attempt writes after a newer one.
THEOREM AttemptsOrdered == Spec => []AttemptsInOrder
  <1>1. FencingInvariant => AttemptsInOrder
    BY DEF FencingInvariant
  <1> QED
    BY <1>1, Fencing, PTL

\* No job ends before its run.
THEOREM JobsEndWithRuns == Spec => []EndedJobEndedRun
  <1>1. FencingInvariant => EndedJobEndedRun
    BY DEF FencingInvariant
  <1> QED
    BY <1>1, Fencing, PTL

\* One owner per epoch, and the newest owner finds its job leased.
THEOREM OneOwner == Spec => []OwnerFindsLease
  <1>1. FencingInvariant => OwnerFindsLease
    BY DEF FencingInvariant
  <1> QED
    BY <1>1, Fencing, PTL

-----------------------------------------------------------------------------
(* Refinement: the statuses a run publishes follow the run lifecycle.        *)

\* The published statuses of a longer stream.
LEMMA StatusesAppend ==
    ASSUME NEW q \in Seq(Event), NEW e \in Event
    PROVE  /\ Statuses(Append(q, e)) = Append(Statuses(q), e.status)
           /\ Len(Statuses(q)) = Len(q)
           /\ \A i \in 1..Len(q) : Statuses(q)[i] = q[i].status
  <1> DEFINE S == Active \cup Terminal
             p == Append(q, e)
  <1>1. ASSUME NEW x \in Seq(Event)
        PROVE  Statuses(x) \in Seq(S) /\ Len(Statuses(x)) = Len(x)
    <2>1. \A i \in 1..Len(x) : x[i].status \in S
      <3>1. \A i \in 1..Len(x) : x[i] \in Event
        OBVIOUS
      <3>2. \A ev \in Event : ev.status \in S
        BY DEF Event
      <3> QED
        BY <3>1, <3>2
    <2> QED
      BY <2>1, LenProperties DEF Statuses
  <1>2. p \in Seq(Event) /\ Len(p) = Len(q) + 1 /\ Len(q) \in Nat
    OBVIOUS
  <1>3. e.status \in S
    BY DEF Event
  <1>4. Append(Statuses(q), e.status) \in Seq(S)
    BY <1>1, <1>3
  <1>5. Len(Append(Statuses(q), e.status)) = Len(q) + 1
    BY <1>1, <1>3
  <1>6. ASSUME NEW i \in 1..Len(q) + 1
        PROVE  Statuses(p)[i] = Append(Statuses(q), e.status)[i]
    <2>1. CASE i = Len(q) + 1
      BY <1>1, <1>2, <1>3, <2>1 DEF Statuses
    <2>2. CASE i # Len(q) + 1
      BY <1>1, <1>2, <1>3, <2>2 DEF Statuses
    <2> QED
      BY <2>1, <2>2
  <1>7. Statuses(p) \in Seq(S) /\ Len(Statuses(p)) = Len(q) + 1
    BY <1>1, <1>2
  <1>8. Statuses(p) = Append(Statuses(q), e.status)
    <2> HIDE DEF S, p
    <2> QED
      BY <1>4, <1>5, <1>6, <1>7, SeqEqual
  <1> QED
    BY <1>1, <1>8 DEF Statuses

\* A legal write is a step of the lifecycle.
LEMMA WriteAdvances ==
    ASSUME TypeOK, StreamMirrorsRun, OneCandidate, OneCandidate',
           NEW r \in Runs, NEW s \in Active \cup Terminal, NEW reason \in Reason,
           NEW a \in Nat, RunWrite(r, s, reason, a)
    PROVE  Lifecycle!LifecycleNext
  <1> DEFINE ev == [status |-> s, version |-> version[r] + 1,
                    reason |-> reason, attempt |-> a]
             H == [k \in Runs |-> Statuses(events[k])]
             P == [k \in Runs |-> candidates[k] # {}]
  <1>1. /\ status' = [status EXCEPT ![r] = s]
        /\ events' = [events EXCEPT ![r] = Append(events[r], ev)]
        /\ s \in MayFollow(status[r])
    BY DEF RunWrite, Transition
  <1>2. ev \in Event /\ ev.status = s
    BY DEF Event, TypeOK, StoreType
  <1>3. /\ events \in [Runs -> Seq(Event)]
        /\ events[r] \in Seq(Event)
        /\ status \in [Runs -> RunStatus]
    BY DEF TypeOK, StoreType
  <1> HIDE DEF ev
  <1>4. /\ Statuses(events'[r]) = Append(Statuses(events[r]), s)
        /\ Len(Statuses(events[r])) = Len(events[r])
        /\ \A i \in 1..Len(events[r]) : Statuses(events[r])[i] = events[r][i].status
    BY <1>1, <1>2, <1>3, StatusesAppend
  <1>5. H' = [H EXCEPT ![r] = Append(Statuses(events[r]), s)]
    BY <1>1, <1>3, <1>4
  <1>6. \A k \in Runs : (candidates[k] # {}) <=> status[k] = "solver_completed"
    BY DEF OneCandidate
  <1>7. \A k \in Runs : (candidates'[k] # {}) <=> status'[k] = "solver_completed"
    BY DEF OneCandidate
  <1>8. P' = [P EXCEPT ![r] = (s = "solver_completed")]
    BY <1>1, <1>3, <1>6, <1>7
  <1>9. CASE status[r] = "absent"
    <2>1. s = "solver_queued"
      BY <1>1, <1>9 DEF MayFollow
    <2>2. version[r] = 0
      <3>1. version[r] > 0 => events[r][version[r]].status = status[r]
        BY DEF StreamMirrorsRun
      <3>2. version[r] \in Nat /\ Len(events[r]) = version[r]
        BY DEF StreamMirrorsRun, TypeOK, StoreType
      <3>3. version[r] > 0 => events[r][version[r]] \in Event
        BY <1>3, <3>2
      <3>4. \A x \in Event : x.status # "absent"
        BY DEF Event, Active, Terminal
      <3> QED
        BY <1>9, <3>1, <3>2, <3>3, <3>4
    <2>3. Len(events[r]) = 0
      BY <2>2 DEF StreamMirrorsRun
    <2>4. Statuses(events[r]) = << >>
      BY <2>3 DEF Statuses
    <2>5. H' = [H EXCEPT ![r] = <<"solver_queued">>]
      BY <1>5, <2>1, <2>4
    <2>6. P' = P
      BY <1>6, <1>8, <1>9, <2>1
    <2>7. Lifecycle!Open(r)
      BY <2>4, <2>5, <2>6 DEF Lifecycle!Open
    <2> QED
      BY <2>7 DEF Lifecycle!LifecycleNext
  <1>10. CASE status[r] # "absent"
    <2>1. s \in Lifecycle!Successors(status[r])
      BY <1>1, <1>10 DEF MayFollow
    <2>2. version[r] > 0 /\ Len(events[r]) = version[r] /\ version[r] \in Nat
      BY <1>10 DEF StreamMirrorsRun, TypeOK, StoreType
    <2>3. events[r][version[r]].status = status[r]
      BY <2>2 DEF StreamMirrorsRun
    <2>4. H[r] # << >> /\ H[r][Len(H[r])] = status[r]
      BY <1>4, <2>2, <2>3
    <2>5. H' = [H EXCEPT ![r] = Append(H[r], s)]
      BY <1>5
    <2>6. Lifecycle!Advance(r, s)
      BY <1>8, <2>1, <2>4, <2>5 DEF Lifecycle!Advance
    <2>7. s # "solver_queued"
      BY <2>1 DEF Lifecycle!Successors
    <2>8. s \in {"solver_running", "cancellation_requested", "solver_completed",
                 "solver_infeasible", "solver_timed_out", "solver_cancelled",
                 "solver_failed"}
      BY <2>7 DEF Active, Terminal
    <2> QED
      BY <2>6, <2>8 DEF Lifecycle!LifecycleNext
  <1> QED
    BY <1>9, <1>10

\* The system implements the run lifecycle: for every instance, what a reader of
\* the event stream and of the candidates sees is a behaviour of RunLifecycle.
THEOREM Refinement == Spec => ImplementsLifecycle
  <1>1. Init => Lifecycle!LifecycleInit
    <2>1. ASSUME Init
          PROVE  /\ \A r \in Runs : Statuses(events[r]) = << >>
                 /\ \A r \in Runs : ~(candidates[r] # {})
      BY <2>1 DEF Init, StoreInit, Statuses
    <2> QED
      BY <2>1 DEF Lifecycle!LifecycleInit
  <1>2. FencingInvariant /\ FencingInvariant' /\ [Next]_vars =>
            [Lifecycle!LifecycleNext]_(Lifecycle!lifecycleVars)
    <2> SUFFICES ASSUME FencingInvariant, FencingInvariant', [Next]_vars
                 PROVE  [Lifecycle!LifecycleNext]_(Lifecycle!lifecycleVars)
      OBVIOUS
    <2>1. RunsStep
      BY StepRuns DEF FencingInvariant
    <2>2. CASE UNCHANGED runVars
      <3>1. events' = events /\ candidates' = candidates
        BY <2>2 DEF runVars
      <3> QED
        BY <3>1 DEF Lifecycle!lifecycleVars
    <2>3. ASSUME NEW r \in Runs, NEW s \in Active \cup Terminal, NEW reason \in Reason,
                 NEW a \in Nat, RunWrite(r, s, reason, a)
          PROVE  Lifecycle!LifecycleNext
      BY <2>3, WriteAdvances DEF FencingInvariant
    <2> QED
      BY <2>1, <2>2, <2>3 DEF RunsStep
  <1> QED
    BY <1>1, <1>2, Fencing, PTL DEF Spec, ImplementsLifecycle, Lifecycle!LifecycleSpec

-----------------------------------------------------------------------------
(* Cancellations.  What a request read is still in the stream when it acts on *)
(* it; a stored answer was written at one version of the run, so a second     *)
(* request under the same key either finds the version moved on or gives the  *)
(* same answer.                                                               *)

\* Version v of the run r was published with the status s.
At(r, v, s) == v \in 1..Len(events[r]) /\ events[r][v].status = s

\* Cancellation is requested once, and only an end follows.
RequestedOnce ==
    \A r \in Runs : \A i, j \in 1..Len(events[r]) :
        i < j /\ events[r][i].status = "cancellation_requested" =>
            events[r][j].status \in Terminal

\* The job row of a run whose cancellation was requested carries the flag.
Flagged ==
    \A r \in Runs : \A i \in 1..Len(events[r]) :
        events[r][i].status = "cancellation_requested" => flag[r]

\* What a request read, and what may have been stored under its key since.
Reads(q) ==
    /\ reqPc[q] \in {"read", "checked"} => At(RunOf[q], seen[q].version, seen[q].status)
    /\ reqPc[q] = "checked" =>
          /\ expected[q] = seen[q].version
          /\ idem[Slot(q)] # NoRow /\ idem[Slot(q)].reply.version # idem[Slot(q)].body =>
                seen[q].version <= idem[Slot(q)].body

\* A stored answer is true of the run r: it was applied at the version its body
\* names, or it echoed a cancellation that was requested already.
Truthful(row, r) ==
    row # NoRow =>
        /\ row.reply.kind = "ok" /\ row.reply.flag = TRUE /\ flag[r]
        /\ At(r, row.reply.version, row.reply.status)
        /\ \/ /\ row.reply.version = row.body + 1
              /\ At(r, row.body, "solver_queued") \/ At(r, row.body, "solver_running")
           \/ /\ row.reply.version = row.body
              /\ row.reply.status = "cancellation_requested"

\* An accepted request was answered with the stored result, and is over.
Answered(q) ==
    reply[q].kind = "ok" =>
        /\ reqPc[q] = "done"
        /\ idem[Slot(q)] = [body |-> expected[q], reply |-> reply[q]]

CancelTruth ==
    /\ RequestedOnce /\ Flagged
    /\ \A q \in Requests : Reads(q) /\ Truthful(idem[Slot(q)], RunOf[q]) /\ Answered(q)

\* The stream after one more event.
LEMMA LongerStream ==
    ASSUME TypeOK, StreamMirrorsRun, NEW r \in Runs, NEW s \in Active \cup Terminal,
           NEW reason \in Reason, NEW a \in Nat, Transition(r, s, reason, a)
    PROVE  /\ \A k \in Runs : k # r => events'[k] = events[k]
           /\ Len(events[r]) \in Nat /\ Len(events'[r]) = Len(events[r]) + 1
           /\ \A i \in 1..Len(events[r]) : events'[r][i] = events[r][i]
           /\ events'[r][Len(events[r]) + 1].status = s
           /\ \A i \in 1..Len(events'[r]) : i \in 1..Len(events[r]) \/ i = Len(events[r]) + 1
  <1> DEFINE ev == [status |-> s, version |-> version[r] + 1,
                    reason |-> reason, attempt |-> a]
  <1>1. events' = [events EXCEPT ![r] = Append(events[r], ev)]
    BY DEF Transition
  <1>2. ev \in Event /\ ev.status = s
    BY DEF Event, TypeOK, StoreType
  <1> HIDE DEF ev
  <1>3. events[r] \in Seq(Event) /\ events'[r] = Append(events[r], ev)
    BY <1>1 DEF TypeOK, StoreType
  <1>4. \A k \in Runs : k # r => events'[k] = events[k]
    BY <1>1 DEF TypeOK, StoreType
  <1>5. Len(events[r]) \in Nat /\ Len(events'[r]) = Len(events[r]) + 1
    BY <1>2, <1>3
  <1>6. \A i \in 1..Len(events[r]) : events'[r][i] = events[r][i]
    BY <1>2, <1>3
  <1>7. events'[r][Len(events[r]) + 1] = ev
    BY <1>2, <1>3
  <1>8. \A i \in 1..(Len(events[r]) + 1) : i \in 1..Len(events[r]) \/ i = Len(events[r]) + 1
    BY <1>5
  <1> QED
    BY <1>2, <1>4, <1>5, <1>6, <1>7, <1>8

\* What was published stays published.
LEMMA KeepAt ==
    ASSUME TypeOK, StreamMirrorsRun, RunsStep, NEW k \in Runs, NEW v, NEW t, At(k, v, t)
    PROVE  At(k, v, t)'
  <1>1. CASE UNCHANGED runVars
    BY <1>1 DEF runVars, At
  <1>2. ASSUME NEW r \in Runs, NEW s \in Active \cup Terminal, NEW reason \in Reason,
               NEW a \in Nat, RunWrite(r, s, reason, a)
        PROVE  At(k, v, t)'
    <2>1. Transition(r, s, reason, a)
      BY <1>2 DEF RunWrite
    <2>2. /\ \A x \in Runs : x # r => events'[x] = events[x]
          /\ Len(events[r]) \in Nat /\ Len(events'[r]) = Len(events[r]) + 1
          /\ \A i \in 1..Len(events[r]) : events'[r][i] = events[r][i]
      BY <2>1, LongerStream
    <2>3. \A i \in 1..Len(events[r]) : i \in 1..Len(events'[r])
      BY <2>2
    <2> QED
      BY <2>2, <2>3 DEF At
  <1> QED
    BY <1>1, <1>2 DEF RunsStep

\* A second request for cancellation is never published.
LEMMA KeepRequested ==
    ASSUME TypeOK, StreamMirrorsRun, RequestedOnce, RunsStep
    PROVE  RequestedOnce'
  <1>1. CASE UNCHANGED runVars
    BY <1>1 DEF runVars, RequestedOnce
  <1>2. ASSUME NEW r \in Runs, NEW s \in Active \cup Terminal, NEW reason \in Reason,
               NEW a \in Nat, RunWrite(r, s, reason, a)
        PROVE  RequestedOnce'
    <2> DEFINE n == Len(events[r])
    <2>1. Transition(r, s, reason, a) /\ s \in MayFollow(status[r])
      BY <1>2 DEF RunWrite
    <2>2. /\ \A k \in Runs : k # r => events'[k] = events[k]
          /\ n \in Nat
          /\ \A i \in 1..n : events'[r][i] = events[r][i]
          /\ events'[r][n + 1].status = s
          /\ \A i \in 1..Len(events'[r]) : i \in 1..n \/ i = n + 1
      BY <2>1, LongerStream
    <2>3. ASSUME NEW i \in 1..n, events[r][i].status = "cancellation_requested"
          PROVE  s \in Terminal
      <3>1. version[r] = n /\ n \in 1..n /\ events[r][n].status = status[r]
        BY <2>2, <2>3 DEF StreamMirrorsRun
      <3>2. status[r] \in Terminal \cup {"cancellation_requested"}
        <4>1. i = n \/ i < n
          BY <2>2, <2>3
        <4> QED
          BY <2>3, <3>1, <4>1 DEF RequestedOnce
      <3> QED
        BY <2>1, <3>2 DEF MayFollow, Lifecycle!Successors, Terminal
    <2> SUFFICES ASSUME NEW k \in Runs, NEW i \in 1..Len(events'[k]),
                        NEW j \in 1..Len(events'[k]), i < j,
                        events'[k][i].status = "cancellation_requested"
                 PROVE  events'[k][j].status \in Terminal
      BY DEF RequestedOnce
    <2>4. CASE k # r
      BY <2>2, <2>4 DEF RequestedOnce
    <2>5. CASE k = r
      <3>1. i \in 1..n
        <4>1. i # n + 1
          <5>1. j \in 1..n \/ j = n + 1
            BY <2>2, <2>5
          <5> QED
            BY <2>2, <5>1
        <4> QED
          BY <2>2, <2>5, <4>1
      <3>2. events[r][i].status = "cancellation_requested"
        BY <2>2, <2>5, <3>1
      <3>3. CASE j \in 1..n
        <4>1. events'[r][j] = events[r][j]
          BY <2>2, <3>3
        <4> HIDE DEF n
        <4>2. events[r][j].status \in Terminal
          BY <3>1, <3>2, <3>3 DEF RequestedOnce, n
        <4> QED
          BY <2>5, <4>1, <4>2
      <3>4. CASE j = n + 1
        BY <2>2, <2>3, <2>5, <3>1, <3>2, <3>4
      <3> QED
        BY <2>2, <2>5, <3>3, <3>4
    <2> QED
      BY <2>4, <2>5
  <1> QED
    BY <1>1, <1>2 DEF RunsStep

\* No run's cancellation is requested by a step.
NotRequested ==
    \A r \in Runs : \A i \in 1..Len(events'[r]) :
        events'[r][i].status = "cancellation_requested" =>
            i \in 1..Len(events[r]) /\ events[r][i].status = "cancellation_requested"

\* A transition to another status requests nothing.
LEMMA OtherStatus ==
    ASSUME TypeOK, StreamMirrorsRun, NEW r \in Runs, NEW s \in Active \cup Terminal,
           NEW reason \in Reason, NEW a \in Nat, Transition(r, s, reason, a),
           s # "cancellation_requested"
    PROVE  NotRequested
  <1>1. /\ \A k \in Runs : k # r => events'[k] = events[k]
        /\ \A i \in 1..Len(events[r]) : events'[r][i] = events[r][i]
        /\ events'[r][Len(events[r]) + 1].status = s
        /\ \A i \in 1..Len(events'[r]) : i \in 1..Len(events[r]) \/ i = Len(events[r]) + 1
    BY LongerStream
  <1> QED
    BY <1>1 DEF NotRequested

\* Workers and the start command set no flag and request no cancellation.
LEMMA WorkersRequestNothing ==
    ASSUME FencingInvariant, WorkerNext \/ \E r \in Runs : StartRun(r)
    PROVE  NotRequested /\ UNCHANGED flag
  <1> USE DEF FencingInvariant
  <1>1. ASSUME UNCHANGED events
        PROVE  NotRequested
    BY <1>1 DEF NotRequested
  <1>2. ASSUME NEW r \in Runs, NEW e \in Nat, NEW res \in Result,
               FinalizeRun(r, e, res.status, res.reason)
        PROVE  NotRequested
    <2>1. res.status \in Terminal /\ res.reason \in Reason
      BY DEF Result
    <2>2. res.status # "cancellation_requested"
      BY <2>1 DEF Terminal
    <2> QED
      BY <1>2, <2>1, <2>2, OtherStatus DEF FinalizeRun
  <1>3. ASSUME NEW w \in Workers, MarkRun(w)
        PROVE  NotRequested /\ UNCHANGED flag
    <2>1. held[w].run \in Runs /\ held[w] \in Lease
      BY <1>3, AtWork DEF MarkRun
    <2>2. Transition(held[w].run, "solver_running", "none", held[w].epoch) /\ UNCHANGED flag
      BY <1>3 DEF MarkRun, MarkRunning, jobVars
    <2>3. "solver_running" \in Active \cup Terminal /\ "none" \in Reason /\ held[w].epoch \in Nat
      BY <2>1 DEF Active, Reason, Lease
    <2> QED
      BY <2>1, <2>2, <2>3, OtherStatus
  <1>4. ASSUME NEW w \in Workers, Finalize(w) \/ Recover(w)
        PROVE  NotRequested /\ UNCHANGED flag
    <2>1. held[w].run \in Runs /\ held[w] \in Lease /\ held[w].epoch \in Nat
      BY <1>4, AtWork DEF Finalize, Recover, Lease
    <2>2. UNCHANGED flag
      BY <1>4 DEF Finalize, Recover, EndJob
    <2>3. CASE Finalize(w)
      <3>1. result[w] \in Result
        BY <2>3 DEF Finalize, WorkerControl, Control
      <3> QED
        BY <1>2, <2>1, <2>2, <2>3, <3>1 DEF Finalize
    <2>4. CASE Recover(w) /\ result[w] = NoResult
      BY <1>1, <2>2, <2>4 DEF Recover, runVars
    <2>5. CASE Recover(w) /\ result[w] # NoResult
      <3>1. result[w] \in Result
        BY <2>5 DEF TypeOK, WorkerType
      <3> QED
        BY <1>2, <2>1, <2>2, <2>5, <3>1 DEF Recover
    <2> QED
      BY <1>4, <2>3, <2>4, <2>5
  <1>5. ASSUME NEW w \in Workers, WorkerStep(w) \/ Poll(w) \/ Transient(w) \/ Crash(w),
               ~(MarkRun(w) \/ Finalize(w) \/ Recover(w))
        PROVE  UNCHANGED <<events, flag>>
    BY <1>5 DEF WorkerStep, LeaseJob, LeaseNextJob, Checkpoint1, MarkConflict,
       StaleLease, CompleteJob, Checkpoint2, Solve, MetricsRaise, Claim, FinalizeRefused, EndJob,
       FatalRead, Poll, Transient, Crash, storeVars, runVars, jobVars
  <1>6. ASSUME NEW r \in Runs, StartRun(r)
        PROVE  NotRequested /\ UNCHANGED flag
    <2>1. Transition(r, "solver_queued", "none", 0) /\ UNCHANGED flag
      BY <1>6 DEF StartRun, CreateQueuedRun
    <2>2. "solver_queued" \in Active \cup Terminal /\ "none" \in Reason
      BY DEF Active, Reason
    <2> QED
      BY <2>1, <2>2, OtherStatus
  <1>7. ASSUME (\E b \in beats : Heartbeat(b)) \/ \E r \in Runs : LeaseLapses(r) \/ LateRenewal(r)
        PROVE  UNCHANGED <<events, flag>>
    BY <1>7 DEF Heartbeat, RenewJobLease, LeaseLapses, LateRenewal, runVars
  <1> QED
    BY <1>1, <1>3, <1>4, <1>5, <1>6, <1>7 DEF WorkerNext

\* A request's own slot and run.
LEMMA RequestFacts ==
    ASSUME TypeOK, NEW q \in Requests
    PROVE  /\ RunOf[q] \in Runs /\ Slot(q) \in Slots
           /\ idem[Slot(q)] \in Row /\ idem[Slot(q)].reply \in Reply
           /\ seen[q].version \in Nat /\ expected[q] \in Nat /\ reply[q] \in Reply
           /\ \A p \in Requests : Slot(p) = Slot(q) => RunOf[p] = RunOf[q]
  BY RequestAssumption DEF TypeOK, CancelType, Slots, Slot, Row

\* Steps of the run that publish no request and move no request of a planner.
LEMMA AroundTruth ==
    ASSUME FencingInvariant, CancelTruth, RunsStep, NotRequested,
           UNCHANGED <<flag, cancelVars>>
    PROVE  CancelTruth'
  <1> USE DEF FencingInvariant
  <1>1. RequestedOnce'
    BY KeepRequested DEF CancelTruth
  <1>2. Flagged'
    BY DEF CancelTruth, Flagged, NotRequested
  <1>3. \A k \in Runs : \A v, s : At(k, v, s) => At(k, v, s)'
    BY KeepAt
  <1>4. UNCHANGED <<reqPc, expected, seen, reply, idem>>
    BY DEF cancelVars
  <1>5. ASSUME NEW q \in Requests
        PROVE  Reads(q)' /\ Truthful(idem[Slot(q)], RunOf[q])' /\ Answered(q)'
    <2>1. /\ Reads(q) /\ Truthful(idem[Slot(q)], RunOf[q]) /\ Answered(q)
          /\ RunOf[q] \in Runs
      BY RequestFacts DEF CancelTruth
    <2>2. Reads(q)'
      BY <1>3, <1>4, <2>1 DEF Reads, Slot
    <2>3. Truthful(idem[Slot(q)], RunOf[q])'
      BY <1>3, <1>4, <2>1 DEF Truthful, Slot
    <2> QED
      BY <1>4, <2>1, <2>2, <2>3 DEF Answered, Slot
  <1> QED
    BY <1>1, <1>2, <1>5 DEF CancelTruth

\* What a step must keep of each request, where the streams only grow and no flag
\* is taken back: the rest follows.
LEMMA CancelFrame ==
    ASSUME FencingInvariant, CancelTruth, RunsStep, RequestedOnce', Flagged',
           NEW q \in Requests,
           \A r \in Runs : flag[r] => flag'[r],
           \A p \in Requests : p # q =>
              /\ reqPc'[p] = reqPc[p] /\ expected'[p] = expected[p]
              /\ seen'[p] = seen[p] /\ reply'[p] = reply[p],
           \A p \in Requests : Slot(p) # Slot(q) => idem'[Slot(p)] = idem[Slot(p)],
           idem[Slot(q)] # NoRow => idem'[Slot(q)] = idem[Slot(q)],
           idem'[Slot(q)] # NoRow /\ idem'[Slot(q)].reply.version # idem'[Slot(q)].body =>
              \/ idem'[Slot(q)] = idem[Slot(q)]
              \/ idem'[Slot(q)].body = Len(events[RunOf[q]]),
           Reads(q)', Truthful(idem[Slot(q)], RunOf[q])', Answered(q)'
    PROVE  CancelTruth'
  <1> USE DEF FencingInvariant
  <1>1. \A k \in Runs : \A v, s : At(k, v, s) => At(k, v, s)'
    BY KeepAt
  <1>2. ASSUME NEW p \in Requests, p # q
        PROVE  Reads(p)' /\ Truthful(idem[Slot(p)], RunOf[p])' /\ Answered(p)'
    <2>1. /\ Reads(p) /\ Truthful(idem[Slot(p)], RunOf[p]) /\ Answered(p)
          /\ RunOf[p] \in Runs
      BY RequestFacts DEF CancelTruth
    <2>2. /\ reqPc'[p] = reqPc[p] /\ expected'[p] = expected[p]
          /\ seen'[p] = seen[p] /\ reply'[p] = reply[p] /\ Slot(p)' = Slot(p)
      BY <1>2 DEF Slot
    <2>3. CASE Slot(p) # Slot(q)
      <3>1. idem'[Slot(p)] = idem[Slot(p)]
        BY <2>3
      <3>2. Reads(p)'
        BY <1>1, <2>1, <2>2, <3>1 DEF Reads
      <3>3. Truthful(idem[Slot(p)], RunOf[p])'
        BY <1>1, <2>1, <2>2, <3>1 DEF Truthful
      <3> QED
        BY <2>1, <2>2, <3>1, <3>2, <3>3 DEF Answered
    <2>4. CASE Slot(p) = Slot(q)
      <3>1. RunOf[p] = RunOf[q]
        BY <2>4, RequestFacts
      <3>2. Slot(q)' = Slot(q)
        BY DEF Slot
      <3>3. Truthful(idem[Slot(p)], RunOf[p])'
        BY <2>2, <2>4, <3>1, <3>2 DEF Truthful
      <3>4. Answered(p)'
        <4>1. ASSUME reply[p].kind = "ok"
              PROVE  idem[Slot(p)] # NoRow
          <5>1. idem[Slot(p)].reply = reply[p]
            BY <2>1, <4>1 DEF Answered
          <5>2. NoRow.reply.kind = "none"
            BY DEF NoRow, NoReply
          <5> QED
            BY <4>1, <5>1, <5>2
        <4> QED
          BY <2>1, <2>2, <2>4, <4>1 DEF Answered
      <3>5. Reads(p)'
        <4>1. reqPc[p] \in {"read", "checked"} =>
                 At(RunOf[p], seen[p].version, seen[p].status)'
          BY <1>1, <2>1, <2>2 DEF Reads
        <4>2. ASSUME reqPc[p] = "checked", idem'[Slot(q)] # NoRow,
                     idem'[Slot(q)].reply.version # idem'[Slot(q)].body
              PROVE  seen[p].version <= idem'[Slot(q)].body
          <5>1. CASE idem'[Slot(q)] = idem[Slot(q)]
            BY <2>1, <2>4, <4>2, <5>1 DEF Reads
          <5>2. CASE idem'[Slot(q)].body = Len(events[RunOf[q]])
            <6>1. seen[p].version \in 1..Len(events[RunOf[p]])
              BY <2>1, <4>2 DEF Reads, At
            <6> QED
              BY <3>1, <5>2, <6>1
          <5> QED
            BY <4>2, <5>1, <5>2
        <4> QED
          BY <2>1, <2>2, <2>4, <4>1, <4>2 DEF Reads, At
      <3> QED
        BY <3>3, <3>4, <3>5
    <2> QED
      BY <2>3, <2>4
  <1> QED
    BY <1>2 DEF CancelTruth

\* A request that is answered keeps nothing of what it read.
LEMMA AnswerFacts ==
    ASSUME TypeOK, NEW q \in Requests, NEW value, Answer(q, value)
    PROVE  /\ reqPc'[q] = "done" /\ reply'[q] = value /\ Reads(q)'
           /\ \A p \in Requests : p # q =>
                 reqPc'[p] = reqPc[p] /\ seen'[p] = seen[p] /\ reply'[p] = reply[p]
  <1>1. /\ reqPc'[q] = "done" /\ reply'[q] = value
        /\ \A p \in Requests : p # q =>
              reqPc'[p] = reqPc[p] /\ seen'[p] = seen[p] /\ reply'[p] = reply[p]
    BY DEF Answer, TypeOK, CancelType
  <1> QED
    BY <1>1 DEF Reads

\* A request that is refused, or answered from the stored row.
LEMMA NoWriteTruth ==
    ASSUME FencingInvariant, CancelTruth, NEW q \in Requests, UNCHANGED <<runVars, expected, idem>>,
           \A r \in Runs : flag[r] => flag'[r],
           \/ Replay(q) /\ idem[Slot(q)] # NoRow
           \/ \E kind \in Refusals : Refuse(q, kind)
    PROVE  CancelTruth'
  <1> USE DEF FencingInvariant
  <1>1. RunsStep /\ RequestedOnce' /\ Flagged'
    BY DEF RunsStep, runVars, CancelTruth, RequestedOnce, Flagged
  <1>2. Truthful(idem[Slot(q)], RunOf[q]) /\ RunOf[q] \in Runs
    BY RequestFacts DEF CancelTruth
  <1>3. Truthful(idem[Slot(q)], RunOf[q])'
    BY <1>2 DEF Truthful, Slot, At, runVars
  <1>4. PICK value : /\ Answer(q, value)
                     /\ value.kind = "ok" =>
                           idem[Slot(q)] = [body |-> expected[q], reply |-> value]
    <2>1. ASSUME NEW kind \in Refusals, Refuse(q, kind)
          PROVE  Answer(q, [NoReply EXCEPT !.kind = kind])
                 /\ [NoReply EXCEPT !.kind = kind].kind # "ok"
      BY <2>1 DEF Refuse, NoReply, Refusals
    <2>2. CASE Replay(q) /\ idem[Slot(q)].body = expected[q]
      <3>1. idem[Slot(q)] \in Row
        BY RequestFacts
      <3>2. idem[Slot(q)] = [body |-> expected[q], reply |-> idem[Slot(q)].reply]
        BY <2>2, <3>1 DEF Row
      <3> QED
        BY <2>2, <3>2 DEF Replay
    <2>3. CASE Replay(q) /\ idem[Slot(q)].body # expected[q]
      <3>1. Refuse(q, "key_conflict") /\ "key_conflict" \in Refusals
        BY <2>3 DEF Replay, Refusals
      <3> QED
        BY <2>1, <3>1
    <2> QED
      BY <2>1, <2>2, <2>3
  <1>5. /\ reqPc'[q] = "done" /\ reply'[q] = value /\ Reads(q)'
        /\ \A p \in Requests : p # q =>
              reqPc'[p] = reqPc[p] /\ seen'[p] = seen[p] /\ reply'[p] = reply[p]
    BY <1>4, AnswerFacts
  <1>6. Answered(q)'
    BY <1>4, <1>5 DEF Answered, Slot
  <1> QED
    BY <1>1, <1>3, <1>5, <1>6, CancelFrame

\* get_run_state: what it reads is the last version of the stream.
LEMMA ReadTruth ==
    ASSUME FencingInvariant, CancelTruth, NEW q \in Requests, NEW v \in Versions,
           CancelRead(q, v)
    PROVE  CancelTruth'
  <1> USE DEF FencingInvariant
  <1>1. UNCHANGED <<runVars, flag, idem>> /\ reqPc[q] = "new" /\ RunOf[q] \in Runs
    BY RequestFacts DEF CancelRead, storeVars, jobVars
  <1>2. CASE status[RunOf[q]] = "absent"
    <2>1. Refuse(q, "not_found") /\ UNCHANGED expected /\ "not_found" \in Refusals
      BY <1>2 DEF CancelRead, Refusals
    <2> QED
      BY <1>1, <2>1, NoWriteTruth
  <1>3. CASE status[RunOf[q]] # "absent"
    <2> DEFINE r == RunOf[q]
    <2>1. /\ reqPc' = [reqPc EXCEPT ![q] = "read"]
          /\ expected' = [expected EXCEPT ![q] = v]
          /\ seen' = [seen EXCEPT ![q] = [status |-> status[r], version |-> version[r]]]
          /\ UNCHANGED reply
      BY <1>3 DEF CancelRead
    <2>2. /\ reqPc'[q] = "read"
          /\ seen'[q] = [status |-> status[r], version |-> version[r]]
          /\ \A p \in Requests : p # q =>
                /\ reqPc'[p] = reqPc[p] /\ expected'[p] = expected[p]
                /\ seen'[p] = seen[p] /\ reply'[p] = reply[p]
      BY <2>1 DEF TypeOK, CancelType
    <2>3. At(r, version[r], status[r])
      <3>1. version[r] \in Nat /\ version[r] # 0 /\ Len(events[r]) = version[r]
        BY <1>1, <1>3 DEF StreamMirrorsRun, TypeOK, StoreType
      <3>2. events[r][version[r]].status = status[r]
        BY <1>1, <3>1 DEF StreamMirrorsRun
      <3> QED
        BY <3>1, <3>2 DEF At
    <2>4. Reads(q)'
      BY <1>1, <2>2, <2>3 DEF Reads, At, runVars
    <2>5. Answered(q)'
      BY <1>1, <2>1 DEF CancelTruth, Answered
    <2>6. Truthful(idem[Slot(q)], RunOf[q])'
      BY <1>1 DEF CancelTruth, Truthful, Slot, At, runVars
    <2>7. RunsStep /\ RequestedOnce' /\ Flagged'
      BY <1>1 DEF RunsStep, runVars, CancelTruth, RequestedOnce, Flagged
    <2> QED
      BY <1>1, <2>2, <2>4, <2>5, <2>6, <2>7, CancelFrame
  <1> QED
    BY <1>2, <1>3

\* get_idempotent_result and the refusals decided on what was read.
LEMMA CheckTruth ==
    ASSUME FencingInvariant, CancelTruth, NEW q \in Requests, CancelCheck(q)
    PROVE  CancelTruth'
  <1> USE DEF FencingInvariant
  <1>1. UNCHANGED <<runVars, flag, expected, idem>> /\ reqPc[q] = "read"
    BY DEF CancelCheck, storeVars, jobVars
  <1>2. CASE \/ Replay(q) /\ idem[Slot(q)] # NoRow
             \/ \E kind \in Refusals : Refuse(q, kind)
    BY <1>1, <1>2, NoWriteTruth
  <1>3. CASE /\ idem[Slot(q)] = NoRow /\ seen[q].version = expected[q]
             /\ reqPc' = [reqPc EXCEPT ![q] = "checked"] /\ UNCHANGED <<reply, seen>>
    <2>1. reqPc'[q] = "checked" /\ \A p \in Requests : p # q => reqPc'[p] = reqPc[p]
      BY <1>3 DEF TypeOK, CancelType
    <2>2. Reads(q)'
      BY <1>1, <1>3, <2>1 DEF CancelTruth, Reads, At, Slot, runVars
    <2>3. Answered(q)'
      BY <1>1, <1>3, <2>1 DEF CancelTruth, Answered, Slot
    <2>4. Truthful(idem[Slot(q)], RunOf[q])'
      BY <1>1 DEF CancelTruth, Truthful, Slot, At, runVars
    <2>5. RunsStep /\ RequestedOnce' /\ Flagged'
      BY <1>1 DEF RunsStep, runVars, CancelTruth, RequestedOnce, Flagged
    <2> QED
      BY <1>1, <1>3, <2>1, <2>2, <2>3, <2>4, <2>5, CancelFrame
  <1> QED
    BY <1>2, <1>3 DEF CancelCheck, Refusals

\* The compare-and-set is lost: the flag stays set and the stored row decides.
LEMMA LostTruth ==
    ASSUME FencingInvariant, CancelTruth, NEW q \in Requests, CancelLost(q)
    PROVE  CancelTruth'
  <1>1. UNCHANGED <<runVars, expected, idem>>
    BY DEF CancelLost
  <1>2. \A r \in Runs : flag[r] => flag'[r]
    BY DEF CancelLost, SetFlag, FencingInvariant, TypeOK, StoreType
  <1>3. \/ Replay(q) /\ idem[Slot(q)] # NoRow
        \/ \E kind \in Refusals : Refuse(q, kind)
    BY DEF CancelLost, ResolveLostRace, Refusals
  <1> QED
    BY <1>1, <1>2, <1>3, NoWriteTruth

\* What follows a published request for cancellation.
LEMMA AfterRequest ==
    ASSUME RequestedOnce, NEW r \in Runs, NEW i, NEW j, NEW s,
           At(r, i, "cancellation_requested"), At(r, j, s), s \in Active
    PROVE  j <= i /\ (s = "cancellation_requested" => j = i)
  <1>1. i \in Int /\ j \in Int
    BY DEF At
  <1>2. ~(i < j)
    BY DEF At, RequestedOnce, Active, Terminal
  <1>3. s = "cancellation_requested" => ~(j < i)
    BY DEF At, RequestedOnce, Terminal
  <1> QED
    BY <1>1, <1>2, <1>3

\* A compare-and-set that matches finds no stored answer: one stored since the
\* check was applied at this version or later, and the version has moved on.
LEMMA ApplyFindsNoRow ==
    ASSUME FencingInvariant, CancelTruth, NEW q \in Requests, CancelApply(q)
    PROVE  idem[Slot(q)] = NoRow
  <1> USE DEF FencingInvariant
  <1> DEFINE r == RunOf[q]
             row == idem[Slot(q)]
             v == seen[q].version
  <1>1. /\ seen[q].status \in {"solver_queued", "solver_running"}
        /\ status[r] = seen[q].status /\ version[r] = expected[q] /\ reqPc[q] = "checked"
    BY DEF CancelApply, CancelMatches
  <1>2. /\ Reads(q) /\ Truthful(row, r) /\ r \in Runs
        /\ row \in Row /\ v \in Nat /\ RequestedOnce
    BY RequestFacts DEF CancelTruth
  <1>3. version[r] = v /\ Len(events[r]) = v /\ At(r, v, seen[q].status)
    BY <1>1, <1>2 DEF Reads, StreamMirrorsRun
  <1> SUFFICES ASSUME row # NoRow
               PROVE  FALSE
    OBVIOUS
  <1>4. row.body \in Nat /\ row.reply.version \in 1..Len(events[r])
    BY <1>2 DEF Truthful, At, Row
  <1>5. CASE row.reply.version = row.body + 1
    <2>1. row.reply.version # row.body
      BY <1>4, <1>5
    <2>2. v <= row.body
      BY <1>1, <1>2, <2>1 DEF Reads
    <2> QED
      BY <1>2, <1>3, <1>4, <1>5, <2>2
  <1>6. CASE row.reply.version = row.body /\ row.reply.status = "cancellation_requested"
    <2>1. At(r, row.body, "cancellation_requested")
      BY <1>2, <1>6 DEF Truthful
    <2>2. v <= row.body
      BY <1>1, <1>2, <1>3, <2>1, AfterRequest DEF Active
    <2>3. row.body = v
      BY <1>2, <1>3, <1>4, <1>6, <2>2
    <2> QED
      BY <1>1, <1>3, <2>1, <2>3 DEF At
  <1> QED
    BY <1>2, <1>5, <1>6 DEF Truthful

\* The cancellation applies: the run, the flag, the answer and its row at once.
LEMMA ApplyTruth ==
    ASSUME FencingInvariant, CancelTruth, NEW q \in Requests, CancelApply(q)
    PROVE  CancelTruth'
  <1> USE DEF FencingInvariant
  <1> DEFINE r == RunOf[q]
             s == seen[q].status
             n == Len(events[r])
             value == [kind |-> "ok", status |-> CancelTarget(s),
                       version |-> seen[q].version + 1, flag |-> flag'[r]]
             row == [body |-> expected[q], reply |-> value]
  <1>1. /\ s \in {"solver_queued", "solver_running"} /\ reqPc[q] = "checked"
        /\ status[r] = s /\ version[r] = expected[q]
        /\ Transition(r, CancelTarget(s), CancelReason(s), 0)
        /\ flag' = [flag EXCEPT ![r] = TRUE]
        /\ Answer(q, value) /\ StoreReply(q, value) /\ UNCHANGED expected
    BY DEF CancelApply, CancelMatches, CancelTransition, SetFlag
  <1>2. /\ Reads(q) /\ r \in Runs /\ Slot(q) \in Slots /\ RequestedOnce /\ Flagged
    BY RequestFacts DEF CancelTruth
  <1>3. /\ expected[q] = n /\ seen[q].version = n /\ n \in Nat /\ At(r, n, s)
    BY <1>1, <1>2 DEF Reads, StreamMirrorsRun, TypeOK, StoreType
  <1>4. flag'[r] = TRUE /\ \A k \in Runs : flag[k] => flag'[k]
    BY <1>1, <1>2 DEF TypeOK, StoreType
  <1>5. RunsStep /\ RequestedOnce'
    <2>1. RunsStep
      BY StepRuns DEF Next, CancelStep
    <2> QED
      BY <1>2, <2>1, KeepRequested
  <1>6. CancelTarget(s) \in Active \cup Terminal /\ CancelReason(s) \in Reason
    BY <1>1 DEF CancelTarget, CancelReason, Active, Terminal, Reason
  <1>7. /\ \A k \in Runs : k # r => events'[k] = events[k]
        /\ Len(events'[r]) = n + 1
        /\ \A i \in 1..n : events'[r][i] = events[r][i]
        /\ events'[r][n + 1].status = CancelTarget(s)
        /\ \A i \in 1..Len(events'[r]) : i \in 1..n \/ i = n + 1
    BY <1>1, <1>2, <1>6, LongerStream
  <1>8. Flagged'
    BY <1>2, <1>4, <1>7 DEF Flagged
  <1>9. idem[Slot(q)] = NoRow
    BY ApplyFindsNoRow
  <1>10. idem' = [idem EXCEPT ![Slot(q)] = row]
    BY <1>1, <1>9 DEF StoreReply
  <1>11. /\ value.kind = "ok" /\ value.flag = TRUE /\ value.version = n + 1
         /\ value.status = CancelTarget(s) /\ row.body = n /\ row.reply = value
    BY <1>3, <1>4
  <1> HIDE DEF row, value
  <1>12. idem'[Slot(q)] = row /\ \A p \in Requests : Slot(p) # Slot(q) => idem'[Slot(p)] = idem[Slot(p)]
    <2>1. \A p \in Requests : Slot(p) \in Slots
      BY DEF Slots
    <2> QED
      BY <1>2, <1>10, <2>1 DEF TypeOK, CancelType
  <1>13. PICK m, t : m = n /\ t = s
    OBVIOUS
  <1>14. /\ value.kind = "ok" /\ value.flag = TRUE /\ value.version = m + 1
         /\ value.status = CancelTarget(t) /\ row.body = m /\ row.reply = value
         /\ m \in Nat /\ t \in {"solver_queued", "solver_running"}
    BY <1>1, <1>3, <1>11, <1>13
  <1>15. At(r, m + 1, CancelTarget(t))' /\ At(r, m, t)'
    <2>1. m \in 1..m
      BY <1>3, <1>13 DEF At
    <2>2. m + 1 \in 1..(m + 1) /\ m \in 1..(m + 1)
      BY <1>14, <2>1
    <2>3. events'[r][m].status = t /\ events'[r][m + 1].status = CancelTarget(t)
      BY <1>3, <1>7, <1>13, <2>1 DEF At
    <2>4. Len(events'[r]) = m + 1
      BY <1>7, <1>13
    <2> HIDE DEF n, s
    <2> QED
      BY <2>2, <2>3, <2>4 DEF At
  <1>16. PICK w : w = row
    OBVIOUS
  <1>17. /\ w.reply.kind = "ok" /\ w.reply.flag = TRUE /\ w.reply.version = w.body + 1
         /\ w.reply.version = m + 1 /\ w.reply.status = CancelTarget(t) /\ w.body = m
    BY <1>14, <1>16
  <1>18. Slot(q)' = Slot(q) /\ idem'[Slot(q)] = w
    BY <1>12, <1>16 DEF Slot
  <1> HIDE DEF n, s
  <1>19. Truthful(idem[Slot(q)], RunOf[q])'
    <2>1. Truthful(w, RunOf[q])'
      BY <1>4, <1>14, <1>15, <1>17 DEF Truthful
    <2> QED
      BY <1>18, <2>1 DEF Truthful
  <1>20. /\ reqPc'[q] = "done" /\ reply'[q] = value /\ Reads(q)'
         /\ \A p \in Requests : p # q =>
               reqPc'[p] = reqPc[p] /\ seen'[p] = seen[p] /\ reply'[p] = reply[p]
    BY <1>1, AnswerFacts
  <1>21. Answered(q)'
    BY <1>1, <1>12, <1>18, <1>20 DEF Answered, row
  <1>22. idem'[Slot(q)].body = Len(events[RunOf[q]])
    BY <1>13, <1>17, <1>18 DEF n
  <1> QED
    BY <1>1, <1>4, <1>5, <1>8, <1>9, <1>12, <1>19, <1>20, <1>21, <1>22, CancelFrame

\* Cancellation was requested already: a second answer under the key is the first.
LEMMA EchoTruth ==
    ASSUME FencingInvariant, CancelTruth, NEW q \in Requests, CancelEcho(q)
    PROVE  CancelTruth'
  <1> USE DEF FencingInvariant
  <1> DEFINE r == RunOf[q]
             v == seen[q].version
             old == idem[Slot(q)]
             value == [kind |-> "ok", status |-> "cancellation_requested",
                       version |-> v, flag |-> flag[r]]
             row == [body |-> expected[q], reply |-> value]
  <1>1. /\ reqPc[q] = "checked" /\ seen[q].status = "cancellation_requested"
        /\ Answer(q, value) /\ StoreReply(q, value)
        /\ UNCHANGED <<runVars, flag, expected>>
    BY DEF CancelEcho, storeVars, jobVars
  <1>2. /\ Reads(q) /\ r \in Runs /\ Slot(q) \in Slots /\ RequestedOnce /\ Flagged
        /\ Truthful(old, r) /\ old \in Row /\ old.reply \in Reply /\ v \in Nat
    BY RequestFacts DEF CancelTruth
  <1>3. /\ expected[q] = v /\ At(r, v, "cancellation_requested")
    BY <1>1, <1>2 DEF Reads
  <1>4. flag[r] = TRUE
    <2>1. flag[r]
      BY <1>2, <1>3 DEF Flagged, At
    <2> QED
      BY <1>2, <2>1 DEF TypeOK, StoreType
  <1>5. old # NoRow => old = row
    <2> SUFFICES ASSUME old # NoRow
                 PROVE  old = row
      OBVIOUS
    <2>1. old.body \in Nat /\ old.reply.version \in Nat
      BY <1>2 DEF Row, Truthful, At
    <2>2. ~(old.reply.version = old.body + 1)
      <3> SUFFICES ASSUME old.reply.version = old.body + 1
                   PROVE  FALSE
        OBVIOUS
      <3>1. v <= old.body
        BY <1>1, <1>2, <2>1 DEF Reads
      <3>2. PICK t \in {"solver_queued", "solver_running"} : At(r, old.body, t)
        BY <1>2, <2>1 DEF Truthful
      <3>3. old.body <= v
        BY <1>2, <1>3, <3>2, AfterRequest DEF Active
      <3>4. old.body = v
        BY <1>2, <2>1, <3>1, <3>3
      <3> QED
        BY <1>3, <3>2, <3>4 DEF At
    <2>3. /\ old.reply.version = old.body /\ old.reply.status = "cancellation_requested"
          /\ old.reply.kind = "ok" /\ old.reply.flag = TRUE
          /\ At(r, old.body, "cancellation_requested")
      BY <1>2, <2>2 DEF Truthful
    <2>4. old.body = v
      <3>1. "cancellation_requested" \in Active
        BY DEF Active
      <3> QED
        BY <1>2, <1>3, <2>3, <3>1, AfterRequest
    <2>5. old.reply = value
      BY <1>2, <1>4, <2>3, <2>4 DEF Reply
    <2> HIDE DEF value
    <2> QED
      BY <1>2, <1>3, <2>4, <2>5 DEF Row
  <1>6. idem' = [idem EXCEPT ![Slot(q)] = row]
    <2>1. CASE old = NoRow
      BY <1>1, <2>1 DEF StoreReply
    <2>2. CASE old # NoRow
      <3>1. old = row
        BY <1>5, <2>2
      <3> HIDE DEF row, value
      <3> QED
        BY <1>1, <2>2, <3>1 DEF StoreReply
    <2> QED
      BY <2>1, <2>2
  <1>7. PICK w, u : w = row /\ u = v
    OBVIOUS
  <1>8. /\ w.reply.kind = "ok" /\ w.reply.flag = TRUE /\ w.body = u
        /\ w.reply.version = u /\ w.reply.status = "cancellation_requested"
        /\ w.reply = value /\ w.body = expected[q]
    BY <1>3, <1>4, <1>7
  <1>9. /\ idem'[Slot(q)] = w
        /\ \A p \in Requests : Slot(p) # Slot(q) => idem'[Slot(p)] = idem[Slot(p)]
    <2>1. \A p \in Requests : Slot(p) \in Slots
      BY DEF Slots
    <2> HIDE DEF row, value
    <2> QED
      BY <1>2, <1>6, <1>7, <2>1 DEF TypeOK, CancelType
  <1>10. Slot(q)' = Slot(q)
    BY DEF Slot
  <1>11. Truthful(idem[Slot(q)], RunOf[q])'
    <2>1. At(r, u, "cancellation_requested") /\ flag'[r]
      BY <1>1, <1>3, <1>4, <1>7
    <2>2. At(r, u, "cancellation_requested")'
      BY <1>1, <2>1 DEF At, runVars
    <2>3. Truthful(w, RunOf[q])'
      BY <1>8, <2>1, <2>2 DEF Truthful
    <2> QED
      BY <1>9, <1>10, <2>3 DEF Truthful
  <1> HIDE DEF row, value
  <1>12. /\ reqPc'[q] = "done" /\ reply'[q] = value /\ Reads(q)'
         /\ \A p \in Requests : p # q =>
               reqPc'[p] = reqPc[p] /\ seen'[p] = seen[p] /\ reply'[p] = reply[p]
    BY <1>1, AnswerFacts
  <1>13. Answered(q)'
    <2>1. idem'[Slot(q)] = [body |-> expected[q], reply |-> value]
      BY <1>7, <1>9 DEF row
    <2> QED
      BY <1>1, <1>10, <1>12, <2>1 DEF Answered
  <1>14. RunsStep /\ RequestedOnce' /\ Flagged'
    BY <1>1 DEF RunsStep, runVars, CancelTruth, RequestedOnce, Flagged
  <1>15. idem'[Slot(q)].reply.version = idem'[Slot(q)].body
    BY <1>8, <1>9
  <1>16. old # NoRow => idem'[Slot(q)] = old
    BY <1>5, <1>7, <1>9
  <1> QED
    BY <1>1, <1>9, <1>11, <1>12, <1>13, <1>14, <1>15, <1>16, CancelFrame

\* Nothing is published, read or stored at first.
LEMMA InitTruth ==
    ASSUME Init
    PROVE  CancelTruth
  <1>1. \A r \in Runs : Len(events[r]) = 0
    BY DEF Init, StoreInit
  <1>2. RequestedOnce /\ Flagged
    BY <1>1 DEF RequestedOnce, Flagged
  <1>3. ASSUME NEW q \in Requests
        PROVE  Reads(q) /\ Truthful(idem[Slot(q)], RunOf[q]) /\ Answered(q)
    <2>1. reqPc[q] = "new" /\ reply[q] = NoReply /\ idem[Slot(q)] = NoRow
      BY DEF Init, CancelInit, Slots
    <2> QED
      BY <2>1 DEF Reads, Truthful, Answered, NoReply
  <1> QED
    BY <1>2, <1>3 DEF CancelTruth

\* Every step keeps the stored answers true.
LEMMA StepTruth ==
    ASSUME FencingInvariant, CancelTruth, [Next]_vars
    PROVE  CancelTruth'
  <1>1. RunsStep
    BY StepRuns DEF FencingInvariant
  <1>2. CASE WorkerNext /\ UNCHANGED cancelVars
    BY <1>1, <1>2, WorkersRequestNothing, AroundTruth
  <1>3. CASE \E r \in Runs : StartRun(r)
    <2>1. UNCHANGED cancelVars
      BY <1>3 DEF StartRun
    <2> QED
      BY <1>1, <1>3, <2>1, WorkersRequestNothing, AroundTruth
  <1>4. CASE \E q \in Requests : CancelStep(q)
    BY <1>4, ReadTruth, CheckTruth, ApplyTruth, LostTruth, EchoTruth DEF CancelStep
  <1>5. CASE UNCHANGED vars
    <2>1. NotRequested /\ UNCHANGED <<flag, cancelVars>>
      BY <1>5 DEF vars, storeVars, runVars, jobVars, NotRequested
    <2> QED
      BY <1>1, <2>1, AroundTruth
  <1> QED
    BY <1>2, <1>3, <1>4, <1>5 DEF Next

\* Whatever retries, duplicates and lost races the requests meet, every stored
\* answer of cancel_schedule_run was true of the run when it was given, and the
\* accepted requests hold exactly the stored answer of their key.
THEOREM CancelTruthHolds == Spec => []CancelTruth
  <1>1. Init => CancelTruth
    BY InitTruth
  <1>2. FencingInvariant /\ CancelTruth /\ [Next]_vars => CancelTruth'
    BY StepTruth
  <1> QED
    BY <1>1, <1>2, Fencing, PTL DEF Spec

\* A run whose stream holds an event exists.
LEMMA ExistsWithEvents ==
    ASSUME FencingInvariant, NEW r \in Runs, Len(events[r]) > 0
    PROVE  status[r] # "absent"
  <1>1. version[r] > 0 /\ version[r] \in 1..Len(events[r]) /\ events[r] \in Seq(Event)
    BY DEF FencingInvariant, StreamMirrorsRun, TypeOK, StoreType
  <1>2. events[r][version[r]] \in Event /\ events[r][version[r]].status = status[r]
    BY <1>1 DEF FencingInvariant, StreamMirrorsRun
  <1> QED
    BY <1>2 DEF Event, Active, Terminal

\* Every accepted cancellation is true of the run, and requests with one key that
\* were accepted hold the one stored answer (cancel_schedule_run).
THEOREM AcceptedOnceTheorem == Spec => []AcceptedOnce
  <1>1. CancelTruth => AcceptedOnce
    <2> SUFFICES ASSUME CancelTruth, NEW q \in Requests, reply[q].kind = "ok"
                 PROVE  /\ At(RunOf[q], reply[q].version, reply[q].status)
                        /\ reply[q].flag /\ flag[RunOf[q]]
                        /\ idem[Slot(q)] = [body |-> expected[q], reply |-> reply[q]]
      BY DEF AcceptedOnce, AcceptedIsRecorded, OneAnswerPerKey, At
    <2>1. /\ Truthful(idem[Slot(q)], RunOf[q])
          /\ idem[Slot(q)] = [body |-> expected[q], reply |-> reply[q]]
      BY DEF CancelTruth, Answered
    <2>2. idem[Slot(q)].reply = reply[q]
      BY <2>1
    <2>3. idem[Slot(q)] # NoRow
      <3>1. NoRow.reply.kind = "none"
        BY DEF NoRow, NoReply
      <3> QED
        BY <2>2, <3>1
    <2> QED
      BY <2>1, <2>2, <2>3 DEF Truthful
  <1> QED
    BY <1>1, CancelTruthHolds, PTL

\* A request whose key has a stored answer for its body is never refused: not by
\* the first read (a run with a stored answer exists), not by the check, and not
\* after a lost compare-and-set (_resolve_lost_race).
THEOREM RetryNeverRefusedTheorem == Spec => RetryNeverRefused
  <1> DEFINE Fair(q) == reply'[q].kind \in Refusals /\ reply[q].kind = "none" =>
                            idem[Slot(q)] = NoRow \/ idem[Slot(q)].body # expected'[q]
  <1>1. ASSUME FencingInvariant, CancelTruth, Next
        PROVE  \A q \in Requests : Fair(q)
    <2> USE <1>1 DEF FencingInvariant
    <2> SUFFICES ASSUME NEW q \in Requests, reply'[q] # reply[q],
                        reply'[q].kind \in Refusals, idem[Slot(q)] # NoRow
                 PROVE  idem[Slot(q)].body # expected'[q]
      BY DEF Refusals
    <2>1. PICK p \in Requests : CancelStep(p)
      <3>1. ~UNCHANGED cancelVars
        BY DEF cancelVars
      <3>2. ASSUME NEW r \in Runs, StartRun(r)
            PROVE  UNCHANGED cancelVars
        BY <3>2 DEF StartRun
      <3> QED
        BY <3>1, <3>2 DEF Next
    <2>2. ASSUME NEW value, Answer(p, value)
          PROVE  p = q /\ reply'[q] = value
      BY <2>2 DEF Answer, TypeOK, CancelType
    <2>3. /\ Truthful(idem[Slot(q)], RunOf[q]) /\ RunOf[q] \in Runs
          /\ idem[Slot(q)].reply.kind = "ok"
      <3>1. Truthful(idem[Slot(q)], RunOf[q]) /\ RunOf[q] \in Runs
        BY RequestFacts DEF CancelTruth
      <3> QED
        BY <3>1 DEF Truthful
    <2>4. ASSUME Replay(p), UNCHANGED expected
          PROVE  idem[Slot(q)].body # expected'[q]
      <3>1. CASE idem[Slot(p)].body = expected[p]
        <4>1. p = q /\ reply'[q] = idem[Slot(q)].reply
          BY <2>2, <2>4, <3>1 DEF Replay
        <4> QED
          BY <2>3, <4>1 DEF Refusals
      <3>2. CASE idem[Slot(p)].body # expected[p]
        <4>1. p = q
          BY <2>2, <2>4, <3>2 DEF Replay, Refuse
        <4> QED
          BY <2>4, <3>2, <4>1
      <3> QED
        BY <3>1, <3>2
    <2>5. ASSUME NEW v \in Versions, CancelRead(p, v)
          PROVE  FALSE
      <3>1. status[RunOf[p]] = "absent" /\ Refuse(p, "not_found")
        BY <2>5 DEF CancelRead
      <3>2. p = q
        BY <2>2, <3>1 DEF Refuse
      <3>3. idem[Slot(q)].reply.version \in 1..Len(events[RunOf[q]])
        BY <2>3 DEF Truthful, At
      <3>4. Len(events[RunOf[q]]) > 0
        BY <3>3
      <3>5. status[RunOf[q]] # "absent"
        BY <2>3, <3>4, ExistsWithEvents
      <3> QED
        BY <3>1, <3>2, <3>5
    <2>6. CASE CancelCheck(p)
      <3>1. CASE idem[Slot(p)] # NoRow
        BY <2>4, <2>6, <3>1 DEF CancelCheck
      <3>2. CASE idem[Slot(p)] = NoRow
        <4>1. p = q
          BY <2>2, <2>6, <3>2 DEF CancelCheck, Refuse
        <4> QED
          BY <3>2, <4>1
      <3> QED
        BY <3>1, <3>2
    <2>7. CASE CancelLost(p)
      <3>1. CASE idem[Slot(p)] # NoRow
        BY <2>4, <2>7, <3>1 DEF CancelLost, ResolveLostRace
      <3>2. CASE idem[Slot(p)] = NoRow
        <4>1. p = q
          BY <2>2, <2>7, <3>2 DEF CancelLost, ResolveLostRace, Refuse
        <4> QED
          BY <3>2, <4>1
      <3> QED
        BY <3>1, <3>2
    <2>8. ASSUME CancelApply(p) \/ CancelEcho(p)
          PROVE  FALSE
      <3>1. PICK value : Answer(p, value) /\ value.kind = "ok"
        BY <2>8 DEF CancelApply, CancelEcho
      <3>2. reply'[q].kind = "ok"
        BY <2>2, <3>1
      <3> QED
        BY <3>2 DEF Refusals
    <2> QED
      BY <2>1, <2>5, <2>6, <2>7, <2>8 DEF CancelStep
  <1>2. FencingInvariant /\ CancelTruth /\ [Next]_vars => [\A q \in Requests : Fair(q)]_vars
    BY <1>1
  <1> QED
    BY <1>2, CancelTruthHolds, Fencing, PTL DEF Spec, RetryNeverRefused
=============================================================================
