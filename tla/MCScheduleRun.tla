------------------------------ MODULE MCScheduleRun ------------------------------
(* Small instances of ScheduleRunSystem for TLC. *)
EXTENDS ScheduleRunSystem, TLC

CONSTANTS q1, q2, q3

\* q1 and q2 are a request and its retry, q3 is another planner's.
OneRun      == {1}
TwoRuns     == {1, 2}
RetryRun    == [q \in Requests |-> 1]
EachRun     == [q \in Requests |-> IF q = q1 THEN 1 ELSE 2]
RetryKey    == [q \in Requests |-> IF q = q3 THEN "b" ELSE "a"]
PlanVersion == {1, 2, 3}

\* Bound: one of the runs is started, an unmeasurable one with one fault.  A
\* cancellation arrives after its run was created and presents the version it finds;
\* what moves after that is left to the workers.
Focus ==
    /\ Cardinality({r \in Runs : status[r] # "absent"}) <= 1
    /\ \A r \in Unmeasurable : status[r] # "absent" => faults <= 1
    /\ \A q \in Requests :
          /\ reply[q].kind # "not_found"
          /\ reqPc[q] = "read" => expected[q] = seen[q].version
FocusSpec == Init /\ [][Next /\ Focus']_vars /\ Fairness

\* Workers are interchangeable: no action or property names one of them.
WorkerSymmetry == Permutations(Workers)
=============================================================================
