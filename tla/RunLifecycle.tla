------------------------------ MODULE RunLifecycle ------------------------------
(***************************************************************************)
(* What a schedule run promises its readers, whoever executes or cancels   *)
(* it: the statuses it publishes follow the run state machine (AD-7 in the *)
(* source), a terminal status is the last one, cancelling running work     *)
(* passes through cancellation_requested, and a schedule candidate appears *)
(* exactly with solver_completed.                                          *)
(***************************************************************************)
EXTENDS Naturals, Sequences

CONSTANT Runs

VARIABLES
    history,    \* the statuses each run has published, oldest first
    published   \* whether the run has a schedule candidate

lifecycleVars == <<history, published>>

\* The statuses that may follow s.
Successors(s) ==
    CASE s = "solver_queued" ->
            {"solver_running", "solver_cancelled", "solver_timed_out", "solver_failed"}
      [] s = "solver_running" ->
            {"cancellation_requested", "solver_completed", "solver_infeasible",
             "solver_timed_out", "solver_failed"}
      [] s = "cancellation_requested" ->
            {"solver_completed", "solver_infeasible", "solver_timed_out",
             "solver_cancelled", "solver_failed"}
      [] OTHER -> {}

LifecycleInit ==
    /\ history = [r \in Runs |-> << >>]
    /\ published = [r \in Runs |-> FALSE]

Open(r) ==
    /\ history[r] = << >>
    /\ history' = [history EXCEPT ![r] = <<"solver_queued">>]
    /\ UNCHANGED published

Advance(r, s) ==
    /\ history[r] # << >>
    /\ s \in Successors(history[r][Len(history[r])])
    /\ history' = [history EXCEPT ![r] = Append(@, s)]
    /\ published' = [published EXCEPT ![r] = s = "solver_completed"]

LifecycleNext ==
    \E r \in Runs :
        \/ Open(r)
        \/ \E s \in {"solver_running", "cancellation_requested", "solver_completed",
                     "solver_infeasible", "solver_timed_out", "solver_cancelled",
                     "solver_failed"} : Advance(r, s)

LifecycleSpec == LifecycleInit /\ [][LifecycleNext]_lifecycleVars
=============================================================================
