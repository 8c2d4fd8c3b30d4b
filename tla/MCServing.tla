----------------------------- MODULE MCServing -----------------------------
(***************************************************************************)
(* Two parts of the API process that share no state: one turn of the agent *)
(* runtime, and the sign-in provider's caches.  A behaviour exercises one  *)
(* of them while the other rests.                                          *)
(***************************************************************************)
EXTENDS AgentRuntime, CognitoOidc

VARIABLE part

AllTools == {"compute", "draft", "discard", "baseline"}

TurnRests ==
    /\ route = "direct" /\ asks = FALSE /\ phase = "ended" /\ batch = NoBatch /\ output = Blank
    /\ attempt = 0 /\ usage = [requests |-> 0, calls |-> 0, over |-> FALSE]
    /\ retries = [output |-> 0, tool |-> [t \in Granted |-> 0]] /\ rule = "none" /\ rejectedBy = "none"
    /\ work = [drafts |-> 0, discarded |-> FALSE, rows |-> FALSE, results |-> FALSE]
    /\ outcome = [Running EXCEPT !.status = "timed_out", !.source = "agent"]
ExchangesRest ==
    /\ signing = 0 /\ published = {0} /\ kid = [k \in Keys |-> k] /\ metadata = [fresh |-> FALSE]
    /\ jwks = [keys |-> {}, fresh |-> FALSE] /\ discovery = NoHolder /\ lapses = 0
    /\ co = [c \in Coroutines |->
                [pc |-> "unavailable", after |-> "token", key |-> 0, force |-> FALSE, reply |-> {}]]

vars == <<part, turnVars, oidcVars>>

Init ==
    \/ part = "turn" /\ TurnInit /\ ExchangesRest
    \/ part = "oidc" /\ TurnRests /\ OidcInit

Next ==
    \/ part = "turn" /\ TakeTurn /\ UNCHANGED <<part, oidcVars>>
    \/ part = "oidc" /\ Exchange /\ UNCHANGED <<part, turnVars>>

Spec == Init /\ [][Next]_vars

\* A part that rests has ended, so its fairness asks nothing.  run_sync drives
\* the turn's loop; its deadline is optional and never relied upon.  The event
\* loop runs every coroutine, wakes lock waiters in order and the HTTP client
\* times out, so no coroutine waits for ever on a step it can take.
FairSpec ==
    /\ Spec
    /\ WF_turnVars(TurnStep)
    /\ \A c \in Coroutines : SF_oidcVars(ExchangeStep(c))
=============================================================================
