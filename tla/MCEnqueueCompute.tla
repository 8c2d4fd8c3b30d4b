---------------------------- MODULE MCEnqueueCompute ----------------------------
(***************************************************************************)
(* Commands that start runs, and the sessions under which commands arrive. *)
(* They share no state, so a behaviour exercises one while the other       *)
(* rests.                                                                  *)
(***************************************************************************)
EXTENDS EnqueueCompute, SignIn

CONSTANT FirstSecret

VARIABLE part

\* Two drafts of one site: c1 and c2 retry one request in two processes, c3
\* starts a run of the other draft, c4 reuses the key of c1 with another body
\* and c5 is malformed.
MCDraftOf    == [c \in Commands |-> IF c = "c3" THEN "d2" ELSE "d1"]
MCKeyOf      == [c \in Commands |-> "k"]
MCSiteOf     == [d \in Drafts |-> "s"]
MCExpectedOf == [c \in Commands |-> CASE c = "c4" -> 2 [] c = "c5" -> 0 [] OTHER -> 1]

\* Bound: three of the five commands, either those that compete for the site or
\* those that disagree about one draft.
StartFocus ==
    \/ /\ sends["c4"] = 0 /\ sends["c5"] = 0
       /\ \A c \in Commands : sends[c] < MaxSends
       /\ draft["d1"].rv < MaxVersion /\ draft["d2"].rv = 1
    \/ /\ sends["c2"] = 0 /\ sends["c3"] = 0
       /\ draft["d2"] = [state |-> "active", rv |-> 1, context |-> 1]

\* Logins, codes, callbacks and requests are interchangeable: they are numbered in
\* the order they are first used.
UsedInOrder ==
    /\ handshake[2] # None => handshake[1] # None
    /\ code[2] # None => code[1] # None
    /\ callback[2].pc # "idle" => callback[1].pc # "idle"
    /\ request[2].pc # "idle" => request[1].pc # "idle"

\* Bound: either two sign-ins cross, with one request, or two requests from the
\* page of one planner's session race a change of the deployment's secret.
SignInFocus ==
    \/ /\ Cardinality({r \in Requests : request[r].pc # "idle"}) <= 1
       /\ secret = FirstSecret /\ now <= 1 /\ ~user.disabled /\ (user.exists => member)
    \/ /\ Cardinality({k \in Callbacks : callback[k].pc # "idle"}) <= 1
       /\ Cardinality({c \in Codes : code[c] # None}) <= 1
       /\ Cardinality({l \in Logins : handshake[l] # None}) <= 1
       /\ \A c \in Codes : code[c] # None => code[c].subject = Planner
       /\ \A k \in Callbacks : callback[k].identity = 0 \/ callback[k].identity >= Horizon
       /\ \A r \in Requests : request[r].pc = "idle" \/ request[r].own

FocusInit == part \in {"starts", "sessions"} /\ Init /\ SignInInit /\ secret = FirstSecret

FocusNext ==
    \/ part = "starts" /\ Next /\ StartFocus' /\ UNCHANGED <<part, signInVars>>
    \/ part = "sessions" /\ SignInNext /\ (UsedInOrder /\ SignInFocus)' /\ UNCHANGED <<part, vars>>

FocusSpec == FocusInit /\ [][FocusNext]_<<part, vars, signInVars>>
=============================================================================
