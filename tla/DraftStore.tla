------------------------------- MODULE DraftStore -------------------------------
(***************************************************************************)
(* The proposal aggregate of one conversation: the proposal rows, their    *)
(* immutable proposal_version rows and the command_idempotency rows of the *)
(* planner's commands (adapters/postgres/proposal.py).                     *)
(*                                                                         *)
(* Drafts are numbered in the order of their creation.  The constraint     *)
(* list of a version is reduced to who wrote it and which version that     *)
(* writer had been shown, because a write always replaces the full list.   *)
(* Every writer locks the proposal row first (FOR UPDATE, or the UPDATE    *)
(* itself), so a method is one step.                                       *)
(***************************************************************************)
EXTENDS Naturals, Sequences, FiniteSets

CONSTANTS
    MaxDrafts,  \* bound: how many drafts the conversation may create
    Turns,      \* agent runs, one per accepted planner message
    Edits       \* revise and reject commands planners send

\* A turn creates at most one draft, so the bound never stops one.
ASSUME DraftAssumption ==
    /\ MaxDrafts \in Nat /\ Turns \cap Edits = {}
    /\ IsFiniteSet(Turns) /\ Cardinality(Turns) <= MaxDrafts

VARIABLES
    draft,      \* the proposal row of each draft
    history     \* its proposal_version rows, by version_ordinal

draftVars == <<draft, history>>

Drafts  == 1..MaxDrafts
NoDraft == 0
State   == {"absent", "active", "rejected", "applied"}
EndedBy == {"none", "planner", "assistant", "system"}
Author  == Turns \cup Edits
\* scenario is the pinned scenario version, applied the promoted ordinal.
Row     == [state: State, rv: Nat, endedBy: EndedBy, applied: Nat, scenario: Nat]
Version == [by: Author, base: Nat]

Absent == [state |-> "absent", rv |-> 0, endedBy |-> "none", applied |-> 0,
           scenario |-> 0]

DraftType ==
    /\ draft \in [Drafts -> Row]
    /\ history \in [Drafts -> Seq(Version)]

DraftInit ==
    /\ draft = [p \in Drafts |-> Absent]
    /\ history = [p \in Drafts |-> << >>]

\* The version_ordinal of the current version.
Ordinal(p) == Len(history[p])

\* get_working: the conversation's one active draft, if any.
Working ==
    IF \E p \in Drafts : draft[p].state = "active"
    THEN CHOOSE p \in Drafts : draft[p].state = "active"
    ELSE NoDraft

\* The id the next create_draft mints.
Fresh == CHOOSE p \in Drafts :
            /\ draft[p].state = "absent"
            /\ \A k \in 1..(p - 1) : draft[k].state # "absent"

\* The proposal row and the first version row, inserted together.
CreateDraft(row, author, pin) ==
    /\ draft' = [row EXCEPT ![Fresh] =
                    [Absent EXCEPT !.state = "active", !.rv = 1, !.scenario = pin]]
    /\ history' = [history EXCEPT ![Fresh] = <<[by |-> author, base |-> 0]>>]

\* append_revision and append_agent_version: one more version row, and the
\* resource version the caller computed from what it had read.
AppendVersion(p, author, base, rv) ==
    /\ draft' = [draft EXCEPT ![p].rv = rv]
    /\ history' = [history EXCEPT ![p] = Append(@, [by |-> author, base |-> base])]

\* reject (by the planner) and end_by_assistant.
Ended(p, who, rv) ==
    [draft EXCEPT ![p].state = "rejected", ![p].endedBy = who, ![p].rv = rv]

\* Mutant: a promotion also marks a draft that has ended.
MarkAppliedAny(p, v) ==
    /\ draft' = [draft EXCEPT ![p].state = "applied", ![p].endedBy = "system",
                              ![p].applied = v, ![p].rv = @ + 1]
    /\ UNCHANGED history

\* mark_applied: only an active draft; anything else matches no row.
MarkApplied(p, v) ==
    /\ draft' = IF draft[p].state = "active"
                THEN [draft EXCEPT ![p].state = "applied", ![p].endedBy = "system",
                                   ![p].applied = v, ![p].rv = @ + 1]
                ELSE draft
    /\ UNCHANGED history
=============================================================================
