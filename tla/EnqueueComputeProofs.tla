-------------------------- MODULE EnqueueComputeProofs --------------------------
(***************************************************************************)
(* Proofs about EnqueueCompute, for every set of commands, drafts and      *)
(* sites and every cap.                                                    *)
(*                                                                         *)
(* StartInvariant is inductive.  What a transaction read before its locks  *)
(* is still true under them: Locks says who holds what, Reviewed and       *)
(* Snapped that the draft cannot have moved since it was checked, and      *)
(* Counted that no run of the site became active since they were counted.  *)
(* Recorded ties a committed run to the stored reply of its key.           *)
(***************************************************************************)
EXTENDS EnqueueCompute, FiniteSetTheorems, TLAPS

\* The phases in which a transaction has the row lock of its draft, the advisory
\* lock of its site, and a count of the site's runs.
HoldsDraft  == {"locked", "queued", "counted", "snapped"}
HoldsSite   == {"queued", "counted", "snapped"}
HasCounted  == {"counted", "snapped"}

\* A lock is held by exactly the command whose phase says so.
Locks ==
    /\ \A c \in Commands :
          /\ pc[c] \in HoldsDraft => draftLock[DraftOf[c]] = c
          /\ pc[c] \in HoldsSite => siteLock[Site(c)] = c
    /\ \A d \in Drafts : draftLock[d] # NoOne =>
          DraftOf[draftLock[d]] = d /\ pc[draftLock[d]] \in HoldsDraft
    /\ \A s \in Sites : siteLock[s] # NoOne =>
          Site(siteLock[s]) = s /\ pc[siteLock[s]] \in HoldsSite

\* Under its lock the draft is the one the planner reviewed, and no reply is
\* stored for the key.
Reviewed ==
    \A c \in Commands : pc[c] \in HoldsDraft =>
        /\ draft[DraftOf[c]].state = "active"
        /\ draft[DraftOf[c]].rv = ExpectedOf[c]
        /\ Slot(c) \notin DOMAIN replay

\* A pinned run holds what the draft still says.
Snapped ==
    \A c \in Commands : pc[c] = "snapped" =>
        /\ run[c].status = "absent" /\ run[c].rv = ExpectedOf[c]
        /\ run[c].context = draft[DraftOf[c]].context

\* The place a command counted is still free when it inserts its run.
Counted ==
    /\ SiteCapHeld
    /\ \A c \in Commands : pc[c] \in HasCounted => Cardinality(ActiveRuns(Site(c))) < Cap

\* A committed run is the one the stored reply of its key names.
Recorded ==
    \A c \in Commands :
        /\ run[c].status # "absent" =>
              /\ Slot(c) \in DOMAIN replay
              /\ replay[Slot(c)] = [body |-> Body(c), run |-> c]
        /\ pc[c] = "done" => run[c].status # "absent"

StartInvariant == TypeOK /\ Locks /\ Reviewed /\ Snapped /\ Counted /\ Recorded

-----------------------------------------------------------------------------
(* Types.                                                                    *)

\* What the constants say of a command.
LEMMA CommandFacts ==
    ASSUME NEW c \in Commands
    PROVE  /\ DraftOf[c] \in Drafts /\ Site(c) \in Sites
           /\ ExpectedOf[c] \in Nat /\ c # NoOne
  BY EnqueueAssumption DEF Site

\* Ending a transaction keeps the lock tables in their types.
LEMMA ReleaseTypes ==
    ASSUME TypeOK, NEW c \in Commands, Release(c)
    PROVE  /\ draftLock' \in [Drafts -> Commands \cup {NoOne}]
           /\ siteLock' \in [Sites -> Commands \cup {NoOne}]
  BY DEF TypeOK, Release

\* A refusal of the start command keeps the types.
LEMMA RefuseTypes ==
    ASSUME TypeOK, NEW c \in Commands, NEW code \in Refusals, Refuse(c, code)
    PROVE  TypeOK'
  <1>1. reply' \in [Commands -> [code: Refusals \cup {"none", "accepted"},
                                 run: Commands \cup {NoOne}]]
    BY DEF TypeOK, Refuse
  <1>2. pc' \in [Commands -> Phases]
    BY DEF TypeOK, Refuse, Phases
  <1>3. UNCHANGED <<draft, context, run, replay, sends>> /\ Release(c)
    BY DEF Refuse
  <1> QED
    BY <1>1, <1>2, <1>3, ReleaseTypes DEF TypeOK

\* Every step of enqueue_compute and of what goes on beside it keeps the types.
LEMMA StepTypes ==
    ASSUME TypeOK, [Next]_vars
    PROVE  TypeOK'
  <1>1. ASSUME NEW c \in Commands, Validate(c)
        PROVE  TypeOK'
    <2>1. sends' \in [Commands -> 0..MaxSends]
      BY <1>1, EnqueueAssumption DEF Validate, TypeOK
    <2>2. pc' \in [Commands -> Phases]
      BY <1>1 DEF Validate, TypeOK, Phases
    <2>3. reply' \in [Commands -> [code: Refusals \cup {"none", "accepted"},
                                   run: Commands \cup {NoOne}]]
      BY <1>1 DEF Validate, TypeOK, Refusals
    <2> QED
      BY <1>1, <2>1, <2>2, <2>3 DEF Validate, TypeOK
  <1>2. ASSUME NEW c \in Commands, AnswerReplay(c)
        PROVE  TypeOK'
    <2>1. replay[Slot(c)].run \in Commands
      BY <1>2 DEF AnswerReplay, TypeOK
    <2>2. reply' \in [Commands -> [code: Refusals \cup {"none", "accepted"},
                                   run: Commands \cup {NoOne}]]
      BY <1>2, <2>1 DEF AnswerReplay, TypeOK, Refusals
    <2>3. pc' \in [Commands -> Phases]
      BY <1>2 DEF AnswerReplay, TypeOK, Phases
    <2> QED
      BY <1>2, <2>2, <2>3 DEF AnswerReplay, TypeOK
  <1>3. ASSUME NEW c \in Commands, RefuseProposal(c)
        PROVE  TypeOK'
    BY <1>3, RefuseTypes DEF RefuseProposal, EnqueueRefusal, Refusals
  <1>4. ASSUME NEW c \in Commands, HoldProposal(c)
        PROVE  TypeOK'
    <2>1. draftLock' \in [Drafts -> Commands \cup {NoOne}] /\ pc' \in [Commands -> Phases]
      BY <1>4, CommandFacts DEF HoldProposal, LockProposal, TypeOK, Phases
    <2> QED
      BY <1>4, <2>1 DEF HoldProposal, TypeOK
  <1>5. ASSUME NEW c \in Commands, AcquireSiteEnqueueLock(c)
        PROVE  TypeOK'
    <2>1. siteLock' \in [Sites -> Commands \cup {NoOne}] /\ pc' \in [Commands -> Phases]
      BY <1>5, CommandFacts DEF AcquireSiteEnqueueLock, TypeOK, Phases
    <2> QED
      BY <1>5, <2>1 DEF AcquireSiteEnqueueLock, TypeOK
  <1>6. ASSUME NEW c \in Commands, CountRuns(c)
        PROVE  TypeOK'
    <2>1. CASE Refuse(c, "site_concurrency_exhausted")
      BY <2>1, RefuseTypes DEF Refusals
    <2>2. CASE ~Refuse(c, "site_concurrency_exhausted")
      BY <1>6, <2>2 DEF CountRuns, TypeOK, Phases
    <2> QED
      BY <2>1, <2>2
  <1>7. ASSUME NEW c \in Commands, NEW readable \in BOOLEAN, Snapshot(c, readable)
        PROVE  TypeOK'
    <2>1. CASE Refuse(c, "scenario_unavailable") \/ Refuse(c, "stale_proposal")
      BY <2>1, RefuseTypes DEF Refusals
    <2>2. CASE ~(Refuse(c, "scenario_unavailable") \/ Refuse(c, "stale_proposal"))
      <3>1. draft[DraftOf[c]].rv \in 0..MaxVersion /\ context[Site(c)] \in 0..MaxContext
        BY CommandFacts DEF TypeOK
      <3>2. run' \in [Commands -> [status: {"absent", "active", "ended"},
                                   rv: 0..MaxVersion, context: 0..MaxContext]]
        BY <1>7, <2>2, <3>1, SMTT(30) DEF Snapshot, TypeOK
      <3> QED
        BY <1>7, <2>2, <3>2 DEF Snapshot, TypeOK, Phases
    <2> QED
      BY <2>1, <2>2
  <1>8. ASSUME NEW c \in Commands, Insert(c)
        PROVE  TypeOK'
    <2>1. run' \in [Commands -> [status: {"absent", "active", "ended"},
                                 rv: 0..MaxVersion, context: 0..MaxContext]]
      BY <1>8 DEF Insert, TypeOK
    <2>2. \A s \in DOMAIN replay' : replay'[s].run \in Commands
      BY <1>8 DEF Insert, TypeOK
    <2>3. pc' \in [Commands -> Phases] /\ Release(c)
      BY <1>8 DEF Insert, TypeOK, Phases
    <2> QED
      BY <1>8, <2>1, <2>2, <2>3, ReleaseTypes DEF Insert, TypeOK
  <1>9. ASSUME NEW c \in Commands, Respond(c)
        PROVE  TypeOK'
    BY <1>9 DEF Respond, TypeOK, Phases
  <1>10. ASSUME NEW c \in Commands, Lose(c)
         PROVE  TypeOK'
    <2>1. run' \in [Commands -> [status: {"absent", "active", "ended"},
                                 rv: 0..MaxVersion, context: 0..MaxContext]]
      BY <1>10, EnqueueAssumption DEF Lose, TypeOK, NoRun
    <2>2. pc' \in [Commands -> Phases] /\ Release(c)
      BY <1>10 DEF Lose, TypeOK, Phases
    <2> QED
      BY <1>10, <2>1, <2>2, ReleaseTypes DEF Lose, TypeOK
  <1>11. ASSUME NEW c \in Commands, EndRun(c)
         PROVE  TypeOK'
    BY <1>11 DEF EndRun, TypeOK
  <1>12. ASSUME NEW d \in Drafts, Revise(d)
         PROVE  TypeOK'
    <2>1. context[SiteOf[d]] \in 1..MaxContext
      BY EnqueueAssumption DEF TypeOK
    <2>2. PICK k \in 1..MaxContext :
             draft' = [draft EXCEPT ![d].rv = @ + 1, ![d].context = k]
      BY <1>12, <2>1 DEF Revise, TypeOK
    <2>3. draft' = [draft EXCEPT ![d] = [[draft[d] EXCEPT !.rv = @ + 1]
                                            EXCEPT !.context = k]]
      BY <2>2 DEF TypeOK
    <2>4. draft[d].rv + 1 \in 1..MaxVersion
      BY <1>12, EnqueueAssumption DEF Revise, TypeOK
    <2>5. draft' \in [Drafts -> [state: {"active", "rejected", "applied"},
                                 rv: 1..MaxVersion, context: 1..MaxContext]]
      BY <2>3, <2>4, ZenonT(30) DEF TypeOK
    <2> QED
      BY <1>12, <2>5 DEF Revise, TypeOK
  <1>13. ASSUME NEW d \in Drafts, EndDraft(d)
         PROVE  TypeOK'
    BY <1>13, EnqueueAssumption DEF EndDraft, TypeOK
  <1>14. ASSUME NEW s \in Sites, MoveContext(s)
         PROVE  TypeOK'
    BY <1>14, EnqueueAssumption DEF MoveContext, TypeOK
  <1>15. CASE UNCHANGED vars
    BY <1>15 DEF vars, TypeOK
  <1> QED
    BY <1>1, <1>2, <1>3, <1>4, <1>5, <1>6, <1>7, <1>8, <1>9, <1>10, <1>11, <1>12,
       <1>13, <1>14, <1>15 DEF Next, Command

-----------------------------------------------------------------------------
(* What a step changes.  A command's step leaves every other command where it *)
(* is; it stays, gains a lock, or ends its transaction.                      *)

\* The transaction of c ends, at a refusal, at the commit or at a crash.
Leaves(c) ==
    /\ \E p \in {"idle", "done"} : pc' = [pc EXCEPT ![c] = p]
    /\ Release(c) /\ UNCHANGED draft

\* c moves on, or is answered, with the locks it has.
Stays(c) ==
    /\ \E p \in Phases :
          /\ pc' = [pc EXCEPT ![c] = p]
          /\ p \in HoldsDraft <=> pc[c] \in HoldsDraft
          /\ p \in HoldsSite <=> pc[c] \in HoldsSite
    /\ UNCHANGED <<draftLock, siteLock, draft>>

\* The steps of a command, by what they do to the locks.
LEMMA CommandMoves ==
    ASSUME TypeOK, NEW c \in Commands, Command(c) \/ Lose(c)
    PROVE  \/ Leaves(c)
           \/ Stays(c)
           \/ HoldProposal(c)
           \/ AcquireSiteEnqueueLock(c)
  <1>1. CASE Validate(c) \/ AnswerReplay(c) \/ Respond(c)
    <2>1. Stays(c)
      <3>1. CASE Validate(c)
        <4>1. pc' = [pc EXCEPT ![c] = "sent"] \/ pc' = [pc EXCEPT ![c] = "idle"]
          BY <3>1 DEF Validate, TypeOK
        <4> QED
          BY <3>1, <4>1 DEF Validate, Stays, Phases, HoldsDraft, HoldsSite
      <3>2. CASE AnswerReplay(c) \/ Respond(c)
        BY <3>2 DEF AnswerReplay, Respond, Stays, Phases, HoldsDraft, HoldsSite
      <3> QED
        BY <1>1, <3>1, <3>2
    <2> QED
      BY <2>1
  <1>2. CASE RefuseProposal(c) \/ Insert(c) \/ Lose(c)
    BY <1>2 DEF RefuseProposal, Refuse, Insert, Lose, Leaves
  <1>3. CASE CountRuns(c)
    BY <1>3 DEF CountRuns, Refuse, Leaves, Stays, Phases, HoldsDraft, HoldsSite
  <1>4. ASSUME NEW b \in BOOLEAN, Snapshot(c, b)
        PROVE  Leaves(c) \/ Stays(c)
    BY <1>4 DEF Snapshot, Refuse, Leaves, Stays, Phases, HoldsDraft, HoldsSite
  <1> QED
    BY <1>1, <1>2, <1>3, <1>4 DEF Command

\* Row locks and advisory locks belong to open transactions: nothing is left
\* locked by a command that was refused, committed or lost.
LEMMA StepLocks ==
    ASSUME TypeOK, Locks, [Next]_vars
    PROVE  Locks'
  <1>1. ASSUME NEW c \in Commands, Leaves(c)
        PROVE  Locks'
    <2>1. pc'[c] \in {"idle", "done"} /\ \A k \in Commands \ {c} : pc'[k] = pc[k]
      BY <1>1 DEF Leaves, TypeOK
    <2>2. \A d \in Drafts : draftLock'[d] = IF draftLock[d] = c THEN NoOne ELSE draftLock[d]
      BY <1>1 DEF Leaves, Release
    <2>3. \A s \in Sites : siteLock'[s] = IF siteLock[s] = c THEN NoOne ELSE siteLock[s]
      BY <1>1 DEF Leaves, Release
    <2>4. \A k \in Commands :
             /\ pc'[k] \in HoldsDraft => draftLock'[DraftOf[k]] = k
             /\ pc'[k] \in HoldsSite => siteLock'[Site(k)] = k
      BY <2>1, <2>2, <2>3, CommandFacts DEF Locks, HoldsDraft, HoldsSite
    <2>5. \A d \in Drafts : draftLock'[d] # NoOne =>
             DraftOf[draftLock'[d]] = d /\ pc'[draftLock'[d]] \in HoldsDraft
      BY <2>1, <2>2 DEF Locks, TypeOK
    <2>6. \A s \in Sites : siteLock'[s] # NoOne =>
             Site(siteLock'[s]) = s /\ pc'[siteLock'[s]] \in HoldsSite
      BY <2>1, <2>3 DEF Locks, TypeOK
    <2> QED
      BY <2>4, <2>5, <2>6 DEF Locks, Site
  <1>2. ASSUME NEW c \in Commands, Stays(c)
        PROVE  Locks'
    BY <1>2 DEF Stays, Locks, TypeOK, Site
  <1>3. ASSUME NEW c \in Commands, HoldProposal(c)
        PROVE  Locks'
    <2>1. \A k \in Commands : pc'[k] = IF k = c THEN "locked" ELSE pc[k]
      BY <1>3 DEF HoldProposal, TypeOK
    <2>2. \A d \in Drafts : draftLock'[d] = IF d = DraftOf[c] THEN c ELSE draftLock[d]
      BY <1>3 DEF HoldProposal, LockProposal, TypeOK
    <2>3. draftLock[DraftOf[c]] = NoOne /\ siteLock' = siteLock /\ pc[c] = "sent"
      BY <1>3 DEF HoldProposal, LockProposal
    <2>4. \A k \in Commands :
             /\ pc'[k] \in HoldsDraft => draftLock'[DraftOf[k]] = k
             /\ pc'[k] \in HoldsSite => siteLock'[Site(k)] = k
      BY <2>1, <2>2, <2>3, CommandFacts DEF Locks, HoldsDraft, HoldsSite
    <2>5. \A d \in Drafts : draftLock'[d] # NoOne =>
             DraftOf[draftLock'[d]] = d /\ pc'[draftLock'[d]] \in HoldsDraft
      BY <2>1, <2>2 DEF Locks, TypeOK, HoldsDraft
    <2>6. \A s \in Sites : siteLock'[s] # NoOne =>
             Site(siteLock'[s]) = s /\ pc'[siteLock'[s]] \in HoldsSite
      BY <2>1, <2>3 DEF Locks, TypeOK, HoldsSite
    <2> QED
      BY <2>4, <2>5, <2>6 DEF Locks, Site
  <1>4. ASSUME NEW c \in Commands, AcquireSiteEnqueueLock(c)
        PROVE  Locks'
    <2>1. \A k \in Commands : pc'[k] = IF k = c THEN "queued" ELSE pc[k]
      BY <1>4 DEF AcquireSiteEnqueueLock, TypeOK
    <2>2. \A s \in Sites : siteLock'[s] = IF s = Site(c) THEN c ELSE siteLock[s]
      BY <1>4 DEF AcquireSiteEnqueueLock, TypeOK
    <2>3. siteLock[Site(c)] = NoOne /\ draftLock' = draftLock /\ pc[c] = "locked"
      BY <1>4 DEF AcquireSiteEnqueueLock
    <2>4. \A k \in Commands :
             /\ pc'[k] \in HoldsDraft => draftLock'[DraftOf[k]] = k
             /\ pc'[k] \in HoldsSite => siteLock'[Site(k)] = k
      BY <2>1, <2>2, <2>3, CommandFacts DEF Locks, HoldsDraft, HoldsSite
    <2>5. \A d \in Drafts : draftLock'[d] # NoOne =>
             DraftOf[draftLock'[d]] = d /\ pc'[draftLock'[d]] \in HoldsDraft
      BY <2>1, <2>3 DEF Locks, TypeOK, HoldsDraft
    <2>6. \A s \in Sites : siteLock'[s] # NoOne =>
             Site(siteLock'[s]) = s /\ pc'[siteLock'[s]] \in HoldsSite
      BY <2>1, <2>2 DEF Locks, TypeOK, HoldsSite
    <2> QED
      BY <2>4, <2>5, <2>6 DEF Locks, Site
  <1>5. CASE UNCHANGED <<pc, draftLock, siteLock>>
    BY <1>5 DEF Locks, Site
  <1> QED
    BY <1>1, <1>2, <1>3, <1>4, <1>5, CommandMoves DEF Next, vars, EndRun, Revise, EndDraft, MoveContext

-----------------------------------------------------------------------------
(* What the locks protect.                                                   *)

\* The draft a transaction locked does not move until it ends, and no other
\* command of the key commits a reply meanwhile.
LEMMA StepReviewed ==
    ASSUME TypeOK, Locks, Reviewed, [Next]_vars
    PROVE  Reviewed'
  <1>1. ASSUME NEW c \in Commands, Command(c) \/ Lose(c), ~Insert(c)
        PROVE  Reviewed'
    <2>1. UNCHANGED <<draft, replay>>
      BY <1>1 DEF Command, Lose, Validate, AnswerReplay, RefuseProposal, Refuse, HoldProposal,
                  AcquireSiteEnqueueLock, CountRuns, Snapshot, Respond
    <2>2. CASE HoldProposal(c)
      <3>1. \A k \in Commands : pc'[k] = IF k = c THEN "locked" ELSE pc[k]
        BY <2>2 DEF HoldProposal, TypeOK
      <3>2. /\ draft[DraftOf[c]].state = "active"
            /\ draft[DraftOf[c]].rv = ExpectedOf[c]
            /\ Slot(c) \notin DOMAIN replay
        BY <2>2, CommandFacts DEF HoldProposal, EnqueueRefusal, TypeOK
      <3> QED
        BY <2>1, <3>1, <3>2 DEF Reviewed, Slot
    <2>3. CASE ~HoldProposal(c)
      <3>1. \A k \in Commands : pc'[k] \in HoldsDraft => pc[k] \in HoldsDraft
        BY <1>1, <2>3, CommandMoves
           DEF Leaves, Stays, AcquireSiteEnqueueLock, TypeOK, HoldsDraft
      <3> QED
        BY <2>1, <3>1 DEF Reviewed, Slot
    <2> QED
      BY <2>2, <2>3
  <1>2. ASSUME NEW c \in Commands, Insert(c)
        PROVE  Reviewed'
    <2>1. \A k \in Commands : pc'[k] = IF k = c THEN "done" ELSE pc[k]
      BY <1>2 DEF Insert, TypeOK
    <2>2. DOMAIN replay' = DOMAIN replay \cup {Slot(c)} /\ UNCHANGED draft
      BY <1>2 DEF Insert
    <2>3. ASSUME NEW k \in Commands, pc'[k] \in HoldsDraft
          PROVE  Slot(k) # Slot(c) /\ pc[k] \in HoldsDraft
      BY <1>2, <2>1, <2>3, CommandFacts DEF Insert, Locks, Slot, HoldsDraft
    <2> QED
      BY <2>2, <2>3 DEF Reviewed, Slot
  <1>3. ASSUME NEW d \in Drafts, Revise(d) \/ EndDraft(d)
        PROVE  Reviewed'
    <2>1. \A e \in Drafts \ {d} : draft'[e] = draft[e]
      BY <1>3 DEF Revise, EndDraft, TypeOK
    <2>2. UNCHANGED <<pc, replay>> /\ draftLock[d] = NoOne
      BY <1>3 DEF Revise, EndDraft
    <2>3. \A k \in Commands : pc[k] \in HoldsDraft => DraftOf[k] # d
      BY <2>2, CommandFacts DEF Locks
    <2> QED
      BY <2>1, <2>2, <2>3, CommandFacts DEF Reviewed, Slot
  <1>4. CASE UNCHANGED <<pc, draft, replay>>
    BY <1>4 DEF Reviewed, Slot
  <1> QED
    BY <1>1, <1>2, <1>3, <1>4 DEF Next, vars, EndRun, MoveContext, Command

\* A committed run is stored under its key; a run not yet committed is the
\* transaction's own.
LEMMA StepRecorded ==
    ASSUME TypeOK, Reviewed, Snapped, Recorded, [Next]_vars
    PROVE  Recorded'
  <1>1. ASSUME NEW c \in Commands, Insert(c)
        PROVE  Recorded'
    <2>1. pc[c] = "snapped" /\ Slot(c) \notin DOMAIN replay
      BY <1>1 DEF Insert, Reviewed, HoldsDraft
    <2>2. /\ DOMAIN replay' = DOMAIN replay \cup {Slot(c)}
          /\ replay'[Slot(c)] = [body |-> Body(c), run |-> c]
          /\ \A s \in DOMAIN replay : replay'[s] = replay[s]
      BY <1>1, <2>1 DEF Insert
    <2>3. \A k \in Commands : pc'[k] = IF k = c THEN "done" ELSE pc[k]
      BY <1>1 DEF Insert, TypeOK
    <2>4. \A k \in Commands : run'[k].status = IF k = c THEN "active" ELSE run[k].status
      BY <1>1 DEF Insert, TypeOK
    <2> QED
      BY <2>2, <2>3, <2>4 DEF Recorded, Slot, Body
  <1>2. ASSUME NEW c \in Commands, Command(c), ~Insert(c)
        PROVE  Recorded'
    <2>1. UNCHANGED replay
      BY <1>2 DEF Command, Validate, AnswerReplay, RefuseProposal, Refuse, HoldProposal,
                  AcquireSiteEnqueueLock, CountRuns, Snapshot, Respond
    <2>2. \A k \in Commands : run'[k].status = run[k].status
      <3>1. ASSUME NEW b \in BOOLEAN, Snapshot(c, b)
            PROVE  \A k \in Commands : run'[k].status = run[k].status
        BY <3>1, SMTT(30) DEF Snapshot, Refuse, TypeOK
      <3>2. CASE UNCHANGED run
        BY <3>2
      <3> QED
        BY <1>2, <3>1, <3>2
           DEF Command, Validate, AnswerReplay, RefuseProposal, Refuse, HoldProposal,
               AcquireSiteEnqueueLock, CountRuns, Respond
    <2>3. \A k \in Commands : pc'[k] = "done" => pc[k] = "done"
      BY <1>2 DEF Command, Validate, AnswerReplay, RefuseProposal, Refuse, HoldProposal,
                  AcquireSiteEnqueueLock, CountRuns, Snapshot, Respond, TypeOK
    <2> QED
      BY <2>1, <2>2, <2>3 DEF Recorded, Slot, Body
  <1>3. ASSUME NEW c \in Commands, Lose(c)
        PROVE  Recorded'
    <2>1. \A k \in Commands : pc'[k] = IF k = c THEN "idle" ELSE pc[k]
      BY <1>3 DEF Lose, TypeOK
    <2>2. \A k \in Commands : run'[k].status = run[k].status
      BY <1>3 DEF Lose, TypeOK, NoRun, Snapped
    <2> QED
      BY <1>3, <2>1, <2>2 DEF Lose, Recorded, Slot, Body
  <1>4. ASSUME NEW c \in Commands, EndRun(c)
        PROVE  Recorded'
    <2>1. \A k \in Commands : run'[k].status = "absent" <=> run[k].status = "absent"
      BY <1>4 DEF EndRun, TypeOK
    <2> QED
      BY <1>4, <2>1 DEF EndRun, Recorded, Slot, Body
  <1>5. CASE UNCHANGED <<pc, run, replay>>
    BY <1>5 DEF Recorded, Slot, Body
  <1> QED
    BY <1>1, <1>2, <1>3, <1>4, <1>5 DEF Next, vars, Revise, EndDraft, MoveContext, Command

\* What create_run_snapshot pinned stays what the draft says until the commit.
LEMMA StepSnapped ==
    ASSUME TypeOK, Locks, Reviewed, Snapped, Recorded, [Next]_vars
    PROVE  Snapped'
  <1>1. ASSUME NEW c \in Commands, NEW b \in BOOLEAN, Snapshot(c, b)
        PROVE  Snapped'
    <2>1. CASE Refuse(c, "scenario_unavailable") \/ Refuse(c, "stale_proposal")
      <3>1. \A k \in Commands : pc'[k] = "snapped" => pc[k] = "snapped"
        BY <2>1 DEF Refuse, TypeOK
      <3> QED
        BY <2>1, <3>1 DEF Snapped, Refuse
    <2>2. CASE ~(Refuse(c, "scenario_unavailable") \/ Refuse(c, "stale_proposal"))
      <3>1. /\ pc[c] = "counted" /\ pc' = [pc EXCEPT ![c] = "snapped"]
            /\ draft[DraftOf[c]].context = context[Site(c)]
            /\ run' = [run EXCEPT ![c].rv = draft[DraftOf[c]].rv,
                                  ![c].context = context[Site(c)]]
            /\ UNCHANGED draft
        BY <1>1, <2>2 DEF Snapshot
      <3>2. run[c].status = "absent" /\ draft[DraftOf[c]].rv = ExpectedOf[c]
        BY <3>1 DEF Reviewed, Recorded, HoldsDraft
      <3>3. \A k \in Commands \ {c} : run'[k] = run[k] /\ pc'[k] = pc[k]
        BY <3>1 DEF TypeOK
      <3>4. /\ run'[c].status = run[c].status
            /\ run'[c].rv = draft[DraftOf[c]].rv
            /\ run'[c].context = context[Site(c)]
        BY <3>1 DEF TypeOK
      <3> QED
        BY <3>1, <3>2, <3>3, <3>4, ZenonT(30) DEF Snapped
    <2> QED
      BY <2>1, <2>2
  <1>2. ASSUME NEW c \in Commands, Command(c) \/ Lose(c) \/ EndRun(c),
               ~ \E b \in BOOLEAN : Snapshot(c, b)
        PROVE  Snapped'
    <2>1. \A k \in Commands : pc'[k] = "snapped" => pc[k] = "snapped" /\ run'[k] = run[k]
      <3>1. CASE Insert(c)
        BY <3>1 DEF Insert, TypeOK
      <3>2. CASE Lose(c)
        BY <3>2 DEF Lose, TypeOK
      <3>3. CASE EndRun(c)
        BY <3>3 DEF EndRun, TypeOK, Snapped
      <3>4. CASE UNCHANGED run /\ Command(c)
        BY <1>2, <3>4
           DEF Command, Validate, AnswerReplay, RefuseProposal, Refuse, HoldProposal, Insert,
               AcquireSiteEnqueueLock, CountRuns, Respond, TypeOK
      <3> QED
        BY <1>2, <3>1, <3>2, <3>3, <3>4
           DEF Command, Validate, AnswerReplay, RefuseProposal, Refuse, HoldProposal,
               AcquireSiteEnqueueLock, CountRuns, Respond
    <2>2. UNCHANGED draft
      BY <1>2 DEF Command, Validate, AnswerReplay, RefuseProposal, Refuse, HoldProposal,
                  AcquireSiteEnqueueLock, CountRuns, Respond, Insert, Lose, EndRun
    <2> QED
      BY <2>1, <2>2 DEF Snapped
  <1>3. ASSUME NEW d \in Drafts, Revise(d) \/ EndDraft(d)
        PROVE  Snapped'
    <2>1. \A e \in Drafts \ {d} : draft'[e] = draft[e]
      BY <1>3 DEF Revise, EndDraft, TypeOK
    <2>2. UNCHANGED <<pc, run>> /\ draftLock[d] = NoOne
      BY <1>3 DEF Revise, EndDraft
    <2>3. \A k \in Commands : pc[k] = "snapped" => DraftOf[k] # d
      BY <2>2, CommandFacts DEF Locks, HoldsDraft
    <2> QED
      BY <2>1, <2>2, <2>3, CommandFacts DEF Snapped
  <1>4. CASE UNCHANGED <<pc, draft, run>>
    BY <1>4 DEF Snapped
  <1> QED
    BY <1>1, <1>2, <1>3, <1>4 DEF Next, vars, MoveContext

\* The runs of a site can be counted, and fewer active runs never count more.
LEMMA ActiveFacts ==
    ASSUME NEW s \in Sites
    PROVE  /\ IsFiniteSet(ActiveRuns(s)) /\ Cardinality(ActiveRuns(s)) \in Nat
           /\ ActiveRuns(s)' \subseteq ActiveRuns(s) =>
                 /\ Cardinality(ActiveRuns(s)') \in Nat
                 /\ Cardinality(ActiveRuns(s)') <= Cardinality(ActiveRuns(s))
  <1>1. ActiveRuns(s) \in SUBSET Commands
    BY DEF ActiveRuns
  <1>2. IsFiniteSet(ActiveRuns(s))
    BY <1>1, FS_Subset, EnqueueAssumption
  <1>3. Cardinality(ActiveRuns(s)) \in Nat
    BY <1>2, FS_CardinalityType
  <1>4. ASSUME ActiveRuns(s)' \subseteq ActiveRuns(s)
        PROVE  /\ Cardinality(ActiveRuns(s)') \in Nat
               /\ Cardinality(ActiveRuns(s)') <= Cardinality(ActiveRuns(s))
    BY <1>2, <1>4, FS_Subset, FS_CardinalityType
  <1> QED
    BY <1>2, <1>3, <1>4

\* The count taken under the advisory lock is good until the run is inserted:
\* only the holder of the site's lock makes a run of the site active.
LEMMA StepCounted ==
    ASSUME TypeOK, Locks, Snapped, Counted, [Next]_vars
    PROVE  Counted'
  <1>1. ASSUME NEW c \in Commands, Insert(c)
        PROVE  Counted'
    <2>1. \A k \in Commands : pc'[k] = IF k = c THEN "done" ELSE pc[k]
      BY <1>1 DEF Insert, TypeOK
    <2>2. \A k \in Commands : run'[k].status = IF k = c THEN "active" ELSE run[k].status
      BY <1>1 DEF Insert, TypeOK
    <2>3. \A s \in Sites \ {Site(c)} : ActiveRuns(s)' = ActiveRuns(s)
      BY <2>2 DEF ActiveRuns, Site
    <2>4. ActiveRuns(Site(c))' = ActiveRuns(Site(c)) \cup {c}
      BY <2>2 DEF ActiveRuns, Site
    <2>5. Cardinality(ActiveRuns(Site(c))) < Cap /\ Cardinality(ActiveRuns(Site(c))) \in Nat
      BY <1>1, ActiveFacts, CommandFacts DEF Counted, Insert, HasCounted
    <2>6. Cardinality(ActiveRuns(Site(c))') <= Cardinality(ActiveRuns(Site(c))) + 1
      <3>1. IsFiniteSet(ActiveRuns(Site(c)))
        BY ActiveFacts, CommandFacts
      <3>2. Cardinality(ActiveRuns(Site(c)) \cup {c}) =
               IF c \in ActiveRuns(Site(c)) THEN Cardinality(ActiveRuns(Site(c)))
               ELSE Cardinality(ActiveRuns(Site(c))) + 1
        BY <3>1, FS_AddElement
      <3> QED
        BY <2>4, <2>5, <3>2
    <2>7. Cardinality(ActiveRuns(Site(c))') \in Nat
      BY <2>4, ActiveFacts, CommandFacts, FS_AddElement, FS_CardinalityType
    <2>8. SiteCapHeld'
      <3>1. ASSUME NEW s \in Sites
            PROVE  Cardinality(ActiveRuns(s)') <= Cap
        <4>1. CASE s = Site(c)
          BY <2>5, <2>6, <2>7, <4>1, EnqueueAssumption
        <4>2. CASE s # Site(c)
          BY <2>3, <4>2 DEF Counted, SiteCapHeld
        <4> QED
          BY <4>1, <4>2
      <3> QED
        BY <3>1 DEF SiteCapHeld
    <2>9. ASSUME NEW k \in Commands, pc'[k] \in HasCounted
          PROVE  Cardinality(ActiveRuns(Site(k))') < Cap
      <3>1. k # c /\ pc[k] \in HasCounted
        BY <2>1, <2>9 DEF HasCounted
      <3>2. siteLock[Site(k)] = k /\ siteLock[Site(c)] = c
        BY <1>1, <3>1 DEF Locks, Insert, HasCounted, HoldsSite
      <3>3. Site(k) \in Sites \ {Site(c)}
        BY <3>1, <3>2, CommandFacts
      <3> QED
        BY <2>3, <3>1, <3>3 DEF Counted
    <2> QED
      BY <2>8, <2>9 DEF Counted, Site
  <1>2. ASSUME \A k \in Commands : run'[k].status = "active" => run[k].status = "active",
               \A k \in Commands : pc'[k] \in HasCounted =>
                   Cardinality(ActiveRuns(Site(k))) < Cap
        PROVE  Counted'
    <2>1. \A s \in Sites : ActiveRuns(s)' \subseteq ActiveRuns(s)
      BY <1>2 DEF ActiveRuns, Site
    <2>2. \A s \in Sites : /\ Cardinality(ActiveRuns(s)) \in Nat
                           /\ Cardinality(ActiveRuns(s)') \in Nat
                           /\ Cardinality(ActiveRuns(s)') <= Cardinality(ActiveRuns(s))
      BY <2>1, ActiveFacts
    <2>3. SiteCapHeld'
      BY <2>2, EnqueueAssumption DEF Counted, SiteCapHeld
    <2>4. ASSUME NEW k \in Commands, pc'[k] \in HasCounted
          PROVE  Cardinality(ActiveRuns(Site(k))') < Cap
      BY <1>2, <2>2, <2>4, CommandFacts, EnqueueAssumption
    <2> QED
      BY <2>3, <2>4 DEF Counted, Site
  <1>3. ASSUME NEW c \in Commands, Command(c) \/ Lose(c) \/ EndRun(c), ~Insert(c)
        PROVE  Counted'
    <2>1. \A k \in Commands : run'[k].status = "active" => run[k].status = "active"
      <3>1. ASSUME NEW b \in BOOLEAN, Snapshot(c, b)
            PROVE  \A k \in Commands : run'[k].status = run[k].status
        BY <3>1, SMTT(30) DEF Snapshot, Refuse, TypeOK
      <3>2. CASE Lose(c) \/ EndRun(c)
        BY <3>2 DEF Lose, EndRun, TypeOK, NoRun
      <3>3. CASE UNCHANGED run
        BY <3>3
      <3> QED
        BY <1>3, <3>1, <3>2, <3>3
           DEF Command, Validate, AnswerReplay, RefuseProposal, Refuse, HoldProposal,
               AcquireSiteEnqueueLock, CountRuns, Respond
    <2>2. CASE CountRuns(c)
      <3>1. \A k \in Commands \ {c} : pc'[k] = pc[k]
        BY <2>2 DEF CountRuns, Refuse, TypeOK
      <3>2. pc'[c] \in HasCounted => ~(Cardinality(ActiveRuns(Site(c))) >= Cap)
        BY <2>2 DEF CountRuns, Refuse, TypeOK, HasCounted
      <3>3. pc'[c] \in HasCounted => Cardinality(ActiveRuns(Site(c))) < Cap
        BY <3>2, ActiveFacts, CommandFacts, EnqueueAssumption
      <3> QED
        BY <1>2, <2>1, <3>1, <3>3 DEF Counted
    <2>3. CASE ~CountRuns(c)
      <3>1. \A k \in Commands : pc'[k] \in HasCounted => pc[k] \in HasCounted
        BY <1>3, <2>3
           DEF Command, Validate, AnswerReplay, RefuseProposal, Refuse, HoldProposal,
               AcquireSiteEnqueueLock, Snapshot, Respond, Lose, EndRun, TypeOK, HasCounted
      <3> QED
        BY <1>2, <2>1, <3>1 DEF Counted
    <2> QED
      BY <2>2, <2>3
  <1>4. CASE UNCHANGED <<pc, run>>
    BY <1>2, <1>4 DEF Counted
  <1> QED
    BY <1>1, <1>3, <1>4 DEF Next, vars, Revise, EndDraft, MoveContext, Command

-----------------------------------------------------------------------------
(* The theorems.                                                             *)

\* The invariant is kept by every step, of every command and of everyone else.
LEMMA Inductive ==
    ASSUME StartInvariant, [Next]_vars
    PROVE  StartInvariant'
  BY StepTypes, StepLocks, StepReviewed, StepSnapped, StepCounted, StepRecorded
     DEF StartInvariant

\* No command has been sent, nothing is locked, counted or stored.
LEMMA Initial ==
    ASSUME Init
    PROVE  StartInvariant
  <1>1. TypeOK
    BY EnqueueAssumption DEF Init, TypeOK, NoRun, NoReply, Phases
  <1>2. \A c \in Commands : pc[c] = "idle" /\ run[c].status = "absent"
    BY DEF Init, NoRun
  <1>3. Locks
    BY <1>2 DEF Init, Locks, HoldsDraft, HoldsSite
  <1>4. Reviewed /\ Snapped /\ Recorded
    BY <1>2 DEF Reviewed, Snapped, Recorded, HoldsDraft
  <1>5. \A s \in Sites : ActiveRuns(s) = {}
    BY <1>2 DEF ActiveRuns
  <1>6. \A s \in Sites : Cardinality(ActiveRuns(s)) = 0
    BY <1>5, FS_EmptySet, Zenon
  <1>7. Counted
    BY <1>2, <1>6, EnqueueAssumption DEF Counted, SiteCapHeld, HasCounted
  <1> QED
    BY <1>1, <1>3, <1>4, <1>7 DEF StartInvariant

\* What a transaction of the start command relies on after it has checked it
\* holds in every reachable state.
THEOREM StartInvariantHolds == Spec => []StartInvariant
  BY Initial, Inductive, PTL DEF Spec

\* A waiting command waits for an open transaction, and that one, should it wait
\* itself, for the holder of a site lock, who waits for nobody.
LEMMA WaitingIsFinite ==
    ASSUME TypeOK, Locks
    PROVE  WaitsForTheLiving
  <1>1. SUFFICES ASSUME NEW c \in Commands, pc[c] # "idle", Waits(c) # NoOne
                 PROVE  LET h == Waits(c) IN
                        /\ pc[h] # "idle"
                        /\ Waits(h) # NoOne => (pc[Waits(h)] # "idle" /\ Waits(Waits(h)) = NoOne)
    BY DEF WaitsForTheLiving
  <1>2. CASE pc[c] = "sent"
    <2>1. Waits(c) = draftLock[DraftOf[c]]
      BY <1>2 DEF Waits
    <2>2. Waits(c) \in Commands /\ pc[Waits(c)] \in HoldsDraft
      BY <1>1, <2>1, CommandFacts DEF Locks, TypeOK
    <2>3. Waits(Waits(c)) # NoOne =>
             pc[Waits(c)] = "locked" /\ Waits(Waits(c)) = siteLock[Site(Waits(c))]
      BY <2>2 DEF Waits, HoldsDraft
    <2>4. Waits(Waits(c)) # NoOne => pc[Waits(Waits(c))] \in HoldsSite
      BY <2>2, <2>3, CommandFacts DEF Locks
    <2>5. Waits(Waits(c)) # NoOne => Waits(Waits(Waits(c))) = NoOne
      BY <2>4 DEF Waits, HoldsSite
    <2> QED
      BY <2>2, <2>4, <2>5 DEF HoldsDraft, HoldsSite
  <1>3. CASE pc[c] # "sent"
    <2>1. pc[c] = "locked" /\ Waits(c) = siteLock[Site(c)]
      BY <1>1, <1>3 DEF Waits
    <2>2. pc[Waits(c)] \in HoldsSite
      BY <1>1, <2>1, CommandFacts DEF Locks
    <2>3. Waits(Waits(c)) = NoOne
      BY <2>2 DEF Waits, HoldsSite
    <2> QED
      BY <2>2, <2>3 DEF HoldsSite
  <1> QED
    BY <1>2, <1>3

\* However many commands count at once, a site never has more non-terminal runs
\* than its cap, and nobody waits on a lock that nobody will release.
THEOREM SiteLockTheorem == Spec => []SiteLockWorks
  <1>1. StartInvariant => SiteLockWorks
    BY WaitingIsFinite DEF StartInvariant, Counted, SiteLockWorks
  <1> QED
    BY <1>1, StartInvariantHolds, PTL

\* One (proposal, actor, key) starts one run, whatever is retried, lost or sent
\* twice at once.
THEOREM OneRunTheorem == Spec => []OneRunPerKey
  <1>1. ASSUME StartInvariant, NEW c \in Commands, NEW k \in Commands, Slot(c) = Slot(k),
               run[c].status # "absent", run[k].status # "absent"
        PROVE  c = k
    <2>1. /\ replay[Slot(c)] = [body |-> Body(c), run |-> c]
          /\ replay[Slot(k)] = [body |-> Body(k), run |-> k]
      BY <1>1 DEF StartInvariant, Recorded
    <2>2. [body |-> Body(c), run |-> c] = [body |-> Body(k), run |-> k]
      BY <1>1, <2>1
    <2> QED
      BY <2>2
  <1>2. StartInvariant => OneRunPerKey
    BY <1>1 DEF OneRunPerKey
  <1> QED
    BY <1>2, StartInvariantHolds, PTL

\* A run becomes visible on the version its planner reviewed, of a draft still
\* active, although enqueue_compute checked both several statements earlier.
THEOREM StartsReviewedTheorem == Spec => StartsWhatWasReviewed
  <1>1. ASSUME StartInvariant, [Next]_vars, NEW c \in Commands,
               run[c].status = "absent", run'[c].status = "active"
        PROVE  /\ draft[DraftOf[c]].state = "active"
               /\ draft[DraftOf[c]].rv = ExpectedOf[c]
               /\ run'[c].rv = ExpectedOf[c]
               /\ run'[c].context = draft[DraftOf[c]].context
    <2>1. Insert(c)
      <3>1. ASSUME NEW k \in Commands, Insert(k)
            PROVE  k = c
        BY <1>1, <3>1 DEF Insert, StartInvariant, TypeOK
      <3>2. ASSUME NEW k \in Commands, NEW b \in BOOLEAN, Snapshot(k, b)
            PROVE  FALSE
        BY <1>1, <3>2, SMTT(30) DEF Snapshot, Refuse, StartInvariant, TypeOK
      <3>3. ASSUME NEW k \in Commands, Lose(k) \/ EndRun(k)
            PROVE  FALSE
        BY <1>1, <3>3 DEF Lose, EndRun, NoRun, StartInvariant, TypeOK
      <3>4. run' # run
        BY <1>1
      <3> QED
        BY <1>1, <3>1, <3>2, <3>3, <3>4
           DEF Next, vars, Command, Validate, AnswerReplay, RefuseProposal, Refuse, HoldProposal,
               AcquireSiteEnqueueLock, CountRuns, Respond, Revise, EndDraft, MoveContext
    <2>2. pc[c] = "snapped" /\ run'[c].rv = run[c].rv /\ run'[c].context = run[c].context
      BY <1>1, <2>1 DEF Insert, StartInvariant, TypeOK
    <2> QED
      BY <1>1, <2>2 DEF StartInvariant, Reviewed, Snapped, HoldsDraft
  <1>2. StartInvariant /\ [Next]_vars =>
           [\A c \in Commands :
              (run[c].status = "absent" /\ run'[c].status = "active") =>
                 /\ draft[DraftOf[c]].state = "active"
                 /\ draft[DraftOf[c]].rv = ExpectedOf[c]
                 /\ run'[c].rv = ExpectedOf[c]
                 /\ run'[c].context = draft[DraftOf[c]].context]_vars
    BY <1>1
  <1> QED
    BY <1>2, StartInvariantHolds, PTL DEF Spec, StartsWhatWasReviewed

\* Whose step gives a command a new answer, and which answer.
LEMMA AnswerSteps ==
    ASSUME StartInvariant, [Next]_vars, NEW c \in Commands, reply'[c] # reply[c]
    PROVE  \/ ExpectedOf[c] < 1 /\ reply'[c].code = "invalid_query"
           \/ AnswerReplay(c)
           \/ RefuseProposal(c)
           \/ Respond(c)
           \/ /\ pc[c] \in HoldsDraft
              /\ reply'[c].code \in {"site_concurrency_exhausted", "scenario_unavailable",
                                     "stale_proposal"}
  <1>1. PICK k \in Commands : Command(k)
    BY DEF Next, vars, Lose, EndRun, Revise, EndDraft, MoveContext
  <1>2. k = c
    BY <1>1 DEF Command, Validate, AnswerReplay, RefuseProposal, Refuse, HoldProposal,
                AcquireSiteEnqueueLock, CountRuns, Snapshot, Insert, Respond,
                StartInvariant, TypeOK
  <1>3. CASE Validate(c)
    BY <1>3 DEF Validate, StartInvariant, TypeOK
  <1>4. CASE CountRuns(c)
    BY <1>4 DEF CountRuns, Refuse, StartInvariant, TypeOK, HoldsDraft
  <1>5. ASSUME NEW b \in BOOLEAN, Snapshot(c, b)
        PROVE  /\ pc[c] \in HoldsDraft
               /\ reply'[c].code \in {"scenario_unavailable", "stale_proposal"}
    BY <1>5 DEF Snapshot, Refuse, StartInvariant, TypeOK, HoldsDraft
  <1> QED
    BY <1>1, <1>2, <1>3, <1>4, <1>5
       DEF Command, HoldProposal, AcquireSiteEnqueueLock, Insert

\* The answers of the start command can be acted on: a retry finds the run its
\* key committed even after the draft moved on, "stale" is said only of a draft a
\* refresh would help, and "try again shortly" only of a schedulable request.
THEOREM AnswersTheorem == Spec => AnswersActionable
  <1>1. ASSUME StartInvariant, [Next]_vars, NEW c \in Commands, reply'[c] # reply[c],
               ExpectedOf[c] > 0, Slot(c) \in DOMAIN replay
        PROVE  IF replay[Slot(c)].body = Body(c)
               THEN reply'[c] = [code |-> "accepted", run |-> replay[Slot(c)].run]
               ELSE reply'[c].code = "idempotency_key_conflict"
    <2>1. CASE AnswerReplay(c)
      BY <1>1, <2>1 DEF AnswerReplay, StartInvariant, TypeOK
    <2>2. CASE Respond(c)
      <3>1. replay[Slot(c)] = [body |-> Body(c), run |-> c]
        BY <1>1, <2>2 DEF Respond, StartInvariant, Recorded
      <3>2. reply'[c] = [code |-> "accepted", run |-> c]
        BY <1>1, <2>2 DEF Respond, StartInvariant, TypeOK
      <3> QED
        BY <3>1, <3>2
    <2>3. ~RefuseProposal(c) /\ pc[c] \notin HoldsDraft
      BY <1>1 DEF RefuseProposal, StartInvariant, Reviewed
    <2>4. ~(ExpectedOf[c] < 1)
      BY <1>1, CommandFacts
    <2> QED
      BY <1>1, <2>1, <2>2, <2>3, <2>4, AnswerSteps
  <1>2. ASSUME StartInvariant, [Next]_vars, NEW c \in Commands, reply'[c] # reply[c]
        PROVE  /\ reply'[c].code = "stale_resource_version" => draft[DraftOf[c]].state = "active"
               /\ reply'[c].code = "site_concurrency_exhausted" =>
                      /\ draft[DraftOf[c]].state = "active"
                      /\ draft[DraftOf[c]].rv = ExpectedOf[c]
    <2>1. CASE AnswerReplay(c) \/ Respond(c)
      BY <1>2, <2>1 DEF AnswerReplay, Respond, StartInvariant, TypeOK
    <2>2. CASE RefuseProposal(c)
      <3>1. reply'[c].code = EnqueueRefusal(c)
        BY <1>2, <2>2 DEF RefuseProposal, Refuse, StartInvariant, TypeOK
      <3>2. draft[DraftOf[c]].state \in {"active", "rejected", "applied"}
        BY <1>2, CommandFacts DEF StartInvariant, TypeOK
      <3> QED
        BY <3>1, <3>2 DEF EnqueueRefusal
    <2>3. CASE pc[c] \in HoldsDraft
               /\ reply'[c].code \in {"site_concurrency_exhausted", "scenario_unavailable",
                                      "stale_proposal"}
      BY <1>2, <2>3 DEF StartInvariant, Reviewed
    <2>4. CASE reply'[c].code = "invalid_query"
      BY <2>4
    <2> QED
      BY <1>2, <2>1, <2>2, <2>3, <2>4, AnswerSteps
  <1>3. StartInvariant /\ [Next]_vars =>
           [\A c \in Commands :
              (reply'[c] # reply[c] /\ ExpectedOf[c] > 0 /\ Slot(c) \in DOMAIN replay) =>
                 IF replay[Slot(c)].body = Body(c)
                 THEN reply'[c] = [code |-> "accepted", run |-> replay[Slot(c)].run]
                 ELSE reply'[c].code = "idempotency_key_conflict"]_vars
    BY <1>1
  <1>4. StartInvariant /\ [Next]_vars =>
           [\A c \in Commands : reply'[c] # reply[c] =>
              /\ reply'[c].code = "stale_resource_version" => draft[DraftOf[c]].state = "active"
              /\ reply'[c].code = "site_concurrency_exhausted" =>
                     /\ draft[DraftOf[c]].state = "active"
                     /\ draft[DraftOf[c]].rv = ExpectedOf[c]]_vars
    BY <1>2
  <1>5. Spec => RetryFindsItsRun
    BY <1>3, StartInvariantHolds, PTL DEF Spec, RetryFindsItsRun
  <1>6. Spec => RefusalOffersRecovery
    BY <1>4, StartInvariantHolds, PTL DEF Spec, RefusalOffersRecovery
  <1> QED
    BY <1>5, <1>6 DEF AnswersActionable
=============================================================================
