------------------------- MODULE BaselineApprovalProofs -------------------------
(***************************************************************************)
(* Proofs about BaselineApproval, for every set of asks and decisions.     *)
(*                                                                         *)
(* GovernanceInvariant is inductive.  Types come first; then what a step   *)
(* of an ask or of a decision may change (the frame lemmas), from which    *)
(* the other actor's conjuncts follow; then the actor's own.  The          *)
(* refinement of BaselineLedger rests on the invariant.                    *)
(***************************************************************************)
EXTENDS BaselineApproval, FiniteSetTheorems, TLAPS

\* Every way an ask moves on keeps its position and its answer in their types.
LEMMA AskMoves ==
    ASSUME AskType, NEW a \in Asks, NEW value \in Answers,
           \/ AskEnds(a, value)
           \/ AskRefused(a, value)
           \/ \E to \in AskPlaces : AskGoes(a, to)
    PROVE  askPc' \in [Asks -> AskPlaces] /\ answer' \in [Asks -> Answers]
  <1>1. CASE AskEnds(a, value)
    BY <1>1 DEF AskEnds, AskType, AskPlaces
  <1>2. CASE AskRefused(a, value)
    BY <1>2 DEF AskRefused, AskType, AskPlaces
  <1>3. CASE \E to \in AskPlaces : AskGoes(a, to)
    BY <1>3 DEF AskGoes, AskType
  <1> QED
    BY <1>1, <1>2, <1>3

\* Appending a member of S to a sequence over S.
LEMMA AppendType ==
    ASSUME NEW S, NEW s \in Seq(S), NEW e \in S
    PROVE  Append(s, e) \in Seq(S)
  OBVIOUS

\* The writes of the approval commands are well typed: audit row, activity, and
\* the closing of a binding.
LEMMA LogTypes ==
    ASSUME StoreType, NEW a \in Asks, NEW state \in State
    PROVE  /\ \A before \in Schedule, after \in Schedule, word \in State \cup {"denied"} :
                  AppendAudit(a, word, before, after) => audit' \in Seq(Record)
           /\ AppendActivity(a, state) =>
                  timeline' \in [Conversations -> Seq(Activity)]
           /\ CloseBinding(a, state) => binding' \in [Asks -> Binding]
           /\ binding[a].base.schedule \in Schedule /\ NoBaseline \in Schedule
  <1>1. ASSUME NEW before \in Schedule, NEW after \in Schedule,
               NEW word \in State \cup {"denied"}, AppendAudit(a, word, before, after)
        PROVE  audit' \in Seq(Record)
    <2>1. [ask |-> a, outcome |-> word, before |-> before, after |-> after] \in Record
      BY DEF Record
    <2> QED
      BY <1>1, <2>1 DEF AppendAudit, StoreType
  <1>2. ASSUME AppendActivity(a, state)
        PROVE  timeline' \in [Conversations -> Seq(Activity)]
    <2>1. [ask |-> a, state |-> state] \in Activity
      BY DEF Activity
    <2>2. ConversationOf[a] \in Conversations
      BY ApprovalAssumption
    <2>3. timeline \in [Conversations -> Seq(Activity)]
      BY DEF StoreType
    <2>4. Append(timeline[ConversationOf[a]], [ask |-> a, state |-> state])
              \in Seq(Activity)
      BY <2>1, <2>2, <2>3, AppendType
    <2> QED
      BY <1>2, <2>2, <2>3, <2>4 DEF AppendActivity
  <1>3. ASSUME CloseBinding(a, state)
        PROVE  binding' \in [Asks -> Binding]
    BY <1>3 DEF CloseBinding, StoreType, Binding
  <1>4. binding[a].base.schedule \in Schedule /\ NoBaseline \in Schedule
    BY DEF StoreType, Binding, Pointer, Schedule
  <1> QED
    BY <1>1, <1>2, <1>3, <1>4

\* A step of TX1 (request_approval.py) keeps the types.
LEMMA AskTypes ==
    ASSUME TypeOK, NEW a \in Asks, UNCHANGED decisionVars,
           \/ \E e \in Schedule : AskRead(a, e)
           \/ AskStep(a)
           \/ AskDies(a)
    PROVE  TypeOK'
  <1>0. AskType /\ StoreType /\ DecisionType
    BY DEF TypeOK
  <1>a. CASE UNCHANGED approvalVars
    <2>1. StoreType'
      BY <1>0, <1>a DEF StoreType, approvalVars
    <2>2. ASSUME NEW value \in Answers,
                 AskEnds(a, value) \/ AskRefused(a, value) \/ \E to \in AskPlaces : AskGoes(a, to),
                 expects' \in [Asks -> Schedule], bound' \in [Asks -> Pointer],
                 UNCHANGED closing, faults' \in 0..MaxFaults
          PROVE  TypeOK'
      <3>1. AskType'
        BY <1>0, <2>2, AskMoves DEF AskType
      <3>2. DecisionType'
        BY <1>0, <2>2 DEF DecisionType, decisionVars
      <3> QED
        BY <2>1, <3>1, <3>2 DEF TypeOK
    <2>3. ASSUME NEW e \in Schedule, AskRead(a, e)
          PROVE  TypeOK'
      <3>1. expects' \in [Asks -> Schedule] /\ bound' \in [Asks -> Pointer]
            /\ UNCHANGED closing /\ faults' \in 0..MaxFaults
        BY <1>0, <2>3 DEF AskRead, AskType
      <3>2. \/ AskEnds(a, "replayed") \/ AskEnds(a, "key_conflict")
            \/ AskRefused(a, "candidate_not_promotable")
            \/ AskRefused(a, "approval_already_pending")
            \/ AskGoes(a, "read")
        BY <2>3 DEF AskRead
      <3> QED
        BY <2>2, <3>1, <3>2 DEF Answers, AskPlaces
    <2>4. CASE AskBaseline(a)
      <3>1. expects' \in [Asks -> Schedule] /\ bound' \in [Asks -> Pointer]
            /\ UNCHANGED closing /\ faults' \in 0..MaxFaults
        BY <1>0, <2>4 DEF AskBaseline, AskType, StoreType
      <3>2. AskRefused(a, "stale_baseline_version") \/ AskGoes(a, "checked")
        BY <2>4 DEF AskBaseline
      <3> QED
        BY <2>2, <3>1, <3>2 DEF Answers, AskPlaces
    <2>5. CASE AskInsert(a) \/ AskCollides(a) \/ AskDeadlocks(a) \/ AskDies(a)
      <3>1. expects' \in [Asks -> Schedule] /\ bound' \in [Asks -> Pointer]
            /\ UNCHANGED closing /\ faults' \in 0..MaxFaults
        BY <1>0, <2>5, FaultsAssumption DEF AskInsert, AskCollides, AskDeadlocks, AskDies, AskType
      <3>2. \/ AskGoes(a, "inserted") \/ AskEnds(a, "escaped") \/ AskEnds(a, "lost")
            \/ AskEnds(a, "approval_already_pending")
        BY <2>5 DEF AskInsert, AskCollides, AskDeadlocks, AskDies
      <3> QED
        BY <2>2, <3>1, <3>2 DEF Answers, AskPlaces
    <2>6. CASE AskCommit(a) \/ AskCancelled(a)
      <3>1. AskEnds(a, "created") \/ AskGoes(a, "done")
        BY <2>6 DEF AskCommit, AskCancelled
      <3>2. UNCHANGED <<expects, bound, closing, faults>>
        BY <2>6 DEF AskCommit, AskCancelled
      <3> QED
        BY <1>0, <2>2, <3>1, <3>2 DEF Answers, AskPlaces, AskType
    <2> QED
      BY <2>3, <2>4, <2>5, <2>6 DEF AskStep
  <1>b. CASE AskCommit(a)
    <2>1. bound[a] \in Pointer /\ bound[a].schedule \in Schedule /\ NoBaseline \in Schedule
      BY <1>0 DEF Pointer, AskType, Schedule
    <2>2. binding' \in [Asks -> Binding]
      BY <1>0, <1>b, <2>1 DEF AskCommit, CreatePending, Binding, State, StoreType
    <2>3. /\ audit' \in Seq(Record)
          /\ timeline' \in [Conversations -> Seq(Activity)]
      BY <1>0, <1>b, <2>1, LogTypes DEF AskCommit, State
    <2>5. agent' \in [AgentAsks -> AgentRun]
      BY <1>0, <1>b DEF AskCommit, SetAgent, AgentRun, StoreType
    <2>6. StoreType'
      BY <1>0, <1>b, <2>2, <2>3, <2>5 DEF StoreType, AskCommit
    <2>7. AskType'
      BY <1>0, <1>b, AskMoves DEF AskCommit, AskType, Answers
    <2>8. DecisionType'
      BY <1>0, <1>b DEF AskCommit, DecisionType, decisionVars
    <2> QED
      BY <2>6, <2>7, <2>8 DEF TypeOK
  <1>c. CASE AskCancelled(a)
    <2>1. agent' \in [AgentAsks -> AgentRun]
      BY <1>0, <1>c DEF AskCancelled, SetAgent, AgentRun, StoreType
    <2>2. StoreType'
      BY <1>0, <1>c, <2>1 DEF StoreType, AskCancelled
    <2>3. AskType'
      BY <1>0, <1>c, AskMoves DEF AskCancelled, AskType, Answers, AskPlaces
    <2>4. DecisionType'
      BY <1>0, <1>c DEF AskCancelled, DecisionType, decisionVars
    <2> QED
      BY <2>2, <2>3, <2>4 DEF TypeOK
  <1> QED
    BY <1>a, <1>b, <1>c DEF AskStep, AskRead, AskBaseline, AskInsert, AskCollides,
       AskDeadlocks, AskDies

\* Every way a decision moves on keeps its position and its reply in their types.
LEMMA ReplyTypes ==
    ASSUME DecisionType, NEW d \in Decisions, NEW to \in DecisionPlaces, NEW value \in Replies,
           Goes(d, to) \/ Replied(d, value, to)
    PROVE  decPc' \in [Decisions -> DecisionPlaces] /\ reply' \in [Decisions -> Replies]
  BY DEF Goes, Replied, DecisionType

\* _store_idempotent_result keeps the idempotency table well typed.
LEMMA IdemTypes ==
    ASSUME DecisionType, NEW d \in Decisions, NEW value \in Decided, StoreOutcome(d, value)
    PROVE  idem' \in [Slots -> Row]
  <1>1. Body(d, presents[d]) \in {"none", "approve", "reject"} \X Nat
    BY DecisionAssumption DEF Body, DecisionType
  <1>2. [body |-> Body(d, presents[d]), outcome |-> value] \in Row
    BY <1>1 DEF Row
  <1>3. Slot(d) \in Slots
    BY DEF Slots
  <1> QED
    BY <1>2, <1>3 DEF StoreOutcome, DecisionType

\* An audited refusal (_audit_denied) keeps the types.
LEMMA DenyTypes ==
    ASSUME TypeOK, NEW d \in Decisions, NEW code \in Replies, Deny(d, code),
           UNCHANGED <<askVars, presents, late, outcome, idem, moving>>
    PROVE  TypeOK'
  <1>0. StoreType /\ AskType /\ DecisionType
    BY DEF TypeOK
  <1>1. AskOf[d] \in Asks
    BY DecisionAssumption
  <1>2. audit' \in Seq(Record)
    BY <1>0, <1>1, LogTypes DEF Deny, State
  <1>3. StoreType'
    BY <1>0, <1>2 DEF Deny, StoreType
  <1>4. decPc' \in [Decisions -> DecisionPlaces] /\ reply' \in [Decisions -> Replies]
    BY <1>0, ReplyTypes DEF Deny, DecisionPlaces
  <1>5. AskType' /\ DecisionType'
    BY <1>0, <1>4 DEF AskType, DecisionType, askVars
  <1> QED
    BY <1>3, <1>5 DEF TypeOK

\* A step of a decision (decide_approval.py, promote_baseline.py) keeps the types;
\* a replay answers with a decided state because a stored row belongs to one.
LEMMA DecisionTypes ==
    ASSUME TypeOK, DecisionControl, NEW d \in Decisions,
           \/ \E v \in Versions : DecideRead(d, v)
           \/ DecisionStep(d)
           \/ ResumedTurnLost(d)
           \/ DecisionDies(d)
    PROVE  TypeOK'
  <1>0. StoreType /\ AskType /\ DecisionType
    BY DEF TypeOK
  <1>a. AskOf[d] \in Asks
    BY DecisionAssumption
  <1>r. ASSUME NEW to \in DecisionPlaces, NEW value \in Replies, Goes(d, to) \/ Replied(d, value, to)
        PROVE  decPc' \in [Decisions -> DecisionPlaces] /\ reply' \in [Decisions -> Replies]
    BY <1>0, <1>r, ReplyTypes
  <1>1. ASSUME NEW v \in Versions, DecideRead(d, v)
        PROVE  TypeOK'
    <2>1. presents' \in [Decisions -> Nat] /\ late' \in [Decisions -> BOOLEAN]
      BY <1>0, <1>1, DecisionAssumption DEF DecideRead, DecisionType
    <2>2. idem[Slot(d)] # NoRow => Replayed(d) \in Replies
      BY DEF DecisionControl, Replayed, Replies, Decided
    <2>3. decPc' \in [Decisions -> DecisionPlaces] /\ reply' \in [Decisions -> Replies]
      <3>1. CASE idem[Slot(d)] = NoRow
        BY <1>1, <3>1, <1>r DEF DecideRead, DecisionPlaces, Replies
      <3>2. CASE idem[Slot(d)] # NoRow
        BY <1>1, <3>2, <2>2, <1>r DEF DecideRead, DecisionPlaces, Replies
      <3> QED
        BY <3>1, <3>2
    <2>4. StoreType' /\ AskType'
      BY <1>0, <1>1 DEF DecideRead, StoreType, AskType, approvalVars, askVars
    <2>5. DecisionType'
      BY <1>0, <1>1, <2>1, <2>3 DEF DecideRead, DecisionType, askVars
    <2> QED
      BY <2>4, <2>5 DEF TypeOK
  <1>2. CASE Admit(d)
    <2>1. CASE Deny(d, "approval_not_pending") \/ Deny(d, "stale_resource_version")
      BY <1>2, <2>1, DenyTypes DEF Admit, Replies
    <2>2. CASE Goes(d, "admitted") /\ UNCHANGED approvalVars
      <3>1. decPc' \in [Decisions -> DecisionPlaces] /\ reply' \in [Decisions -> Replies]
        BY <2>2, <1>r DEF DecisionPlaces, Replies
      <3> QED
        BY <1>0, <1>2, <2>2, <3>1
        DEF Admit, TypeOK, StoreType, AskType, DecisionType, approvalVars, askVars
    <2> QED
      BY <1>2, <2>1, <2>2 DEF Admit
  <1>3. CASE Revalidate(d)
    <2>1. outcome' \in [Decisions -> {"none"} \cup Decided]
      BY <1>0, <1>3 DEF Revalidate, DecisionType, Decided
    <2>2. decPc' \in [Decisions -> DecisionPlaces] /\ reply' \in [Decisions -> Replies]
      BY <1>3, <1>r DEF Revalidate, DecisionPlaces, Replies
    <2> QED
      BY <1>0, <1>3, <2>1, <2>2
      DEF Revalidate, TypeOK, StoreType, AskType, DecisionType, approvalVars, askVars
  <1>4. CASE Consume(d)
    <2>1. decPc' \in [Decisions -> DecisionPlaces] /\ reply' \in [Decisions -> Replies]
      BY <1>4, <1>r DEF Consume, DecisionPlaces, Replies
    <2>2. closing' \in [Asks -> Decisions \cup {NoOne}]
      BY <1>0, <1>4 DEF Consume, DecisionType
    <2> QED
      BY <1>0, <1>4, <2>1, <2>2
      DEF Consume, TypeOK, StoreType, AskType, DecisionType, approvalVars
  <1>5. CASE Promote(d)
    <2>1. decPc' \in [Decisions -> DecisionPlaces] /\ reply' \in [Decisions -> Replies]
      BY <1>5, <1>r DEF Promote, DecisionPlaces, Replies
    <2>2. closing' \in [Asks -> Decisions \cup {NoOne}] /\ moving' \in Decisions \cup {NoOne}
      BY <1>0, <1>5 DEF Promote, DecisionType
    <2> QED
      BY <1>0, <1>5, <2>1, <2>2
      DEF Promote, TypeOK, StoreType, AskType, DecisionType, approvalVars
  <1>6. CASE CommitPromotion(d)
    <2>0. CandidateOf[AskOf[d]] \in Candidates /\ CandidateOf[AskOf[d]] \in Schedule
      BY <1>a, ApprovalAssumption DEF Schedule
    <2>1. decPc' \in [Decisions -> DecisionPlaces] /\ reply' \in [Decisions -> Replies]
      BY <1>6, <1>r DEF CommitPromotion, DecisionPlaces, Replies, Decided
    <2>2. closing' \in [Asks -> Decisions \cup {NoOne}] /\ moving' \in Decisions \cup {NoOne}
      BY <1>0, <1>6 DEF CommitPromotion, DecisionType
    <2>3. audit' \in Seq(Record)
      BY <1>0, <1>a, <1>6, <2>0, LogTypes DEF CommitPromotion, State, Decided
    <2>4. /\ binding' \in [Asks -> Binding]
          /\ timeline' \in [Conversations -> Seq(Activity)]
      BY <1>0, <1>a, <1>6, LogTypes DEF CommitPromotion, State, Decided
    <2>5. baseline' \in Pointer
      BY <1>0, <1>6, <2>0 DEF CommitPromotion, MoveBaseline, StoreType, Pointer
    <2>6. agent' \in [AgentAsks -> AgentRun]
      BY <1>0, <1>6 DEF CommitPromotion, SetAgent, AgentRun, StoreType
    <2>7. draft' \in [Drafts -> {"active", "applied", "rejected"}]
      BY <1>0, <1>6, <2>0, ApprovalAssumption DEF CommitPromotion, MarkApplied, StoreType
    <2>8. idem' \in [Slots -> Row]
      BY <1>0, <1>6, IdemTypes DEF CommitPromotion, Decided
    <2>9. StoreType'
      BY <1>0, <1>6, <2>3, <2>4, <2>5, <2>6, <2>7 DEF CommitPromotion, StoreType
    <2>10. AskType' /\ DecisionType'
      BY <1>0, <1>6, <2>1, <2>2, <2>8 DEF CommitPromotion, AskType, DecisionType
    <2> QED
      BY <2>9, <2>10 DEF TypeOK
  <1>7. CASE Terminalize(d)
    <2>0. outcome[d] \in Decided /\ outcome[d] \in State /\ outcome[d] \in Replies
      BY <1>7 DEF Terminalize, DecisionControl, State, Replies
    <2>1. decPc' \in [Decisions -> DecisionPlaces] /\ reply' \in [Decisions -> Replies]
      BY <1>7, <2>0, <1>r DEF Terminalize, DecisionPlaces
    <2>2. audit' \in Seq(Record)
      BY <1>0, <1>a, <1>7, <2>0, LogTypes DEF Terminalize
    <2>3. /\ binding' \in [Asks -> Binding]
          /\ timeline' \in [Conversations -> Seq(Activity)]
      BY <1>0, <1>a, <1>7, <2>0, LogTypes DEF Terminalize
    <2>4. agent' \in [AgentAsks -> AgentRun]
      BY <1>0, <1>7, <2>0 DEF Terminalize, SetAgent, AgentRun, StoreType
    <2>5. idem' \in [Slots -> Row]
      BY <1>0, <1>7, <2>0, IdemTypes DEF Terminalize
    <2>6. StoreType'
      BY <1>0, <1>7, <2>2, <2>3, <2>4 DEF Terminalize, StoreType
    <2>7. AskType' /\ DecisionType'
      BY <1>0, <1>7, <2>1, <2>5 DEF Terminalize, AskType, DecisionType, askVars
    <2> QED
      BY <2>6, <2>7 DEF TypeOK
  <1>8. CASE TerminalizeLost(d)
    BY <1>8, DenyTypes DEF TerminalizeLost, Replies
  <1>9. CASE ResumedTurnEnds(d)
    <2>1. decPc' \in [Decisions -> DecisionPlaces] /\ reply' \in [Decisions -> Replies]
      BY <1>9, <1>r DEF ResumedTurnEnds, DecisionPlaces, Replies
    <2>2. agent' \in [AgentAsks -> AgentRun]
      BY <1>0, <1>9 DEF ResumedTurnEnds, SetAgent, AgentRun, StoreType
    <2> QED
      BY <1>0, <1>9, <2>1, <2>2
      DEF ResumedTurnEnds, TypeOK, StoreType, AskType, DecisionType, askVars
  <1>10. CASE ResumedTurnLost(d)
    <2>1. decPc' \in [Decisions -> DecisionPlaces] /\ reply' \in [Decisions -> Replies]
      BY <1>10, <1>r DEF ResumedTurnLost, DecisionPlaces, Replies
    <2>2. faults' \in 0..MaxFaults
      BY <1>0, <1>10, FaultsAssumption DEF ResumedTurnLost, AskType
    <2> QED
      BY <1>0, <1>10, <2>1, <2>2
      DEF ResumedTurnLost, TypeOK, StoreType, AskType, DecisionType, approvalVars
  <1>11. CASE DecisionDies(d)
    <2>1. decPc' \in [Decisions -> DecisionPlaces] /\ reply' \in [Decisions -> Replies]
      BY <1>11, <1>r DEF DecisionDies, DecisionPlaces, Replies
    <2>2. faults' \in 0..MaxFaults
      BY <1>0, <1>11, FaultsAssumption DEF DecisionDies, AskType
    <2>3. closing' \in [Asks -> Decisions \cup {NoOne}] /\ moving' \in Decisions \cup {NoOne}
      BY <1>0, <1>11 DEF DecisionDies, DecisionType
    <2> QED
      BY <1>0, <1>11, <2>1, <2>2, <2>3
      DEF DecisionDies, TypeOK, StoreType, AskType, DecisionType, approvalVars
  <1> QED
    BY <1>1, <1>2, <1>3, <1>4, <1>5, <1>6, <1>7, <1>8, <1>9, <1>10, <1>11 DEF DecisionStep

\* What happens around the approvals keeps the types.
LEMMA AroundTypes ==
    ASSUME TypeOK, Around, UNCHANGED <<askVars, decisionVars>>
    PROVE  TypeOK'
  <1>1. StoreType'
    BY DEF TypeOK, StoreType, Around, RunCompletes, Expire, Revoke, RejectDraft
  <1> QED
    BY <1>1 DEF TypeOK, AskType, DecisionType, askVars, decisionVars

\* What a step of an ask may change: its own position, its own agent run, and its
\* own binding, which appears only as TX1 commits.
LEMMA AskFrame ==
    ASSUME TypeOK, AskControl, NEW a \in Asks, UNCHANGED decisionVars,
           \/ \E e \in Schedule : AskRead(a, e)
           \/ AskStep(a)
           \/ AskDies(a)
    PROVE  /\ UNCHANGED <<baseline, draft, closing>>
           /\ \A x \in Asks \ {a} : /\ binding'[x] = binding[x] /\ bound'[x] = bound[x]
                                    /\ askPc'[x] = askPc[x] /\ answer'[x] = answer[x]
           /\ \A x \in AgentAsks \ {a} : agent'[x] = agent[x]
           /\ askPc[a] # "done" /\ binding[a].state = "none"
           /\ \/ binding'[a] = binding[a]
              \/ AskCommit(a) /\ binding'[a] = [state |-> "pending", base |-> bound[a]]
           /\ AskCommit(a) \/ AskCancelled(a) \/ UNCHANGED agent
  <1>0. AskType /\ StoreType
    BY DEF TypeOK
  <1>1. ASSUME NEW value, AskEnds(a, value) \/ AskRefused(a, value) \/ AskGoes(a, value)
        PROVE  \A x \in Asks \ {a} : askPc'[x] = askPc[x] /\ answer'[x] = answer[x]
    BY <1>0, <1>1 DEF AskType, AskEnds, AskRefused, AskGoes
  <1>2. ASSUME NEW e \in Schedule, AskRead(a, e)
        PROVE  /\ askPc[a] = "new" /\ UNCHANGED <<approvalVars, bound, closing>>
               /\ \E value : AskEnds(a, value) \/ AskRefused(a, value) \/ AskGoes(a, value)
    BY <1>2 DEF AskRead
  <1>3. ASSUME AskBaseline(a)
        PROVE  /\ askPc[a] = "read" /\ UNCHANGED <<approvalVars, closing>>
               /\ \A x \in Asks \ {a} : bound'[x] = bound[x]
               /\ \E value : AskRefused(a, value) \/ AskGoes(a, value)
    BY <1>0, <1>3 DEF AskBaseline, AskType
  <1>4. ASSUME AskInsert(a) \/ AskCollides(a) \/ AskDeadlocks(a) \/ AskDies(a)
        PROVE  /\ askPc[a] # "done" /\ UNCHANGED <<approvalVars, bound, closing>>
               /\ \E value : AskEnds(a, value) \/ AskGoes(a, value)
    BY <1>4 DEF AskInsert, AskCollides, AskDeadlocks, AskDies
  <1>5. ASSUME AskCommit(a)
        PROVE  /\ askPc[a] # "done" /\ UNCHANGED <<baseline, draft, bound, closing>>
               /\ \E value : AskEnds(a, value)
               /\ \A x \in Asks \ {a} : binding'[x] = binding[x]
               /\ binding'[a] = [state |-> "pending", base |-> bound[a]]
               /\ \A x \in AgentAsks \ {a} : agent'[x] = agent[x]
    BY <1>0, <1>5 DEF AskCommit, StoreType, CreatePending, SetAgent
  <1>6. ASSUME AskCancelled(a)
        PROVE  /\ askPc[a] # "done" /\ UNCHANGED <<baseline, draft, binding, bound, closing>>
               /\ \E value : AskGoes(a, value)
               /\ \A x \in AgentAsks \ {a} : agent'[x] = agent[x]
    BY <1>0, <1>6 DEF AskCancelled, StoreType, SetAgent
  <1>7. askPc[a] # "done" => binding[a].state = "none"
    BY DEF AskControl
  <1>8. CASE \E e \in Schedule : AskRead(a, e)
    BY <1>8, <1>1, <1>2, <1>7, ApprovalAssumption DEF approvalVars
  <1>9. CASE AskBaseline(a)
    BY <1>9, <1>1, <1>3, <1>7, ApprovalAssumption DEF approvalVars
  <1>10. CASE AskInsert(a) \/ AskCollides(a) \/ AskDeadlocks(a) \/ AskDies(a)
    BY <1>10, <1>1, <1>4, <1>7, ApprovalAssumption DEF approvalVars
  <1>11. CASE AskCommit(a)
    BY <1>11, <1>1, <1>5, <1>7
  <1>12. CASE AskCancelled(a)
    BY <1>12, <1>1, <1>6, <1>7
  <1> QED
    BY <1>8, <1>9, <1>10, <1>11, <1>12 DEF AskStep

\* An ask keeps AskControl: its insert waits for the inserts of the same candidate,
\* so the commit of one ask never makes another inserted ask collide.
LEMMA AskKeepsAskControl ==
    ASSUME TypeOK, TypeOK', AskControl, NEW a \in Asks, UNCHANGED decisionVars,
           \/ \E e \in Schedule : AskRead(a, e)
           \/ AskStep(a)
           \/ AskDies(a)
    PROVE  AskControl'
  <1>0. AskType /\ StoreType /\ AskType' /\ StoreType'
    BY DEF TypeOK
  <1>f. /\ UNCHANGED <<baseline, draft, closing>>
        /\ \A x \in Asks \ {a} : /\ binding'[x] = binding[x] /\ bound'[x] = bound[x]
                                 /\ askPc'[x] = askPc[x] /\ answer'[x] = answer[x]
        /\ \A x \in AgentAsks \ {a} : agent'[x] = agent[x]
        /\ askPc[a] # "done" /\ binding[a].state = "none"
        /\ \/ binding'[a] = binding[a]
           \/ AskCommit(a) /\ binding'[a] = [state |-> "pending", base |-> bound[a]]
        /\ AskCommit(a) \/ AskCancelled(a) \/ UNCHANGED agent
    BY AskFrame
  \* The step's own ask.
  <1>1. ASSUME AskCommit(a)
        PROVE  askPc'[a] = "done" /\ answer'[a] = "created" /\ bound'[a] = bound[a]
    BY <1>0, <1>1 DEF AskCommit, AskEnds, AskType
  <1>2. ASSUME AskCancelled(a)
        PROVE  askPc'[a] = "done" /\ bound'[a] = bound[a]
    BY <1>0, <1>2 DEF AskCancelled, AskGoes, AskType
  <1>3. ASSUME AskInsert(a)
        PROVE  /\ askPc'[a] = "inserted" /\ answer'[a] = "none" /\ bound'[a] = bound[a]
               /\ ~Collides(a)
               /\ \A b \in Asks \ {a} : CandidateOf[b] = CandidateOf[a] => askPc[b] # "inserted"
    BY <1>0, <1>3 DEF AskInsert, AskGoes, AskType, AskControl
  <1>4. ASSUME AskBaseline(a)
        PROVE  /\ bound'[a] = baseline
               /\ \/ askPc'[a] = "checked" /\ answer'[a] = "none"
                  \/ a \in AgentAsks /\ askPc'[a] = "refused" /\ answer'[a] \in Refusals
                  \/ askPc'[a] = "done"
    BY <1>0, <1>4 DEF AskBaseline, AskGoes, AskRefused, AskType, AskControl, Refusals
  <1>5. ASSUME NEW e \in Schedule, AskRead(a, e)
        PROVE  /\ bound'[a] = bound[a]
               /\ \/ askPc'[a] = "read" /\ answer'[a] = "none"
                  \/ a \in AgentAsks /\ askPc'[a] = "refused" /\ answer'[a] \in Refusals
                  \/ askPc'[a] = "done"
    <2>1. \/ AskEnds(a, "replayed") \/ AskEnds(a, "key_conflict")
          \/ AskRefused(a, "candidate_not_promotable")
          \/ AskRefused(a, "approval_already_pending")
          \/ AskGoes(a, "read")
      BY <1>5 DEF AskRead
    <2>2. answer[a] = "none" /\ bound'[a] = bound[a]
      BY <1>5 DEF AskRead, AskControl
    <2> QED
      BY <1>0, <2>1, <2>2 DEF AskEnds, AskRefused, AskGoes, AskType, Refusals
  <1>6. ASSUME AskCollides(a) \/ AskDeadlocks(a) \/ AskDies(a)
        PROVE  askPc'[a] = "done" /\ bound'[a] = bound[a]
    BY <1>0, <1>6 DEF AskCollides, AskDeadlocks, AskDies, AskEnds, AskType
  <1>7. \/ AskInsert(a)
        \/ /\ \/ askPc'[a] \in {"read", "checked"} /\ answer'[a] = "none"
              \/ a \in AgentAsks /\ askPc'[a] = "refused" /\ answer'[a] \in Refusals
              \/ askPc'[a] = "done"
           /\ AskCommit(a) => askPc'[a] = "done" /\ answer'[a] = "created"
           /\ bound'[a] = bound[a] \/ bound'[a] = baseline
    BY <1>1, <1>2, <1>4, <1>5, <1>6 DEF AskStep
  <1>8. ASSUME NEW x \in Asks, askPc'[x] = "inserted"
        PROVE  /\ ~Collides(x)'
               /\ \A b \in Asks : askPc'[b] = "inserted"
                                  /\ CandidateOf[b] = CandidateOf[x] => b = x
    <2>1. \A b \in Asks : askPc'[b] = "inserted" /\ CandidateOf[b] = CandidateOf[x] => b = x
      BY <1>8, <1>f, <1>3, <1>7 DEF AskControl
    <2>2. ~Collides(x)
      BY <1>8, <1>f, <1>3, <1>7 DEF AskControl
    <2>3. CASE binding'[a] = binding[a]
      <3>1. \A y \in Asks : binding'[y] = binding[y]
        BY <2>3, <1>f
      <3>2. PendingFor(CandidateOf[x])' = PendingFor(CandidateOf[x])
        BY <3>1 DEF PendingFor
      <3>3. SameEffect(x)' = SameEffect(x)
        BY <3>1 DEF SameEffect
      <3> QED
        BY <2>1, <2>2, <3>2, <3>3 DEF Collides
    <2>4. CASE AskCommit(a)
      <3>1. x # a /\ askPc[x] = "inserted" /\ askPc[a] = "inserted"
        BY <1>8, <2>4, <1>1, <1>f DEF AskCommit
      <3>2. CandidateOf[x] # CandidateOf[a] /\ EffectOf[x] # EffectOf[a]
        BY <3>1, ApprovalAssumption DEF AskControl
      <3>3. PendingFor(CandidateOf[x])' = PendingFor(CandidateOf[x])
        BY <3>2, <1>f DEF PendingFor
      <3>4. SameEffect(x)' = SameEffect(x)
        BY <3>2, <1>f DEF SameEffect
      <3> QED
        BY <2>1, <2>2, <3>3, <3>4 DEF Collides
    <2> QED
      BY <1>f, <2>1, <2>3, <2>4
  <1>9. ASSUME NEW x \in Asks
        PROVE  /\ bound'[x].version <= baseline'.version
               /\ binding'[x].state = "none" => binding'[x].base = NoPointer
               /\ binding'[x].state # "none" => askPc'[x] = "done" /\ answer'[x] = "created"
               /\ askPc'[x] \in {"new", "read", "checked", "inserted"} => answer'[x] = "none"
               /\ askPc'[x] = "refused" => x \in AgentAsks /\ answer'[x] \in Refusals
               /\ x \in AgentAsks /\ askPc'[x] # "done" =>
                      agent'[x] = [status |-> "agent_running", reason |-> "none"]
    <2>1. CASE x # a
      BY <1>f, <2>1 DEF AskControl
    <2>2. CASE x = a
      <3>1. baseline.version \in Nat
        BY <1>0 DEF StoreType, Pointer
      <3>2. bound'[a].version <= baseline'.version
        BY <1>f, <1>3, <1>7, <3>1 DEF AskControl
      <3>3. /\ binding'[a].state = "none" => binding'[a].base = NoPointer
            /\ binding'[a].state # "none" => askPc'[a] = "done" /\ answer'[a] = "created"
        BY <1>f, <1>1 DEF AskControl
      <3>4. /\ askPc'[a] \in {"new", "read", "checked", "inserted"} => answer'[a] = "none"
            /\ askPc'[a] = "refused" => a \in AgentAsks /\ answer'[a] \in Refusals
        BY <1>3, <1>7
      <3>5. askPc'[a] # "done" /\ a \in AgentAsks => agent'[a] = agent[a]
        BY <1>f, <1>1, <1>2
      <3> QED
        BY <2>2, <3>2, <3>3, <3>4, <3>5, <1>f DEF AskControl
    <2> QED
      BY <2>1, <2>2
  <1> QED
    BY <1>8, <1>9 DEF AskControl

\* What a step of a decision may change: its own binding, from pending to decided,
\* the agent run of that binding, and, only as TX2 commits, baseline and draft.
LEMMA DecisionFrame ==
    ASSUME TypeOK, DecisionControl, NEW d \in Decisions,
           \/ \E v \in Versions : DecideRead(d, v)
           \/ DecisionStep(d)
           \/ ResumedTurnLost(d)
           \/ DecisionDies(d)
    PROVE
           /\ UNCHANGED <<askPc, answer, bound>>
           /\ baseline.version \in Nat /\ baseline'.version >= baseline.version
           /\ \A x \in Asks : binding'[x].base = binding[x].base
           /\ \A x \in Asks \ {AskOf[d]} : binding'[x] = binding[x]
           /\ \A x \in AgentAsks \ {AskOf[d]} : agent'[x] = agent[x]
           /\ \A x \in Decisions \ {d} : /\ decPc'[x] = decPc[x] /\ reply'[x] = reply[x]
                                         /\ outcome'[x] = outcome[x]
           /\ binding[AskOf[d]].state # "none"
           /\ \/ binding' = binding
              \/ /\ CommitPromotion(d) \/ Terminalize(d)
                 /\ binding[AskOf[d]].state = "pending"
                 /\ binding'[AskOf[d]].state \in Decided
           /\ UNCHANGED <<baseline, draft>> \/ CommitPromotion(d)
  <1>0. StoreType /\ AskType /\ DecisionType
    BY DEF TypeOK
  <1>a. AskOf[d] \in Asks /\ baseline.version \in Nat
    BY <1>0, DecisionAssumption DEF StoreType, Pointer
  <1>r. ASSUME NEW to, NEW value, Goes(d, to) \/ Replied(d, value, to)
        PROVE  \A x \in Decisions \ {d} : decPc'[x] = decPc[x] /\ reply'[x] = reply[x]
    BY <1>0, <1>r DEF Goes, Replied, DecisionType
  <1>n. decPc[d] # "new" => binding[AskOf[d]].state # "none"
    BY DEF DecisionControl
  <1>1. ASSUME NEW v \in Versions, DecideRead(d, v)
        PROVE  /\ binding[AskOf[d]].state # "none" /\ UNCHANGED <<approvalVars, askVars, outcome>>
               /\ \E to, value : Goes(d, to) \/ Replied(d, value, to)
    BY <1>1 DEF DecideRead
  <1>2. ASSUME Admit(d) \/ TerminalizeLost(d)
        PROVE  /\ decPc[d] # "new" /\ UNCHANGED <<baseline, binding, agent, draft, askVars, outcome>>
               /\ \E to, value : Goes(d, to) \/ Replied(d, value, to)
    BY <1>2 DEF Admit, TerminalizeLost, Deny, approvalVars
  <1>3. ASSUME Revalidate(d)
        PROVE  /\ decPc[d] # "new" /\ UNCHANGED <<approvalVars, askVars>>
               /\ \A x \in Decisions \ {d} : outcome'[x] = outcome[x]
               /\ \E to, value : Goes(d, to) \/ Replied(d, value, to)
    BY <1>0, <1>3 DEF Revalidate, DecisionType
  <1>4. ASSUME Consume(d) \/ Promote(d) \/ ResumedTurnLost(d) \/ DecisionDies(d)
        PROVE  /\ decPc[d] # "new" /\ UNCHANGED <<approvalVars, askPc, answer, bound, outcome>>
               /\ \E to, value : Goes(d, to) \/ Replied(d, value, to)
    BY <1>4 DEF Consume, Promote, ResumedTurnLost, DecisionDies
  <1>5. ASSUME ResumedTurnEnds(d)
        PROVE  /\ decPc[d] # "new" /\ UNCHANGED <<baseline, binding, draft, askVars, outcome>>
               /\ \A x \in AgentAsks \ {AskOf[d]} : agent'[x] = agent[x]
               /\ \E to, value : Goes(d, to) \/ Replied(d, value, to)
    BY <1>0, <1>5 DEF ResumedTurnEnds, SetAgent, StoreType
  <1>6. ASSUME NEW state \in Decided, CloseBinding(AskOf[d], state)
        PROVE  /\ \A x \in Asks \ {AskOf[d]} : binding'[x] = binding[x]
               /\ \A x \in Asks : binding'[x].base = binding[x].base
               /\ binding'[AskOf[d]].state = state
    BY <1>0, <1>6, <1>a DEF CloseBinding, StoreType, Binding
  <1>7. ASSUME CommitPromotion(d)
        PROVE  /\ decPc[d] # "new" /\ UNCHANGED <<askPc, answer, bound, outcome>>
               /\ binding[AskOf[d]].state = "pending" /\ CloseBinding(AskOf[d], "consumed")
               /\ baseline'.version = baseline.version + 1
               /\ \A x \in AgentAsks \ {AskOf[d]} : agent'[x] = agent[x]
               /\ \E to, value : Goes(d, to) \/ Replied(d, value, to)
    BY <1>0, <1>7 DEF CommitPromotion, SetAgent, MoveBaseline, StoreType, DecisionControl
  <1>8. ASSUME Terminalize(d)
        PROVE  /\ decPc[d] # "new" /\ UNCHANGED <<baseline, draft, askVars, outcome>>
               /\ binding[AskOf[d]].state = "pending" /\ outcome[d] \in Decided
               /\ CloseBinding(AskOf[d], outcome[d])
               /\ \A x \in AgentAsks \ {AskOf[d]} : agent'[x] = agent[x]
               /\ \E to, value : Goes(d, to) \/ Replied(d, value, to)
    BY <1>0, <1>8
    DEF Terminalize, TerminalizeMatches, SetAgent, StoreType, DecisionControl
  <1>11. CASE \E v \in Versions : DecideRead(d, v)
    BY <1>11, <1>1, <1>a, <1>r, ApprovalAssumption DEF approvalVars, askVars
  <1>12. CASE Admit(d) \/ TerminalizeLost(d)
    BY <1>12, <1>2, <1>a, <1>n, <1>r, ApprovalAssumption DEF askVars
  <1>13. CASE Revalidate(d)
    BY <1>13, <1>3, <1>a, <1>n, <1>r, ApprovalAssumption DEF approvalVars, askVars
  <1>14. CASE Consume(d) \/ Promote(d) \/ ResumedTurnLost(d) \/ DecisionDies(d)
    BY <1>14, <1>4, <1>a, <1>n, <1>r, ApprovalAssumption DEF approvalVars
  <1>15. CASE ResumedTurnEnds(d)
    BY <1>15, <1>5, <1>a, <1>n, <1>r DEF askVars
  <1>16. CASE CommitPromotion(d)
    <2>1. "consumed" \in Decided
      BY DEF Decided
    <2> QED
      BY <1>16, <1>7, <1>6, <2>1, <1>a, <1>n, <1>r
  <1>17. CASE Terminalize(d)
    BY <1>17, <1>8, <1>6, <1>a, <1>n, <1>r DEF askVars
  <1> QED
    BY <1>11, <1>12, <1>13, <1>14, <1>15, <1>16, <1>17 DEF DecisionStep

\* A decision keeps AskControl: it never opens a binding and never touches an ask
\* that has not committed; the baseline version only grows.
LEMMA DecisionKeepsAskControl ==
    ASSUME TypeOK, TypeOK', AskControl, DecisionControl, NEW d \in Decisions,
           \/ \E v \in Versions : DecideRead(d, v)
           \/ DecisionStep(d)
           \/ ResumedTurnLost(d)
           \/ DecisionDies(d)
    PROVE  AskControl'
  <1>0. StoreType /\ AskType /\ DecisionType
    BY DEF TypeOK
  <1>f.
           /\ UNCHANGED <<askPc, answer, bound>>
           /\ baseline.version \in Nat /\ baseline'.version >= baseline.version
           /\ \A x \in Asks : binding'[x].base = binding[x].base
           /\ \A x \in Asks \ {AskOf[d]} : binding'[x] = binding[x]
           /\ \A x \in AgentAsks \ {AskOf[d]} : agent'[x] = agent[x]
           /\ \A x \in Decisions \ {d} : /\ decPc'[x] = decPc[x] /\ reply'[x] = reply[x]
                                         /\ outcome'[x] = outcome[x]
           /\ binding[AskOf[d]].state # "none"
           /\ \/ binding' = binding
              \/ /\ CommitPromotion(d) \/ Terminalize(d)
                 /\ binding[AskOf[d]].state = "pending"
                 /\ binding'[AskOf[d]].state \in Decided
           /\ UNCHANGED <<baseline, draft>> \/ CommitPromotion(d)
    BY DecisionFrame
  <1>a. AskOf[d] \in Asks
    BY DecisionAssumption
  <1>b. \A x \in Asks : bound[x].version \in Nat
    BY <1>0 DEF AskType, Pointer
  <1>c. askPc[AskOf[d]] = "done" /\ answer[AskOf[d]] = "created"
    BY <1>a, <1>f DEF AskControl
  <1>d. "pending" # "none" /\ "none" \notin Decided /\ "pending" \notin Decided
    BY DEF Decided
  <1>1. \A x \in Asks : /\ binding'[x].state = "none" <=> binding[x].state = "none"
                        /\ binding'[x].state = "pending" => binding[x].state = "pending"
    BY <1>f, <1>d
  <1>2. ASSUME NEW x \in Asks, ~Collides(x)
        PROVE  ~Collides(x)'
    <2>1. PendingFor(CandidateOf[x])' \subseteq PendingFor(CandidateOf[x])
      BY <1>1 DEF PendingFor
    <2>2. SameEffect(x)' \subseteq SameEffect(x)
      BY <1>1 DEF SameEffect
    <2> QED
      BY <1>2, <2>1, <2>2 DEF Collides
  <1>3. ASSUME NEW x \in Asks
        PROVE  /\ bound'[x].version <= baseline'.version
               /\ binding'[x].state = "none" => binding'[x].base = NoPointer
               /\ binding'[x].state # "none" => askPc'[x] = "done" /\ answer'[x] = "created"
               /\ x \in AgentAsks /\ askPc'[x] # "done" =>
                      agent'[x] = [status |-> "agent_running", reason |-> "none"]
    <2>1. bound'[x].version <= baseline'.version
      <3>1. baseline'.version \in Nat
        BY DEF TypeOK, StoreType, Pointer
      <3>2. bound[x].version <= baseline.version
        BY DEF AskControl
      <3> QED
        BY <1>b, <1>f, <3>1, <3>2
    <2>2. x \in AgentAsks /\ askPc'[x] # "done" => agent'[x] = agent[x]
      BY <1>c, <1>f
    <2> QED
      BY <1>1, <1>f, <2>1, <2>2 DEF AskControl
  <1> QED
    BY <1>2, <1>3, <1>f DEF AskControl

\* An ask keeps DecisionControl: the binding it creates is named by no decision yet.
LEMMA AskKeepsDecisionControl ==
    ASSUME TypeOK, AskControl, DecisionControl, NEW a \in Asks, UNCHANGED decisionVars,
           \/ \E e \in Schedule : AskRead(a, e)
           \/ AskStep(a)
           \/ AskDies(a)
    PROVE  DecisionControl'
  <1>1. /\ UNCHANGED <<baseline, closing>>
        /\ \A x \in Asks \ {a} : binding'[x] = binding[x]
        /\ binding[a].state = "none"
        /\ \/ binding'[a] = binding[a]
           \/ binding'[a] = [state |-> "pending", base |-> bound[a]]
    BY AskFrame
  <1>2. ASSUME NEW d \in Decisions, binding[AskOf[d]].state # "none"
        PROVE  binding'[AskOf[d]] = binding[AskOf[d]]
    BY <1>1, <1>2, DecisionAssumption
  <1>3. ASSUME NEW d \in Decisions, binding[AskOf[d]].state = "none"
        PROVE  decPc[d] = "new" /\ idem[Slot(d)] = NoRow
    BY <1>3 DEF DecisionControl, Decided
  <1>4. \A d \in Decisions : Slot(d)' = Slot(d)
    BY DEF Slot
  <1> QED
    BY <1>1, <1>2, <1>3, <1>4 DEF DecisionControl, decisionVars, PointerMatches

\* Storing an outcome changes at most the decision's own idempotency row (ON CONFLICT
\* DO NOTHING).
LEMMA OutcomeStored ==
    ASSUME DecisionType, NEW d \in Decisions, NEW value, StoreOutcome(d, value)
    PROVE  \A s \in Slots : idem'[s] = idem[s] \/ (s = Slot(d) /\ idem'[s].outcome = value)
  <1>0. Slot(d) \in Slots
    BY DEF Slots
  <1>1. idem \in [Slots -> Row]
    BY DEF DecisionType
  <1>2. CASE idem[Slot(d)] = NoRow
    <2> DEFINE row == [body |-> Body(d, presents[d]), outcome |-> value]
    <2>1. idem' = [idem EXCEPT ![Slot(d)] = row]
      BY <1>2 DEF StoreOutcome
    <2>2. row.outcome = value
      OBVIOUS
    <2> HIDE DEF row
    <2>3. ASSUME NEW s \in Slots, s # Slot(d)
          PROVE  idem'[s] = idem[s]
      BY <1>1, <2>1, <2>3
    <2>4. idem'[Slot(d)] = row
      BY <1>0, <1>1, <2>1
    <2> QED
      BY <2>2, <2>3, <2>4
  <1>3. CASE idem[Slot(d)] # NoRow
    <2>1. idem' = [idem EXCEPT ![Slot(d)] = idem[Slot(d)]]
      BY <1>3 DEF StoreOutcome
    <2> QED
      BY <1>0, <1>1, <2>1
  <1> QED
    BY <1>2, <1>3

\* The locks a decision respects: it takes only free row locks, releases only its
\* own, and writes a binding or the baseline only while nobody else holds the row.
LEMMA DecisionLocks ==
    ASSUME TypeOK, DecisionControl, NEW d \in Decisions,
           \/ \E v \in Versions : DecideRead(d, v)
           \/ DecisionStep(d)
           \/ ResumedTurnLost(d)
           \/ DecisionDies(d)
    PROVE  /\ \A x \in Asks : closing'[x] = closing[x] \/ closing[x] \in {NoOne, d}
           /\ moving' = moving \/ moving \in {NoOne, d}
           /\ baseline' = baseline \/ moving = d
           /\ binding' = binding \/ closing[AskOf[d]] \in {NoOne, d}
           /\ \A s \in Slots :
                  \/ idem'[s] = idem[s]
                  \/ s = Slot(d) /\ idem'[s].outcome = binding'[AskOf[d]].state
  <1>0. StoreType /\ AskType /\ DecisionType
    BY DEF TypeOK
  <1>a. AskOf[d] \in Asks /\ Slot(d) \in Slots
    BY DecisionAssumption DEF Slots
  <1>1. CASE \E v \in Versions : DecideRead(d, v)
    BY <1>1 DEF DecideRead, approvalVars, askVars
  <1>2. CASE Admit(d) \/ TerminalizeLost(d)
    BY <1>2 DEF Admit, TerminalizeLost, Deny, approvalVars, askVars
  <1>3. CASE Revalidate(d)
    BY <1>3 DEF Revalidate, approvalVars, askVars
  <1>4. CASE Consume(d)
    BY <1>0, <1>4 DEF Consume, approvalVars, DecisionType
  <1>5. CASE Promote(d)
    <2>1. closing[AskOf[d]] = d
      BY <1>5 DEF Promote, DecisionControl
    <2> QED
      BY <1>0, <1>5, <2>1 DEF Promote, approvalVars, DecisionType
  <1>6. CASE CommitPromotion(d)
    <2>1. closing[AskOf[d]] = d /\ moving = d
      BY <1>6 DEF CommitPromotion, DecisionControl
    <2>2. binding'[AskOf[d]].state = "consumed"
      BY <1>0, <1>a, <1>6 DEF CommitPromotion, CloseBinding, StoreType, Binding
    <2>3. \A s \in Slots : idem'[s] = idem[s] \/ (s = Slot(d) /\ idem'[s].outcome = "consumed")
      BY <1>0, <1>6, OutcomeStored DEF CommitPromotion
    <2>4. \A x \in Asks : closing'[x] = closing[x] \/ closing[x] \in {NoOne, d}
      BY <1>0, <1>6, <2>1 DEF CommitPromotion, DecisionType
    <2> QED
      BY <2>1, <2>2, <2>3, <2>4
  <1>7. CASE Terminalize(d)
    <2>1. binding'[AskOf[d]].state = outcome[d]
      BY <1>0, <1>a, <1>7 DEF Terminalize, CloseBinding, StoreType, Binding
    <2>2. \A s \in Slots : idem'[s] = idem[s] \/ (s = Slot(d) /\ idem'[s].outcome = outcome[d])
      BY <1>0, <1>7, OutcomeStored DEF Terminalize
    <2> QED
      BY <1>7, <2>1, <2>2 DEF Terminalize, askVars
  <1>8. CASE ResumedTurnEnds(d) \/ ResumedTurnLost(d)
    BY <1>8 DEF ResumedTurnEnds, ResumedTurnLost, approvalVars, askVars
  <1>9. CASE DecisionDies(d)
    BY <1>0, <1>9 DEF DecisionDies, approvalVars, DecisionType
  <1> QED
    BY <1>1, <1>2, <1>3, <1>4, <1>5, <1>6, <1>7, <1>8, <1>9 DEF DecisionStep

\* A decision keeps DecisionControl: the row locks of consume and promote keep what
\* one decision has checked true until its commit, whatever the others do.
LEMMA DecisionKeepsDecisionControl ==
    ASSUME TypeOK, TypeOK', AskControl, DecisionControl, NEW d \in Decisions,
           \/ \E v \in Versions : DecideRead(d, v)
           \/ DecisionStep(d)
           \/ ResumedTurnLost(d)
           \/ DecisionDies(d)
    PROVE  DecisionControl'
  <1>0. StoreType /\ AskType /\ DecisionType /\ DecisionType'
    BY DEF TypeOK
  <1>f. /\ \A x \in Asks : binding'[x].base = binding[x].base
        /\ \A x \in Asks \ {AskOf[d]} : binding'[x] = binding[x]
        /\ \A x \in Decisions \ {d} : decPc'[x] = decPc[x] /\ reply'[x] = reply[x]
                                      /\ outcome'[x] = outcome[x]
        /\ binding[AskOf[d]].state # "none"
        /\ \/ binding' = binding
           \/ /\ CommitPromotion(d) \/ Terminalize(d)
              /\ binding[AskOf[d]].state = "pending"
              /\ binding'[AskOf[d]].state \in Decided
    BY DecisionFrame
  <1>l. /\ \A x \in Asks : closing'[x] = closing[x] \/ closing[x] \in {NoOne, d}
        /\ moving' = moving \/ moving \in {NoOne, d}
        /\ baseline' = baseline \/ moving = d
        /\ binding' = binding \/ closing[AskOf[d]] \in {NoOne, d}
        /\ \A s \in Slots :
               \/ idem'[s] = idem[s]
               \/ s = Slot(d) /\ idem'[s].outcome = binding'[AskOf[d]].state
    BY DecisionLocks
  <1>a. AskOf[d] \in Asks /\ Slot(d) \in Slots /\ NoOne # d
    BY DecisionAssumption DEF Slots
  <1>s. "none" \notin Decided /\ "pending" \notin Decided /\ "consumed" \in Decided
    BY DEF Decided
  <1>1. ASSUME NEW x \in Decisions
        PROVE  /\ decPc'[x] # "new" => binding'[AskOf[x]].state # "none"
               /\ idem'[Slot(x)] # NoRow => binding'[AskOf[x]].state \in Decided
                                            /\ idem'[Slot(x)].outcome = binding'[AskOf[x]].state
    <2>1. AskOf[x] \in Asks /\ Slot(x) \in Slots /\ (Slot(x) = Slot(d) => AskOf[x] = AskOf[d])
      BY DecisionAssumption DEF Slots, Slot
    <2>2. decPc'[x] # "new" => binding'[AskOf[x]].state # "none"
      BY <1>f, <1>s, <2>1 DEF DecisionControl
    <2>3. CASE idem'[Slot(x)] = idem[Slot(x)]
      BY <1>f, <1>s, <2>1, <2>2, <2>3 DEF DecisionControl
    <2>4. CASE idem'[Slot(x)] # idem[Slot(x)]
      <3>1. Slot(x) = Slot(d) /\ idem'[Slot(x)].outcome = binding'[AskOf[x]].state
        BY <1>l, <2>1, <2>4
      <3>2. CommitPromotion(d) \/ Terminalize(d)
        BY <1>a, <2>4, <3>1 DEF DecisionStep, DecideRead, Admit, Revalidate, Consume, Promote,
           TerminalizeLost, ResumedTurnEnds, ResumedTurnLost, DecisionDies
      <3>3. binding'[AskOf[d]].state \in Decided
        <4>1. CASE CommitPromotion(d)
          BY <1>0, <1>a, <1>s, <4>1 DEF CommitPromotion, CloseBinding, StoreType, Binding
        <4>2. CASE Terminalize(d)
          BY <1>0, <1>a, <4>2 DEF Terminalize, CloseBinding, StoreType, Binding, DecisionControl
        <4> QED
          BY <3>2, <4>1, <4>2
      <3> QED
        BY <2>1, <2>2, <3>1, <3>3
    <2> QED
      BY <2>2, <2>3, <2>4
  <1>2. ASSUME NEW x \in Decisions, x # d
        PROVE  /\ decPc'[x] \in {"new", "read", "admitted", "validated", "consumed", "promoted"} =>
                      reply'[x] = "none"
               /\ decPc'[x] = "validated" => outcome'[x] \in Decided
               /\ decPc'[x] \in {"consumed", "promoted"} =>
                      closing'[AskOf[x]] = x /\ binding'[AskOf[x]].state = "pending"
               /\ decPc'[x] = "promoted" => moving' = x /\ PointerMatches(AskOf[x])'
               /\ decPc'[x] = "resuming" => AskOf[x] \in AgentAsks
                                            /\ binding'[AskOf[x]].state = "consumed"
    <2>1. AskOf[x] \in Asks /\ NoOne # x
      BY DecisionAssumption
    <2>2. decPc[x] \in {"consumed", "promoted"} =>
              closing'[AskOf[x]] = x /\ binding'[AskOf[x]].state = "pending"
      BY <1>2, <1>f, <1>l, <2>1 DEF DecisionControl
    <2>3. decPc[x] = "promoted" => moving' = x /\ PointerMatches(AskOf[x])'
      BY <1>2, <1>f, <1>l, <2>1 DEF DecisionControl, PointerMatches
    <2>4. decPc[x] = "resuming" => binding'[AskOf[x]].state = "consumed"
      BY <1>2, <1>f, <2>1 DEF DecisionControl
    <2> QED
      BY <1>2, <1>f, <2>2, <2>3, <2>4 DEF DecisionControl
  <1>3. /\ decPc'[d] \in {"new", "read", "admitted", "validated", "consumed", "promoted"} =>
               reply'[d] = "none"
        /\ decPc'[d] = "validated" => outcome'[d] \in Decided
        /\ decPc'[d] \in {"consumed", "promoted"} =>
               closing'[AskOf[d]] = d /\ binding'[AskOf[d]].state = "pending"
        /\ decPc'[d] = "promoted" => moving' = d /\ PointerMatches(AskOf[d])'
        /\ decPc'[d] = "resuming" => AskOf[d] \in AgentAsks
                                     /\ binding'[AskOf[d]].state = "consumed"
    <2>1. ASSUME NEW value, Replied(d, value, "done")
          PROVE  decPc'[d] = "done"
      BY <1>0, <2>1 DEF Replied, DecisionType
    <2>2. ASSUME NEW to, Goes(d, to)
          PROVE  decPc'[d] = to /\ reply'[d] = reply[d]
      BY <1>0, <2>2 DEF Goes, DecisionType
    <2>3. CASE \E v \in Versions : DecideRead(d, v)
      <3>1. decPc'[d] = "done" \/ (decPc'[d] = "read" /\ reply'[d] = reply[d])
        BY <2>1, <2>2, <2>3 DEF DecideRead
      <3>2. decPc[d] = "new"
        BY <2>3 DEF DecideRead
      <3> QED
        BY <3>1, <3>2 DEF DecisionControl
    <2>4. CASE Admit(d) \/ TerminalizeLost(d)
      <3>1. decPc'[d] = "done" \/ (decPc'[d] = "admitted" /\ reply'[d] = reply[d])
        BY <2>1, <2>2, <2>4 DEF Admit, TerminalizeLost, Deny
      <3>2. decPc[d] \in {"read", "validated"}
        BY <2>4 DEF Admit, TerminalizeLost
      <3> QED
        BY <3>1, <3>2 DEF DecisionControl
    <2>5. CASE Revalidate(d)
      <3>1. decPc[d] = "admitted" /\ decPc'[d] = "validated" /\ reply'[d] = reply[d]
        BY <2>2, <2>5 DEF Revalidate
      <3>2. outcome'[d] \in Decided
        BY <1>0, <2>5 DEF Revalidate, DecisionType, Decided
      <3> QED
        BY <3>1, <3>2 DEF DecisionControl
    <2>6. CASE Consume(d)
      <3>1. decPc[d] = "validated" /\ UNCHANGED binding
        BY <2>6 DEF Consume, approvalVars
      <3>2. \/ decPc'[d] = "done"
            \/ /\ decPc'[d] = "consumed" /\ reply'[d] = reply[d]
               /\ binding[AskOf[d]].state = "pending" /\ closing'[AskOf[d]] = d
        BY <1>0, <1>a, <2>1, <2>2, <2>6 DEF Consume, DecisionType
      <3> QED
        BY <3>1, <3>2 DEF DecisionControl
    <2>7. CASE Promote(d)
      <3>1. decPc[d] = "consumed" /\ UNCHANGED <<binding, baseline>>
        BY <2>7 DEF Promote, approvalVars
      <3>2. \/ decPc'[d] = "done"
            \/ /\ decPc'[d] = "promoted" /\ reply'[d] = reply[d]
               /\ closing' = closing /\ moving' = d /\ PointerMatches(AskOf[d])
        BY <2>1, <2>2, <2>7 DEF Promote
      <3> QED
        BY <3>1, <3>2 DEF DecisionControl, PointerMatches
    <2>8. CASE CommitPromotion(d)
      <3>1. decPc'[d] = "done" \/ (decPc'[d] = "resuming" /\ AskOf[d] \in AgentAsks)
        BY <1>0, <2>8 DEF CommitPromotion, Replied, DecisionType
      <3>2. binding'[AskOf[d]].state = "consumed"
        BY <1>0, <1>a, <2>8 DEF CommitPromotion, CloseBinding, StoreType, Binding
      <3> QED
        BY <3>1, <3>2
    <2>9. CASE Terminalize(d) \/ ResumedTurnEnds(d) \/ ResumedTurnLost(d) \/ DecisionDies(d)
      <3>1. decPc'[d] = "done"
        BY <2>1, <2>2, <2>9 DEF Terminalize, ResumedTurnEnds, ResumedTurnLost, DecisionDies
      <3> QED
        BY <3>1
    <2> QED
      BY <2>3, <2>4, <2>5, <2>6, <2>7, <2>8, <2>9 DEF DecisionStep
  <1>4. \A x \in Decisions : Slot(x)' = Slot(x)
    BY DEF Slot
  <1> QED
    BY <1>1, <1>2, <1>3, <1>4 DEF DecisionControl

\* An ask keeps the safety properties.
LEMMA AskKeepsProperties ==
    ASSUME TypeOK, AskControl, DecisionControl,
           OneBinding, AgentFollowsBinding, RepliesTrue, DraftFollowsPromotion,
           NEW a \in Asks, UNCHANGED decisionVars,
           \/ \E e \in Schedule : AskRead(a, e)
           \/ AskStep(a)
           \/ AskDies(a)
    PROVE  OneBinding' /\ AgentFollowsBinding' /\ RepliesTrue' /\ DraftFollowsPromotion'
  <1>0. StoreType /\ AskType
    BY DEF TypeOK
  <1>f. /\ UNCHANGED draft
        /\ \A x \in Asks \ {a} : /\ binding'[x] = binding[x]
                                 /\ askPc'[x] = askPc[x] /\ answer'[x] = answer[x]
        /\ \A x \in AgentAsks \ {a} : agent'[x] = agent[x]
        /\ askPc[a] # "done" /\ binding[a].state = "none"
        /\ \/ binding'[a] = binding[a]
           \/ AskCommit(a) /\ binding'[a] = [state |-> "pending", base |-> bound[a]]
        /\ AskCommit(a) \/ AskCancelled(a) \/ UNCHANGED agent
    BY AskFrame
  <1>1. OneBinding'
    <2>1. ASSUME NEW x \in Asks, NEW y \in Asks
          PROVE  /\ binding'[x].state = "pending" /\ binding'[y].state = "pending"
                      /\ CandidateOf[x] = CandidateOf[y] => x = y
                 /\ binding'[x].state # "none" /\ binding'[y].state # "none"
                      /\ EffectOf[x] = EffectOf[y] => x = y
      <3>1. CASE binding'[a] = binding[a]
        BY <1>f, <3>1 DEF OneBinding
      <3>2. CASE AskCommit(a)
        <4>1. ~Collides(a)
          BY <3>2 DEF AskCommit, AskControl
        <4>2. ASSUME NEW z \in Asks
              PROVE  /\ CandidateOf[z] = CandidateOf[a] => binding[z].state # "pending"
                     /\ EffectOf[z] = EffectOf[a] => binding[z].state = "none"
          BY <4>1 DEF Collides, PendingFor, SameEffect
        <4> QED
          BY <1>f, <4>2 DEF OneBinding
      <3> QED
        BY <1>f, <3>1, <3>2
    <2> QED
      BY <2>1 DEF OneBinding
  <1>2. AgentFollowsBinding'
    <2>1. ASSUME NEW x \in AgentAsks
          PROVE  /\ agent'[x].status = "approval_required" <=> binding'[x].state = "pending"
                 /\ binding'[x].state \in {"rejected", "expired", "stale"} =>
                        agent'[x] = [status |-> "agent_cancelled", reason |-> binding'[x].state]
                 /\ agent'[x].reason # "none" => agent'[x].reason = binding'[x].state
                 /\ answer'[x] \in Refusals /\ askPc'[x] = "done" =>
                        agent'[x].status = "agent_cancelled"
      <3>0. x \in Asks
        BY ApprovalAssumption
      <3>1. CASE x # a
        BY <1>f, <3>0, <3>1 DEF AgentFollowsBinding
      <3>2. CASE x = a /\ AskCommit(a)
        <4>1. agent'[a] = [status |-> "approval_required", reason |-> "none"]
          BY <3>2 DEF AskCommit, SetAgent
        <4>2. answer'[a] = "created"
          BY <1>0, <3>2 DEF AskCommit, AskEnds, AskType
        <4>3. binding'[a].state = "pending"
          BY <1>0, <3>2 DEF AskCommit, CreatePending, StoreType
        <4> QED
          BY <3>2, <4>1, <4>2, <4>3 DEF Refusals
      <3>3. CASE x = a /\ AskCancelled(a)
        <4>1. agent'[a] = [status |-> "agent_cancelled", reason |-> "none"]
          BY <3>3 DEF AskCancelled, SetAgent
        <4>2. binding'[a].state = "none"
          BY <3>3, <1>f DEF AskCancelled
        <4> QED
          BY <3>3, <4>1, <4>2
      <3>4. CASE x = a /\ ~AskCommit(a) /\ ~AskCancelled(a)
        <4>1. binding'[a].state = "none" /\ agent'[a] = [status |-> "agent_running", reason |-> "none"]
          BY <3>0, <3>4, <1>f DEF AskControl
        <4>2. ~(answer'[a] \in Refusals /\ askPc'[a] = "done")
          <5>1. ASSUME NEW e \in Schedule, AskRead(a, e)
                PROVE  askPc'[a] # "done"
            BY <1>0, <3>4, <5>1 DEF AskRead, AskRefused, AskGoes, AskType
          <5>2. ASSUME AskBaseline(a) \/ AskInsert(a)
                PROVE  askPc'[a] # "done"
            BY <1>0, <3>4, <5>2 DEF AskBaseline, AskInsert, AskRefused, AskGoes, AskType
          <5>3. ASSUME AskCollides(a) \/ AskDeadlocks(a) \/ AskDies(a)
                PROVE  answer'[a] \in {"escaped", "lost"}
            BY <1>0, <3>4, <5>3 DEF AskCollides, AskDeadlocks, AskDies, AskEnds, AskType
          <5> QED
            BY <3>4, <5>1, <5>2, <5>3 DEF AskStep, Refusals
        <4> QED
          BY <3>4, <4>1, <4>2
      <3> QED
        BY <3>1, <3>2, <3>3, <3>4
    <2> QED
      BY <2>1 DEF AgentFollowsBinding
  <1>3. RepliesTrue'
    <2>1. ASSUME NEW d \in Decisions, binding[AskOf[d]].state # "none"
          PROVE  binding'[AskOf[d]] = binding[AskOf[d]]
      BY <1>f, <2>1, DecisionAssumption
    <2>2. ASSUME NEW d \in Decisions, binding[AskOf[d]].state = "none"
          PROVE  reply[d] = "none" /\ idem[Slot(d)].outcome = "none"
      BY <2>2 DEF DecisionControl, Decided, NoRow
    <2>3. \A d \in Decisions : Slot(d)' = Slot(d)
      BY DEF Slot
    <2> QED
      BY <2>1, <2>2, <2>3 DEF RepliesTrue, decisionVars, Decided
  <1>4. DraftFollowsPromotion'
    <2>1. \A x \in Asks : binding'[x].state = "consumed" <=> binding[x].state = "consumed"
      BY <1>f
    <2> QED
      BY <1>f, <2>1 DEF DraftFollowsPromotion
  <1> QED
    BY <1>1, <1>2, <1>3, <1>4

\* A decision keeps the safety properties.
LEMMA DecisionKeepsProperties ==
    ASSUME TypeOK, AskControl, DecisionControl, DecisionControl',
           OneBinding, AgentFollowsBinding, RepliesTrue, DraftFollowsPromotion,
           NEW d \in Decisions,
           \/ \E v \in Versions : DecideRead(d, v)
           \/ DecisionStep(d)
           \/ ResumedTurnLost(d)
           \/ DecisionDies(d)
    PROVE  OneBinding' /\ AgentFollowsBinding' /\ RepliesTrue' /\ DraftFollowsPromotion'
  <1>0. StoreType /\ AskType /\ DecisionType
    BY DEF TypeOK
  <1>f. /\ UNCHANGED <<askPc, answer>>
        /\ \A x \in Asks \ {AskOf[d]} : binding'[x] = binding[x]
        /\ \A x \in AgentAsks \ {AskOf[d]} : agent'[x] = agent[x]
        /\ \A x \in Decisions \ {d} : reply'[x] = reply[x]
        /\ binding[AskOf[d]].state # "none"
        /\ \/ binding' = binding
           \/ /\ CommitPromotion(d) \/ Terminalize(d)
              /\ binding[AskOf[d]].state = "pending"
              /\ binding'[AskOf[d]].state \in Decided
        /\ UNCHANGED draft \/ CommitPromotion(d)
    BY DecisionFrame
  <1>a. AskOf[d] \in Asks
    BY DecisionAssumption
  <1>s. "none" \notin Decided /\ "pending" \notin Decided /\ "consumed" \in Decided
    BY DEF Decided
  <1>c. ASSUME CommitPromotion(d)
        PROVE  binding'[AskOf[d]].state = "consumed"
    BY <1>0, <1>a, <1>c DEF CommitPromotion, CloseBinding, StoreType, Binding
  <1>t. ASSUME Terminalize(d)
        PROVE  /\ binding'[AskOf[d]].state = outcome[d]
               /\ outcome[d] \in {"rejected", "expired", "stale"}
    <2>1. binding'[AskOf[d]].state = outcome[d]
      BY <1>0, <1>a, <1>t DEF Terminalize, CloseBinding, StoreType, Binding
    <2>2. outcome[d] \in Decided /\ outcome[d] # "consumed"
      BY <1>t DEF Terminalize, DecisionControl
    <2> QED
      BY <2>1, <2>2 DEF Decided
  <1>1. OneBinding'
    <2>1. \A x \in Asks : binding'[x].state = "pending" => binding[x].state = "pending"
      BY <1>f, <1>s
    <2>2. \A x \in Asks : binding'[x].state # "none" => binding[x].state # "none"
      BY <1>f, <1>s
    <2> QED
      BY <2>1, <2>2 DEF OneBinding
  <1>2. AgentFollowsBinding'
    <2>1. ASSUME NEW x \in AgentAsks
          PROVE  /\ agent'[x].status = "approval_required" <=> binding'[x].state = "pending"
                 /\ binding'[x].state \in {"rejected", "expired", "stale"} =>
                        agent'[x] = [status |-> "agent_cancelled", reason |-> binding'[x].state]
                 /\ agent'[x].reason # "none" => agent'[x].reason = binding'[x].state
                 /\ answer'[x] \in Refusals /\ askPc'[x] = "done" =>
                        agent'[x].status = "agent_cancelled"
      <3>0. x \in Asks
        BY ApprovalAssumption
      <3>1. CASE x # AskOf[d]
        BY <1>f, <3>0, <3>1 DEF AgentFollowsBinding
      <3>a. x = AskOf[d] => answer'[x] \notin Refusals
        BY <1>f, <3>0 DEF AskControl, Refusals
      <3>2. CASE x = AskOf[d] /\ CommitPromotion(d)
        <4>1. agent'[x] = [status |-> "agent_running", reason |-> "none"]
          BY <3>2 DEF CommitPromotion, SetAgent
        <4> QED
          BY <3>2, <3>a, <4>1, <1>c
      <3>3. CASE x = AskOf[d] /\ Terminalize(d)
        <4>1. agent'[x] = [status |-> "agent_cancelled", reason |-> outcome[d]]
          BY <3>3 DEF Terminalize, SetAgent
        <4> QED
          BY <3>3, <3>a, <4>1, <1>t
      <3>4. CASE x = AskOf[d] /\ ResumedTurnEnds(d)
        <4>1. PICK status \in {"agent_completed", "agent_failed", "agent_timed_out"} :
                  agent'[x] = [status |-> status, reason |-> "none"]
          BY <3>4 DEF ResumedTurnEnds, SetAgent
        <4>2. binding'[x].state = "consumed"
          BY <3>4 DEF ResumedTurnEnds, DecisionControl
        <4> QED
          BY <3>4, <3>a, <4>1, <4>2
      <3>5. CASE /\ x = AskOf[d]
                 /\ ~CommitPromotion(d) /\ ~Terminalize(d) /\ ~ResumedTurnEnds(d)
        <4>1. UNCHANGED agent
          BY <3>5 DEF DecisionStep, DecideRead, Admit, Deny, Revalidate, Consume, Promote,
             TerminalizeLost, ResumedTurnLost, DecisionDies, approvalVars
        <4> QED
          BY <3>5, <3>a, <4>1, <1>f DEF AgentFollowsBinding
      <3> QED
        BY <3>1, <3>2, <3>3, <3>4, <3>5
    <2> QED
      BY <2>1 DEF AgentFollowsBinding
  <1>3. RepliesTrue'
    <2>0. \A x \in Decisions : Slot(x)' = Slot(x)
      BY DEF Slot
    <2>1. \A x \in Decisions : idem'[Slot(x)].outcome # "none" =>
              idem'[Slot(x)].outcome = binding'[AskOf[x]].state
      BY <2>0 DEF DecisionControl, NoRow
    <2>2. ASSUME NEW x \in Decisions, reply'[x] = reply[x]
          PROVE  /\ reply'[x] \in Decided => reply'[x] = binding'[AskOf[x]].state
                 /\ reply'[x] = "approval_not_pending" => binding'[AskOf[x]].state \in Decided
      BY <2>2, <1>f, <1>s, DecisionAssumption DEF RepliesTrue
    <2>3. /\ reply'[d] \in Decided => reply'[d] = binding'[AskOf[d]].state
          /\ reply'[d] = "approval_not_pending" => binding'[AskOf[d]].state \in Decided
      <3>1. ASSUME NEW value, NEW to, Replied(d, value, to)
            PROVE  reply'[d] = value
        BY <1>0, <3>1 DEF Replied, DecisionType
      <3>2. ASSUME NEW v \in Versions, DecideRead(d, v)
            PROVE  \/ reply'[d] = reply[d]
                   \/ reply'[d] = binding'[AskOf[d]].state
                   \/ reply'[d] = "key_conflict"
        <4>1. idem[Slot(d)] # NoRow => Replayed(d) = binding[AskOf[d]].state
          BY DEF DecisionControl, Replayed
        <4>2. binding' = binding
          BY <3>2 DEF DecideRead, approvalVars
        <4> QED
          BY <3>1, <3>2, <4>1, <4>2 DEF DecideRead, Goes
      <3>3. ASSUME Admit(d) \/ Consume(d) \/ TerminalizeLost(d)
            PROVE  \/ reply'[d] = reply[d]
                   \/ reply'[d] = "stale_resource_version"
                   \/ reply'[d] = "approval_not_pending" /\ binding'[AskOf[d]].state # "pending"
        BY <3>1, <3>3 DEF Admit, Deny, Consume, TerminalizeLost, TerminalizeMatches, Goes,
           approvalVars
      <3>4. ASSUME Promote(d) \/ DecisionDies(d)
            PROVE  reply'[d] = reply[d] \/ reply'[d] \in {"stale_baseline_version", "lost"}
        BY <3>1, <3>4 DEF Promote, DecisionDies, Goes
      <3>5. ASSUME CommitPromotion(d) \/ Terminalize(d)
            PROVE  reply'[d] = binding'[AskOf[d]].state
        BY <3>1, <3>5, <1>c, <1>t DEF CommitPromotion, Terminalize
      <3>6. ASSUME Revalidate(d) \/ ResumedTurnEnds(d) \/ ResumedTurnLost(d)
            PROVE  reply'[d] = reply[d]
        BY <3>6 DEF Revalidate, ResumedTurnEnds, ResumedTurnLost, Goes
      <3>7. binding'[AskOf[d]].state \in {"pending"} \cup Decided
        <4>1. binding[AskOf[d]].state \in State
          BY <1>0, <1>a DEF StoreType, Binding
        <4> QED
          BY <1>f, <4>1 DEF State
      <3>8. \/ reply'[d] = reply[d]
            \/ reply'[d] = binding'[AskOf[d]].state
            \/ reply'[d] \in {"key_conflict", "stale_resource_version",
                              "stale_baseline_version", "lost"}
            \/ reply'[d] = "approval_not_pending" /\ binding'[AskOf[d]].state # "pending"
        BY <3>2, <3>3, <3>4, <3>5, <3>6 DEF DecisionStep
      <3> QED
        BY <2>2, <3>7, <3>8 DEF Decided
    <2>4. ASSUME NEW x \in Decisions
          PROVE  /\ reply'[x] \in Decided => reply'[x] = binding'[AskOf[x]].state
                 /\ reply'[x] = "approval_not_pending" => binding'[AskOf[x]].state \in Decided
      BY <1>f, <2>2, <2>3
    <2> QED
      BY <2>0, <2>1, <2>4 DEF RepliesTrue
  <1>4. DraftFollowsPromotion'
    <2>1. CASE CommitPromotion(d)
      <3>1. DraftOf[CandidateOf[AskOf[d]]] \in Drafts
        BY <1>a, ApprovalAssumption
      <3>2. /\ draft'[DraftOf[CandidateOf[AskOf[d]]]] # "active"
            /\ \A p \in Drafts : draft'[p] = draft[p] \/ p = DraftOf[CandidateOf[AskOf[d]]]
        BY <1>0, <2>1, <3>1 DEF CommitPromotion, MarkApplied, StoreType
      <3>3. \A x \in Asks : binding'[x].state = "consumed" <=>
                                binding[x].state = "consumed" \/ x = AskOf[d]
        BY <1>c, <1>f, <2>1
      <3>4. ASSUME NEW p \in Drafts
            PROVE  /\ {x \in Asks : DraftOf[CandidateOf[x]] = p
                                    /\ binding'[x].state = "consumed"} # {} => draft'[p] # "active"
                   /\ draft'[p] = "applied" =>
                          {x \in Asks : DraftOf[CandidateOf[x]] = p
                                        /\ binding'[x].state = "consumed"} # {}
        <4>1. CASE p = DraftOf[CandidateOf[AskOf[d]]]
          BY <1>a, <3>2, <3>3, <4>1
        <4>2. CASE p # DraftOf[CandidateOf[AskOf[d]]]
          BY <3>2, <3>3, <4>2 DEF DraftFollowsPromotion
        <4> QED
          BY <4>1, <4>2
      <3> QED
        BY <3>4 DEF DraftFollowsPromotion
    <2>2. CASE ~CommitPromotion(d)
      <3>1. \A x \in Asks : binding'[x].state = "consumed" <=> binding[x].state = "consumed"
        BY <1>f, <1>t, <2>2
      <3> QED
        BY <1>f, <2>2, <3>1 DEF DraftFollowsPromotion
    <2> QED
      BY <2>1, <2>2
  <1> QED
    BY <1>1, <1>2, <1>3, <1>4

\* Completed runs, passing deadlines, revocations and rejected drafts keep the
\* invariant.
LEMMA AroundKeeps ==
    ASSUME GovernanceInvariant, Around, UNCHANGED <<askVars, decisionVars>>
    PROVE  GovernanceInvariant'
  <1>1. TypeOK'
    BY AroundTypes DEF GovernanceInvariant
  <1>2. UNCHANGED <<baseline, binding, agent>>
    BY DEF Around, RunCompletes, Expire, Revoke, RejectDraft
  <1>3. AskControl'
    <2>1. \A x \in Asks : Collides(x)' = Collides(x)
      BY <1>2 DEF Collides, PendingFor, SameEffect
    <2> QED
      BY <1>2, <2>1 DEF GovernanceInvariant, AskControl, askVars
  <1>4. \A d \in Decisions : Slot(d)' = Slot(d)
    BY DEF Slot
  <1>5. DecisionControl'
    BY <1>2, <1>4 DEF GovernanceInvariant, DecisionControl, PointerMatches, askVars, decisionVars
  <1>6. OneBinding'
    BY <1>2 DEF GovernanceInvariant, OneBinding
  <1>7. AgentFollowsBinding'
    BY <1>2 DEF GovernanceInvariant, AgentFollowsBinding, askVars
  <1>8. RepliesTrue'
    BY <1>2, <1>4 DEF GovernanceInvariant, RepliesTrue, decisionVars
  <1>9. DraftFollowsPromotion'
    <2>1. \A p \in Drafts : \/ draft'[p] = draft[p]
                            \/ draft[p] = "active" /\ draft'[p] = "rejected"
      BY DEF Around, RunCompletes, Expire, Revoke, RejectDraft, GovernanceInvariant, TypeOK, StoreType
    <2> QED
      BY <1>2, <2>1 DEF GovernanceInvariant, DraftFollowsPromotion
  <1> QED
    BY <1>1, <1>3, <1>5, <1>6, <1>7, <1>8, <1>9 DEF GovernanceInvariant

\* The invariant holds initially.
LEMMA GovernanceInit ==
    Init => GovernanceInvariant
  <1> SUFFICES ASSUME Init
               PROVE  GovernanceInvariant
    OBVIOUS
  <1>0. StoreInit /\ AskInit /\ DecisionInit
    BY DEF Init
  <1>1. NoPointer \in Pointer /\ NoBinding \in Binding
    BY DEF NoPointer, NoBinding, Pointer, Binding, Schedule, State
  <1>2. StoreType
    <2>1. [status |-> "agent_running", reason |-> "none"] \in AgentRun
      BY DEF AgentRun
    <2>2. <<>> \in Seq(Record) /\ <<>> \in Seq(Activity)
      OBVIOUS
    <2> QED
      BY <1>0, <1>1, <2>1, <2>2 DEF StoreInit, StoreType
  <1>3. AskType
    BY <1>0, <1>1, FaultsAssumption DEF AskInit, AskType, AskPlaces, Answers, Schedule
  <1>4. DecisionType
    <2>1. NoRow \in Row
      BY DEF NoRow, Row
    <2> QED
      BY <1>0, <2>1 DEF DecisionInit, AskInit, DecisionType, DecisionPlaces, Replies
  <1>5. \A x \in Asks : binding[x].state = "none" /\ binding[x].base = NoPointer
    BY <1>0 DEF StoreInit, NoBinding
  <1>6. AskControl
    <2>1. baseline.version = 0 /\ \A x \in Asks : bound[x].version = 0
      BY <1>0 DEF StoreInit, AskInit, NoPointer
    <2> QED
      BY <1>0, <1>5, <2>1 DEF AskControl, AskInit, StoreInit
  <1>7. \A d \in Decisions : AskOf[d] \in Asks /\ idem[Slot(d)] = NoRow
    BY <1>0, DecisionAssumption DEF DecisionInit, Slots
  <1>8. DecisionControl
    BY <1>0, <1>7 DEF DecisionControl, DecisionInit
  <1>9. OneBinding
    BY <1>5 DEF OneBinding
  <1>10. AgentFollowsBinding
    BY <1>0, <1>5, ApprovalAssumption DEF AgentFollowsBinding, StoreInit, AskInit, Refusals
  <1>11. RepliesTrue
    <2>1. NoRow.outcome = "none"
      BY DEF NoRow
    <2>2. \A d \in Decisions : reply[d] = "none"
      BY <1>0 DEF DecisionInit
    <2> QED
      BY <1>7, <2>1, <2>2 DEF RepliesTrue, Decided
  <1>12. DraftFollowsPromotion
    BY <1>0, <1>5 DEF DraftFollowsPromotion, StoreInit
  <1> QED
    BY <1>2, <1>3, <1>4, <1>6, <1>8, <1>9, <1>10, <1>11, <1>12 DEF GovernanceInvariant, TypeOK

\* The invariant is inductive: one case per actor.
LEMMA GovernanceStep ==
    GovernanceInvariant /\ [Next]_vars => GovernanceInvariant'
  <1> SUFFICES ASSUME GovernanceInvariant, [Next]_vars
               PROVE  GovernanceInvariant'
    OBVIOUS
  <1>0. /\ TypeOK /\ AskControl /\ DecisionControl
        /\ OneBinding /\ AgentFollowsBinding /\ RepliesTrue /\ DraftFollowsPromotion
    BY DEF GovernanceInvariant
  <1>1. CASE Around /\ UNCHANGED <<askVars, decisionVars>>
    BY <1>1, AroundKeeps
  <1>2. ASSUME NEW a \in Asks, UNCHANGED decisionVars,
               \/ \E e \in Schedule : AskRead(a, e)
               \/ AskStep(a)
               \/ AskDies(a)
        PROVE  GovernanceInvariant'
    <2>1. TypeOK'
      BY <1>0, <1>2, AskTypes
    <2>2. AskControl'
      BY <1>0, <1>2, <2>1, AskKeepsAskControl
    <2>3. DecisionControl'
      BY <1>0, <1>2, AskKeepsDecisionControl
    <2>4. OneBinding' /\ AgentFollowsBinding' /\ RepliesTrue' /\ DraftFollowsPromotion'
      BY <1>0, <1>2, AskKeepsProperties
    <2> QED
      BY <2>1, <2>2, <2>3, <2>4 DEF GovernanceInvariant
  <1>3. ASSUME NEW d \in Decisions,
               \/ \E v \in Versions : DecideRead(d, v)
               \/ DecisionStep(d)
               \/ ResumedTurnLost(d)
               \/ DecisionDies(d)
        PROVE  GovernanceInvariant'
    <2>1. TypeOK'
      BY <1>0, <1>3, DecisionTypes
    <2>2. AskControl'
      BY <1>0, <1>3, <2>1, DecisionKeepsAskControl
    <2>3. DecisionControl'
      BY <1>0, <1>3, <2>1, DecisionKeepsDecisionControl
    <2>4. OneBinding' /\ AgentFollowsBinding' /\ RepliesTrue' /\ DraftFollowsPromotion'
      BY <1>0, <1>3, <2>3, DecisionKeepsProperties
    <2> QED
      BY <2>1, <2>2, <2>3, <2>4 DEF GovernanceInvariant
  <1>4. CASE UNCHANGED vars
    <2>1. UNCHANGED <<approvalVars, askVars, decisionVars>>
      BY <1>4 DEF vars
    <2>2. \A x \in Asks : Collides(x)' = Collides(x)
      BY <2>1 DEF approvalVars, Collides, PendingFor, SameEffect
    <2>3. \A d \in Decisions : Slot(d)' = Slot(d)
      BY DEF Slot
    <2>4. TypeOK'
      BY <1>0, <2>1
      DEF TypeOK, StoreType, AskType, DecisionType, approvalVars, askVars, decisionVars
    <2>5. AskControl'
      BY <1>0, <2>1, <2>2 DEF AskControl, approvalVars, askVars
    <2>6. DecisionControl'
      BY <1>0, <2>1, <2>3
      DEF DecisionControl, PointerMatches, approvalVars, askVars, decisionVars
    <2>7. OneBinding' /\ AgentFollowsBinding' /\ DraftFollowsPromotion'
      BY <1>0, <2>1
      DEF OneBinding, AgentFollowsBinding, DraftFollowsPromotion, approvalVars, askVars
    <2>8. RepliesTrue'
      BY <1>0, <2>1, <2>3 DEF RepliesTrue, approvalVars, decisionVars
    <2> QED
      BY <2>4, <2>5, <2>6, <2>7, <2>8 DEF GovernanceInvariant
  <1> QED
    BY <1>1, <1>2, <1>3, <1>4 DEF Next

\* GovernanceInvariant is an invariant of the approval system, for any number of
\* candidates, asks and decisions, any number of deaths and any resource versions
\* presented (approval.py, request_approval.py, decide_approval.py).
THEOREM GovernanceIsInvariant ==
    Spec => []GovernanceInvariant
  <1> QED
    BY GovernanceInit, GovernanceStep, PTL DEF Spec

\* Every reachable state of the approval system is well typed.
THEOREM TypeCorrect ==
    Spec => []TypeOK
  <1>1. GovernanceInvariant => TypeOK
    BY DEF GovernanceInvariant
  <1> QED
    BY <1>1, GovernanceIsInvariant, PTL

\* At most one decision is pending for a candidate, and an effect key has at most one
\* binding (the unique indexes and their waits, create_pending).
THEOREM OneBindingHolds ==
    Spec => []OneBinding
  <1>1. GovernanceInvariant => OneBinding
    BY DEF GovernanceInvariant
  <1> QED
    BY <1>1, GovernanceIsInvariant, PTL

\* An agent run waits exactly while its binding is pending and is cancelled for the
\* reason its binding ended (pause_, resume_ and cancel_agent_run_for_approval).
THEOREM AgentFollows ==
    Spec => []AgentFollowsBinding
  <1>1. GovernanceInvariant => AgentFollowsBinding
    BY DEF GovernanceInvariant
  <1> QED
    BY <1>1, GovernanceIsInvariant, PTL

\* What a decider is told, first answer or idempotent replay, is what the binding
\* says (decide_approval.py, _store_idempotent_result).
THEOREM RepliesAreTrue ==
    Spec => []RepliesTrue
  <1>1. GovernanceInvariant => RepliesTrue
    BY DEF GovernanceInvariant
  <1> QED
    BY <1>1, GovernanceIsInvariant, PTL

\* The draft of a promoted candidate is not left active, and no draft is applied
\* without a promotion (mark_applied in TX2).
THEOREM DraftFollows ==
    Spec => []DraftFollowsPromotion
  <1>1. GovernanceInvariant => DraftFollowsPromotion
    BY DEF GovernanceInvariant
  <1> QED
    BY <1>1, GovernanceIsInvariant, PTL
-----------------------------------------------------------------------------
\* The initial state maps to the empty ledger.
LEMMA LedgerInit ==
    Init => Ledger!Init
  <1> SUFFICES ASSUME Init
               PROVE  Ledger!Init
    OBVIOUS
  <1>1. /\ baseline.schedule = NoBaseline /\ baseline.version = 0
        /\ \A a \in Asks : binding[a].state = "none" /\ binding[a].base.version = 0
    BY DEF Init, StoreInit, NoPointer, NoBinding
  <1> QED
    BY <1>1 DEF Ledger!Init

\* Every step maps to a ledger step or changes nothing the ledger sees: TX1's commit
\* asks, TX2's commit promotes, TX3 closes.
LEMMA LedgerStep ==
    ASSUME GovernanceInvariant, GovernanceInvariant', [Next]_vars
    PROVE  [Ledger!Next]_<<baseline.schedule, baseline.version,
                           [a \in Asks |-> binding[a].state],
                           [a \in Asks |-> binding[a].base.version]>>
  <1> DEFINE verdict == [a \in Asks |-> binding[a].state]
             against == [a \in Asks |-> binding[a].base.version]
  <1>0. /\ TypeOK /\ AskControl /\ DecisionControl
        /\ StoreType /\ AskType
    BY DEF GovernanceInvariant, TypeOK
  <1>s. ASSUME UNCHANGED <<baseline, binding>>
        PROVE  UNCHANGED <<baseline.schedule, baseline.version, verdict, against>>
    BY <1>s
  <1>1. CASE Around \/ UNCHANGED vars
    <2>1. UNCHANGED <<baseline, binding>>
      BY <1>1 DEF Around, RunCompletes, Expire, Revoke, RejectDraft, vars, approvalVars
    <2> QED
      BY <1>s, <2>1
  <1>2. ASSUME NEW a \in Asks, UNCHANGED decisionVars,
               \/ \E e \in Schedule : AskRead(a, e)
               \/ AskStep(a)
               \/ AskDies(a)
        PROVE  \/ UNCHANGED <<baseline.schedule, baseline.version, verdict, against>>
               \/ Ledger!Ask(a)
    <2>1. /\ UNCHANGED baseline
          /\ \A x \in Asks \ {a} : binding'[x] = binding[x]
          /\ binding[a].state = "none"
          /\ \/ binding'[a] = binding[a]
             \/ binding'[a] = [state |-> "pending", base |-> bound[a]]
      BY <1>0, <1>2, AskFrame
    <2>2. CASE binding'[a] = binding[a]
      BY <2>1, <2>2
    <2>3. CASE binding'[a] = [state |-> "pending", base |-> bound[a]]
      <3>1. bound[a].version \in 0..baseline.version
        BY <1>0 DEF AskControl, AskType, StoreType, Pointer
      <3>a. binding'[a].state = "pending" /\ binding'[a].base.version = bound[a].version
        BY <2>3
      <3>2. verdict[a] = "none" /\ verdict' = [verdict EXCEPT ![a] = "pending"]
        BY <2>1, <3>a
      <3>3. against' = [against EXCEPT ![a] = bound[a].version]
        BY <2>1, <3>a
      <3>4. UNCHANGED <<baseline.schedule, baseline.version>>
        BY <2>1
      <3> QED
        BY <3>1, <3>2, <3>3, <3>4 DEF Ledger!Ask
    <2> QED
      BY <2>1, <2>2, <2>3
  <1>3. ASSUME NEW d \in Decisions,
               \/ \E v \in Versions : DecideRead(d, v)
               \/ DecisionStep(d)
               \/ ResumedTurnLost(d)
               \/ DecisionDies(d)
        PROVE  \/ UNCHANGED <<baseline.schedule, baseline.version, verdict, against>>
               \/ Ledger!Promote(AskOf[d])
               \/ Ledger!Close(AskOf[d])
    <2>a. AskOf[d] \in Asks
      BY DecisionAssumption
    <2>1. /\ \A x \in Asks : binding'[x].base = binding[x].base
          /\ \A x \in Asks \ {AskOf[d]} : binding'[x] = binding[x]
          /\ UNCHANGED binding \/ CommitPromotion(d) \/ Terminalize(d)
          /\ UNCHANGED baseline \/ CommitPromotion(d)
      BY <1>0, <1>3, DecisionFrame
    <2>2. against' = against
      BY <2>1
    <2>3. CASE CommitPromotion(d)
      <3>1. /\ binding[AskOf[d]].state = "pending"
            /\ baseline.version = binding[AskOf[d]].base.version
        BY <1>0, <2>3 DEF CommitPromotion, DecisionControl, PointerMatches
      <3>2. binding'[AskOf[d]].state = "consumed"
        BY <1>0, <2>a, <2>3 DEF CommitPromotion, CloseBinding, StoreType, Binding
      <3>3. /\ baseline'.schedule = CandidateOf[AskOf[d]]
            /\ baseline'.version = baseline.version + 1
        BY <2>3 DEF CommitPromotion, MoveBaseline
      <3>4. verdict' = [verdict EXCEPT ![AskOf[d]] = "consumed"]
        BY <2>a, <2>1, <3>2
      <3> QED
        BY <2>a, <2>2, <3>1, <3>3, <3>4 DEF Ledger!Promote
    <2>4. CASE Terminalize(d)
      <3>1. binding[AskOf[d]].state = "pending"
        BY <2>4 DEF Terminalize, TerminalizeMatches
      <3>2. outcome[d] \in {"rejected", "expired", "stale"}
        BY <1>0, <2>4 DEF Terminalize, DecisionControl, Decided
      <3>3. binding'[AskOf[d]].state = outcome[d]
        BY <1>0, <2>a, <2>4 DEF Terminalize, CloseBinding, StoreType, Binding
      <3>4. verdict' = [verdict EXCEPT ![AskOf[d]] = outcome[d]]
        BY <2>a, <2>1, <3>3
      <3>5. UNCHANGED <<baseline.schedule, baseline.version>>
        BY <2>4 DEF Terminalize
      <3> QED
        BY <2>a, <2>2, <3>1, <3>2, <3>4, <3>5 DEF Ledger!Close
    <2>5. CASE UNCHANGED <<baseline, binding>>
      BY <1>s, <2>5
    <2> QED
      BY <2>1, <2>3, <2>4, <2>5
  <1> QED
    BY <1>1, <1>2, <1>3, DecisionAssumption DEF Next, Ledger!Next

\* The approval system implements the baseline ledger: under every interleaving of
\* requests, decisions, retries and deaths, a promotion consumes a pending approval
\* asked against the very version it replaces (promote_baseline.py).
THEOREM LedgerRefinement ==
    Spec => ImplementsLedger
  <1> QED
    BY LedgerInit, LedgerStep, GovernanceIsInvariant, PTL DEF Spec, ImplementsLedger, Ledger!LedgerSpec

-----------------------------------------------------------------------------
(* The logs.  A version number names one baseline, so an approval asked       *)
(* against the current version was asked against the current schedule.        *)

\* What an ask read and what a binding names are baselines that were current at
\* their version.
PointerTruth ==
    \A a \in Asks :
        /\ bound[a].version = baseline.version => bound[a].schedule = baseline.schedule
        /\ binding[a].base.version <= baseline.version
        /\ binding[a].base.version = baseline.version =>
               binding[a].base.schedule = baseline.schedule

LogInvariant == PointerTruth /\ BaselineExplained /\ RecordsAgree

\* A log after one more row.
LEMMA LongerLog ==
    ASSUME NEW S, NEW s \in Seq(S), NEW e \in S
    PROVE  /\ Len(s) \in Nat /\ Len(Append(s, e)) = Len(s) + 1
           /\ \A i \in 1..Len(s) : Append(s, e)[i] = s[i]
           /\ Append(s, e)[Len(s) + 1] = e
           /\ 1..Len(Append(s, e)) = 1..Len(s) \cup {Len(s) + 1}
           /\ Len(s) + 1 \notin 1..Len(s)
           /\ \A i \in 1..Len(s) : i < Len(s) + 1 /\ ~(Len(s) + 1 < i) /\ i \in Nat
  <1>1. Len(s) \in Nat /\ Len(Append(s, e)) = Len(s) + 1
    OBVIOUS
  <1>2. \A i \in 1..Len(s) : Append(s, e)[i] = s[i]
    OBVIOUS
  <1>3. Append(s, e)[Len(s) + 1] = e
    OBVIOUS
  <1>4. \A n \in Nat : 1..(n + 1) = 1..n \cup {n + 1}
    OBVIOUS
  <1>5. \A n \in Nat : /\ n + 1 \notin 1..n
                       /\ \A i \in 1..n : i < n + 1 /\ ~(n + 1 < i) /\ i \in Nat
    OBVIOUS
  <1> QED
    BY <1>1, <1>2, <1>3, <1>4, <1>5

\* A row is added to the story of one binding.
LEMMA TellsMore ==
    ASSUME NEW n \in Nat, NEW f, NEW g, NEW word, NEW s,
           DOMAIN f \subseteq 1..n, DOMAIN g = DOMAIN f \cup {n + 1},
           \A i \in DOMAIN f : g[i] = f[i], g[n + 1] = word,
           \/ s = "none" /\ word = "pending"
           \/ s = "pending" /\ word \in Decided,
           Tells(f, s)
    PROVE  Tells(g, word)
  <1>1. \A i \in DOMAIN f : i < n + 1 /\ ~(n + 1 < i)
    OBVIOUS
  <1>2. word # "none" /\ n + 1 \in DOMAIN g /\ ~(n + 1 < n + 1)
    BY DEF Decided
  <1>3. CASE s = "none"
    <2>1. DOMAIN f = {}
      BY <1>3 DEF Tells
    <2>2. DOMAIN g = {n + 1} /\ word = "pending"
      BY <1>3, <2>1
    <2>3. {g[i] : i \in DOMAIN g} = {"pending", word}
      BY <2>2
    <2> QED
      BY <1>2, <2>2, <2>3 DEF Tells
  <1>4. CASE s = "pending"
    <2>1. /\ {f[i] : i \in DOMAIN f} = {"pending"} /\ word # "pending"
          /\ \A i, j \in DOMAIN f : i < j => f[j] # "pending"
      BY <1>4 DEF Tells, Decided
    <2>2. \A i \in DOMAIN f : f[i] = "pending" /\ g[i] = "pending"
      BY <2>1
    <2>3. {g[i] : i \in DOMAIN g} = {"pending", word}
      BY <2>1, <2>2
    <2>4. \A i, j \in DOMAIN g : i < j => g[i] = "pending" /\ g[j] # "pending"
      BY <1>1, <1>2, <2>1, <2>2
    <2> QED
      BY <1>2, <2>3, <2>4 DEF Tells
  <1> QED
    BY <1>3, <1>4

\* What a step does to the logs: nothing, a denial, or a binding that is opened or
\* closed with its audit row and its activity.
Denied == \E a \in Asks, before \in Schedule :
    AppendAudit(a, "denied", before, NoBaseline)

Recorded(a, word, before, after) ==
    /\ binding' = [binding EXCEPT ![a] = binding'[a]]
    /\ binding'[a].state = word
    /\ \/ binding[a].state = "none" /\ word = "pending" /\ binding'[a].base = bound[a]
       \/ binding[a].state = "pending" /\ word \in Decided /\ binding'[a].base = binding[a].base
    /\ AppendAudit(a, word, before, after)
    /\ AppendActivity(a, word)

Moved(a) ==
    /\ baseline' = [schedule |-> CandidateOf[a], version |-> baseline.version + 1]
    /\ binding[a].base.version = baseline.version

LogStep ==
    \/ UNCHANGED <<audit, timeline, binding, baseline>>
    \/ Denied /\ UNCHANGED <<timeline, binding, baseline>>
    \/ \E a \in Asks, before \in Schedule, word \in State \ {"consumed"} :
           Recorded(a, word, before, NoBaseline) /\ UNCHANGED baseline
    \/ \E a \in Asks :
           Recorded(a, "consumed", binding[a].base.schedule, CandidateOf[a]) /\ Moved(a)

\* What a step does to what the asks have read.
BoundStep ==
    \/ UNCHANGED bound
    \/ UNCHANGED <<baseline, binding>> /\ \E a \in Asks : bound' = [bound EXCEPT ![a] = baseline]

\* Every step is of this shape.
LEMMA StepLogs ==
    ASSUME GovernanceInvariant, [Next]_vars
    PROVE  LogStep /\ BoundStep
  <1>0. TypeOK /\ AskControl /\ DecisionControl /\ StoreType /\ AskType /\ DecisionType
    BY DEF GovernanceInvariant, TypeOK
  <1>1. CASE Around /\ UNCHANGED <<askVars, decisionVars>>
    BY <1>1 DEF Around, RunCompletes, Expire, Revoke, RejectDraft, askVars, LogStep, BoundStep
  <1>2. CASE UNCHANGED vars
    BY <1>2 DEF vars, approvalVars, askVars, LogStep, BoundStep
  <1>3. ASSUME NEW a \in Asks, (\E e \in Schedule : AskRead(a, e)) \/ AskDies(a)
        PROVE  LogStep /\ BoundStep
    BY <1>3 DEF AskRead, AskDies, approvalVars, LogStep, BoundStep
  <1>4. ASSUME NEW a \in Asks, AskStep(a), ~AskCommit(a)
        PROVE  LogStep /\ BoundStep
    BY <1>4 DEF AskStep, AskBaseline, AskInsert, AskCollides, AskDeadlocks, AskCancelled,
       approvalVars, LogStep, BoundStep
  <1>5. ASSUME NEW a \in Asks, AskCommit(a)
        PROVE  LogStep /\ BoundStep
    <2>1. /\ binding' = [binding EXCEPT ![a] = [state |-> "pending", base |-> bound[a]]]
          /\ AppendAudit(a, "pending", bound[a].schedule, NoBaseline)
          /\ AppendActivity(a, "pending") /\ UNCHANGED <<baseline, bound>>
          /\ binding[a].state = "none"
      BY <1>0, <1>5 DEF AskCommit, CreatePending, AskControl
    <2>2. binding'[a] = [state |-> "pending", base |-> bound[a]]
      BY <1>0, <2>1 DEF StoreType
    <2>3. bound[a].schedule \in Schedule /\ "pending" \in State \ {"consumed"}
      BY <1>0 DEF AskType, Pointer, State
    <2>4. Recorded(a, "pending", bound[a].schedule, NoBaseline)
      <3>1. binding' = [binding EXCEPT ![a] = binding'[a]]
        BY <2>1, <2>2
      <3>2. binding'[a].state = "pending" /\ binding'[a].base = bound[a]
        BY <2>2
      <3> QED
        BY <2>1, <3>1, <3>2 DEF Recorded
    <2> QED
      BY <2>1, <2>3, <2>4 DEF LogStep, BoundStep
  <1>6. ASSUME NEW d \in Decisions, CommitPromotion(d) \/ Terminalize(d)
        PROVE  LogStep /\ BoundStep
    <2> DEFINE a == AskOf[d]
    <2>1. a \in Asks /\ binding[a].base.schedule \in Schedule /\ UNCHANGED bound
      BY <1>0, <1>6, DecisionAssumption
      DEF StoreType, Binding, Pointer, CommitPromotion, Terminalize, askVars
    <2>2. ASSUME NEW word \in Decided, CloseBinding(a, word), binding[a].state = "pending",
                 AppendActivity(a, word), NEW after,
                 AppendAudit(a, word, binding[a].base.schedule, after)
          PROVE  Recorded(a, word, binding[a].base.schedule, after)
      <3>1. binding' = [binding EXCEPT ![a] = [binding[a] EXCEPT !.state = word]]
        BY <2>2 DEF CloseBinding
      <3>2. /\ binding'[a] = [binding[a] EXCEPT !.state = word]
            /\ binding[a] \in Binding
        BY <1>0, <2>1, <3>1 DEF StoreType
      <3>3. binding'[a].state = word /\ binding'[a].base = binding[a].base
        BY <3>2 DEF Binding
      <3> QED
        BY <2>2, <3>1, <3>2, <3>3 DEF Recorded
    <2>3. CASE CommitPromotion(d)
      <3>1. /\ CloseBinding(a, "consumed") /\ AppendActivity(a, "consumed")
            /\ AppendAudit(a, "consumed", binding[a].base.schedule, CandidateOf[a])
            /\ binding[a].state = "pending" /\ "consumed" \in Decided
        BY <1>0, <2>3 DEF CommitPromotion, DecisionControl, Decided
      <3>2. Moved(a)
        BY <1>0, <2>3 DEF CommitPromotion, DecisionControl, PointerMatches, MoveBaseline, Moved
      <3>3. Recorded(a, "consumed", binding[a].base.schedule, CandidateOf[a])
        BY <2>2, <3>1
      <3> QED
        BY <2>1, <3>2, <3>3 DEF LogStep, BoundStep
    <2>4. CASE Terminalize(d)
      <3>1. /\ CloseBinding(a, outcome[d]) /\ AppendActivity(a, outcome[d])
            /\ AppendAudit(a, outcome[d], binding[a].base.schedule, NoBaseline)
            /\ binding[a].state = "pending" /\ outcome[d] \in Decided \ {"consumed"}
            /\ UNCHANGED baseline
        BY <1>0, <2>4 DEF Terminalize, TerminalizeMatches, DecisionControl
      <3>2. Recorded(a, outcome[d], binding[a].base.schedule, NoBaseline)
        BY <2>2, <3>1
      <3>3. outcome[d] \in State \ {"consumed"}
        BY <3>1 DEF State
      <3> QED
        BY <2>1, <3>1, <3>2, <3>3 DEF LogStep, BoundStep
    <2> QED
      BY <1>6, <2>3, <2>4
  <1>7. ASSUME NEW d \in Decisions, NEW code, Deny(d, code), UNCHANGED askVars
        PROVE  LogStep /\ BoundStep
    <2>1. AskOf[d] \in Asks /\ binding[AskOf[d]].base.schedule \in Schedule
      BY <1>0, DecisionAssumption DEF StoreType, Binding, Pointer
    <2> QED
      BY <1>7, <2>1 DEF Deny, Denied, LogStep, BoundStep, askVars
  <1>8. ASSUME NEW d \in Decisions, Admit(d) \/ TerminalizeLost(d)
        PROVE  LogStep /\ BoundStep
    <2>1. \/ UNCHANGED <<approvalVars, askVars>>
          \/ UNCHANGED askVars /\ \E code : Deny(d, code)
      BY <1>8 DEF Admit, TerminalizeLost
    <2>2. CASE UNCHANGED <<approvalVars, askVars>>
      BY <2>2 DEF approvalVars, askVars, LogStep, BoundStep
    <2> QED
      BY <1>7, <2>1, <2>2
  <1>9. ASSUME NEW d \in Decisions,
               \/ \E v \in Versions : DecideRead(d, v)
               \/ DecisionStep(d)
               \/ ResumedTurnLost(d)
               \/ DecisionDies(d),
               ~(CommitPromotion(d) \/ Terminalize(d) \/ Admit(d) \/ TerminalizeLost(d))
        PROVE  LogStep /\ BoundStep
    BY <1>9 DEF DecideRead, DecisionStep, Revalidate, Consume, Promote, ResumedTurnEnds,
       ResumedTurnLost, DecisionDies, approvalVars, askVars, LogStep, BoundStep
  <1> QED
    BY <1>1, <1>2, <1>3, <1>4, <1>5, <1>6, <1>8, <1>9 DEF Next

\* Pointers stay true: versions only grow, and what is read is current.
LEMMA StepPointers ==
    ASSUME TypeOK, AskControl, PointerTruth, LogStep, BoundStep
    PROVE  PointerTruth'
  <1>0. /\ baseline.version \in Nat /\ binding \in [Asks -> Binding]
        /\ bound \in [Asks -> Pointer]
        /\ \A a \in Asks : bound[a].version \in Nat /\ binding[a].base.version \in Nat
    BY DEF TypeOK, StoreType, AskType, Binding, Pointer
  <1>1. CASE ~UNCHANGED bound
    <2>1. PICK a \in Asks : bound' = [bound EXCEPT ![a] = baseline]
      BY <1>1 DEF BoundStep
    <2>2. UNCHANGED <<baseline, binding>>
      BY <1>1 DEF BoundStep
    <2>3. \A x \in Asks : bound'[x] = bound[x] \/ bound'[x] = baseline
      BY <1>0, <2>1
    <2> QED
      BY <2>2, <2>3 DEF PointerTruth
  <1>2. CASE UNCHANGED <<bound, binding, baseline>>
    BY <1>2 DEF PointerTruth
  <1>3. ASSUME NEW a \in Asks, NEW word, NEW before, NEW after,
               Recorded(a, word, before, after), UNCHANGED bound
        PROVE  \A x \in Asks : binding'[x].base \in {binding[x].base, bound[x]}
    BY <1>0, <1>3 DEF Recorded
  <1>4. ASSUME NEW a \in Asks, NEW word, NEW before, NEW after,
               Recorded(a, word, before, after), UNCHANGED <<bound, baseline>>
        PROVE  PointerTruth'
    <2>1. \A x \in Asks : binding'[x].base \in {binding[x].base, bound[x]}
      BY <1>3, <1>4
    <2>2. \A x \in Asks : bound[x].version <= baseline.version
      BY DEF AskControl
    <2> QED
      BY <1>4, <2>1, <2>2 DEF PointerTruth
  <1>5. ASSUME NEW a \in Asks, NEW word, NEW before, NEW after,
               Recorded(a, word, before, after), Moved(a), UNCHANGED bound
        PROVE  PointerTruth'
    <2>1. \A x \in Asks : binding'[x].base \in {binding[x].base, bound[x]}
      BY <1>3, <1>5
    <2>2. \A x \in Asks : bound[x].version <= baseline.version /\ binding[x].base.version <= baseline.version
      BY DEF AskControl, PointerTruth
    <2>3. baseline'.version = baseline.version + 1
      BY <1>5 DEF Moved
    <2>4. \A x \in Asks : bound'[x].version < baseline'.version /\ binding'[x].base.version < baseline'.version
      BY <1>0, <1>5, <2>1, <2>2, <2>3
    <2>5. \A x \in Asks : bound'[x].version \in Nat /\ binding'[x].base.version \in Nat
      BY <1>0, <1>5, <2>1
    <2> QED
      BY <1>0, <2>3, <2>4, <2>5 DEF PointerTruth
  <1> QED
    BY <1>1, <1>2, <1>4, <1>5 DEF LogStep

\* A row that promotes nothing leaves the promotions as they are.
LEMMA SamePromotions ==
    ASSUME TypeOK, BaselineExplained, UNCHANGED baseline, NEW e \in Record,
           audit' = Append(audit, e), e.outcome # "consumed"
    PROVE  BaselineExplained'
  <1> DEFINE n == Len(audit)
  <1>1. audit \in Seq(Record)
    BY DEF TypeOK, StoreType
  <1>2. /\ n \in Nat /\ \A i \in 1..n : audit'[i] = audit[i]
        /\ audit'[n + 1] = e /\ 1..Len(audit') = 1..n \cup {n + 1}
    BY <1>1, LongerLog
  <1>3. Promotions' = Promotions
    BY <1>2 DEF Promotions
  <1>4. \A i \in Promotions : audit'[i] = audit[i]
    BY <1>2 DEF Promotions
  <1>5. Cardinality(Promotions') = Cardinality(Promotions)
    BY <1>3, Zenon
  <1>6. ASSUME NEW j \in Promotions
        PROVE  LET earlier == {i \in Promotions : i < j} IN
               /\ audit'[j].after = CandidateOf[audit'[j].ask]
               /\ earlier = {} => audit'[j].before = NoBaseline
               /\ \A i \in earlier : (\A k \in earlier : k <= i) =>
                      audit'[j].before = audit'[i].after
               /\ (\A k \in Promotions : k <= j) => audit'[j].after = baseline.schedule
    BY <1>4, ZenonT(30) DEF BaselineExplained
  <1>7. /\ baseline.version = Cardinality(Promotions)
        /\ Promotions = {} => baseline.schedule = NoBaseline
    BY DEF BaselineExplained
  <1> HIDE DEF n
  <1> QED
    BY <1>3, <1>5, <1>6, <1>7 DEF BaselineExplained

\* A promotion is recorded on top of the one before it.
LEMMA NextPromotion ==
    ASSUME TypeOK, PointerTruth, BaselineExplained, NEW a \in Asks, Moved(a),
           AppendAudit(a, "consumed", binding[a].base.schedule, CandidateOf[a])
    PROVE  BaselineExplained'
  <1> DEFINE n == Len(audit)
             e == [ask |-> a, outcome |-> "consumed",
                   before |-> binding[a].base.schedule, after |-> CandidateOf[a]]
  <1>1. audit \in Seq(Record) /\ audit' = Append(audit, e) /\ baseline.version \in Nat
    BY DEF TypeOK, StoreType, AppendAudit, Pointer
  <1>2. e \in Record
    <2>1. binding[a].base.schedule \in Schedule /\ CandidateOf[a] \in Schedule
      BY ApprovalAssumption DEF TypeOK, StoreType, Binding, Pointer, Schedule
    <2>2. "consumed" \in State \cup {"denied"}
      BY DEF State, Decided
    <2> QED
      BY <2>1, <2>2 DEF Record
  <1>3. /\ e.ask = a /\ e.outcome = "consumed" /\ e.after = CandidateOf[a]
        /\ e.before = baseline.schedule
    BY DEF Moved, PointerTruth
  <1>4. baseline'.schedule = e.after /\ baseline'.version = baseline.version + 1
    BY <1>3 DEF Moved
  <1> HIDE DEF e
  <1>5. /\ n \in Nat /\ \A i \in 1..n : audit'[i] = audit[i]
        /\ audit'[n + 1] = e /\ 1..Len(audit') = 1..n \cup {n + 1}
        /\ \A i \in 1..n : i < n + 1 /\ ~(n + 1 < i) /\ i \in Nat
        /\ n + 1 \notin 1..n
    BY <1>1, <1>2, LongerLog
  <1>6. Promotions \subseteq 1..n
    BY DEF Promotions
  <1>7. Promotions' = Promotions \cup {n + 1}
    BY <1>3, <1>5 DEF Promotions
  <1>8. Cardinality(Promotions') = baseline'.version
    <2>1. IsFiniteSet(Promotions)
      <3>1. 1 \in Int /\ n \in Int
        BY <1>5
      <3>2. IsFiniteSet(1..n)
        BY <3>1, FS_Interval
      <3> QED
        BY <1>6, <3>2, FS_Subset
    <2>2. n + 1 \notin Promotions
      BY <1>5, <1>6
    <2>3. Cardinality(Promotions \cup {n + 1}) = Cardinality(Promotions) + 1
      BY <2>1, <2>2, FS_AddElement
    <2>4. Cardinality(Promotions') = Cardinality(Promotions \cup {n + 1})
      BY <1>7, Zenon
    <2>5. Cardinality(Promotions) = baseline.version
      BY DEF BaselineExplained
    <2> QED
      BY <1>4, <2>3, <2>4, <2>5
  <1> DEFINE Follows(log, P, current) ==
        \A j \in P : LET earlier == {i \in P : i < j} IN
           /\ log[j].after = CandidateOf[log[j].ask]
           /\ earlier = {} => log[j].before = NoBaseline
           /\ \A i \in earlier : (\A k \in earlier : k <= i) => log[j].before = log[i].after
           /\ (\A k \in P : k <= j) => log[j].after = current
  <1>9. Follows(audit', Promotions', baseline'.schedule)
    <2> DEFINE P == Promotions
    <2> SUFFICES ASSUME NEW j \in P \cup {n + 1}
                 PROVE  LET earlier == {i \in P \cup {n + 1} : i < j} IN
                        /\ audit'[j].after = CandidateOf[audit'[j].ask]
                        /\ earlier = {} => audit'[j].before = NoBaseline
                        /\ \A i \in earlier : (\A k \in earlier : k <= i) =>
                               audit'[j].before = audit'[i].after
                        /\ (\A k \in P \cup {n + 1} : k <= j) =>
                               audit'[j].after = baseline'.schedule
      BY <1>7
    <2>1. \A i \in P : audit'[i] = audit[i] /\ i < n + 1 /\ ~(n + 1 < i) /\ i \in Nat
      BY <1>5, <1>6
    <2>2. CASE j \in P
      <3>1. {i \in P \cup {n + 1} : i < j} = {i \in P : i < j}
        BY <2>1, <2>2
      <3>2. ~(n + 1 <= j)
        BY <1>5, <2>1, <2>2
      <3>3. LET earlier == {i \in P : i < j} IN
            /\ audit[j].after = CandidateOf[audit[j].ask]
            /\ earlier = {} => audit[j].before = NoBaseline
            /\ \A i \in earlier : (\A k \in earlier : k <= i) => audit[j].before = audit[i].after
        BY <2>2 DEF BaselineExplained
      <3> QED
        BY <2>1, <2>2, <3>1, <3>2, <3>3
    <2>3. CASE j = n + 1
      <3>1. {i \in P \cup {n + 1} : i < j} = P
        <4>1. \A i \in P \cup {n + 1} : i < j <=> i \in P
          <5>1. ~(n + 1 < n + 1)
            BY <1>5
          <5> QED
            BY <1>5, <1>6, <2>1, <2>3, <5>1
        <4> QED
          BY <4>1
      <3>2. P = {} => baseline.schedule = NoBaseline
        BY DEF BaselineExplained
      <3>3. \A i \in P : (\A k \in P : k <= i) => audit[i].after = baseline.schedule
        BY DEF BaselineExplained
      <3> QED
        BY <1>3, <1>4, <1>5, <2>1, <2>3, <3>1, <3>2, <3>3
    <2> QED
      BY <2>2, <2>3
  <1> QED
    BY <1>7, <1>8, <1>9 DEF BaselineExplained

\* Every step keeps the baseline explained by the audit log.
LEMMA StepExplained ==
    ASSUME TypeOK, PointerTruth, BaselineExplained, LogStep
    PROVE  BaselineExplained'
  <1>1. CASE UNCHANGED <<audit, baseline>>
    BY <1>1 DEF BaselineExplained, Promotions
  <1>2. ASSUME NEW a \in Asks, NEW word \in (State \cup {"denied"}) \ {"consumed"},
               NEW before \in Schedule, AppendAudit(a, word, before, NoBaseline),
               UNCHANGED baseline
        PROVE  BaselineExplained'
    <2> DEFINE e == [ask |-> a, outcome |-> word, before |-> before, after |-> NoBaseline]
    <2>1. e \in Record /\ e.outcome # "consumed"
      BY DEF Record, Schedule
    <2>2. audit' = Append(audit, e)
      BY <1>2 DEF AppendAudit
    <2> HIDE DEF e
    <2> QED
      BY <1>2, <2>1, <2>2, SamePromotions
  <1>3. CASE Denied /\ UNCHANGED baseline
    BY <1>2, <1>3 DEF Denied
  <1>4. ASSUME NEW a \in Asks, NEW before \in Schedule, NEW word \in State \ {"consumed"},
               Recorded(a, word, before, NoBaseline), UNCHANGED baseline
        PROVE  BaselineExplained'
    BY <1>2, <1>4 DEF Recorded
  <1>5. ASSUME NEW a \in Asks, Moved(a),
               Recorded(a, "consumed", binding[a].base.schedule, CandidateOf[a])
        PROVE  BaselineExplained'
    BY <1>5, NextPromotion DEF Recorded
  <1> QED
    BY <1>1, <1>3, <1>4, <1>5 DEF LogStep

\* A log row about nobody, or about another binding, tells no more of this one.
LEMMA OthersTold ==
    ASSUME TypeOK, NEW x \in Asks, NEW a \in Asks, NEW word, NEW e \in Record,
           audit' = Append(audit, e), e.ask = a, e.outcome = word,
           x # a \/ word = "denied"
    PROVE  AuditOf(x)' = AuditOf(x)
  <1> DEFINE n == Len(audit)
  <1>1. audit \in Seq(Record)
    BY DEF TypeOK, StoreType
  <1>2. /\ n \in Nat /\ \A i \in 1..n : audit'[i] = audit[i]
        /\ audit'[n + 1] = e /\ 1..Len(audit') = 1..n \cup {n + 1}
    BY <1>1, LongerLog
  <1> DEFINE R == {i \in 1..n : audit[i].ask = x /\ audit[i].outcome # "denied"}
             Q == {i \in 1..Len(audit') : audit'[i].ask = x /\ audit'[i].outcome # "denied"}
  <1>3. Q = R
    BY <1>2
  <1>4. \A i \in R : audit'[i].outcome = audit[i].outcome
    BY <1>2
  <1>5. AuditOf(x) = [i \in R |-> audit[i].outcome]
    BY DEF AuditOf
  <1>6. AuditOf(x)' = [i \in Q |-> audit'[i].outcome]
    BY DEF AuditOf
  <1> HIDE DEF R, Q
  <1> QED
    BY <1>3, <1>4, <1>5, <1>6

\* The audit log tells of a binding that is opened or closed.
LEMMA AuditTells ==
    ASSUME TypeOK, NEW a \in Asks, NEW word \in State \ {"none"}, NEW e \in Record,
           audit' = Append(audit, e), e.ask = a, e.outcome = word,
           Tells(AuditOf(a), binding[a].state),
           \/ binding[a].state = "none" /\ word = "pending"
           \/ binding[a].state = "pending" /\ word \in Decided
    PROVE  Tells(AuditOf(a)', word)
  <1> DEFINE n == Len(audit)
  <1>1. audit \in Seq(Record) /\ word # "denied"
    BY DEF TypeOK, StoreType, State, Decided
  <1>2. /\ n \in Nat /\ \A i \in 1..n : audit'[i] = audit[i]
        /\ audit'[n + 1] = e /\ 1..Len(audit') = 1..n \cup {n + 1}
        /\ n + 1 \notin 1..n
    BY <1>1, LongerLog
  <1> DEFINE R == {i \in 1..n : audit[i].ask = a /\ audit[i].outcome # "denied"}
             Q == {i \in 1..Len(audit') : audit'[i].ask = a /\ audit'[i].outcome # "denied"}
  <1>3. Q = R \cup {n + 1}
    BY <1>1, <1>2
  <1>4. \A i \in R : audit'[i].outcome = audit[i].outcome /\ i \in 1..n
    BY <1>2
  <1>5. AuditOf(a) = [i \in R |-> audit[i].outcome]
    BY DEF AuditOf
  <1>6. AuditOf(a)' = [i \in Q |-> audit'[i].outcome]
    BY DEF AuditOf
  <1>7. audit'[n + 1].outcome = word
    BY <1>2
  <1> HIDE DEF R, Q, n
  <1>8. /\ DOMAIN AuditOf(a) \subseteq 1..n /\ DOMAIN AuditOf(a)' = DOMAIN AuditOf(a) \cup {n + 1}
        /\ \A i \in DOMAIN AuditOf(a) : AuditOf(a)'[i] = AuditOf(a)[i]
        /\ AuditOf(a)'[n + 1] = word
    BY <1>3, <1>4, <1>5, <1>6, <1>7
  <1>9. PICK f, g, m, s : f = AuditOf(a) /\ g = AuditOf(a)' /\ m = n /\ s = binding[a].state
    OBVIOUS
  <1>10. Tells(g, word)
    <2>1. m \in Nat /\ DOMAIN f \subseteq 1..m /\ DOMAIN g = DOMAIN f \cup {m + 1}
      BY <1>2, <1>8, <1>9
    <2>2. (\A i \in DOMAIN f : g[i] = f[i]) /\ g[m + 1] = word /\ Tells(f, s)
      BY <1>8, <1>9
    <2>3. \/ s = "none" /\ word = "pending"
          \/ s = "pending" /\ word \in Decided
      BY <1>9
    <2> QED
      BY <2>1, <2>2, <2>3, TellsMore
  <1> QED
    BY <1>9, <1>10

\* The same of the activities on the conversations' timelines.
LEMMA TimelineTells ==
    ASSUME TypeOK, NEW x \in Asks, NEW a \in Asks, NEW word \in State \ {"none"},
           AppendActivity(a, word)
    PROVE  /\ x # a => ShownOf(x)' = ShownOf(x)
           /\ Tells(ShownOf(a), binding[a].state)
                /\ (\/ binding[a].state = "none" /\ word = "pending"
                    \/ binding[a].state = "pending" /\ word \in Decided)
                => Tells(ShownOf(a)', word)
  <1> DEFINE c == ConversationOf[a]
             log == timeline[c]
             n == Len(log)
             e == [ask |-> a, state |-> word]
  <1>1. c \in Conversations /\ log \in Seq(Activity) /\ e \in Activity
        /\ e.ask = a /\ e.state = word
    BY ApprovalAssumption DEF TypeOK, StoreType, Activity
  <1>2. timeline' = [timeline EXCEPT ![c] = Append(log, e)]
    BY DEF AppendActivity
  <1> HIDE DEF e
  <1>3. timeline'[c] = Append(log, e) /\ \A k \in Conversations \ {c} : timeline'[k] = timeline[k]
    BY <1>1, <1>2 DEF TypeOK, StoreType
  <1>4. /\ n \in Nat /\ \A i \in 1..n : timeline'[c][i] = timeline[c][i]
        /\ timeline'[c][n + 1] = e /\ 1..Len(timeline'[c]) = 1..n \cup {n + 1}
        /\ n + 1 \notin 1..n
    BY <1>1, <1>3, LongerLog
  <1> HIDE DEF c
  <1>5. ASSUME x # a
        PROVE  ShownOf(x)' = ShownOf(x)
    <2> DEFINE k == ConversationOf[x]
               R == {i \in 1..Len(timeline[k]) : timeline[k][i].ask = x}
               Q == {i \in 1..Len(timeline'[k]) : timeline'[k][i].ask = x}
    <2>1. k \in Conversations
      BY ApprovalAssumption
    <2>2. ShownOf(x) = [i \in R |-> timeline[k][i].state]
      BY DEF ShownOf
    <2>3. ShownOf(x)' = [i \in Q |-> timeline'[k][i].state]
      BY DEF ShownOf
    <2>4. CASE k # c
      BY <1>3, <2>1, <2>2, <2>3, <2>4
    <2>5. CASE k = c
      <3> HIDE DEF k
      <3>1. Q = R
        BY <1>1, <1>4, <1>5, <2>5
      <3>2. \A i \in R : timeline'[k][i].state = timeline[k][i].state
        BY <1>4, <2>5
      <3> HIDE DEF R, Q
      <3> QED
        BY <2>2, <2>3, <3>1, <3>2
    <2> QED
      BY <2>4, <2>5
  <1>6. ASSUME Tells(ShownOf(a), binding[a].state),
               \/ binding[a].state = "none" /\ word = "pending"
               \/ binding[a].state = "pending" /\ word \in Decided
        PROVE  Tells(ShownOf(a)', word)
    <2> DEFINE R == {i \in 1..n : timeline[c][i].ask = a}
               Q == {i \in 1..Len(timeline'[c]) : timeline'[c][i].ask = a}
    <2>1. ShownOf(a) = [i \in R |-> timeline[c][i].state]
      BY DEF ShownOf, c
    <2>2. ShownOf(a)' = [i \in Q |-> timeline'[c][i].state]
      BY DEF ShownOf, c
    <2>3. Q = R \cup {n + 1}
      BY <1>1, <1>4
    <2>4. \A i \in R : timeline'[c][i].state = timeline[c][i].state /\ i \in 1..n
      BY <1>4
    <2>5. timeline'[c][n + 1].state = word
      BY <1>1, <1>4
    <2> HIDE DEF R, Q, n
    <2>6. /\ DOMAIN ShownOf(a) \subseteq 1..n /\ DOMAIN ShownOf(a)' = DOMAIN ShownOf(a) \cup {n + 1}
          /\ \A i \in DOMAIN ShownOf(a) : ShownOf(a)'[i] = ShownOf(a)[i]
          /\ ShownOf(a)'[n + 1] = word
      BY <2>1, <2>2, <2>3, <2>4, <2>5
    <2>7. PICK f, g, m, s : f = ShownOf(a) /\ g = ShownOf(a)' /\ m = n /\ s = binding[a].state
      OBVIOUS
    <2>8. /\ m \in Nat /\ DOMAIN f \subseteq 1..m /\ DOMAIN g = DOMAIN f \cup {m + 1}
          /\ (\A i \in DOMAIN f : g[i] = f[i]) /\ g[m + 1] = word /\ Tells(f, s)
      BY <1>4, <1>6, <2>6, <2>7
    <2>9. \/ s = "none" /\ word = "pending"
          \/ s = "pending" /\ word \in Decided
      BY <1>6, <2>7
    <2>10. Tells(g, word)
      BY <2>8, <2>9, TellsMore
    <2> QED
      BY <2>7, <2>10
  <1> QED
    BY <1>5, <1>6

\* Every step keeps the audit log, the timeline and the bindings in agreement.
LEMMA StepRecords ==
    ASSUME TypeOK, RecordsAgree, LogStep
    PROVE  RecordsAgree'
  <1>1. CASE UNCHANGED <<audit, timeline, binding>>
    BY <1>1 DEF RecordsAgree, AuditOf, ShownOf
  <1>2. CASE Denied /\ UNCHANGED <<timeline, binding>>
    <2>1. PICK a \in Asks, before \in Schedule : AppendAudit(a, "denied", before, NoBaseline)
      BY <1>2 DEF Denied
    <2> DEFINE e == [ask |-> a, outcome |-> "denied", before |-> before, after |-> NoBaseline]
    <2>2. audit' = Append(audit, e) /\ e \in Record /\ e.ask = a /\ e.outcome = "denied"
      BY <2>1 DEF AppendAudit, Record, Schedule
    <2> HIDE DEF e
    <2>3. \A x \in Asks : AuditOf(x)' = AuditOf(x)
      BY <2>2, OthersTold
    <2>4. \A x \in Asks : ShownOf(x)' = ShownOf(x)
      BY <1>2 DEF ShownOf
    <2> QED
      BY <1>2, <2>3, <2>4 DEF RecordsAgree
  <1>3. ASSUME NEW a \in Asks, NEW before \in Schedule, NEW after \in Schedule,
               NEW word \in State, Recorded(a, word, before, after)
        PROVE  RecordsAgree'
    <2> DEFINE e == [ask |-> a, outcome |-> word, before |-> before, after |-> after]
    <2>1. audit' = Append(audit, e) /\ e \in Record /\ e.ask = a /\ e.outcome = word
      BY <1>3 DEF Recorded, AppendAudit, Record
    <2> HIDE DEF e
    <2>2. /\ word \in State \ {"none"} /\ AppendActivity(a, word)
          /\ \/ binding[a].state = "none" /\ word = "pending"
             \/ binding[a].state = "pending" /\ word \in Decided
          /\ binding'[a].state = word
      BY <1>3 DEF Recorded, Decided
    <2>3. \A x \in Asks : x # a => binding'[x] = binding[x]
      BY <1>3 DEF Recorded, TypeOK, StoreType
    <2>4. \A x \in Asks : x # a => AuditOf(x)' = AuditOf(x) /\ ShownOf(x)' = ShownOf(x)
      BY <2>1, <2>2, OthersTold, TimelineTells
    <2>5. Tells(AuditOf(a), binding[a].state) /\ Tells(ShownOf(a), binding[a].state)
      BY DEF RecordsAgree
    <2>6. Tells(AuditOf(a)', word)
      BY <2>1, <2>2, <2>5, AuditTells
    <2>7. Tells(ShownOf(a)', word)
      BY <2>2, <2>5, TimelineTells
    <2> QED
      BY <2>2, <2>3, <2>4, <2>6, <2>7 DEF RecordsAgree
  <1>4. \A a \in Asks : /\ binding[a].base.schedule \in Schedule /\ CandidateOf[a] \in Schedule
                        /\ NoBaseline \in Schedule /\ "consumed" \in State
    BY ApprovalAssumption DEF TypeOK, StoreType, Binding, Pointer, Schedule, State, Decided
  <1> QED
    BY <1>1, <1>2, <1>3, <1>4 DEF LogStep

\* The logs start empty and the site without a baseline.
LEMMA InitLogs ==
    ASSUME Init
    PROVE  LogInvariant
  <1>1. /\ audit = <<>> /\ Len(audit) = 0 /\ baseline = NoPointer
        /\ \A a \in Asks : /\ bound[a] = NoPointer /\ binding[a] = NoBinding
                           /\ Len(timeline[ConversationOf[a]]) = 0
    BY ApprovalAssumption DEF Init, StoreInit, AskInit
  <1>2. PointerTruth
    BY <1>1 DEF PointerTruth, NoPointer, NoBinding
  <1>3. BaselineExplained
    <2>1. Promotions = {}
      BY <1>1 DEF Promotions
    <2>2. Cardinality(Promotions) = 0
      BY <2>1, FS_EmptySet
    <2> QED
      BY <1>1, <2>1, <2>2 DEF BaselineExplained, NoPointer
  <1>4. RecordsAgree
    <2> SUFFICES ASSUME NEW a \in Asks
                 PROVE  Tells(AuditOf(a), "none") /\ Tells(ShownOf(a), "none")
      BY <1>1 DEF RecordsAgree, NoBinding
    <2>1. DOMAIN AuditOf(a) = {} /\ DOMAIN ShownOf(a) = {}
      BY <1>1 DEF AuditOf, ShownOf
    <2> QED
      BY <2>1 DEF Tells
  <1> QED
    BY <1>2, <1>3, <1>4 DEF LogInvariant

\* However requests and decisions race, lose and die, the pointers that were read
\* name baselines that were current, and the logs agree with the rows.
THEOREM LogsHold == Spec => []LogInvariant
  <1>1. Init => LogInvariant
    BY InitLogs
  <1>2. GovernanceInvariant /\ LogInvariant /\ [Next]_vars => LogInvariant'
    <2> SUFFICES ASSUME GovernanceInvariant, LogInvariant, [Next]_vars
                 PROVE  LogInvariant'
      OBVIOUS
    <2>1. LogStep /\ BoundStep
      BY StepLogs
    <2> QED
      BY <2>1, StepPointers, StepExplained, StepRecords DEF GovernanceInvariant, LogInvariant
  <1> QED
    BY <1>1, <1>2, GovernanceIsInvariant, PTL DEF Spec

\* The audit log explains the baseline: each recorded promotion replaced the result
\* of the one before, and there are as many as the baseline's resource version says
\* (promote_baseline.py: consume, promote and audit commit together).
THEOREM BaselineExplainedTheorem == Spec => []BaselineExplained
  <1>1. LogInvariant => BaselineExplained
    BY DEF LogInvariant
  <1> QED
    BY <1>1, LogsHold, PTL

\* Binding, audit log and timeline tell one story of every approval: asked once and
\* decided at most once (request_approval.py, decide_approval.py).
THEOREM RecordsAgreeTheorem == Spec => []RecordsAgree
  <1>1. LogInvariant => RecordsAgree
    BY DEF LogInvariant
  <1> QED
    BY <1>1, LogsHold, PTL
=============================================================================
