\* An agent's and a planner's approval of two candidates, an approval sent twice, one death.
SPECIFICATION Spec
CONSTANTS
    c1 = c1
    c2 = c2
    a1 = a1
    a2 = a2
    a3 = a3
    d1 = d1
    d2 = d2
    d3 = d3
    NoOne = NoOne
    NoBaseline = NoBaseline
    Candidates = {c1, c2}
    Drafts = {"p"}
    Conversations = {"conv"}
    Asks = {a1, a2}
    AgentAsks = {a1}
    Decisions = {d1, d2, d3}
    CandidateOf <- TwoCandidates
    DraftOf <- CandidateDraft
    ConversationOf <- AskConversation
    EffectOf <- OwnEffect
    AskOf <- DecisionAsk
    Verdict <- AllApprove
    KeyOf <- SameKey
    Versions <- Version12
    MaxFaults = 1
CHECK_DEADLOCK FALSE
INVARIANTS
    GovernanceInvariant
    BaselineExplained
    RecordsAgree
PROPERTIES
    ImplementsLedger
