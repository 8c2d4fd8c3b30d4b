\* A planner's request, its retry and an agent's, for one candidate, each decided meanwhile; every lock order ends.
SPECIFICATION FairSpec
CONSTANTS
    c1 = c1
    c2 = c2
    a1 = a1
    a2 = a2
    a3 = a3
    d1 = d1
    d2 = d2
    d3 = d3
    NoOne = NoOne
    NoBaseline = NoBaseline
    Candidates = {c1, c2}
    Drafts = {"p"}
    Conversations = {"conv"}
    Asks = {a1, a2, a3}
    AgentAsks = {a2}
    Decisions = {d1, d2}
    CandidateOf <- OneCandidate
    DraftOf <- CandidateDraft
    ConversationOf <- AskConversation
    EffectOf <- RetryEffect
    AskOf <- DecisionAsk
    Verdict <- OneRejects
    KeyOf <- SameKey
    Versions <- Version1
    MaxFaults = 1
CHECK_DEADLOCK FALSE
INVARIANTS
    OneBinding
    AgentFollowsBinding
PROPERTIES
    EveryoneAnswered
