\* Two turns, a revision and a rejection under one key, each sent twice, while the scenario moves and processes die.
SPECIFICATION FairSpec
CONSTANTS
  MaxDrafts = 2
  Turns = {t1, t2}
  Edits = {"e1", "e2"}
  KindOf <- KindRR
  KeyOf <- OneKey
  MaxSends = 2
  MaxScenario = 2
  Crashes = TRUE
CHECK_DEADLOCK FALSE
INVARIANTS
    NoLostEdit
    DraftRecordsAgree
    AppliedIsAnswered
PROPERTIES
    ImplementsLedger
    ClaimedTurnEnds
