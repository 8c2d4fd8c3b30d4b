\* Concurrent starts of one site, their retries, a key reused, a malformed command;
\* or two sign-ins crossing in one browser, or two requests of one session.
SPECIFICATION FocusSpec
CONSTANTS
  Commands = {"c1", "c2", "c3", "c4", "c5"}
  Drafts = {"d1", "d2"}
  Sites = {"s"}
  DraftOf <- MCDraftOf
  KeyOf <- MCKeyOf
  ExpectedOf <- MCExpectedOf
  SiteOf <- MCSiteOf
  Cap = 1
  MaxSends = 3
  MaxVersion = 3
  MaxContext = 2
  Crashes = TRUE
  NoOne = NoOne
  Logins = {1, 2}
  Codes = {1, 2}
  Callbacks = {1, 2}
  Requests = {1, 2}
  Subjects = {planner, stranger}
  Planner = planner
  Secrets = {s1, s2}
  FirstSecret = s1
  HandshakeTTL = 2
  CodeTTL = 1
  SessionTTL = 2
  IdentityTTLs = {1, 3}
  Horizon = 3
  None = None
CHECK_DEADLOCK FALSE
INVARIANTS
    SiteLockWorks
    OneRunPerKey
    SessionIsEarned
    SessionEndsForAll
PROPERTIES
    StartsWhatWasReviewed
    AnswersActionable
