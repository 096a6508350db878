\* Two requests at once on one case with two actions, every status asked for, people of
\* two roles; two managers and one evaluation on policies; two requests on one prompt.
SPECIFICATION MCSpec
CONSTANTS
  None = None
  Cases = {c1}
  Actions = {a1, a2}
  Invoices = {i1}
  Requests = {r1, r2}
  Targets <- CaseStatus
  Verdicts <- OneOfEach
  Humans = {"analyst", "manager"}
  MaxVersion = 5
  Policies = {p1, p2}
  Managers = {m1, m2}
  Evaluators = {e1}
  Submitted <- OwnPolicies
  Defaults <- OneDefault
  Bodies <- Freely
  Priorities = {}
  Questions <- FewQuestions
  MaxVersions = 3
  Matches <- MCMatches
  Valid <- MCValid
  NameRank <- MCNameRank
  Requesters = {s1, s2}
  MaxRevision = 2
  MaxPrompts = 4
SYMMETRY Symmetry
CHECK_DEADLOCK FALSE
INVARIANTS
  EventsReplayToRow ExecutionAuthorised
  StoreSound StandingDenyWins
  OneActivePrompt
PROPERTIES ImplementsLedger ExpectedVersionHonoured
