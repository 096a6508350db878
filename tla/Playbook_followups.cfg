SPECIFICATION PlaySpec
CONSTANTS
  Actions = {e1, e2}
  Emails = {e1, e2}
  Memos = {}
  Plans = {}
  Specialists = {"Triage", "Investigator", "Reconciler", "Negotiator", "Communicator"}
  Earlier = {"absent"}
  RunLimit = 3
  MaxSteps = 20
  MaxTries = 1
  MaxEvents = 0
  None = None
INVARIANTS FollowUpsFirst
CHECK_DEADLOCK FALSE
