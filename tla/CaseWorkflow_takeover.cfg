SPECIFICATION Spec
CONSTANTS
  Actions = {e1}
  Emails = {e1}
  Specialists = {"Investigator", "Communicator"}
  Earlier = {"absent", "PENDING", "EXECUTED"}
  RunLimit = 1
  MaxSteps = 3
  MaxTries = 2
  MaxEvents = 2
  None = None
PROPERTY PausedUnderTakeover
CHECK_DEADLOCK FALSE
