\* A mail is sent, its topic is read again; nobody writes knowledge.
SPECIFICATION MCSpec
CONSTANTS
  None = None
  Cases = {c1}
  Actions = {a1}
  Invoices = {i1}
  Runs = {r1}
  Targets <- FewTargets
  Verdicts <- TwoVerdicts
  Causes = {"DISPUTE"}
  Ends = {"RESOLVED", "FAILED"}
  MaxEvents = 3
  MaxFaults = 1
  Papers = {}
  Subjects = {}
  Confidences = {}
  Writers = {}
  MaxVersion = 0
  MaxWrites = 0
  MaxFacts = 0
CHECK_DEADLOCK FALSE
INVARIANTS MailsCountedOnce
