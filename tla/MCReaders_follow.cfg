\* One case with an action, two runs, live or shadow, and two faults; two of four
\* writers of knowledge at once on a paper and the case's resolution.
SPECIFICATION MCSpec
CONSTANTS
  None = None
  Cases = {c1}
  Actions = {a1}
  Invoices = {i1}
  Runs = {r1, r2}
  Targets <- FewTargets
  Verdicts <- TwoVerdicts
  Causes = {"DISPUTE"}
  Ends = {"RESOLVED", "FAILED"}
  MaxEvents = 5
  MaxFaults = 2
  Papers = {"file"}
  Subjects = {"po"}
  Confidences = {1, 2}
  Writers = {w1, w2}
  MaxVersion = 2
  MaxWrites = 4
  MaxFacts = 3
SYMMETRY Symmetry
CHECK_DEADLOCK FALSE
INVARIANTS ReadModelFollows DecisionsStick SearchFindsTheText FactsAccountedFor
