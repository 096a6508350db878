\* A suite of two cases, scored side by side, with faults, cancellations and people.
SPECIFICATION Spec
CONSTANTS
  None = None
  c1 = c1
  c2 = c2
  c3 = c3
  Offers <- Found
  Cause <- Causes
  Size = 2
  Concurrency = 2
  Probes = 2
  Tries = 2
  Shadows = {w1, w2, w3}
  Lives = {v1}
  Busy = {c1}
  MaxFaults = 1
  MaxCancels = 2
CHECK_DEADLOCK FALSE
INVARIANTS SuiteAddsUp DatasetBalanced LiveLeftAlone
PROPERTIES SuiteEnds
