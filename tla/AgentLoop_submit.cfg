\* An agent with four turns.
SPECIFICATION LoopSpec
CONSTANTS
  max_iterations = 4
  max_repairs = 1
  MaxCalls = 2
CHECK_DEADLOCK FALSE
INVARIANTS SubmissionEndsWork
