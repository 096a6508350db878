\* Two calls of the gateway at once; an agent with four turns.
SPECIFICATION MCSpec
CONSTANTS
  Actions = {a1}
  MemoKeys = {k1, s1}
  ProposeKeys = {p1}
  ShadowKeys = {s1}
  Calls = {c1, c2}
  None = None
  max_iterations = 4
  max_repairs = 1
  MaxCalls = 2
SYMMETRY CallSymmetry
CHECK_DEADLOCK FALSE
INVARIANTS AtMostOneMemo MemoAuthorised ExecutedWasIssued SuccessIsTrue CallsAnswered BudgetsBind
