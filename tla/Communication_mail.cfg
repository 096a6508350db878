\* A call repeated in parallel and after a crash, two mails, the poller, one analyst.
SPECIFICATION FairSpec
CONSTANTS
  None = None
  Cases = {c1}
  Keys = {k1}
  Calls = {x1, x2}
  Mails = {m1, m2}
  Passes = {loop}
  Loop = loop
  Analysts = {a1}
  Window = 2
  MaxFaults = 1
CHECK_DEADLOCK FALSE
INVARIANTS MailedOnce NoSilentGap ReplyJoinsItsThread
PROPERTIES EveryMailIngested
