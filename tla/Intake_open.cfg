\* A replica's ingestion loop, a person opening cases, and credits that change
\* what is open.
SPECIFICATION MCSpec
CONSTANTS
  None = None
  i1 = i1
  i2 = i2
  i3 = i3
  Cases = {c1, c2, c3}
  Actions = {}
  Invoices = {i1, i2, i3}
  Requests = {l1, p1}
  Loops = {l1}
  Targets = {}
  Verdicts = {}
  Humans = {}
  MaxVersion = 1
  DueOrder <- Order
  Docs <- OneDoc
  Amount <- Opening
  Creditable = {i1}
  KindSets <- Chosen
  Keys = {k1, k2}
  Posts = {e1, e2}
  Limit = 2
  MaxFaults = 1
  MaxQty = 3
  MaxPrice = 3
  MaxOpen = 8
  MaxInstallments = 12
  MaxPlan = 120
  Discounts = {0, 2, 5, 15, 50}
CHECK_DEADLOCK FALSE
INVARIANTS OneCasePerInvoice CreditsAddUp CreditsMatchDocuments PlansAgree
PROPERTIES OverdueGetsCase
