\* Two relays on one outbox, as the case service deploys it; then one replica of a
\* producer and two of a consumer.
SPECIFICATION MCSpec
CONSTANTS
  None = None
  Aggregates = {a1, a2}
  Relays = {r1, r2}
  MaxRow = 3
  BatchSize = 2
  MaxFaults = 2
  OneAggregate = {a1}
  OneRelay = {r1}
  FewRows = 2
  FewFaults = 1
  Members = {m1, m2}
  MaxRecords = 2
  MaxFailures = 2
CHECK_DEADLOCK FALSE
INVARIANTS NoPhantomEvents DuplicatesNeedFaults
PROPERTIES NothingIsLost ImplementsDelivery EveryEventReachesHandler
