------------------------------ MODULE MCEvents ------------------------------
(* Instances, for TLC, of the event platform: two relays that drain one        *)
(* outbox, as the chart deploys it, with nobody reading the topic; and, when   *)
(* alone, an event's whole way with a single relay, as ADR-0004 has it.        *)
EXTENDS EventDelivery

CONSTANTS OneAggregate, OneRelay, FewRows, FewFaults  \* of the whole way

ASSUME ConsumerAssumption == MaxRecords \in Nat \ {0} /\ MaxFailures \in Nat

VARIABLE alone

MCInit == WayInit /\ alone \in BOOLEAN

\* The smaller bounds of the whole way.
Few ==
  /\ last' <= FewRows /\ faults' <= FewFaults
  /\ \A i \in Ids : row'[i].of \in OneAggregate \cup {None}
  /\ \A r \in Relays \ OneRelay : relay'[r] = relay[r]

MCNext ==
  /\ WayNext
  /\ IF alone THEN Few ELSE UNCHANGED consuming
  /\ UNCHANGED alone

\* EventDelivery's Fairness, of those who take steps.
MCFairness ==
  /\ \A r \in Relays :
       WF_way((alone => r \in OneRelay) /\ drain_once(r) /\ UNCHANGED consuming)
  /\ \A m \in Members :
       /\ WF_way(alone /\ C!Loop(m) /\ UNCHANGED producing)
       /\ WF_way(alone /\ C!TakesOver(m) /\ UNCHANGED producing)

MCSpec == MCInit /\ [][MCNext]_<<way, alone>> /\ MCFairness

\* On the whole way, when failures end, every committed event reaches a handler,
\* unless the loop of every replica has died by then.
EveryEventReachesHandler == alone => EveryEventHandled
=============================================================================
