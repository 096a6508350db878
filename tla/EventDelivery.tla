--------------------------- MODULE EventDelivery ---------------------------
(***************************************************************************)
(* An event's way from the transaction that commits it to the handlers of  *)
(* another service: the outbox and its relays (Outbox) and a consumer      *)
(* group (KafkaConsumer), joined at the topic.                             *)
(***************************************************************************)
EXTENDS Outbox

CONSTANTS Members, MaxRecords, MaxFailures   \* KafkaConsumer's

VARIABLES owner, committed, member, calls, failures

producing == <<row, last, relay, faults>>
consuming == <<owner, committed, member, calls, failures>>
way == <<row, last, relay, faults, topic, owner, committed, member, calls, failures>>

C == INSTANCE KafkaConsumer

WayInit == Init /\ C!Init

WayNext ==
  \/ Next /\ UNCHANGED consuming
  \/ C!ConsumerNext /\ UNCHANGED producing

\* Relays and consumers are loops that run as long as their process does, and a
\* group gives the partition of a dead member to another.
Fairness ==
  /\ \A r \in Relays : WF_way(drain_once(r) /\ UNCHANGED consuming)
  /\ \A m \in Members :
       /\ WF_way(C!Loop(m) /\ UNCHANGED producing)
       /\ WF_way(C!TakesOver(m) /\ UNCHANGED producing)

WaySpec == WayInit /\ [][WayNext]_way /\ Fairness

-----------------------------------------------------------------------------
(* Properties *)

\* What Delivery speaks of: the events of committed rows, and the calls of handlers by
\* what is at their offsets.
Announced == [i \in {j \in Ids : Committed(j)} |-> row[i].of]
Handed == [k \in DOMAIN calls |-> topic[calls[k].offset]]

D == INSTANCE Delivery WITH announced <- Announced, handed <- Handed

\* With one relay: whatever rolls back, is published again, delivered again or failed
\* on, handlers see what an in-order delivery of the committed events would show.
ImplementsDelivery == D!Spec

HandedOver(i, n) == \E k \in 1..n : topic[calls[k].offset] = i

\* Failures end one day: then every committed event reaches a handler, unless the
\* loop of every replica has died by then.
EveryEventHandled ==
  []<>(\A i \in Ids : Committed(i) =>
         HandedOver(i, Len(calls)) \/ \A m \in Members : member[m].phase = "dead")
=============================================================================
