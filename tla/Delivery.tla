----------------------------- MODULE Delivery -----------------------------
(***************************************************************************)
(* What the event platform promises a consuming service: transactions      *)
(* announce events of an aggregate in order, and a handler is called with  *)
(* an event only after it was called with every earlier one of that        *)
(* aggregate.  Calls may repeat.  Tables, batches, relays, partitions and  *)
(* offsets are how EventDelivery does it, which is shown to implement this.*)
(***************************************************************************)
EXTENDS Naturals, Sequences

CONSTANTS Ids,         \* of events, in the order they were inserted
          Aggregates

VARIABLES announced,   \* the aggregate of each event some transaction committed
          handed       \* the events handlers were called with, in order

delivery == <<announced, handed>>

Handed(i) == \E k \in DOMAIN handed : handed[k] = i

Init ==
  /\ announced = [i \in {} |-> i]
  /\ handed = <<>>

\* A transaction commits: its events come after all its aggregate had.
Announce(a, S) ==
  /\ S # {} /\ S \cap DOMAIN announced = {}
  /\ \A i \in DOMAIN announced, j \in S : announced[i] = a => i < j
  /\ announced' = [i \in DOMAIN announced \cup S |-> IF i \in S THEN a ELSE announced[i]]
  /\ UNCHANGED handed

HandOver(i) ==
  /\ i \in DOMAIN announced
  /\ \A j \in DOMAIN announced : announced[j] = announced[i] /\ j < i => Handed(j)
  /\ handed' = Append(handed, i)
  /\ UNCHANGED announced

Next ==
  \/ \E a \in Aggregates, S \in SUBSET Ids : Announce(a, S)
  \/ \E i \in Ids : HandOver(i)

Spec == Init /\ [][Next]_delivery
=============================================================================
