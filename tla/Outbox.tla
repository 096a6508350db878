------------------------------ MODULE Outbox ------------------------------
(***************************************************************************)
(* The transactional outbox every service has: an event is a row inserted  *)
(* by the transaction that changes the state it announces; a relay in each *)
(* replica drains the rows in id order, locking what it reads and skipping *)
(* what another has locked, publishes them one by one and marks them in a  *)
(* transaction it commits at the end.  A relay may die at any moment, and  *)
(* a publish may fail although the broker has the event.                   *)
(*                                                                         *)
(*   libs/recoup-common/recoup_common/events/{outbox,publisher}.py         *)
(*                                                                         *)
(* One partition: the producer's key is the aggregate, so all that is said *)
(* per aggregate is unaffected by the others.                              *)
(***************************************************************************)
EXTENDS Naturals, Sequences, FiniteSets

CONSTANTS Aggregates,  \* cases, threads: what events are ordered by
          Relays,      \* one per replica of the service
          None,        \* no aggregate
          MaxRow,      \* bound: rows ever inserted
          BatchSize,
          MaxFaults    \* bound: failures ever

ASSUME OutboxAssumption ==
  MaxRow \in Nat /\ BatchSize \in Nat \ {0} /\ MaxFaults \in Nat

VARIABLES row,     \* the outbox table, by id
          last,    \* the last id given
          relay,   \* what each replica's relay holds locked and has sent
          topic,   \* the partition: ids in the order the broker has them
          faults

table == <<row, last>>
vars == <<row, last, relay, topic, faults>>

Ids == 1..MaxRow

\* "none" is no row; "open" one of a transaction under way.
RowState == {"none", "open", "committed", "gone"}

Resting == [phase |-> "waiting", rows |-> {}, sent |-> {}]

Init ==
  /\ row = [i \in Ids |-> [of |-> None, state |-> "none", published |-> FALSE]]
  /\ last = 0
  /\ relay = [r \in Relays |-> Resting]
  /\ topic = <<>>
  /\ faults = 0

Fault == faults < MaxFaults /\ faults' = faults + 1

-----------------------------------------------------------------------------
(* Writers.  Transactions of one aggregate do not overlap in their writes:    *)
(* they update the aggregate's row (CaseService), so its open rows are one's. *)

enqueue_event(a) ==
  /\ last < MaxRow
  /\ last' = last + 1
  /\ row' = [row EXCEPT ![last + 1] = [of |-> a, state |-> "open", published |-> FALSE]]
  /\ UNCHANGED <<relay, topic, faults>>

End(a, state) ==
  /\ \E i \in Ids : row[i].of = a /\ row[i].state = "open"
  /\ row' = [i \in Ids |->
               IF row[i].of = a /\ row[i].state = "open" THEN [row[i] EXCEPT !.state = state]
               ELSE row[i]]
  /\ UNCHANGED <<last, relay, topic, faults>>

Commit(a) == End(a, "committed")
Rollback(a) == End(a, "gone")

-----------------------------------------------------------------------------
(* The relay *)

\* Mutations: what other transactions have not committed, or what a cursor over ids
\* would find.
DirtyRead(i) == row[i].state \in {"open", "committed"} /\ ~row[i].published
CursorRead(i) ==
  row[i].state = "committed" /\ \A j \in Ids : row[j].published => j < i
Unpublished(i) == row[i].state = "committed" /\ ~row[i].published

WithoutLocks(r, i) == FALSE
Locked(r, i) == \E q \in Relays \ {r} : i \in relay[q].rows

\* SELECT ... WHERE published_at IS NULL ORDER BY id LIMIT n FOR UPDATE SKIP LOCKED
FirstRows(S, rows) ==
  /\ rows \subseteq S /\ rows # {}
  /\ Cardinality(rows) <= BatchSize
  /\ \A i \in rows, j \in S \ rows : i < j
  /\ Cardinality(rows) = BatchSize \/ rows = S

Select(r) ==
  /\ relay[r].phase = "waiting"
  /\ \E rows \in SUBSET Ids :
       /\ FirstRows({i \in Ids : Unpublished(i) /\ ~Locked(r, i)}, rows)
       /\ relay' = [relay EXCEPT ![r] = [phase |-> "draining", rows |-> rows, sent |-> {}]]
  /\ UNCHANGED <<row, last, topic, faults>>

\* The next row of the batch.
Turn(r, i) ==
  /\ relay[r].phase = "draining"
  /\ i \in relay[r].rows \ relay[r].sent
  /\ \A j \in relay[r].rows \ relay[r].sent : i <= j

Publish(r, i) ==
  /\ Turn(r, i)
  /\ topic' = Append(topic, i)
  /\ relay' = [relay EXCEPT ![r] = [relay[r] EXCEPT !.sent = relay[r].sent \cup {i}]]
  /\ UNCHANGED <<row, last, faults>>

\* The batch stops at its first failure: what follows must not overtake it.
\* The broker may have the event all the same.
CarryOn(r, i) == [relay[r] EXCEPT !.rows = relay[r].rows \ {i}]
StopBatch(r, i) == [relay[r] EXCEPT !.phase = "ending"]

PublishFails(r, i) ==
  /\ Turn(r, i)
  /\ Fault
  /\ topic' \in {topic, Append(topic, i)}
  /\ relay' = [relay EXCEPT ![r] = StopBatch(r, i)]
  /\ UNCHANGED <<row, last>>

\* The transaction of drain_once commits: the rows sent are marked.
MarkAll(r) == relay[r].rows
Marked(r) == relay[r].sent

EndDrain(r) ==
  /\ \/ relay[r].phase = "ending"
     \/ relay[r].phase = "draining" /\ relay[r].rows = relay[r].sent
  /\ row' = [i \in Ids |->
               IF i \in Marked(r) THEN [row[i] EXCEPT !.published = TRUE] ELSE row[i]]
  /\ relay' = [relay EXCEPT ![r] = Resting]
  /\ UNCHANGED <<last, topic, faults>>

\* The replica or its database connection dies: marks and locks are gone.
RelayCrash(r) ==
  /\ relay[r].phase # "waiting"
  /\ Fault
  /\ relay' = [relay EXCEPT ![r] = Resting]
  /\ UNCHANGED <<row, last, topic>>

drain_once(r) ==
  \/ Select(r)
  \/ \E i \in Ids : Publish(r, i)
  \/ EndDrain(r)

-----------------------------------------------------------------------------

Next ==
  \/ \E a \in Aggregates : enqueue_event(a) \/ Commit(a) \/ Rollback(a)
  \/ \E r \in Relays :
       \/ drain_once(r)
       \/ \E i \in Ids : PublishFails(r, i)
       \/ RelayCrash(r)

Spec == Init /\ [][Next]_vars

\* The relay's loop never gives up: an error is logged and the next poll comes.
\* Failures are finite here, as if they ended one day.
FairSpec == Spec /\ \A r \in Relays : WF_vars(drain_once(r))

-----------------------------------------------------------------------------
(* Properties *)

\* Rows, batches and the topic hold ids of the table, and a batch is within its limit.
TypeOK ==
  /\ row \in [Ids -> [of : Aggregates \cup {None}, state : RowState, published : BOOLEAN]]
  /\ last \in 0..MaxRow
  /\ relay \in [Relays -> [phase : {"waiting", "draining", "ending"},
                           rows : SUBSET Ids, sent : SUBSET Ids]]
  /\ \A r \in Relays : Cardinality(relay[r].rows) <= BatchSize
  /\ topic \in Seq(Ids)
  /\ faults \in 0..MaxFaults

OnTopic(i) == \E k \in DOMAIN topic : topic[k] = i
Committed(i) == row[i].state = "committed"

\* What consumers see did happen: no event of a transaction that rolled back,
\* or has not committed, is ever on the topic.
NoPhantomEvents == \A k \in DOMAIN topic : Committed(topic[k])

\* An event the relay will not look at again has reached the broker.
MarkedIsOnTopic == \A i \in Ids : row[i].published => OnTopic(i)

\* Relays, crashes and failures never make a consumer see an event of an
\* aggregate before it has seen every earlier committed one; it may see events
\* again.  This is what one drainer per outbox gives.
OrderPerAggregate ==
  \A k \in DOMAIN topic : \A j \in Ids :
    Committed(j) /\ row[j].of = row[topic[k]].of /\ j < topic[k] =>
      \E m \in DOMAIN topic : m < k /\ topic[m] = j

\* Replicas do not publish each other's rows: an event is on the topic once, and
\* once more for each failure at most.
DuplicatesNeedFaults ==
  \A i \in Ids : Cardinality({k \in DOMAIN topic : topic[k] = i}) <= 1 + faults

\* A committed event reaches the topic, whatever crashes on the way.
NothingIsLost == []<>(\A i \in Ids : Committed(i) => OnTopic(i))
=============================================================================
