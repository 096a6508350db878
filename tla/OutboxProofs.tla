--------------------------- MODULE OutboxProofs ---------------------------
(***************************************************************************)
(* What the outbox guarantees for any number of rows, aggregates, relays   *)
(* and failures, the order one relay adds to it, and what with it and a    *)
(* group of consumers handlers see.                                        *)
(***************************************************************************)
EXTENDS EventDelivery, SequenceTheorems, FiniteSetTheorems, TLAPS

USE OutboxAssumption

RelayRow ==
  [phase : {"waiting", "draining", "ending"}, rows : SUBSET Ids, sent : SUBSET Ids]
EventRow == [of : Aggregates \cup {None}, state : RowState, published : BOOLEAN]

\* What a relay has locked is committed, and what it has sent is on the topic.
BatchInv ==
  \A r \in Relays :
    /\ relay[r].sent \subseteq relay[r].rows
    /\ \A i \in relay[r].rows : Committed(i)
    /\ \A i \in relay[r].sent : OnTopic(i)

\* Ids are given out in order.
FreshIds == \A i \in Ids : i > last => row[i].state = "none"

IInv == TypeOK /\ FreshIds /\ NoPhantomEvents /\ MarkedIsOnTopic /\ BatchInv

-----------------------------------------------------------------------------
(* The topic only grows at its end. *)

LEMMA Published ==
  ASSUME topic \in Seq(Ids), NEW i \in Ids, topic' = Append(topic, i)
  PROVE  /\ topic' \in Seq(Ids)
         /\ \A k \in DOMAIN topic : k \in DOMAIN topic' /\ topic'[k] = topic[k]
         /\ \A k \in DOMAIN topic' : k \in DOMAIN topic \/ topic'[k] = i
         /\ \E k \in DOMAIN topic' : topic'[k] = i
  <1>1. /\ Len(topic') = Len(topic) + 1
        /\ DOMAIN topic = 1..Len(topic) /\ DOMAIN topic' = 1..Len(topic')
        /\ Len(topic) \in Nat
        /\ topic'[Len(topic) + 1] = i
        /\ \A k \in 1..Len(topic) : topic'[k] = topic[k]
    OBVIOUS
  <1>2. topic' \in Seq(Ids)
    OBVIOUS
  <1> QED
    BY <1>1, <1>2

LEMMA StaysOnTopic ==
  ASSUME topic \in Seq(Ids), NEW j \in Ids, OnTopic(j),
         topic' = topic \/ \E i \in Ids : topic' = Append(topic, i)
  PROVE  OnTopic(j)'
  <1>1. CASE topic' = topic
    BY <1>1 DEF OnTopic
  <1>2. ASSUME NEW i \in Ids, topic' = Append(topic, i)
        PROVE  OnTopic(j)'
    BY <1>2, Published DEF OnTopic
  <1> QED
    BY <1>1, <1>2

\* What the four kinds of step do to a row that is committed, to the topic and to
\* the marks; the invariant needs no more of them.
RowsStay == \A i \in Ids : Committed(i) => Committed(i)' /\ row'[i].of = row[i].of
MarksStay == \A i \in Ids : row'[i].published => row[i].published

LEMMA NothingHeld ==
  Resting \in RelayRow /\ Resting.rows = {} /\ Resting.sent = {} /\ Cardinality(Resting.rows) <= BatchSize
  BY FS_EmptySet DEF Resting, RelayRow

LEMMA WriterStep ==
  ASSUME IInv, NEW a \in Aggregates,
         \/ enqueue_event(a)
         \/ \E s \in {"committed", "gone"} : End(a, s)
  PROVE  RowsStay /\ MarksStay /\ TypeOK' /\ FreshIds' /\ UNCHANGED <<relay, topic>>
  <1>1. CASE enqueue_event(a)
    <2> DEFINE n == last + 1
               new == [of |-> a, state |-> "open", published |-> FALSE]
    <2>1. n \in Ids /\ row[n].state = "none" /\ last' = n /\ new \in EventRow
      BY <1>1 DEF IInv, TypeOK, FreshIds, enqueue_event, Ids, EventRow, RowState
    <2>2. row' = [row EXCEPT ![n] = new] /\ UNCHANGED <<relay, topic, faults>>
      BY <1>1 DEF enqueue_event
    <2> HIDE DEF new
    <2>3. row' \in [Ids -> EventRow] /\ row'[n] = new /\ \A i \in Ids \ {n} : row'[i] = row[i]
      BY <2>1, <2>2 DEF IInv, TypeOK, EventRow
    <2>4. TypeOK'
      BY <2>1, <2>2, <2>3 DEF IInv, TypeOK, EventRow, Ids
    <2>5. FreshIds'
      BY <2>1, <2>3 DEF IInv, FreshIds, TypeOK, Ids
    <2>6. RowsStay
      BY <2>1, <2>3 DEF RowsStay, Committed
    <2>7. MarksStay
      BY <2>1, <2>3 DEF MarksStay, new
    <2> QED
      BY <2>2, <2>4, <2>5, <2>6, <2>7
  <1>2. ASSUME NEW s \in {"committed", "gone"}, End(a, s)
        PROVE  RowsStay /\ MarksStay /\ TypeOK' /\ FreshIds' /\ UNCHANGED <<relay, topic>>
    <2>1. /\ row \in [Ids -> EventRow]
          /\ row' = [i \in Ids |->
               IF row[i].of = a /\ row[i].state = "open" THEN [row[i] EXCEPT !.state = s]
               ELSE row[i]]
          /\ UNCHANGED <<last, relay, topic, faults>>
      BY <1>2 DEF End, IInv, TypeOK, EventRow
    <2>2. ASSUME NEW i \in Ids
          PROVE  /\ row'[i] \in EventRow
                 /\ row'[i].of = row[i].of /\ row'[i].published = row[i].published
                 /\ row'[i].state # row[i].state => row[i].state = "open"
      BY <2>1 DEF EventRow, RowState
    <2>3. row' \in [Ids -> EventRow]
      BY <2>1, <2>2
    <2> QED
      BY <2>1, <2>2, <2>3 DEF IInv, TypeOK, EventRow, RowsStay, MarksStay, FreshIds, Committed
  <1> QED
    BY <1>1, <1>2

\* Steps that leave the relays and the topic alone.
LEMMA WriterInductive ==
  ASSUME IInv, RowsStay, MarksStay, TypeOK', FreshIds', UNCHANGED <<relay, topic>>
  PROVE  IInv'
  <1>1. NoPhantomEvents'
    BY DEF IInv, NoPhantomEvents, RowsStay, TypeOK
  <1>2. MarkedIsOnTopic'
    BY DEF IInv, MarkedIsOnTopic, MarksStay, OnTopic
  <1>3. BatchInv'
    BY DEF IInv, BatchInv, RowsStay, OnTopic, TypeOK
  <1> QED
    BY <1>1, <1>2, <1>3 DEF IInv

\* Steps of one relay that leave the table alone: what it then holds is committed,
\* and what it then counts as sent is on the topic.
LEMMA RelayInductive ==
  ASSUME IInv, NEW r \in Relays, NEW q \in RelayRow,
         relay' = [relay EXCEPT ![r] = q],
         UNCHANGED <<row, last>>, faults' \in 0..MaxFaults,
         topic' = topic \/ \E i \in Ids : Committed(i) /\ topic' = Append(topic, i),
         q.sent \subseteq q.rows, Cardinality(q.rows) <= BatchSize,
         \A i \in q.rows : Committed(i),
         \A i \in q.sent : OnTopic(i)'
  PROVE  IInv'
  <1>1. topic \in Seq(Ids) /\ relay \in [Relays -> RelayRow]
    BY DEF IInv, TypeOK, RelayRow
  <1>2. topic' \in Seq(Ids) /\ \A k \in DOMAIN topic' : Committed(topic'[k])
    <2>1. CASE topic' = topic
      BY <1>1, <2>1 DEF IInv, NoPhantomEvents
    <2>2. ASSUME NEW i \in Ids, Committed(i), topic' = Append(topic, i)
          PROVE  topic' \in Seq(Ids) /\ \A k \in DOMAIN topic' : Committed(topic'[k])
      BY <1>1, <2>2, Published DEF IInv, NoPhantomEvents
    <2> QED
      BY <2>1, <2>2
  <1>3. \A i \in Ids : OnTopic(i) => OnTopic(i)'
    BY <1>1, StaysOnTopic
  <1>4. TypeOK'
    <2>1. ASSUME NEW p \in Relays
          PROVE  Cardinality(relay'[p].rows) <= BatchSize
      <3>1. CASE p = r
        BY <1>1, <3>1
      <3>2. CASE p # r
        BY <1>1, <3>2 DEF IInv, TypeOK
      <3> QED
        BY <3>1, <3>2
    <2> QED
      BY <1>1, <1>2, <2>1 DEF IInv, TypeOK, RelayRow
  <1>5. FreshIds'
    BY DEF IInv, FreshIds
  <1>6. NoPhantomEvents'
    BY <1>2 DEF NoPhantomEvents, Committed
  <1>7. MarkedIsOnTopic'
    BY <1>3 DEF IInv, MarkedIsOnTopic
  <1>8. BatchInv'
    <2> SUFFICES ASSUME NEW p \in Relays
                 PROVE  /\ relay'[p].sent \subseteq relay'[p].rows
                        /\ \A i \in relay'[p].rows : Committed(i)'
                        /\ \A i \in relay'[p].sent : OnTopic(i)'
      BY DEF BatchInv
    <2>1. CASE p = r
      BY <1>1, <2>1 DEF Committed
    <2>2. CASE p # r
      <3>1. relay'[p] = relay[p] /\ relay[p].sent \subseteq Ids
        BY <1>1, <2>2 DEF RelayRow
      <3> QED
        BY <1>3, <3>1 DEF IInv, BatchInv, Committed
    <2> QED
      BY <2>1, <2>2
  <1> QED
    BY <1>4, <1>5, <1>6, <1>7, <1>8 DEF IInv

LEMMA SelectInductive ==
  ASSUME IInv, NEW r \in Relays, Select(r)
  PROVE  IInv'
  <1>1. PICK rows \in SUBSET Ids :
          /\ FirstRows({i \in Ids : Unpublished(i) /\ ~Locked(r, i)}, rows)
          /\ relay' = [relay EXCEPT ![r] = [phase |-> "draining", rows |-> rows, sent |-> {}]]
    BY DEF Select
  <1>2. \A i \in rows : Committed(i)
    BY <1>1 DEF FirstRows, Unpublished, Committed
  <1> DEFINE q == [phase |-> "draining", rows |-> rows, sent |-> {}]
  <1>3. q \in RelayRow /\ q.rows = rows /\ q.sent = {} /\ Cardinality(q.rows) <= BatchSize
    BY <1>1 DEF RelayRow, FirstRows
  <1>4. UNCHANGED <<row, last, topic>> /\ faults' \in 0..MaxFaults
    BY DEF Select, IInv, TypeOK
  <1> HIDE DEF q
  <1> QED
    BY <1>1, <1>2, <1>3, <1>4, RelayInductive DEF q

LEMMA PublishInductive ==
  ASSUME IInv, NEW r \in Relays, NEW i \in Ids, Publish(r, i) \/ PublishFails(r, i)
  PROVE  IInv'
  <1>1. /\ relay[r] \in RelayRow /\ topic \in Seq(Ids)
        /\ relay[r].sent \subseteq relay[r].rows /\ relay[r].rows \subseteq Ids
        /\ \A j \in relay[r].rows : Committed(j)
        /\ \A j \in relay[r].sent : OnTopic(j)
        /\ faults \in 0..MaxFaults /\ MaxFaults \in Nat
        /\ Cardinality(relay[r].rows) <= BatchSize
    BY DEF IInv, TypeOK, BatchInv, RelayRow
  <1>2. i \in relay[r].rows /\ Committed(i)
    BY <1>1 DEF Publish, PublishFails, Turn
  <1>3. CASE Publish(r, i)
    <2> DEFINE q == [relay[r] EXCEPT !.sent = relay[r].sent \cup {i}]
    <2>1. /\ topic' = Append(topic, i) /\ relay' = [relay EXCEPT ![r] = q]
          /\ UNCHANGED <<row, last, faults>>
      BY <1>3 DEF Publish
    <2>2. q \in RelayRow /\ q.rows = relay[r].rows /\ q.sent = relay[r].sent \cup {i}
      BY <1>1 DEF RelayRow
    <2>3. \A j \in q.sent : OnTopic(j)'
      BY <1>1, <2>1, <2>2, Published, StaysOnTopic DEF OnTopic
    <2> HIDE DEF q
    <2> QED
      BY <1>1, <1>2, <2>1, <2>2, <2>3, RelayInductive
  <1>4. CASE PublishFails(r, i)
    <2> DEFINE q == [relay[r] EXCEPT !.phase = "ending"]
    <2>1. /\ topic' \in {topic, Append(topic, i)} /\ relay' = [relay EXCEPT ![r] = q]
          /\ faults' = faults + 1 /\ faults < MaxFaults /\ UNCHANGED <<row, last>>
      BY <1>4 DEF PublishFails, StopBatch, Fault
    <2>2. q \in RelayRow /\ q.rows = relay[r].rows /\ q.sent = relay[r].sent
      BY <1>1 DEF RelayRow
    <2>3. \A j \in q.sent : OnTopic(j)'
      BY <1>1, <2>1, <2>2, StaysOnTopic
    <2> HIDE DEF q
    <2>4. faults' \in 0..MaxFaults
      BY <1>1, <2>1
    <2> QED
      BY <1>1, <1>2, <2>1, <2>2, <2>3, <2>4, RelayInductive
  <1> QED
    BY <1>3, <1>4

LEMMA EndDrainInductive ==
  ASSUME IInv, NEW r \in Relays, EndDrain(r)
  PROVE  IInv'
  <1>1. /\ row \in [Ids -> EventRow] /\ relay \in [Relays -> RelayRow]
        /\ row' = [i \in Ids |->
             IF i \in relay[r].sent THEN [row[i] EXCEPT !.published = TRUE] ELSE row[i]]
        /\ relay' = [relay EXCEPT ![r] = Resting]
        /\ UNCHANGED <<last, topic, faults>>
    BY DEF EndDrain, Marked, IInv, TypeOK, EventRow, RelayRow
  <1>2. ASSUME NEW i \in Ids
        PROVE  /\ row'[i] \in EventRow
               /\ row'[i].of = row[i].of /\ row'[i].state = row[i].state
               /\ row'[i].published => row[i].published \/ i \in relay[r].sent
    BY <1>1 DEF EventRow
  <1>3. row' \in [Ids -> EventRow]
    BY <1>1, <1>2
  <1>4. Resting \in RelayRow /\ Resting.rows = {} /\ Resting.sent = {}
        /\ Cardinality(Resting.rows) <= BatchSize
    BY NothingHeld
  <1>5. TypeOK'
    <2>1. ASSUME NEW p \in Relays
          PROVE  Cardinality(relay'[p].rows) <= BatchSize
      <3>1. CASE p = r
        BY <1>1, <1>4, <3>1
      <3>2. CASE p # r
        BY <1>1, <3>2 DEF IInv, TypeOK
      <3> QED
        BY <3>1, <3>2
    <2> QED
      BY <1>1, <1>3, <1>4, <2>1 DEF IInv, TypeOK, EventRow, RelayRow
  <1>6. FreshIds'
    BY <1>1, <1>2 DEF IInv, FreshIds
  <1>7. NoPhantomEvents'
    BY <1>1, <1>2 DEF IInv, TypeOK, NoPhantomEvents, Committed
  <1>8. MarkedIsOnTopic'
    BY <1>1, <1>2 DEF IInv, MarkedIsOnTopic, BatchInv, OnTopic
  <1>9. BatchInv'
    <2> SUFFICES ASSUME NEW p \in Relays
                 PROVE  /\ relay'[p].sent \subseteq relay'[p].rows
                        /\ \A i \in relay'[p].rows : Committed(i)'
                        /\ \A i \in relay'[p].sent : OnTopic(i)'
      BY DEF BatchInv
    <2>1. CASE p = r
      BY <1>1, <1>4, <2>1
    <2>2. CASE p # r
      <3>1. relay'[p] = relay[p] /\ relay[p].rows \subseteq Ids
        BY <1>1, <2>2 DEF RelayRow
      <3> QED
        BY <1>1, <1>2, <3>1 DEF IInv, BatchInv, Committed, OnTopic
    <2> QED
      BY <2>1, <2>2
  <1> QED
    BY <1>5, <1>6, <1>7, <1>8, <1>9 DEF IInv

LEMMA CrashInductive ==
  ASSUME IInv, NEW r \in Relays, RelayCrash(r)
  PROVE  IInv'
  <1>1. Resting \in RelayRow /\ Resting.rows = {} /\ Resting.sent = {}
        /\ Cardinality(Resting.rows) <= BatchSize
    BY NothingHeld
  <1>2. /\ relay' = [relay EXCEPT ![r] = Resting] /\ UNCHANGED <<row, last, topic>>
        /\ faults' \in 0..MaxFaults
    BY DEF RelayCrash, Fault, IInv, TypeOK
  <1> QED
    BY <1>1, <1>2, RelayInductive

LEMMA InitIInv == Init => IInv
  <1> SUFFICES ASSUME Init
               PROVE  IInv
    OBVIOUS
  <1>1. topic = <<>> /\ DOMAIN topic = {} /\ topic \in Seq(Ids)
    BY DEF Init
  <1>2. /\ relay \in [Relays -> RelayRow]
        /\ \A r \in Relays : relay[r].rows = {} /\ relay[r].sent = {}
                            /\ Cardinality(relay[r].rows) <= BatchSize
    BY NothingHeld DEF Init
  <1>3. row \in [Ids -> EventRow] /\ \A i \in Ids : row[i].state = "none" /\ ~row[i].published
    BY DEF Init, EventRow, RowState
  <1>4. TypeOK
    BY <1>1, <1>2, <1>3 DEF Init, TypeOK, RelayRow, EventRow
  <1> QED
    BY <1>1, <1>2, <1>3, <1>4
    DEF IInv, FreshIds, NoPhantomEvents, MarkedIsOnTopic, BatchInv

LEMMA NextIInv == IInv /\ [Next]_vars => IInv'
  <1> SUFFICES ASSUME IInv, [Next]_vars
               PROVE  IInv'
    OBVIOUS
  <1>1. ASSUME NEW a \in Aggregates, enqueue_event(a) \/ Commit(a) \/ Rollback(a)
        PROVE  IInv'
    BY <1>1, WriterStep, WriterInductive DEF Commit, Rollback
  <1>2. ASSUME NEW r \in Relays, drain_once(r)
        PROVE  IInv'
    BY <1>2, SelectInductive, PublishInductive, EndDrainInductive DEF drain_once
  <1>3. ASSUME NEW r \in Relays, NEW i \in Ids, PublishFails(r, i)
        PROVE  IInv'
    BY <1>3, PublishInductive
  <1>4. ASSUME NEW r \in Relays, RelayCrash(r)
        PROVE  IInv'
    BY <1>4, CrashInductive
  <1>5. CASE UNCHANGED vars
    BY <1>5 DEF vars, IInv, TypeOK, FreshIds, NoPhantomEvents, MarkedIsOnTopic, BatchInv,
                Committed, OnTopic
  <1> QED
    BY <1>1, <1>2, <1>3, <1>4, <1>5 DEF Next

LEMMA Inductive == Spec => []IInv
  BY InitIInv, NextIInv, PTL DEF Spec

\* Every reachable state is well typed.
THEOREM TypeCorrect == Spec => []TypeOK
  BY Inductive, PTL DEF IInv

\* Nothing a transaction did not commit is ever seen by a consumer.
THEOREM OnlyCommittedIsPublished == Spec => []NoPhantomEvents
  BY Inductive, PTL DEF IInv

\* The relay forgets no event before the broker has it: what is marked was sent.
THEOREM MarkedWasPublished == Spec => []MarkedIsOnTopic
  BY Inductive, PTL DEF IInv

-----------------------------------------------------------------------------
(* Duplicates.  A row is on the topic once for the relay that has sent it or  *)
(* the mark it has, and once more for each failure.                           *)

Copies(i, t) == {k \in DOMAIN t : t[k] = i}
Sent(i) == row[i].published \/ \E r \in Relays : i \in relay[r].sent

\* What a relay holds no other holds, and is not marked yet.
HeldByOne ==
  \A r \in Relays :
    /\ relay[r].phase = "waiting" => relay[r].rows = {}
    /\ \A i \in relay[r].rows : ~row[i].published
    /\ \A q \in Relays \ {r} : relay[r].rows \cap relay[q].rows = {}

Counted ==
  \A i \in Ids : /\ Cardinality(Copies(i, topic)) <= faults + 1
                 /\ ~Sent(i) => Cardinality(Copies(i, topic)) <= faults

OnceInv == HeldByOne /\ Counted

LEMMA CopiesAre ==
  ASSUME NEW t \in Seq(Ids), NEW i \in Ids, NEW j \in Ids
  PROVE  /\ IsFiniteSet(Copies(j, t)) /\ Cardinality(Copies(j, t)) \in Nat
         /\ Cardinality(Copies(j, Append(t, i))) =
              IF j = i THEN Cardinality(Copies(j, t)) + 1 ELSE Cardinality(Copies(j, t))
<1>1. /\ DOMAIN t = 1..Len(t) /\ Len(t) \in Nat /\ DOMAIN Append(t, i) = 1..Len(t) + 1
      /\ Append(t, i)[Len(t) + 1] = i /\ \A k \in 1..Len(t) : Append(t, i)[k] = t[k]
  OBVIOUS
<1>2. IsFiniteSet(Copies(j, t))
  <2>1. IsFiniteSet(1..Len(t)) /\ Copies(j, t) \subseteq 1..Len(t)
    BY <1>1, FS_Interval DEF Copies
  <2> QED
    BY <2>1, FS_Subset
<1>3. Copies(j, Append(t, i)) = Copies(j, t) \cup (IF j = i THEN {Len(t) + 1} ELSE {})
  BY <1>1 DEF Copies
<1>4. Len(t) + 1 \notin Copies(j, t)
  BY <1>1 DEF Copies
<1> QED
  BY <1>2, <1>3, <1>4, FS_AddElement, FS_CardinalityType

\* Steps that publish nothing: a row loses what it was sent by to a failure only.
LEMMA NothingPublished ==
  ASSUME IInv, Counted, UNCHANGED topic,
         \/ faults' = faults /\ \A i \in Ids : Sent(i) => Sent(i)' \/ Copies(i, topic) = {}
         \/ faults' = faults + 1
  PROVE  Counted'
<1>1. topic \in Seq(Ids) /\ faults \in Nat
  BY DEF IInv, TypeOK
<1> SUFFICES ASSUME NEW i \in Ids
             PROVE  /\ Cardinality(Copies(i, topic)) <= faults' + 1
                    /\ ~Sent(i)' => Cardinality(Copies(i, topic)) <= faults'
  BY DEF Counted
<1>2. /\ Cardinality(Copies(i, topic)) \in Nat
      /\ Cardinality(Copies(i, topic)) <= faults + 1
      /\ ~Sent(i) => Cardinality(Copies(i, topic)) <= faults
  BY <1>1, CopiesAre DEF Counted
<1>3. Copies(i, topic) = {} => Cardinality(Copies(i, topic)) = 0
  BY FS_EmptySet
<1> QED
  BY <1>1, <1>2, <1>3

LEMMA SentIsCommitted ==
  ASSUME IInv, NEW i \in Ids, Sent(i)
  PROVE  Committed(i)
  BY DEF IInv, Sent, MarkedIsOnTopic, OnTopic, NoPhantomEvents, BatchInv, Committed

\* Writers neither mark nor publish.
LEMMA WriterOnce ==
  ASSUME IInv, OnceInv, NEW a \in Aggregates,
         enqueue_event(a) \/ Commit(a) \/ Rollback(a)
  PROVE  OnceInv'
<1>1. /\ MarksStay /\ UNCHANGED <<relay, topic, faults>>
      /\ \A i \in Ids : Committed(i) => row'[i].published = row[i].published
  <2>1. MarksStay /\ UNCHANGED <<relay, topic>>
    BY WriterStep DEF Commit, Rollback
  <2>2. faults' = faults
    BY DEF enqueue_event, Commit, Rollback, End
  <2>3. ASSUME NEW i \in Ids, Committed(i)
        PROVE  row'[i].published = row[i].published
    <3>1. CASE enqueue_event(a)
      <4>1. i # last + 1 /\ row \in [Ids -> EventRow]
        BY <2>3, <3>1 DEF IInv, TypeOK, FreshIds, Committed, enqueue_event, EventRow, Ids
      <4> QED
        BY <3>1, <4>1 DEF enqueue_event
    <3>2. CASE Commit(a) \/ Rollback(a)
      BY <2>3, <3>2 DEF Commit, Rollback, End, Committed
    <3> QED
      BY <3>1, <3>2
  <2> QED
    BY <2>1, <2>2, <2>3
<1>2. HeldByOne'
  BY <1>1 DEF OnceInv, HeldByOne, MarksStay, IInv, TypeOK
<1>3. \A i \in Ids : Sent(i) => Sent(i)'
  <2> SUFFICES ASSUME NEW i \in Ids, Sent(i)
               PROVE  row'[i].published \/ \E r \in Relays : i \in relay'[r].sent
    BY DEF Sent
  <2> QED
    BY <1>1, SentIsCommitted DEF Sent
<1>4. Counted'
  BY <1>1, <1>3, NothingPublished DEF OnceInv, Sent
<1> QED
  BY <1>2, <1>4 DEF OnceInv

\* Steps of one relay: what it then holds no other does, and it marked only its own.
LEMMA HeldStep ==
  ASSUME IInv, HeldByOne, NEW r \in Relays, NEW q \in RelayRow,
         relay' = [relay EXCEPT ![r] = q],
         q.phase = "waiting" => q.rows = {},
         \A i \in q.rows : ~row'[i].published,
         \A p \in Relays \ {r} : q.rows \cap relay[p].rows = {},
         \A i \in Ids : row'[i].published => row[i].published \/ i \in relay[r].rows
  PROVE  HeldByOne'
<1>1. /\ relay \in [Relays -> RelayRow] /\ relay'[r] = q
      /\ \A p \in Relays \ {r} : relay'[p] = relay[p]
  BY DEF IInv, TypeOK, RelayRow
<1> SUFFICES ASSUME NEW p \in Relays
             PROVE  /\ relay'[p].phase = "waiting" => relay'[p].rows = {}
                    /\ \A i \in relay'[p].rows : ~row'[i].published
                    /\ \A o \in Relays \ {p} : relay'[p].rows \cap relay'[o].rows = {}
  BY DEF HeldByOne
<1>2. CASE p = r
  BY <1>1, <1>2
<1>3. CASE p # r
  <2>1. \A i \in relay[p].rows : i \in Ids /\ i \notin relay[r].rows
    BY <1>1, <1>3 DEF HeldByOne, RelayRow
  <2> QED
    BY <1>1, <1>3, <2>1 DEF HeldByOne
<1> QED
  BY <1>2, <1>3

LEMMA SelectOnce ==
  ASSUME IInv, OnceInv, NEW r \in Relays, Select(r)
  PROVE  OnceInv'
<1>1. PICK rows \in SUBSET Ids :
        /\ FirstRows({i \in Ids : Unpublished(i) /\ ~Locked(r, i)}, rows)
        /\ relay' = [relay EXCEPT ![r] = [phase |-> "draining", rows |-> rows, sent |-> {}]]
  BY DEF Select
<1>2. \A i \in rows : ~row[i].published /\ \A p \in Relays \ {r} : i \notin relay[p].rows
  BY <1>1 DEF FirstRows, Unpublished, Locked
<1> DEFINE q == [phase |-> "draining", rows |-> rows, sent |-> {}]
<1>3. q \in RelayRow /\ q.phase = "draining" /\ q.rows = rows
  BY DEF RelayRow
<1>4. UNCHANGED <<row, last, topic, faults>> /\ relay[r].phase = "waiting"
  BY DEF Select
<1>5. relay \in [Relays -> RelayRow] /\ relay[r].sent = {}
  BY <1>4 DEF IInv, TypeOK, RelayRow, BatchInv, OnceInv, HeldByOne
<1>6. \A i \in Ids : Sent(i) => Sent(i)'
  BY <1>1, <1>4, <1>5 DEF Sent
<1> HIDE DEF q
<1>7. HeldByOne'
  <2>1. \A i \in q.rows : ~row'[i].published
    BY <1>2, <1>3, <1>4
  <2>2. \A p \in Relays \ {r} : q.rows \cap relay[p].rows = {}
    BY <1>2, <1>3
  <2>3. relay' = [relay EXCEPT ![r] = q]
    BY <1>1 DEF q
  <2> QED
    BY <1>3, <1>4, <2>1, <2>2, <2>3, HeldStep DEF OnceInv
<1>8. Counted'
  BY <1>4, <1>6, NothingPublished DEF OnceInv, Sent
<1> QED
  BY <1>7, <1>8 DEF OnceInv

\* A relay publishes a row nobody has sent; a failure may have all the same.
LEMMA PublishOnce ==
  ASSUME IInv, OnceInv, NEW r \in Relays, NEW n \in Ids,
         Publish(r, n) \/ PublishFails(r, n)
  PROVE  OnceInv'
<1>1. /\ relay \in [Relays -> RelayRow] /\ topic \in Seq(Ids) /\ faults \in Nat
      /\ relay[r] \in RelayRow
      /\ n \in relay[r].rows /\ n \notin relay[r].sent /\ relay[r].phase = "draining"
      /\ UNCHANGED row
  BY DEF IInv, TypeOK, RelayRow, Publish, PublishFails, Turn
<1>2. ~Sent(n)
  BY <1>1 DEF Sent, OnceInv, HeldByOne, IInv, BatchInv
<1>3. ASSUME NEW i \in Ids
      PROVE  /\ Cardinality(Copies(i, topic)) \in Nat
             /\ Cardinality(Copies(i, topic)) <= faults + 1
             /\ ~Sent(i) => Cardinality(Copies(i, topic)) <= faults
             /\ Cardinality(Copies(i, Append(topic, n))) =
                  IF i = n THEN Cardinality(Copies(i, topic)) + 1
                  ELSE Cardinality(Copies(i, topic))
  BY <1>1, CopiesAre DEF OnceInv, Counted
<1>4. CASE Publish(r, n)
  <2> DEFINE q == [relay[r] EXCEPT !.sent = relay[r].sent \cup {n}]
  <2>1. /\ topic' = Append(topic, n) /\ relay' = [relay EXCEPT ![r] = q]
        /\ UNCHANGED <<row, faults>>
    BY <1>4 DEF Publish
  <2>2. /\ q \in RelayRow /\ q.rows = relay[r].rows /\ q.sent = relay[r].sent \cup {n}
        /\ q.phase = relay[r].phase
    BY <1>1 DEF RelayRow
  <2> HIDE DEF q
  <2>3. HeldByOne'
    BY <1>1, <2>1, <2>2, HeldStep DEF OnceInv, HeldByOne
  <2>4. n \in relay'[r].sent /\ \A p \in Relays : relay[p].sent \subseteq relay'[p].sent
    BY <1>1, <2>1, <2>2
  <2>5. ASSUME NEW i \in Ids
        PROVE  /\ Cardinality(Copies(i, topic')) <= faults' + 1
               /\ ~Sent(i)' => Cardinality(Copies(i, topic')) <= faults'
    <3>1. CASE i = n
      <4>1. Sent(i)'
        BY <2>4, <3>1 DEF Sent
      <4> QED
        BY <1>1, <1>2, <1>3, <2>1, <3>1, <4>1
    <3>2. CASE i # n
      <4>1. Sent(i) => Sent(i)'
        BY <2>1, <2>4 DEF Sent
      <4> QED
        BY <1>1, <1>3, <2>1, <3>2, <4>1
    <3> QED
      BY <3>1, <3>2
  <2>6. Counted'
    BY <2>5 DEF Counted
  <2> QED
    BY <2>3, <2>6 DEF OnceInv
<1>5. CASE PublishFails(r, n)
  <2> DEFINE q == [relay[r] EXCEPT !.phase = "ending"]
  <2>1. /\ topic' \in {topic, Append(topic, n)} /\ relay' = [relay EXCEPT ![r] = q]
        /\ faults' = faults + 1 /\ UNCHANGED row
    BY <1>5 DEF PublishFails, StopBatch, Fault
  <2>2. q \in RelayRow /\ q.rows = relay[r].rows /\ q.phase = "ending"
    BY <1>1 DEF RelayRow
  <2> HIDE DEF q
  <2>3. HeldByOne'
    BY <1>1, <2>1, <2>2, HeldStep DEF OnceInv, HeldByOne
  <2>4. ASSUME NEW i \in Ids
        PROVE  /\ Cardinality(Copies(i, topic')) <= faults' + 1
               /\ ~Sent(i)' => Cardinality(Copies(i, topic')) <= faults'
    <3>1. \/ Cardinality(Copies(i, topic')) = Cardinality(Copies(i, topic))
          \/ Cardinality(Copies(i, topic')) = Cardinality(Copies(i, Append(topic, n)))
      BY <2>1
    <3>2. Cardinality(Copies(i, topic')) <= faults + 1
      BY <1>1, <1>2, <1>3, <3>1
    <3> QED
      BY <1>1, <1>3, <2>1, <3>1, <3>2
  <2>5. Counted'
    BY <2>4 DEF Counted
  <2> QED
    BY <2>3, <2>5 DEF OnceInv
<1> QED
  BY <1>4, <1>5

\* The batch's transaction ends: what was sent is marked, or a failure is counted.
LEMMA LetGoOnce ==
  ASSUME IInv, OnceInv, NEW r \in Relays, EndDrain(r) \/ RelayCrash(r)
  PROVE  OnceInv'
<1>1. /\ row \in [Ids -> EventRow] /\ relay \in [Relays -> RelayRow]
      /\ relay' = [relay EXCEPT ![r] = Resting] /\ UNCHANGED topic
      /\ relay[r].sent \subseteq relay[r].rows
  BY DEF EndDrain, RelayCrash, IInv, TypeOK, EventRow, RelayRow, BatchInv
<1>2. Resting \in RelayRow /\ Resting.rows = {} /\ Resting.sent = {}
  BY NothingHeld
<1>3. ASSUME NEW i \in Ids
      PROVE  /\ row'[i].published => row[i].published \/ i \in relay[r].rows
             /\ EndDrain(r) /\ (row[i].published \/ i \in relay[r].sent) => row'[i].published
  <2>1. CASE EndDrain(r)
    BY <1>1, <2>1 DEF EndDrain, Marked, EventRow
  <2>2. CASE RelayCrash(r)
    BY <2>2, <1>1 DEF RelayCrash, Fault, EndDrain, Marked, EventRow
  <2> QED
    BY <2>1, <2>2
<1>4. HeldByOne'
  BY <1>1, <1>2, <1>3, HeldStep DEF OnceInv
<1>5. CASE EndDrain(r)
  <2>1. ASSUME NEW i \in Ids, Sent(i)
        PROVE  Sent(i)'
    BY <1>1, <1>2, <1>3, <1>5, <2>1 DEF Sent
  <2>2. faults' = faults
    BY <1>5 DEF EndDrain
  <2>3. Counted'
    BY <1>1, <2>1, <2>2, NothingPublished DEF OnceInv, Sent
  <2> QED
    BY <1>4, <2>3 DEF OnceInv
<1>6. CASE RelayCrash(r)
  BY <1>1, <1>4, <1>6, NothingPublished DEF OnceInv, RelayCrash, Fault
<1> QED
  BY <1>5, <1>6

\* Locks, marks and the order of commits make failures the only source of
\* duplicates, with any number of replicas draining the table.
THEOREM DuplicatesAreFailures == Spec => []DuplicatesNeedFaults
<1>1. Init => OnceInv
  <2> SUFFICES ASSUME Init
               PROVE  OnceInv
    OBVIOUS
  <2>1. HeldByOne
    BY NothingHeld DEF Init, HeldByOne
  <2>2. \A i \in Ids : Copies(i, topic) = {}
    BY DEF Init, Copies
  <2>3. \A i \in Ids : Cardinality(Copies(i, topic)) = 0
    BY <2>2, FS_EmptySet
  <2>4. faults = 0
    BY DEF Init
  <2>5. Counted
    BY <2>3, <2>4 DEF Counted
  <2> QED
    BY <2>1, <2>5 DEF OnceInv
<1>2. IInv /\ OnceInv /\ [Next]_vars => OnceInv'
  <2> SUFFICES ASSUME IInv, OnceInv, [Next]_vars
               PROVE  OnceInv'
    OBVIOUS
  <2>1. CASE UNCHANGED vars
    <3>1. HeldByOne'
      BY <2>1 DEF vars, OnceInv, HeldByOne
    <3>2. Counted'
      BY <2>1 DEF vars, OnceInv, Counted, Sent
    <3> QED
      BY <3>1, <3>2 DEF OnceInv
  <2>2. CASE Next
    BY <2>2, WriterOnce, SelectOnce, PublishOnce, LetGoOnce DEF Next, drain_once
  <2> QED
    BY <2>1, <2>2
<1>3. IInv /\ OnceInv => DuplicatesNeedFaults
  <2> SUFFICES ASSUME IInv, OnceInv, NEW i \in Ids
               PROVE  Cardinality({k \in DOMAIN topic : topic[k] = i}) <= 1 + faults
    BY DEF DuplicatesNeedFaults
  <2>1. /\ Cardinality(Copies(i, topic)) \in Nat /\ faults \in Nat
        /\ Cardinality(Copies(i, topic)) <= faults + 1
    BY CopiesAre DEF OnceInv, Counted, IInv, TypeOK
  <2>2. Cardinality(Copies(i, topic)) <= 1 + faults
    BY <2>1
  <2> QED
    BY <2>2 DEF Copies
<1> QED
  BY <1>1, <1>2, <1>3, Inductive, PTL DEF Spec

-----------------------------------------------------------------------------
(* One relay *)

\* While an aggregate's transaction is open, all it committed before is older.
OpenIsNewest ==
  \A i, j \in Ids :
    Committed(i) /\ row[j].state = "open" /\ row[j].of = row[i].of => i < j

\* What comes before a row of the batch is in the batch or on the topic already.
BatchClosed ==
  \A r \in Relays : \A i \in relay[r].rows, j \in Ids :
    Committed(j) /\ row[j].of = row[i].of /\ j < i => j \in relay[r].rows \/ OnTopic(j)

OrderInv == OrderPerAggregate /\ OpenIsNewest /\ BatchClosed

LEMMA OpenIsNewestStep ==
  ASSUME IInv, OpenIsNewest, [Next]_vars
  PROVE  OpenIsNewest'
  <1>1. CASE UNCHANGED row
    BY <1>1 DEF OpenIsNewest, Committed
  <1>2. ASSUME NEW a \in Aggregates, enqueue_event(a)
        PROVE  OpenIsNewest'
    <2> DEFINE n == last + 1
               new == [of |-> a, state |-> "open", published |-> FALSE]
    <2>1. n \in Ids /\ row' = [row EXCEPT ![n] = new] /\ last \in Nat
      BY <1>2 DEF enqueue_event, IInv, TypeOK, Ids
    <2>2. /\ row'[n].state = "open"
          /\ \A i \in Ids \ {n} : row'[i] = row[i]
      BY <2>1 DEF IInv, TypeOK
    <2>3. \A i \in Ids : Committed(i)' => Committed(i) /\ i # n /\ i <= last
      BY <2>1, <2>2 DEF IInv, FreshIds, Committed, Ids
    <2> QED
      BY <2>1, <2>2, <2>3 DEF OpenIsNewest, Ids
  <1>3. ASSUME NEW a \in Aggregates, NEW s \in {"committed", "gone"}, End(a, s)
        PROVE  OpenIsNewest'
    <2>1. ASSUME NEW i \in Ids
          PROVE  /\ row'[i].of = row[i].of
                 /\ row[i].of = a => row'[i].state # "open"
                 /\ row[i].of # a => row'[i].state = row[i].state
      <3>1. row[i] \in EventRow
        BY DEF IInv, TypeOK, EventRow
      <3>2. row'[i] = IF row[i].of = a /\ row[i].state = "open"
                      THEN [row[i] EXCEPT !.state = s] ELSE row[i]
        BY <1>3 DEF End
      <3> QED
        BY <3>1, <3>2 DEF EventRow
    <2> QED
      BY <2>1 DEF OpenIsNewest, Committed
  <1>4. ASSUME NEW r \in Relays, EndDrain(r)
        PROVE  OpenIsNewest'
    <2>1. \A i \in Ids : row'[i].of = row[i].of /\ row'[i].state = row[i].state
      BY <1>4 DEF EndDrain, IInv, TypeOK, RowState
    <2> QED
      BY <2>1 DEF OpenIsNewest, Committed
  <1> QED
    BY <1>1, <1>2, <1>3, <1>4
    DEF Next, vars, Commit, Rollback, drain_once, Select, Publish, PublishFails, RelayCrash

\* The rows that become committed in a step were open, and whose rows are stays.
LEMMA NewlyCommitted ==
  ASSUME IInv, [Next]_vars, NEW j \in Ids, Committed(j)'
  PROVE  /\ Committed(j) \/ row[j].state = "open"
         /\ row'[j].of = row[j].of
  <1>1. CASE UNCHANGED row
    BY <1>1 DEF Committed
  <1>2. ASSUME NEW a \in Aggregates, enqueue_event(a)
        PROVE  /\ Committed(j) \/ row[j].state = "open"
               /\ row'[j].of = row[j].of
    BY <1>2 DEF enqueue_event, IInv, TypeOK, Ids, Committed
  <1>3. ASSUME NEW a \in Aggregates, NEW s \in {"committed", "gone"}, End(a, s)
        PROVE  /\ Committed(j) \/ row[j].state = "open"
               /\ row'[j].of = row[j].of
    <2>1. row[j] \in EventRow
      BY DEF IInv, TypeOK, EventRow
    <2>2. row'[j] = IF row[j].of = a /\ row[j].state = "open"
                    THEN [row[j] EXCEPT !.state = s] ELSE row[j]
      BY <1>3 DEF End
    <2> QED
      BY <2>1, <2>2 DEF EventRow, Committed
  <1>4. ASSUME NEW r \in Relays, EndDrain(r)
        PROVE  /\ Committed(j) \/ row[j].state = "open"
               /\ row'[j].of = row[j].of
    BY <1>4 DEF EndDrain, IInv, TypeOK, Committed
  <1> QED
    BY <1>1, <1>2, <1>3, <1>4
    DEF Next, vars, Commit, Rollback, drain_once, Select, Publish, PublishFails, RelayCrash

\* A committed row older than a committed row of its aggregate was committed already.
LEMMA OlderWasCommitted ==
  ASSUME IInv, OpenIsNewest, [Next]_vars, NEW i \in Ids, NEW j \in Ids,
         Committed(i), Committed(j)', row'[j].of = row'[i].of, j < i, row'[i].of = row[i].of
  PROVE  Committed(j) /\ row[j].of = row[i].of
  <1>1. /\ Committed(j) \/ row[j].state = "open"
        /\ row[j].of = row[i].of
    BY NewlyCommitted
  <1>2. row[j].state # "open"
    <2> SUFFICES ASSUME row[j].state = "open"
                 PROVE  FALSE
      OBVIOUS
    <2>1. i < j
      BY <1>1 DEF OpenIsNewest
    <2> QED
      BY <2>1 DEF Ids
  <1> QED
    BY <1>1, <1>2

LEMMA BatchClosedStep ==
  ASSUME IInv, IInv', OpenIsNewest, BatchClosed, [Next]_vars, NEW s, Relays = {s}
  PROVE  BatchClosed'
  <1> SUFFICES ASSUME NEW i \in relay'[s].rows, NEW j \in Ids,
                      Committed(j)', row'[j].of = row'[i].of, j < i
               PROVE  j \in relay'[s].rows \/ OnTopic(j)'
    BY DEF BatchClosed
  <1>1. i \in Ids /\ relay'[s].rows \subseteq Ids
    BY DEF IInv, TypeOK
  <1>2. CASE Select(s)
    <2>1. PICK rows \in SUBSET Ids :
            /\ FirstRows({k \in Ids : Unpublished(k) /\ ~Locked(s, k)}, rows)
            /\ relay' = [relay EXCEPT ![s] = [phase |-> "draining", rows |-> rows, sent |-> {}]]
      BY <1>2 DEF Select
    <2>2. relay'[s].rows = rows /\ UNCHANGED <<row, topic>>
      BY <1>2, <2>1 DEF Select, IInv, TypeOK
    <2>3. CASE row[j].published
      BY <2>2, <2>3 DEF IInv, MarkedIsOnTopic, OnTopic
    <2>4. CASE ~row[j].published
      <3>1. j \in {k \in Ids : Unpublished(k) /\ ~Locked(s, k)}
        BY <2>2, <2>4 DEF Unpublished, Committed, Locked
      <3>2. j \in rows
        <4> SUFFICES ASSUME j \notin rows
                     PROVE  FALSE
          OBVIOUS
        <4>1. i < j
          BY <2>1, <2>2, <3>1 DEF FirstRows
        <4> QED
          BY <1>1, <4>1 DEF Ids
      <3> QED
        BY <2>2, <3>2
    <2> QED
      BY <2>3, <2>4
  <1>3. CASE ~Select(s)
    <2>1. relay'[s].rows = relay[s].rows \/ relay'[s].rows = {}
      <3>1. relay \in [Relays -> RelayRow]
        BY DEF IInv, TypeOK, RelayRow
      <3>2. CASE UNCHANGED relay
        BY <3>2
      <3>3. ASSUME NEW n \in Ids, Publish(s, n) \/ PublishFails(s, n)
            PROVE  relay'[s].rows = relay[s].rows
        BY <3>1, <3>3 DEF Publish, PublishFails, StopBatch, RelayRow
      <3>4. CASE EndDrain(s) \/ RelayCrash(s)
        BY <3>1, <3>4 DEF EndDrain, RelayCrash, Resting
      <3> QED
        BY <1>3, <3>2, <3>3, <3>4
        DEF Next, vars, enqueue_event, Commit, Rollback, End, drain_once
    <2>2. i \in relay[s].rows /\ relay'[s].rows = relay[s].rows
      BY <2>1
    <2>3. Committed(i) /\ Committed(i)'
      BY <2>2 DEF IInv, BatchInv
    <2>4. row'[i].of = row[i].of
      BY <1>1, <2>3, NewlyCommitted
    <2>5. Committed(j) /\ row[j].of = row[i].of
      BY <1>1, <2>3, <2>4, OlderWasCommitted
    <2>6. j \in relay[s].rows \/ OnTopic(j)
      BY <2>2, <2>5 DEF BatchClosed
    <2>7. topic' = topic \/ \E k \in Ids : topic' = Append(topic, k)
      BY DEF Next, vars, enqueue_event, Commit, Rollback, End, drain_once, Select, Publish,
             PublishFails, EndDrain, RelayCrash
    <2> QED
      BY <2>2, <2>6, <2>7, StaysOnTopic DEF IInv, TypeOK
  <1> QED
    BY <1>2, <1>3

LEMMA OrderStep ==
  ASSUME IInv, IInv', OrderInv, [Next]_vars, NEW s, Relays = {s}
  PROVE  OrderPerAggregate'
  <1> SUFFICES ASSUME NEW k \in DOMAIN topic', NEW j \in Ids,
                      Committed(j)', row'[j].of = row'[topic'[k]].of, j < topic'[k]
               PROVE  \E m \in DOMAIN topic' : m < k /\ topic'[m] = j
    BY DEF OrderPerAggregate
  <1>1. topic \in Seq(Ids) /\ topic' \in Seq(Ids)
    BY DEF IInv, TypeOK
  <1>2. PICK i \in Ids : topic'[k] = i
    BY <1>1
  <1>3. ASSUME k \in DOMAIN topic, topic'[k] = topic[k],
               \A m \in DOMAIN topic : m \in DOMAIN topic' /\ topic'[m] = topic[m]
        PROVE  \E m \in DOMAIN topic' : m < k /\ topic'[m] = j
    <2>1. Committed(i)
      BY <1>2, <1>3 DEF IInv, NoPhantomEvents
    <2>2. row'[i].of = row[i].of
      <3>1. Committed(i)'
        BY <1>2 DEF IInv, NoPhantomEvents
      <3> QED
        BY <3>1, NewlyCommitted
    <2>3. Committed(j) /\ row[j].of = row[i].of
      BY <1>2, <2>1, <2>2, OlderWasCommitted DEF OrderInv
    <2>4. PICK m \in DOMAIN topic : m < k /\ topic[m] = j
      BY <1>2, <1>3, <2>3 DEF OrderInv, OrderPerAggregate
    <2> QED
      BY <1>3, <2>4
  <1>4. CASE UNCHANGED topic
    BY <1>3, <1>4
  <1>5. ASSUME NEW n \in Ids, Turn(s, n), topic' = Append(topic, n), UNCHANGED row
        PROVE  \E m \in DOMAIN topic' : m < k /\ topic'[m] = j
    <2>1. /\ Len(topic) \in Nat /\ DOMAIN topic = 1..Len(topic)
          /\ DOMAIN topic' = 1..(Len(topic) + 1)
          /\ topic'[Len(topic) + 1] = n
          /\ \A m \in DOMAIN topic : topic'[m] = topic[m]
      BY <1>1, <1>5
    <2>2. CASE k \in DOMAIN topic
      BY <1>3, <2>1, <2>2
    <2>3. CASE k = Len(topic) + 1
      <3>1. i = n /\ n \in relay[s].rows
        BY <1>2, <1>5, <2>1, <2>3 DEF Turn
      <3>2. j \in relay[s].rows \/ OnTopic(j)
        BY <1>2, <1>5, <3>1 DEF OrderInv, BatchClosed, Committed
      <3>3. j \in relay[s].rows => j \in relay[s].sent
        BY <1>2, <1>5, <3>1 DEF Turn, Ids
      <3>4. OnTopic(j)
        BY <3>2, <3>3 DEF IInv, BatchInv
      <3>5. PICK m \in DOMAIN topic : topic[m] = j
        BY <3>4 DEF OnTopic
      <3> QED
        BY <2>1, <2>3, <3>5
    <2> QED
      BY <2>1, <2>2, <2>3
  <1>6. UNCHANGED topic \/ \E n \in Ids : Turn(s, n) /\ topic' = Append(topic, n) /\ UNCHANGED row
    BY DEF Next, vars, enqueue_event, Commit, Rollback, End, drain_once, Select, Publish,
           PublishFails, EndDrain, RelayCrash
  <1> QED
    BY <1>4, <1>5, <1>6

\* With a single drainer consumers see each aggregate's events in order, through
\* crashes, failed and repeated publishes: what ADR-0004 claims, for one replica.
THEOREM OneRelayKeepsOrder ==
  ASSUME NEW s, Relays = {s}
  PROVE  Spec => []OrderPerAggregate
  <1>1. Init => OrderInv
    <2> SUFFICES ASSUME Init
                 PROVE  OrderInv
      OBVIOUS
    <2>1. DOMAIN topic = {} /\ (\A i \in Ids : row[i].state = "none")
          /\ (\A r \in Relays : relay[r].rows = {})
      BY DEF Init, Resting
    <2> QED
      BY <2>1 DEF OrderInv, OrderPerAggregate, OpenIsNewest, BatchClosed, Committed
  <1>2. IInv /\ IInv' /\ OrderInv /\ [Next]_vars => OrderInv'
    <2> SUFFICES ASSUME IInv, IInv', OrderInv, [Next]_vars
                 PROVE  OrderInv'
      OBVIOUS
    <2>1. OpenIsNewest'
      BY OpenIsNewestStep DEF OrderInv
    <2>2. BatchClosed'
      BY BatchClosedStep DEF OrderInv
    <2>3. OrderPerAggregate'
      BY OrderStep
    <2> QED
      BY <2>1, <2>2, <2>3 DEF OrderInv
  <1>3. OrderInv => OrderPerAggregate
    BY DEF OrderInv
  <1> QED
    BY <1>1, <1>2, <1>3, Inductive, PTL DEF Spec

-----------------------------------------------------------------------------
(* The consumers.  Whatever is called twice, the calls leave no gap: every    *)
(* record up to an offset a member or the group stands at was handled.        *)

CallRow == [offset : Nat \ {0}, ok : BOOLEAN]
Phases == {"polling", "handling", "committing", "dead"}
MemberRow == [phase : Phases, next : Nat, end : Nat, position : Nat]

Gapless(n, cs) == \A o \in 1..n : \E k \in DOMAIN cs : cs[k].offset = o

\* A loop in its batch may have been given the partition anew: it then stands at the
\* group's offset instead of its batch's end.
Reached(m, cs) ==
  IF m.phase = "handling"
  THEN /\ m.next > 0 /\ m.next <= m.end /\ Gapless(m.next - 1, cs)
       /\ m.position = m.end \/ Gapless(m.position, cs)
  ELSE Gapless(m.position, cs)

\* Offsets are those of records.
Within(m, n) == m.end <= n /\ m.position <= n

NoGap ==
  /\ owner \in Members
  /\ committed \in Nat /\ committed <= Len(topic) /\ Gapless(committed, calls)
  /\ member \in [Members -> MemberRow]
  /\ \A m \in Members : Reached(member[m], calls) /\ Within(member[m], Len(topic))
  /\ calls \in Seq(CallRow) /\ \A k \in DOMAIN calls : calls[k].offset <= Len(topic)

LEMMA ProducerNoGap ==
  ASSUME IInv, NoGap, Next, UNCHANGED consuming
  PROVE  NoGap' /\ \A k \in 1..Len(topic) : topic'[k] = topic[k]
<1>1. topic \in Seq(Ids) /\ (topic' = topic \/ \E i \in Ids : topic' = Append(topic, i))
  BY DEF IInv, TypeOK, Next, enqueue_event, Commit, Rollback, End, drain_once, Select, Publish,
         PublishFails, EndDrain, RelayCrash
<1>2. /\ Len(topic) \in Nat /\ Len(topic') \in Nat /\ Len(topic) <= Len(topic')
      /\ \A k \in 1..Len(topic) : topic'[k] = topic[k]
  BY <1>1
<1>3. UNCHANGED <<owner, committed, member, calls>>
  BY DEF consuming
<1>4. committed \in Nat /\ committed <= Len(topic')
  BY <1>2 DEF NoGap
<1>5. \A m \in Members : Within(member[m], Len(topic'))
  BY <1>2 DEF NoGap, Within, MemberRow
<1>6. \A k \in DOMAIN calls : calls[k].offset <= Len(topic')
  <2>1. \A k \in DOMAIN calls : calls[k].offset \in Nat /\ calls[k].offset <= Len(topic)
    <3>1. \A k \in DOMAIN calls : calls[k] \in CallRow
      BY DEF NoGap
    <3> QED
      BY <3>1 DEF NoGap, CallRow
  <2> QED
    BY <1>2, <2>1
<1> QED
  BY <1>2, <1>3, <1>4, <1>5, <1>6 DEF NoGap

\* One more call leaves no gap where there was none, and fills the next.
LEMMA OneMoreCall ==
  ASSUME NEW cs \in Seq(CallRow), NEW c \in CallRow
  PROVE  /\ \A n : Gapless(n, cs) => Gapless(n, Append(cs, c))
         /\ Gapless(c.offset - 1, cs) => Gapless(c.offset, Append(cs, c))
         /\ \A m : Reached(m, cs) => Reached(m, Append(cs, c))
<1> DEFINE new == Append(cs, c)
<1>1. /\ \A k \in DOMAIN cs : k \in DOMAIN new /\ new[k] = cs[k]
      /\ Len(cs) + 1 \in DOMAIN new /\ new[Len(cs) + 1] = c
  OBVIOUS
<1> HIDE DEF new
<1>2. \A n : Gapless(n, cs) => Gapless(n, new)
  BY <1>1 DEF Gapless
<1>3. ASSUME Gapless(c.offset - 1, cs) PROVE Gapless(c.offset, new)
  <2>1. c.offset \in Nat /\ Gapless(c.offset - 1, new)
    BY <1>2, <1>3 DEF CallRow
  <2> QED
    BY <1>1, <2>1 DEF Gapless
<1>4. \A m : Reached(m, cs) => Reached(m, new)
  BY <1>2 DEF Reached
<1> QED
  BY <1>2, <1>3, <1>4 DEF new

\* A step of a member: it alone moves, and calls at most one handler more.
LEMMA MemberStep ==
  ASSUME NoGap, NEW m \in Members, NEW q \in MemberRow,
         member' = [member EXCEPT ![m] = q], UNCHANGED topic, owner' \in Members,
         \/ UNCHANGED calls
         \/ \E c \in CallRow : c.offset <= Len(topic) /\ calls' = Append(calls, c),
         committed' \in Nat, committed' <= Len(topic), Gapless(committed', calls),
         Reached(q, calls'), Within(q, Len(topic))
  PROVE  NoGap'
<1>1. calls \in Seq(CallRow)
  BY DEF NoGap
<1>2. /\ calls' \in Seq(CallRow) /\ \A k \in DOMAIN calls' : calls'[k].offset <= Len(topic)
      /\ \A n : Gapless(n, calls) => Gapless(n, calls')
      /\ \A p : Reached(p, calls) => Reached(p, calls')
  <2>1. CASE UNCHANGED calls
    BY <2>1 DEF NoGap
  <2>2. ASSUME NEW c \in CallRow, c.offset <= Len(topic), calls' = Append(calls, c)
        PROVE  <1>2!:
    <3>1. calls' \in Seq(CallRow) /\ \A k \in DOMAIN calls' : k \in DOMAIN calls \/ calls'[k] = c
      BY <1>1, <2>2
    <3>2. \A k \in DOMAIN calls : calls'[k] = calls[k]
      BY <1>1, <2>2
    <3>3. \A k \in DOMAIN calls' : calls'[k].offset <= Len(topic)
      BY <2>2, <3>1, <3>2 DEF NoGap
    <3> QED
      BY <1>1, <2>2, <3>1, <3>3, OneMoreCall
  <2> QED
    BY <2>1, <2>2
<1>3. member' \in [Members -> MemberRow] /\ member'[m] = q
      /\ \A p \in Members \ {m} : member'[p] = member[p]
  BY DEF NoGap
<1>4. \A p \in Members : Reached(member'[p], calls') /\ Within(member'[p], Len(topic))
  BY <1>2, <1>3 DEF NoGap
<1> QED
  BY <1>2, <1>3, <1>4 DEF NoGap

\* The steps of a member that reads on from where it stands, or starts anew.
LEMMA PollStep ==
  ASSUME IInv, NoGap, NEW m \in Members, MaxRecords \in Nat,
         C!getmany(m) \/ C!commit(m) \/ C!LoopDies(m) \/ C!Restart(m) \/ C!Rebalance(m)
  PROVE  NoGap' /\ UNCHANGED <<topic, calls>>
<1> DEFINE old == member[m]
<1>1. /\ old \in MemberRow /\ Reached(old, calls) /\ Within(old, Len(topic)) /\ Len(topic) \in Nat
      /\ owner \in Members /\ committed \in Nat /\ committed <= Len(topic) /\ Gapless(committed, calls)
      /\ Gapless(0, calls)
  BY DEF NoGap, Gapless, IInv, TypeOK
<1> HIDE DEF old
<1>2. CASE C!getmany(m)
  <2>1. PICK n \in 1..C!AtMost(Len(topic) - old.position) :
          member' = [member EXCEPT ![m] =
            [phase |-> "handling", next |-> old.position + 1,
             end |-> old.position + n, position |-> old.position + n]]
    BY <1>2 DEF C!getmany, old
  <2>2. old.phase = "polling" /\ UNCHANGED <<topic, owner, committed, calls>>
    BY <1>2 DEF C!getmany, old
  <2>3. n \in Nat \ {0} /\ old.position \in Nat /\ old.position + n <= Len(topic)
    <3>1. old.position \in Nat
      BY <1>1 DEF MemberRow
    <3>2. C!AtMost(Len(topic) - old.position) <= Len(topic) - old.position
          /\ C!AtMost(Len(topic) - old.position) \in Int
      BY <1>1, <3>1 DEF C!AtMost
    <3> QED
      BY <1>1, <3>1, <3>2
  <2> DEFINE q == [phase |-> "handling", next |-> old.position + 1,
                   end |-> old.position + n, position |-> old.position + n]
  <2>4. q \in MemberRow /\ Within(q, Len(topic))
    BY <2>3 DEF MemberRow, Phases, Within
  <2>5. Gapless(old.position, calls) /\ old.position + 1 - 1 = old.position
    BY <1>1, <2>2, <2>3 DEF Reached
  <2>6. Reached(q, calls)
    BY <2>3, <2>5 DEF Reached
  <2> HIDE DEF q
  <2> QED
    BY <1>1, <2>1, <2>2, <2>4, <2>6, MemberStep DEF q
<1>3. CASE C!commit(m)
  <2> DEFINE q == [old EXCEPT !.phase = "polling"]
  <2>1. /\ member' = [member EXCEPT ![m] = q] /\ UNCHANGED <<topic, owner, calls>>
        /\ old.phase = "committing" /\ committed' \in {old.position, committed}
    BY <1>3 DEF C!commit, C!BatchDone, old
  <2>2. q \in MemberRow /\ q.position = old.position /\ q.end = old.end /\ q.phase = "polling"
        /\ old.position \in Nat
    BY <1>1 DEF MemberRow, Phases
  <2>3. Gapless(old.position, calls) /\ old.position <= Len(topic)
    BY <1>1, <2>1 DEF Reached, Within
  <2>4. Reached(q, calls) /\ Within(q, Len(topic))
    BY <1>1, <2>2, <2>3 DEF Reached, Within
  <2> HIDE DEF q
  <2> QED
    BY <1>1, <2>1, <2>2, <2>3, <2>4, MemberStep
<1>4. CASE C!LoopDies(m)
  <2> DEFINE q == [C!Fresh EXCEPT !.phase = "dead"]
  <2>1. member' = [member EXCEPT ![m] = q] /\ UNCHANGED <<topic, owner, committed, calls>>
    BY <1>4 DEF C!LoopDies
  <2>2. q \in MemberRow /\ Reached(q, calls) /\ Within(q, Len(topic))
    BY <1>1 DEF C!Fresh, MemberRow, Phases, Reached, Within
  <2> HIDE DEF q
  <2> QED
    BY <1>1, <2>1, <2>2, MemberStep
<1>5. CASE C!Restart(m)
  <2> DEFINE q == [C!Fresh EXCEPT !.position = committed]
  <2>1. member' = [member EXCEPT ![m] = q] /\ UNCHANGED <<topic, owner, committed, calls>>
    BY <1>5 DEF C!Restart
  <2>2. q \in MemberRow /\ Reached(q, calls) /\ Within(q, Len(topic))
    BY <1>1 DEF C!Fresh, MemberRow, Phases, Reached, Within
  <2> HIDE DEF q
  <2> QED
    BY <1>1, <2>1, <2>2, MemberStep
<1>6. CASE C!Rebalance(m)
  <2> DEFINE q == [old EXCEPT !.position = committed]
  <2>1. member' = [member EXCEPT ![m] = q] /\ UNCHANGED <<topic, committed, calls>> /\ owner' = m
    BY <1>6 DEF C!Rebalance, old
  <2>2. q \in MemberRow /\ Reached(q, calls) /\ Within(q, Len(topic))
    BY <1>1 DEF MemberRow, Reached, Within
  <2> HIDE DEF q
  <2> QED
    BY <1>1, <2>1, <2>2, MemberStep
<1> QED
  BY <1>2, <1>3, <1>4, <1>5, <1>6
  DEF C!getmany, C!commit, C!LoopDies, C!Restart, C!Rebalance

\* The handler is called with the next record, after all before it.
LEMMA HandlerStep ==
  ASSUME IInv, NoGap, NEW m \in Members, C!handler(m) \/ C!handler_failed(m)
  PROVE  /\ NoGap' /\ UNCHANGED topic
         /\ \E o \in 1..Len(topic), ok \in BOOLEAN :
              Gapless(o - 1, calls) /\ calls' = Append(calls, [offset |-> o, ok |-> ok])
<1> DEFINE old == member[m]
           phase == IF old.next = old.end THEN "committing" ELSE "handling"
           q == [old EXCEPT !.next = old.next + 1, !.phase = phase]
<1>1. /\ old \in MemberRow /\ Reached(old, calls) /\ Within(old, Len(topic)) /\ Len(topic) \in Nat
      /\ owner \in Members /\ committed \in Nat /\ committed <= Len(topic) /\ Gapless(committed, calls)
  BY DEF NoGap, IInv, TypeOK
<1>2. PICK ok \in BOOLEAN : calls' = Append(calls, [offset |-> old.next, ok |-> ok])
  BY DEF C!handler, C!handler_failed
<1>3. /\ member' = [member EXCEPT ![m] = q] /\ old.phase = "handling"
      /\ UNCHANGED <<topic, owner, committed>>
  BY DEF C!handler, C!handler_failed, C!Handled
<1> HIDE DEF old
<1>4. /\ old.next \in Nat \ {0} /\ old.end \in Nat /\ old.position \in Nat
      /\ old.next <= old.end /\ old.end <= Len(topic) /\ old.position <= Len(topic)
      /\ Gapless(old.next - 1, calls)
      /\ old.position = old.end \/ Gapless(old.position, calls)
  BY <1>1, <1>3 DEF MemberRow, Reached, Within
<1>5. phase \in Phases /\ (phase = "handling" <=> old.next # old.end)
  BY DEF Phases
<1> HIDE DEF phase
<1>6. /\ q \in MemberRow /\ q.phase = phase /\ q.next = old.next + 1
      /\ q.end = old.end /\ q.position = old.position
  <2>1. old = [phase |-> old.phase, next |-> old.next, end |-> old.end, position |-> old.position]
    BY <1>1 DEF MemberRow
  <2>2. q = [phase |-> phase, next |-> old.next + 1, end |-> old.end, position |-> old.position]
    <3>1. ASSUME NEW r, r = old, NEW p, p = [r EXCEPT !.next = old.next + 1, !.phase = phase]
          PROVE  p = [phase |-> phase, next |-> old.next + 1, end |-> old.end, position |-> old.position]
      BY <2>1, <3>1
    <3> QED
      BY <3>1
  <2> HIDE DEF q
  <2> QED
    BY <1>4, <1>5, <2>2 DEF MemberRow
<1> HIDE DEF q
<1> DEFINE c == [offset |-> old.next, ok |-> ok]
<1>7. c \in CallRow /\ c.offset = old.next /\ calls \in Seq(CallRow)
  BY <1>4 DEF CallRow, NoGap
<1> HIDE DEF c
<1>8. Gapless(old.next, calls') /\ (Gapless(old.position, calls) => Gapless(old.position, calls'))
  BY <1>2, <1>4, <1>7, OneMoreCall DEF c
<1>9. Reached(q, calls') /\ Within(q, Len(topic))
  <2>1. Within(q, Len(topic))
    BY <1>4, <1>6 DEF Within
  <2>2. q.position = q.end \/ Gapless(q.position, calls')
    BY <1>4, <1>8, <1>6
  <2>3. CASE old.next = old.end
    <3>1. q.phase # "handling" /\ Gapless(q.position, calls')
      BY <1>5, <1>8, <1>6, <2>2, <2>3
    <3> QED
      BY <2>1, <3>1 DEF Reached
  <2>4. CASE old.next # old.end
    <3>1. q.phase = "handling" /\ q.next > 0 /\ q.next <= q.end /\ q.next - 1 = old.next
      BY <1>4, <1>5, <1>6, <2>4
    <3>2. Gapless(q.next - 1, calls')
      BY <1>8, <3>1
    <3> QED
      BY <2>1, <2>2, <3>1, <3>2 DEF Reached
  <2> QED
    BY <2>3, <2>4
<1>10. \E d \in CallRow : d.offset <= Len(topic) /\ calls' = Append(calls, d)
  <2>1. c.offset <= Len(topic) /\ calls' = Append(calls, c)
    BY <1>1, <1>2, <1>4, <1>7 DEF c
  <2> QED
    BY <1>7, <2>1
<1>11. NoGap'
  BY <1>1, <1>3, <1>6, <1>9, <1>10, MemberStep
<1>12. old.next \in 1..Len(topic)
  BY <1>1, <1>4
<1> QED
  BY <1>2, <1>3, <1>4, <1>11, <1>12

LEMMA NoGapStep ==
  ASSUME IInv, NoGap, [WayNext]_way, MaxRecords \in Nat
  PROVE  NoGap'
<1>1. CASE Next /\ UNCHANGED consuming
  BY <1>1, ProducerNoGap
<1>2. CASE C!ConsumerNext
  BY <1>2, PollStep, HandlerStep DEF C!ConsumerNext, C!Loop
<1>3. CASE UNCHANGED way
  BY <1>3 DEF way, NoGap
<1> QED
  BY <1>1, <1>2, <1>3 DEF WayNext

-----------------------------------------------------------------------------
(* What handlers see is what an in-order delivery would show them.            *)

LEMMA AnnouncedStays ==
  ASSUME RowsStay, \A i \in Ids : Committed(i)' => Committed(i)
  PROVE  Announced' = Announced
<1>1. \A i \in Ids : (Committed(i)' <=> Committed(i)) /\ (Committed(i) => row'[i].of = row[i].of)
  BY DEF RowsStay
<1> QED
  BY <1>1 DEF Announced

\* A transaction commits: its rows are newer than what its aggregate had committed.
LEMMA CommitAnnounces ==
  ASSUME IInv, OpenIsNewest, NEW a \in Aggregates, Commit(a), UNCHANGED consuming
  PROVE  \E S \in SUBSET Ids : D!Announce(a, S)
<1> DEFINE S == {i \in Ids : row[i].of = a /\ row[i].state = "open"}
<1>1. S # {} /\ S \cap {j \in Ids : Committed(j)} = {} /\ S \in SUBSET Ids
  BY DEF Commit, End, Committed
<1>2. \A i \in Ids, j \in S : Committed(i) /\ row[i].of = a => i < j
  BY DEF OpenIsNewest
<1>3. UNCHANGED <<topic, calls>>
  BY DEF Commit, End, consuming
<1>4. \A i \in Ids : /\ row'[i].of = row[i].of
                     /\ row'[i].state = "committed" <=> Committed(i) \/ i \in S
  <2> SUFFICES ASSUME NEW i \in Ids
               PROVE  /\ row'[i].of = row[i].of
                      /\ row'[i].state = "committed" <=> Committed(i) \/ i \in S
    OBVIOUS
  <2>1. row[i] \in EventRow
    BY DEF IInv, TypeOK, EventRow
  <2>2. row'[i] = IF row[i].of = a /\ row[i].state = "open"
                  THEN [row[i] EXCEPT !.state = "committed"] ELSE row[i]
    BY DEF Commit, End
  <2> QED
    BY <2>1, <2>2 DEF EventRow, Committed
<1>5. \A i \in S : row[i].of = a
  OBVIOUS
<1> HIDE DEF S
<1>6. DOMAIN Announced = {j \in Ids : Committed(j)}
      /\ \A i \in DOMAIN Announced : Announced[i] = row[i].of
  BY DEF Announced
<1>7. Announced' = [i \in DOMAIN Announced \cup S |-> IF i \in S THEN a ELSE Announced[i]]
  <2>1. Announced' = [i \in {j \in Ids : row'[j].state = "committed"} |-> row'[i].of]
    BY DEF Announced, Committed
  <2>2. {j \in Ids : row'[j].state = "committed"} = DOMAIN Announced \cup S
    <3>1. \A j \in Ids : row'[j].state = "committed" <=> Committed(j) \/ j \in S
      BY <1>4
    <3> QED
      BY <1>1, <1>6, <3>1
  <2>3. \A i \in DOMAIN Announced \cup S : row'[i].of = IF i \in S THEN a ELSE Announced[i]
    BY <1>1, <1>4, <1>5, <1>6
  <2> QED
    BY <2>1, <2>2, <2>3
<1>8. Handed' = Handed
  BY <1>3 DEF Handed
<1>9. \A i \in DOMAIN Announced, j \in S : Announced[i] = a => i < j
  BY <1>2, <1>6
<1> QED
  BY <1>1, <1>6, <1>7, <1>8, <1>9 DEF D!Announce

\* No other step of the outbox is one of Delivery's.
LEMMA OutboxStutters ==
  ASSUME IInv, NoGap, Next, \A a \in Aggregates : ~Commit(a), UNCHANGED consuming
  PROVE  UNCHANGED <<Announced, Handed>>
<1>1. Announced' = Announced
  <2>1. CASE UNCHANGED row
    BY <2>1 DEF Announced, Committed
  <2>2. ASSUME NEW a \in Aggregates, enqueue_event(a)
        PROVE  Announced' = Announced
    <3>1. \A i \in Ids : Committed(i)' => Committed(i)
      BY <2>2 DEF enqueue_event, IInv, TypeOK, Ids, Committed
    <3> QED
      BY <2>2, <3>1, WriterStep, AnnouncedStays
  <2>3. ASSUME NEW a \in Aggregates, Rollback(a)
        PROVE  Announced' = Announced
    <3>1. \A i \in Ids : Committed(i)' => Committed(i)
      <4> SUFFICES ASSUME NEW i \in Ids, Committed(i)' PROVE Committed(i)
        OBVIOUS
      <4>1. row[i] \in EventRow
        BY DEF IInv, TypeOK, EventRow
      <4>2. row'[i] = IF row[i].of = a /\ row[i].state = "open"
                      THEN [row[i] EXCEPT !.state = "gone"] ELSE row[i]
        BY <2>3 DEF Rollback, End
      <4> QED
        BY <4>1, <4>2 DEF EventRow, Committed
    <3> QED
      BY <2>3, <3>1, WriterStep, AnnouncedStays DEF Rollback
  <2>4. ASSUME NEW r \in Relays, EndDrain(r)
        PROVE  Announced' = Announced
    <3>1. \A i \in Ids : row'[i].of = row[i].of /\ row'[i].state = row[i].state
      BY <2>4 DEF EndDrain, IInv, TypeOK, RowState
    <3> QED
      BY <3>1, AnnouncedStays DEF RowsStay, Committed
  <2> QED
    BY <2>1, <2>2, <2>3, <2>4
    DEF Next, drain_once, Select, Publish, PublishFails, RelayCrash
<1>2. Handed' = Handed
  <2>1. UNCHANGED calls /\ \A k \in DOMAIN calls : calls[k].offset \in 1..Len(topic)
    <3>1. \A k \in DOMAIN calls : calls[k] \in CallRow /\ calls[k].offset <= Len(topic)
      BY DEF NoGap
    <3>2. Len(topic) \in Nat
      BY DEF IInv, TypeOK
    <3> QED
      BY <3>1, <3>2 DEF CallRow, consuming
  <2> QED
    BY <2>1, ProducerNoGap DEF Handed
<1> QED
  BY <1>1, <1>2

LEMMA SequenceIs ==
  ASSUME NEW t \in Seq(Ids), NEW n, Len(t) = n
  PROVE  t = [k \in 1..n |-> t[k]]
OBVIOUS

LEMMA AppendIs ==
  ASSUME NEW s \in Seq(Ids), NEW e \in Ids
  PROVE  Append(s, e) = [k \in 1..Len(s) + 1 |-> IF k = Len(s) + 1 THEN e ELSE s[k]]
<1>1. /\ Append(s, e) \in Seq(Ids) /\ Len(Append(s, e)) = Len(s) + 1 /\ Len(s) \in Nat
      /\ \A k \in 1..Len(s) : Append(s, e)[k] = s[k]
      /\ Append(s, e)[Len(s) + 1] = e
  BY AppendProperties
<1>2. Append(s, e) = [k \in 1..Len(s) + 1 |-> Append(s, e)[k]]
  BY <1>1, SequenceIs
<1>3. \A k \in 1..Len(s) + 1 : Append(s, e)[k] = IF k = Len(s) + 1 THEN e ELSE s[k]
  BY <1>1
<1> QED
  BY <1>2, <1>3

\* A handler is called with an event that was announced, after all its aggregate's.
LEMMA CallHandsOver ==
  ASSUME IInv, OrderPerAggregate, NoGap, NEW o \in 1..Len(topic), NEW ok \in BOOLEAN,
         Gapless(o - 1, calls), calls' = Append(calls, [offset |-> o, ok |-> ok]),
         UNCHANGED <<row, topic>>
  PROVE  \E i \in Ids : D!HandOver(i)
<1>0. PICK i \in Ids : topic[o] = i
  BY DEF IInv, TypeOK
<1>1. topic \in Seq(Ids) /\ Len(topic) \in Nat /\ o \in DOMAIN topic /\ Committed(i)
  BY <1>0 DEF IInv, TypeOK, NoPhantomEvents
<1>2. \A j \in Ids : Committed(j) /\ row[j].of = row[i].of /\ j < i =>
        \E k \in DOMAIN Handed : Handed[k] = j
  <2> SUFFICES ASSUME NEW j \in Ids, Committed(j), row[j].of = row[i].of, j < i
               PROVE  \E k \in DOMAIN Handed : Handed[k] = j
    OBVIOUS
  <2>1. PICK n \in DOMAIN topic : n < o /\ topic[n] = j
    BY <1>0, <1>1 DEF OrderPerAggregate
  <2>2. n \in 1..o - 1
    BY <1>1, <2>1
  <2>3. PICK k \in DOMAIN calls : calls[k].offset = n
    BY <2>2 DEF Gapless
  <2> QED
    BY <2>1, <2>3 DEF Handed
<1>3. Handed' = Append(Handed, i)
  <2>1. calls \in Seq(CallRow)
    BY DEF NoGap
  <2>2. /\ DOMAIN calls = 1..Len(calls) /\ Len(calls) \in Nat
        /\ DOMAIN calls' = 1..Len(calls) + 1
        /\ \A k \in 1..Len(calls) : calls'[k] = calls[k]
        /\ calls'[Len(calls) + 1].offset = o
    BY <2>1
  <2>3. Handed \in Seq(Ids) /\ Len(Handed) = Len(calls)
    <3>1. \A k \in 1..Len(calls) : Handed[k] \in Ids
      <4> SUFFICES ASSUME NEW k \in 1..Len(calls) PROVE Handed[k] \in Ids
        OBVIOUS
      <4>1. calls[k] \in CallRow /\ calls[k].offset <= Len(topic)
        <5>1. k \in DOMAIN calls
          BY <2>2
        <5>2. calls[k] \in CallRow
          BY <2>1, <5>1
        <5>3. calls[k].offset <= Len(topic)
          BY <5>1 DEF NoGap
        <5> QED
          BY <5>2, <5>3
      <4>2. calls[k].offset \in 1..Len(topic)
        <5> DEFINE at == calls[k].offset
                   n == Len(topic)
        <5>1. at \in Nat \ {0}
          BY <4>1 DEF CallRow
        <5>2. at <= n /\ n \in Nat
          BY <1>1, <4>1
        <5> HIDE DEF at, n
        <5>3. at \in 1..n
          BY <5>1, <5>2
        <5> QED
          BY <5>3 DEF at, n
      <4> QED
        BY <1>1, <2>2, <4>2 DEF Handed
    <3>2. Handed = [k \in 1..Len(calls) |-> Handed[k]]
      BY <2>2 DEF Handed
    <3> QED
      BY <2>2, <3>1, <3>2
  <2>4. Handed' = [k \in 1..Len(calls) + 1 |-> IF k = Len(calls) + 1 THEN i ELSE Handed[k]]
    BY <1>0, <2>2 DEF Handed
  <2>5. Append(Handed, i) = [k \in 1..Len(calls) + 1 |-> IF k = Len(calls) + 1 THEN i ELSE Handed[k]]
    BY <2>2, <2>3, AppendIs
  <2> QED
    BY <2>4, <2>5
<1>4. UNCHANGED Announced
  BY DEF Announced, Committed
<1>5. i \in DOMAIN Announced /\ \A j \in DOMAIN Announced :
        Announced[j] = Announced[i] /\ j < i => D!Handed(j)
  BY <1>1, <1>2 DEF Announced, D!Handed
<1> QED
  BY <1>3, <1>4, <1>5 DEF D!HandOver

WayInv == IInv /\ OrderInv /\ NoGap

LEMMA DeliveryStep ==
  ASSUME WayInv, [WayNext]_way, MaxRecords \in Nat
  PROVE  [D!Next]_(D!delivery)
<1>1. ASSUME NEW a \in Aggregates, Commit(a), UNCHANGED consuming
      PROVE  D!Next
  BY <1>1, CommitAnnounces DEF WayInv, OrderInv, D!Next
<1>2. CASE Next /\ UNCHANGED consuming /\ \A a \in Aggregates : ~Commit(a)
  BY <1>2, OutboxStutters DEF WayInv, D!delivery
<1>3. ASSUME NEW m \in Members, C!handler(m) \/ C!handler_failed(m), UNCHANGED producing
      PROVE  D!Next
  <2>1. PICK o \in 1..Len(topic), ok \in BOOLEAN :
          Gapless(o - 1, calls) /\ calls' = Append(calls, [offset |-> o, ok |-> ok])
    BY <1>3, HandlerStep DEF WayInv
  <2>2. UNCHANGED <<row, topic>>
    BY <1>3, HandlerStep DEF WayInv, producing
  <2> QED
    BY <2>1, <2>2, CallHandsOver DEF WayInv, OrderInv, D!Next
<1>4. ASSUME NEW m \in Members, UNCHANGED producing,
             C!getmany(m) \/ C!commit(m) \/ C!LoopDies(m) \/ C!Restart(m) \/ C!Rebalance(m)
      PROVE  UNCHANGED D!delivery
  <2>1. UNCHANGED <<row, topic, calls>>
    BY <1>4, PollStep DEF WayInv, producing
  <2> QED
    BY <2>1 DEF D!delivery, Announced, Handed, Committed
<1>5. CASE UNCHANGED way
  BY <1>5 DEF way, D!delivery, Announced, Handed, Committed
<1> QED
  BY <1>1, <1>2, <1>3, <1>4, <1>5 DEF WayNext, C!ConsumerNext, C!Loop

\* With a single relay, whatever rolls back, fails, is published or delivered again, and
\* however the group's members come and go, each handler call is one that an in-order
\* delivery of the committed events would make: EventDelivery implements Delivery.
THEOREM DeliveryInOrder ==
  ASSUME NEW s, Relays = {s}, MaxRecords \in Nat
  PROVE  WaySpec => ImplementsDelivery
<1>1. WayInit => WayInv /\ D!Init
  <2> SUFFICES ASSUME WayInit PROVE WayInv /\ D!Init
    OBVIOUS
  <2>1. IInv /\ topic = <<>> /\ Len(topic) = 0
    BY InitIInv DEF WayInit, Init
  <2>2. OrderInv
    <3>1. DOMAIN topic = {} /\ (\A i \in Ids : row[i].state = "none")
          /\ (\A r \in Relays : relay[r].rows = {})
      BY <2>1 DEF WayInit, Init, Resting
    <3> QED
      BY <3>1 DEF OrderInv, OrderPerAggregate, OpenIsNewest, BatchClosed, Committed
  <2>3. NoGap
    <3>1. C!Fresh \in MemberRow /\ Reached(C!Fresh, calls) /\ Within(C!Fresh, 0)
      BY DEF C!Fresh, MemberRow, Phases, Reached, Gapless, Within
    <3>2. /\ owner \in Members /\ committed = 0 /\ member = [m \in Members |-> C!Fresh]
          /\ calls = <<>> /\ calls \in Seq(CallRow) /\ DOMAIN calls = {}
      BY DEF WayInit, C!Init
    <3> QED
      BY <2>1, <3>1, <3>2 DEF NoGap, Gapless
  <2>4. Announced = [i \in {} |-> i]
    <3>1. \A i \in Ids : ~Committed(i)
      BY DEF WayInit, Init, Committed
    <3> QED
      BY <3>1 DEF Announced
  <2>5. Handed = <<>>
    BY DEF WayInit, C!Init, Handed
  <2> QED
    BY <2>1, <2>2, <2>3, <2>4, <2>5 DEF WayInv, D!Init
<1>2. WayInv /\ [WayNext]_way => WayInv'
  <2> SUFFICES ASSUME WayInv, [WayNext]_way PROVE WayInv'
    OBVIOUS
  <2>1. [Next]_vars
    <3>1. C!ConsumerNext => UNCHANGED topic
      BY PollStep, HandlerStep DEF C!ConsumerNext, C!Loop, WayInv
    <3> QED
      BY <3>1 DEF WayNext, way, vars, producing
  <2>2. IInv'
    BY <2>1, NextIInv DEF WayInv
  <2>3. OpenIsNewest' /\ BatchClosed'
    BY <2>1, <2>2, OpenIsNewestStep, BatchClosedStep DEF WayInv, OrderInv
  <2>4. OrderPerAggregate'
    BY <2>1, <2>2, OrderStep DEF WayInv
  <2>5. NoGap'
    BY NoGapStep DEF WayInv
  <2> QED
    BY <2>2, <2>3, <2>4, <2>5 DEF WayInv, OrderInv
<1>3. WayInv /\ [WayNext]_way => [D!Next]_(D!delivery)
  BY DeliveryStep
<1> QED
  BY <1>1, <1>2, <1>3, PTL DEF WaySpec, ImplementsDelivery, D!Spec
=============================================================================
