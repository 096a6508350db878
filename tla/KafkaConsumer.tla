--------------------------- MODULE KafkaConsumer ---------------------------
(***************************************************************************)
(* The loop with which every consuming service reads its topics, here one  *)
(* partition shared by the replicas of a consumer group: poll a batch,     *)
(* hand each record to the handler, log and skip the ones it fails on,     *)
(* commit after the batch.  Offsets count from 1.                          *)
(*                                                                         *)
(*   libs/recoup-common/recoup_common/events/consumer.py                   *)
(*                                                                         *)
(* Of Kafka itself: one member owns the partition, starts at the committed *)
(* offset when it is given it, and may not be told that it lost it until   *)
(* it commits; that commit changes nothing or raises.                      *)
(***************************************************************************)
EXTENDS Naturals, Sequences

CONSTANTS Members,      \* replicas of the consuming service
          MaxRecords,   \* max_records of a poll
          MaxFailures   \* bound: failures ever

VARIABLES topic,        \* the partition, written by the producer
          owner,        \* the member that has the partition
          committed,    \* the group's offset: the last record it is done with
          member,       \* what each replica's loop is doing
          calls,        \* every call of a handler: the offset, and whether it worked
          failures

consumer == <<owner, committed, member, calls, failures>>

Fresh == [phase |-> "polling", next |-> 0, end |-> 0, position |-> 0]

Init ==
  /\ owner \in Members
  /\ committed = 0
  /\ member = [m \in Members |-> Fresh]
  /\ calls = <<>>
  /\ failures = 0

Failure == failures < MaxFailures /\ failures' = failures + 1

AtMost(n) == IF n < MaxRecords THEN n ELSE MaxRecords

\* batch = await self._consumer.getmany(timeout_ms=500, max_records=50)
getmany(m) ==
  /\ member[m].phase = "polling"
  /\ owner = m
  /\ \E n \in 1..AtMost(Len(topic) - member[m].position) :
       member' = [member EXCEPT ![m] =
         [phase |-> "handling", next |-> member[m].position + 1,
          end |-> member[m].position + n, position |-> member[m].position + n]]
  /\ UNCHANGED <<topic, owner, committed, calls, failures>>

\* The last record of the batch leads to the commit.
Handled(m) ==
  [member EXCEPT ![m] =
    [member[m] EXCEPT !.next = member[m].next + 1,
                      !.phase = IF member[m].next = member[m].end THEN "committing" ELSE "handling"]]

handler(m) ==
  /\ member[m].phase = "handling"
  /\ calls' = Append(calls, [offset |-> member[m].next, ok |-> TRUE])
  /\ member' = Handled(m)
  /\ UNCHANGED <<topic, owner, committed, failures>>

\* Whatever the handler raises is logged; the record is not tried again.
handler_failed(m) ==
  /\ member[m].phase = "handling"
  /\ Failure
  /\ calls' = Append(calls, [offset |-> member[m].next, ok |-> FALSE])
  /\ member' = Handled(m)
  /\ UNCHANGED <<topic, owner, committed>>

BatchDone(m) == member[m].phase = "committing"

\* It commits the positions of the partitions it has: none, if it lost its own.
commit(m) ==
  /\ BatchDone(m)
  /\ committed' = IF owner = m THEN member[m].position ELSE committed
  /\ member' = [member EXCEPT ![m] = [member[m] EXCEPT !.phase = "polling"]]
  /\ UNCHANGED <<topic, owner, calls, failures>>

\* Nothing catches what a poll or a commit raises (a rebalance under way, a broker
\* that is gone): the task ends and the service runs on without it.
LoopDies(m) ==
  /\ member[m].phase \in {"polling", "committing"}
  /\ Failure
  /\ member' = [member EXCEPT ![m] = [Fresh EXCEPT !.phase = "dead"]]
  /\ UNCHANGED <<topic, owner, committed, calls>>

\* The service is restarted, after a crash or by an operator.
Restart(m) ==
  /\ IF member[m].phase = "dead" THEN UNCHANGED failures ELSE Failure
  /\ member' = [member EXCEPT ![m] = [Fresh EXCEPT !.position = committed]]
  /\ UNCHANGED <<topic, owner, committed, calls>>

\* The group gives the partition to m: a member joined or left, or one is dead.
Rebalance(m) ==
  /\ m # owner /\ member[m].phase # "dead"
  /\ IF member[owner].phase = "dead" THEN UNCHANGED failures ELSE Failure
  /\ owner' = m
  /\ member' = [member EXCEPT ![m] = [member[m] EXCEPT !.position = committed]]
  /\ UNCHANGED <<topic, committed, calls>>

Loop(m) == getmany(m) \/ handler(m) \/ commit(m)
TakesOver(m) == member[owner].phase = "dead" /\ Rebalance(m)

ConsumerNext ==
  \E m \in Members :
    Loop(m) \/ handler_failed(m) \/ LoopDies(m) \/ Restart(m) \/ Rebalance(m)
=============================================================================
