------------------------------ MODULE Knowledge ------------------------------
(***************************************************************************)
(* The knowledge service: documents cut into chunks that agents search,    *)
(* and durable facts about each customer, both rewritten as cases end.     *)
(* Every writer is a transaction that waits for an embedding before it     *)
(* commits; Postgres' locks, at READ COMMITTED, are all that orders them.  *)
(*                                                                         *)
(*   services/knowledge/recoup_knowledge/{writer,ingest,memory,routes}.py  *)
(*   services/orchestrator/.../activities.py (finalize_case)               *)
(*                                                                         *)
(* A case that ends is written twice, on case.resolved and on the request  *)
(* of finalize_case, at once or one after the other; so any writer may     *)
(* start on an ended case at any time.  A text is the version of what it   *)
(* renders; a document is cut into one chunk; facts are similar when they  *)
(* are on one topic of one customer, which makes similarity transitive.    *)
(***************************************************************************)
EXTENDS Naturals, FiniteSetsExt, Sequences

CONSTANTS Papers,      \* documents besides the case's resolution: mails, files, contracts
          Subjects,
          Confidences,
          Writers,     \* transactions under way at once
          MaxVersion,  \* bound: texts of a document
          MaxWrites,   \* bound: writers ever started
          MaxFacts     \* bound: rows of customer_memories

ASSUME KnowledgeAssumption ==
  /\ Confidences \subseteq Nat \ {0} /\ MaxVersion \in Nat /\ MaxWrites \in Nat /\ MaxFacts \in Nat
  /\ "resolution" \notin Papers

VARIABLES ended,   \* how often the case has ended, each time with another narrative
          doc,     \* text of each document; 0 is none
          chunk,   \* rows of chunks
          fact,    \* rows of customer_memories, in the order of their creation
          writer,
          search,  \* an agent's search: the chunks it has ranked
          writes,
          crossed  \* history: documents and topics written by overlapping transactions

knowledge == <<ended, doc, chunk, fact, writer, search, writes, crossed>>

Refs == Papers \cup {"resolution"}
Live == 0
Retired == MaxFacts + 1
NoSearch == [under_way |-> FALSE, ids |-> {}, kept |-> {}]
Resting == [phase |-> "idle", ref |-> "none", text |-> 0, gone |-> {}, topic |-> "none", conf |-> 0, old |-> 0]

KnowledgeInit ==
  /\ ended = 0 /\ doc = [r \in Refs |-> 0] /\ chunk = {} /\ fact = <<>>
  /\ writer = [w \in Writers |-> Resting] /\ search = NoSearch /\ writes = 0 /\ crossed = {}

In(w, phase) == writer[w].phase = phase
Sets(w, row) == writer' = [writer EXCEPT ![w] = row]
Moves(w, phase) == Sets(w, [writer[w] EXCEPT !.phase = phase])
Rests(w) == Sets(w, Resting)

-----------------------------------------------------------------------------
(* Who writes *)

Starts(w, row) == In(w, "idle") /\ writes < MaxWrites /\ writes' = writes + 1 /\ Sets(w, row)

\* An escalated or resolved case may be taken up again and end once more.
CaseEnds == ended < MaxVersion /\ ended' = ended + 1 /\ UNCHANGED <<doc, chunk, fact, writer, search, writes, crossed>>

\* The case's detail and its messages are read, then rendered.
write_for_case(w) ==
  /\ ended > 0
  /\ Starts(w, [Resting EXCEPT !.phase = "upserting", !.ref = "resolution", !.text = ended])
  /\ UNCHANGED <<ended, doc, chunk, fact, search, crossed>>

\* index_email, seed, and people's uploads: a document and no facts.
create_document(w, ref, text) ==
  /\ Starts(w, [Resting EXCEPT !.phase = "upserting", !.ref = ref, !.text = text])
  /\ UNCHANGED <<ended, doc, chunk, fact, search, crossed>>

\* A person, or an agent that calls remember_customer_fact.
add_memory(w, topic, conf) ==
  /\ Starts(w, [Resting EXCEPT !.phase = "listing", !.topic = topic, !.conf = conf])
  /\ UNCHANGED <<ended, doc, chunk, fact, search, crossed>>

-----------------------------------------------------------------------------
(* upsert_document *)

Resolution(w) == writer[w].ref = "resolution"
Then(w) == IF Resolution(w) THEN [Resting EXCEPT !.phase = "extracting"] ELSE Resting

Selects(w) ==
  /\ In(w, "upserting")
  /\ LET d == doc[writer[w].ref] IN
     IF d = writer[w].text THEN Sets(w, Then(w))
     ELSE Moves(w, IF d = 0 THEN "inserting" ELSE "replacing")
  /\ UNCHANGED <<ended, doc, chunk, fact, search, writes, crossed>>

\* A transaction that has deleted a document's chunks, or inserted the document,
\* makes others that would wait until it ends.
Holds(v, ref) == In(v, "embedding") /\ writer[v].ref = ref
Free(w) == \A v \in Writers \ {w} : ~Holds(v, writer[w].ref)

\* A DELETE that waits finds what was there when it began, and not what was
\* inserted meanwhile.  (Mutant: nothing is deleted.)
Nothing(w) == {}
OldChunks(w) == {x \in chunk : x.ref = writer[w].ref}
BeginsDelete(w) ==
  /\ In(w, "replacing")
  /\ Sets(w, [writer[w] EXCEPT !.phase = "deleting", !.gone = OldChunks(w)])
  /\ UNCHANGED <<ended, doc, chunk, fact, search, writes, crossed>>
Deletes(w) ==
  /\ In(w, "deleting") /\ Free(w)
  /\ Moves(w, "embedding")
  /\ UNCHANGED <<ended, doc, chunk, fact, search, writes, crossed>>

\* uq_documents_source: the second of two that insert one document fails.
Inserts(w) ==
  /\ In(w, "inserting") /\ Free(w)
  /\ IF doc[writer[w].ref] = 0 THEN Moves(w, "embedding") ELSE Rests(w)
  /\ UNCHANGED <<ended, doc, chunk, fact, search, writes, crossed>>

Overlapped(w, ref) == \E v \in Writers \ {w} : In(v, "deleting") /\ writer[v].ref = ref

\* Embedded, flushed and committed.
Indexes(w) ==
  LET ref == writer[w].ref
      id == 1 + Max({0} \cup {x.id : x \in chunk}) IN
  /\ In(w, "embedding")
  /\ chunk' = (chunk \ writer[w].gone) \cup {[ref |-> ref, text |-> writer[w].text, id |-> id]}
  /\ doc' = [doc EXCEPT ![ref] = writer[w].text]
  /\ crossed' = crossed \cup (IF Overlapped(w, ref) THEN {ref} ELSE {})
  /\ search' = [search EXCEPT !.kept = @ \ {ref}]
  /\ Sets(w, Then(w))
  /\ UNCHANGED <<ended, fact, writes>>

-----------------------------------------------------------------------------
(* hybrid_search: chunks are ranked by one SELECT and read by another.  Whether    *)
(* a chunk matches is left out: of each document all are near enough.              *)

Ranks ==
  /\ ~search.under_way
  /\ search' = [under_way |-> TRUE, ids |-> {x.id : x \in chunk}, kept |-> {r \in Refs : doc[r] # 0}]
  /\ UNCHANGED <<ended, doc, chunk, fact, writer, writes, crossed>>

Found == {x \in chunk : x.id \in search.ids}
Fetches ==
  /\ search.under_way /\ search' = NoSearch
  /\ UNCHANGED <<ended, doc, chunk, fact, writer, writes, crossed>>

-----------------------------------------------------------------------------
(* Facts *)

\* The model finds one or none; what it is not sure of is dropped.
extract_facts(w) ==
  /\ In(w, "extracting")
  /\ \/ Rests(w)
     \/ \E topic \in Subjects, conf \in Confidences :
          Sets(w, [Resting EXCEPT !.phase = "listing", !.topic = topic, !.conf = conf])
  /\ UNCHANGED <<ended, doc, chunk, fact, search, writes, crossed>>

\* The newest live fact it is a near-duplicate of.
Duplicates(topic) == {i \in DOMAIN fact : fact[i].topic = topic /\ fact[i].next = Live}
list_memory(w) ==
  /\ In(w, "listing")
  /\ Sets(w, [writer[w] EXCEPT !.phase = "adding", !.old = Max({0} \cup Duplicates(writer[w].topic))])
  /\ UNCHANGED <<ended, doc, chunk, fact, search, writes, crossed>>

\* (Mutant: the new fact's own confidence.)
ItsOwn(conf, old) == conf
AtLeast(conf, old) == IF old = 0 THEN conf ELSE Max({conf, fact[old].conf})

add_fact(w) ==
  LET topic == writer[w].topic
      old == writer[w].old
      new == [topic |-> topic, conf |-> AtLeast(writer[w].conf, old), next |-> Live] IN
  /\ In(w, "adding") /\ Len(fact) < MaxFacts
  /\ fact' = Append(IF old = 0 THEN fact ELSE [fact EXCEPT ![old].next = Len(fact) + 1], new)
  /\ crossed' = crossed \cup {t \in {topic} : \E v \in Writers \ {w} : In(v, "adding") /\ writer[v].topic = t}
  /\ Rests(w)
  /\ UNCHANGED <<ended, doc, chunk, search, writes>>

\* DELETE .../memory/{id}: whatever has become of the fact.
supersede(i) ==
  /\ fact' = [fact EXCEPT ![i].next = Retired]
  /\ UNCHANGED <<ended, doc, chunk, writer, search, writes, crossed>>

\* An upstream, the embedder or the database fails: the transaction is rolled back.
Fails(w) ==
  /\ ~In(w, "idle") /\ Rests(w)
  /\ UNCHANGED <<ended, doc, chunk, fact, search, writes, crossed>>

WriterStep(w) ==
  \/ Selects(w) \/ BeginsDelete(w) \/ Deletes(w) \/ Inserts(w) \/ Indexes(w)
  \/ extract_facts(w) \/ list_memory(w) \/ add_fact(w)

KnowledgeNext ==
  \/ CaseEnds \/ Ranks \/ Fetches
  \/ \E w \in Writers :
       \/ write_for_case(w) \/ WriterStep(w) \/ Fails(w)
       \/ \E ref \in Papers, text \in 1..MaxVersion : create_document(w, ref, text)
       \/ \E topic \in Subjects, conf \in Confidences : add_memory(w, topic, conf)
  \/ \E i \in DOMAIN fact : supersede(i)

-----------------------------------------------------------------------------
(* Properties *)

\* A search whose chunks are ranked while documents change still finds the present text
\* of each that none rewrote meanwhile; and, unless one writer of the document had to wait
\* for another, nothing it no longer says, and nothing twice.
SearchFindsTheText ==
  /\ \A r \in search.kept : \E x \in Found : x.ref = r /\ x.text = doc[r]
  /\ \A r \in Refs :
       LET indexed == {x \in chunk : x.ref = r} IN
       /\ doc[r] = 0 => indexed = {}
       /\ doc[r] # 0 => \E x \in indexed : x.text = doc[r]
       /\ r \notin crossed => Cardinality(indexed) <= 1

\* A fact goes only when a person retires it or a later one on its topic, held no
\* less surely, takes its place; and facts do not pile up, unless two writers of the
\* topic did not see each other.
FactsAccountedFor ==
  /\ \A i \in DOMAIN fact : fact[i].next \notin {Live, Retired} =>
       LET later == fact[fact[i].next] IN
       fact[i].next > i /\ later.topic = fact[i].topic /\ later.conf >= fact[i].conf
  /\ \A t \in Subjects \ crossed : Cardinality(Duplicates(t)) <= 1
=============================================================================
