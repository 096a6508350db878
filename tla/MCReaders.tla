----------------------------- MODULE MCReaders -----------------------------
(* Instances, for TLC, of the two services that only follow what a case does: *)
(* the projector of the dashboard and the knowledge writers.  They share      *)
(* nothing but the cases, so the run explores one or the other, not both.     *)
EXTENDS Projector, Knowledge, TLC

\* Statuses that reach every branch of the projection, and one verdict that asks
\* for a person and one that does not.
FewTargets == {"TRIAGED", "ESCALATED", "RESOLVED"}
TwoVerdicts == {<<"REQUIRE_APPROVAL", "none">>, <<"ALLOW", "none">>}

MCNext ==
  \/ KnowledgeInit /\ Next /\ UNCHANGED knowledge
  \/ Init /\ KnowledgeNext /\ UNCHANGED vars

MCInit == Init /\ KnowledgeInit
MCSpec == MCInit /\ [][MCNext]_<<vars, knowledge>>

Symmetry == Permutations(Runs) \cup Permutations(Writers)
=============================================================================
