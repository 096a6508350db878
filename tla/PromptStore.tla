----------------------------- MODULE PromptStore -----------------------------
(***************************************************************************)
(* The versions of one prompt: seeded from the repository by every replica *)
(* that starts, added and activated by managers, read by each step of each *)
(* run.  A request reads all versions and writes, as it commits, the rows  *)
(* it changed; nothing in the database says that one version is active.    *)
(* What a session has loaded and still refers to it does not read afresh.  *)
(*                                                                         *)
(*   services/orchestrator/recoup_orchestrator/{prompt_store,routes}.py    *)
(*                                                                         *)
(* A content is a number: the repository's are its revisions, a manager's  *)
(* is 0.                                                                   *)
(***************************************************************************)
EXTENDS Naturals, Sequences

CONSTANTS Requesters,   \* transactions under way at once
          MaxRevision,  \* bound: revisions of the file
          MaxPrompts    \* bound: versions

ASSUME PromptAssumption == MaxRevision \in Nat \ {0} /\ MaxPrompts \in Nat

VARIABLES prompt,   \* rows, by version
          tx,       \* what each request has read and is about to do
          raced     \* history: a version was activated behind another activation

prompts == <<prompt, tx, raced>>

NoTx == [kind |-> "none", seen |-> <<>>, target |-> 0, content |-> 0, inserted |-> FALSE]

PromptInit == prompt = <<>> /\ tx = [s \in Requesters |-> NoTx] /\ raced = FALSE

Idles(s) == tx[s] = NoTx
ReadsAll(s, kind, target, content) ==
  /\ Idles(s)
  /\ tx' = [tx EXCEPT ![s] = [NoTx EXCEPT !.kind = kind, !.seen = prompt, !.target = target, !.content = content]]
  /\ UNCHANGED <<prompt, raced>>

Active(rows) == {v \in DOMAIN rows : rows[v].active}

-----------------------------------------------------------------------------
\* A seed activates what it adds unless a person's version, the first active one it
\* sees, is in its place; then it adds nothing that is stored already.
First(S) == CHOOSE v \in S : \A u \in S : v <= u
SeedActivates(seen) == Active(seen) # {} => seen[First(Active(seen))].by = "system:seed"
Known(seen, content) == \E v \in DOMAIN seen : seen[v].content = content

\* Replicas of two revisions may start side by side.
seed_from_files(s, revision) == ReadsAll(s, "seed", Len(prompt) + 1, revision)
add_prompt_version(s, activate) ==
  /\ prompt # <<>>
  /\ ReadsAll(s, IF activate THEN "add_active" ELSE "add", Len(prompt) + 1, 0)
activate_version(s, version) ==
  /\ version \in DOMAIN prompt /\ ~prompt[version].active
  /\ ReadsAll(s, "activate", version, 0)

Activates(s) ==
  \/ tx[s].kind = "activate" \/ (tx[s].kind = "add_active" /\ tx[s].inserted)
  \/ tx[s].kind = "seed" /\ ~Known(tx[s].seen, tx[s].content) /\ SeedActivates(tx[s].seen)

\* uq_prompt_versions_name_version: two that add the same version wait for each
\* other; the second fails.
Inserting(s) == \E r \in Requesters \ {s} : tx[r].inserted
Insertable(s) == ~Inserting(s) /\ Len(prompt) < tx[s].target /\ tx[s].target <= MaxPrompts

\* add_version flushes the row it adds, then reads all of them again to activate it; but
\* the row it numbered its own after is in the session still, and keeps what it said.
Latest(s) == Len(tx[s].seen)
Reread(s) == [prompt EXCEPT ![Latest(s)] = tx[s].seen[Latest(s)]]
InsertsRow(s) ==
  /\ tx[s].kind \in {"add", "add_active"} /\ ~tx[s].inserted /\ Insertable(s)
  /\ tx' = [tx EXCEPT ![s].inserted = TRUE, ![s].seen = Reread(s)]
  /\ UNCHANGED <<prompt, raced>>

\* A request that activates will go by the copy it has of version v.
GoesByCopy(s, v) == Activates(s) \/ (tx[s].kind = "add_active" /\ v = Latest(s))

\* What is written: the target, and the rows seen active, a row said to be inactive that
\* is thought so already being no change.  (Mutant: the target only.)
TargetOnly(rows, seen, target) == [v \in DOMAIN rows |-> [rows[v] EXCEPT !.active = (@ \/ v = target)]]
Switched(rows, seen, target) ==
  [v \in DOMAIN rows |-> [rows[v] EXCEPT !.active = v = target \/ (@ /\ v \notin Active(seen))]]

Added(s) == [by |-> IF tx[s].kind = "seed" THEN "system:seed" ELSE "manager",
             content |-> tx[s].content, active |-> FALSE]

Commits(s) ==
  /\ ~Idles(s)
  /\ CASE tx[s].kind = "activate" -> prompt' = Switched(prompt, tx[s].seen, tx[s].target)
       [] tx[s].kind = "seed" /\ Known(tx[s].seen, tx[s].content) -> UNCHANGED prompt
       [] OTHER ->
            LET rows == Append(prompt, Added(s)) IN
            /\ IF tx[s].kind = "seed" THEN Insertable(s) ELSE tx[s].inserted
            /\ prompt' = IF Activates(s) THEN Switched(rows, tx[s].seen, tx[s].target) ELSE rows
  /\ raced' = (raced \/ (Activates(s) /\ \E r \in Requesters \ {s} : GoesByCopy(r, tx[s].target)))
  /\ tx' = [tx EXCEPT ![s] = NoTx]

\* A conflict, or anything else: the transaction is rolled back.
RollsBack(s) == ~Idles(s) /\ tx' = [tx EXCEPT ![s] = NoTx] /\ UNCHANGED <<prompt, raced>>

PromptNext ==
  \E s \in Requesters :
    \/ \E revision \in 1..MaxRevision : seed_from_files(s, revision)
    \/ \E activate \in BOOLEAN : add_prompt_version(s, activate)
    \/ \E version \in DOMAIN prompt : activate_version(s, version)
    \/ InsertsRow(s) \/ Commits(s) \/ RollsBack(s)

PromptSpec == PromptInit /\ [][PromptNext]_prompts

-----------------------------------------------------------------------------
(* Properties *)

\* A step of a run finds the prompt it needs, whichever replicas start and managers
\* change it meanwhile; and it is clear which, unless a version was ever activated while
\* another activation was under way on an older copy of that version, or without it.
OneActivePrompt ==
  /\ prompt # <<>> => Active(prompt) # {}
  /\ Active(prompt) = {} \/ raced \/ \E v \in DOMAIN prompt : Active(prompt) = {v}
=============================================================================
