----------------------------- MODULE PolicyStore -----------------------------
(***************************************************************************)
(* The policies of a tenant: managers create, change and delete them while *)
(* the tool gateway has its calls judged.  Every request is a transaction  *)
(* of several statements, each of which sees what was committed before it. *)
(*                                                                         *)
(*   services/policy/recoup_policy/{service,routes,models,schemas}.py      *)
(*                                                                         *)
(* A policy's rule, decision and role are its versions, which are only     *)
(* ever added.  The log of evaluations and its event are left out, and so  *)
(* are descriptions and who did what.                                      *)
(***************************************************************************)
EXTENDS PolicyEngine, Sequences, FiniteSets

CONSTANTS Policies,     \* their ids
          Managers,     \* requests that write, at once
          Evaluators,   \* evaluations, at once
          Submitted,    \* policies somebody may create
          Defaults,     \* the starter pack
          Bodies,       \* rule, decision and role of a further version
          Valid(_),     \* validate_rule
          Priorities,   \* those a policy may be given
          Questions,    \* what is judged: type and context
          MaxVersions   \* bound: versions of a policy

ASSUME PolicyAssumption ==
  /\ MaxVersions \in Nat \ {0}
  /\ Priorities \subseteq Nat
  /\ \A d \in Submitted \cup Defaults :
       DOMAIN d = {"name", "type", "priority", "body"} /\ d.priority \in Nat
  /\ \A d, e \in Defaults : d.name = e.name => d = e

VARIABLES policy,    \* table policies
          versions,  \* table policy_versions: of each policy, in order
          write,     \* requests of managers
          judged     \* evaluations

policies == <<policy, versions, write, judged>>

NoPolicy == [state |-> "none"]
Gone == [state |-> "gone"]
AtRest == [phase |-> "idle"]

There(p) == policy[p].state = "there"
Taken(names) == \E p \in Policies : There(p) /\ policy[p].name \in names
Names(batch) == {d.name : d \in batch}

Row(d) == [state |-> "there", name |-> d.name, type |-> d.type,
           priority |-> d.priority, enabled |-> TRUE, current |-> 1]

PolicyInit ==
  /\ policy = [p \in Policies |-> NoPolicy]
  /\ versions = [p \in Policies |-> <<>>]
  /\ write = [m \in Managers |-> AtRest]
  /\ judged = [c \in Evaluators |-> AtRest]

-----------------------------------------------------------------------------
(* Rules *)

\* compiled_rules, of the rows and the versions a request has read
compiled_rules(rows, vs) ==
  {[policy |-> p, name |-> rows[p].name, type |-> rows[p].type, priority |-> rows[p].priority,
    rule |-> vs[p][rows[p].current].rule, decision |-> vs[p][rows[p].current].decision,
    role |-> vs[p][rows[p].current].role] :
   p \in {q \in Policies : /\ rows[q].state = "there" /\ rows[q].enabled
                           /\ rows[q].current \in DOMAIN vs[q]}}

\* A policy in these tables denies r on the facts put before it.
Denies(row, vs, r) ==
  /\ row.state = "there" /\ row.enabled
  /\ Applicable(row, r.type)
  /\ vs[row.current].decision = "DENY" /\ Matches(vs[row.current].rule, r.context)

\* History of the evaluations under way: which policies have denied all along.
Watch ==
  judged' = [c \in Evaluators |->
    IF judged[c].phase # "listed" THEN judged[c]
    ELSE [judged[c] EXCEPT !.deny =
            {p \in @ : Denies(policy'[p], versions'[p], judged[c].request)}]]

-----------------------------------------------------------------------------
(* Writing *)

\* create_policy and install_defaults: which names are there
ChecksNames(m, batch) ==
  /\ write[m].phase = "idle"
  /\ batch # {} /\ ~Taken(Names(batch))
  /\ write' = [write EXCEPT ![m] = [phase |-> "checked", batch |-> batch]]
  /\ UNCHANGED <<policy, versions, judged>>

create_policy(m) ==
  \E d \in Submitted : Valid(d.body.rule) /\ ChecksNames(m, {d})
install_defaults(m) ==
  ChecksNames(m, {d \in Defaults : ~Taken({d.name})})

\* The unique constraint on the tenant's names.
UniqueNames(batch) == ~Taken(Names(batch))

\* The INSERTs and the commit.  Ids are drawn at random; which are new does not matter.
Drawn(batch) ==
  {id \in [batch -> {p \in Policies : policy[p].state = "none"}] : \A d, e \in batch : id[d] = id[e] => d = e}
Inserts(m) ==
  /\ write[m].phase = "checked"
  /\ LET batch == write[m].batch
         id == CHOOSE f \in Drawn(batch) : TRUE
         Of(p) == CHOOSE d \in batch : id[d] = p
         new == {id[d] : d \in batch}
     IN  /\ UniqueNames(batch)
         /\ Drawn(batch) # {}
         /\ policy' = [p \in Policies |-> IF p \in new THEN Row(Of(p)) ELSE policy[p]]
         /\ versions' = [p \in Policies |-> IF p \in new THEN <<Of(p).body>> ELSE versions[p]]
  /\ write' = [write EXCEPT ![m] = AtRest]
  /\ Watch

\* 409 or 500, and the transaction is rolled back.
Conflicts(m) ==
  /\ write[m].phase = "checked"
  /\ ~UniqueNames(write[m].batch)
  /\ write' = [write EXCEPT ![m] = AtRest]
  /\ UNCHANGED <<policy, versions, judged>>

get_policy(m, p) ==
  /\ write[m].phase = "idle"
  /\ There(p)
  /\ write' = [write EXCEPT ![m] = [phase |-> "loaded", policy |-> p, copy |-> policy[p]]]
  /\ UNCHANGED <<policy, versions, judged>>

\* Only the columns that differ from the copy are written.
Set(copied, given, stored) == IF given = copied THEN stored ELSE given

update_policy(m) ==
  /\ write[m].phase = "loaded"
  /\ LET p == write[m].policy  copy == write[m].copy IN
       /\ There(p)
       /\ \E priority \in Priorities \cup {copy.priority}, enabled \in BOOLEAN :
            policy' = [policy EXCEPT ![p].priority = Set(copy.priority, priority, @),
                                     ![p].enabled = Set(copy.enabled, enabled, @)]
  /\ write' = [write EXCEPT ![m] = AtRest]
  /\ UNCHANGED versions
  /\ Watch

\* Were versions numbered with no constraint.
AnyVersion(p, n) == TRUE
\* The unique constraint on the versions of a policy, and their foreign key.
UniqueVersion(p, n) == n \notin DOMAIN versions[p]

add_version(m) ==
  /\ write[m].phase = "loaded"
  /\ LET p == write[m].policy  n == write[m].copy.current + 1 IN
       /\ There(p) /\ UniqueVersion(p, n) /\ n <= MaxVersions
       /\ \E body \in Bodies :
            /\ Valid(body.rule)
            /\ versions' = [versions EXCEPT ![p] = Append(@, body)]
       /\ policy' = [policy EXCEPT ![p].current = n]
  /\ write' = [write EXCEPT ![m] = AtRest]
  /\ Watch

\* A policy somebody else deleted is deleted again; its versions go with it.
delete_policy(m) ==
  /\ write[m].phase = "loaded"
  /\ policy' = [policy EXCEPT ![write[m].policy] = Gone]
  /\ versions' = [versions EXCEPT ![write[m].policy] = <<>>]
  /\ write' = [write EXCEPT ![m] = AtRest]
  /\ Watch

\* A row that is gone, or a version that is there, or the manager leaves it at reading.
Aborts(m) ==
  /\ write[m].phase = "loaded"
  /\ write' = [write EXCEPT ![m] = AtRest]
  /\ UNCHANGED <<policy, versions, judged>>

-----------------------------------------------------------------------------
(* Evaluating *)

\* list_policies reads the policies, then their versions; disabled ones are skipped.
EnabledRows == [p \in Policies |-> IF There(p) /\ policy[p].enabled THEN policy[p] ELSE NoPolicy]

ReadsPolicies(c, r) ==
  /\ judged[c].phase = "idle"
  /\ judged' = [judged EXCEPT ![c] =
       [phase |-> "listed", request |-> r, rows |-> EnabledRows,
        deny |-> {p \in Policies : Denies(policy[p], versions[p], r)}]]
  /\ UNCHANGED <<policy, versions, write>>

evaluate_request(c) ==
  /\ judged[c].phase = "listed"
  /\ LET r == judged[c].request  rules == compiled_rules(judged[c].rows, versions) IN
       judged' = [judged EXCEPT ![c] =
         [phase |-> "answered", deny |-> judged[c].deny,
          verdict |-> evaluate(r.type, r.context, rules)]]
  /\ UNCHANGED <<policy, versions, write>>

Leaves(c) ==
  /\ judged[c].phase = "answered"
  /\ judged' = [judged EXCEPT ![c] = AtRest]
  /\ UNCHANGED <<policy, versions, write>>

PolicyNext ==
  \/ \E m \in Managers :
       \/ create_policy(m) \/ install_defaults(m) \/ Inserts(m) \/ Conflicts(m)
       \/ update_policy(m) \/ add_version(m) \/ delete_policy(m) \/ Aborts(m)
       \/ \E p \in Policies : get_policy(m, p)
  \/ \E c \in Evaluators :
       \/ evaluate_request(c) \/ Leaves(c)
       \/ \E r \in Questions : ReadsPolicies(c, r)

PolicySpec == PolicyInit /\ [][PolicyNext]_policies

-----------------------------------------------------------------------------
(* Properties *)

\* No two policies of a tenant have one name, and each is at its last version,
\* whichever of two managers who change it at once commits first.
StoreSound ==
  /\ \A p, q \in Policies : There(p) /\ There(q) /\ policy[p].name = policy[q].name => p = q
  /\ \A p \in Policies : There(p) => policy[p].current = Len(versions[p])

\* A policy that denied the facts put before an evaluation, from the moment it read the
\* policies to the moment it answered, is never overlooked or outvoted, whatever managers
\* create, rewrite, disable and delete between its two reads.  Of facts the gateway did
\* not gather nothing is said: a denial that asks for one of them does not match.
StandingDenyWins ==
  \A c \in Evaluators :
    judged[c].phase = "answered" /\ judged[c].deny # {} => judged[c].verdict.decision = "DENY"
=============================================================================
