--------------------------- MODULE ReadersProofs ----------------------------
(****************************************************************************)
(* Proofs about the two services that read what others wrote: the case       *)
(* projector, for any partitions of events, however they are read again, and *)
(* the knowledge service, for any documents, facts, writers and searches.    *)
(* What they need of finite sets is in Induction.                            *)
(****************************************************************************)
EXTENDS Projector, Knowledge, SequenceTheorems, Induction, TLAPS

-----------------------------------------------------------------------------
(* THE CASE PROJECTOR                                                       *)

-----------------------------------------------------------------------------
(* What each column shows                                                   *)

\* The value a column has once the events up to the h-th were projected in order: what
\* the last of them that writes it (W maps those that do to what they write) wrote.
Latest(W, h, x) ==
  \/ x = "none" /\ \A k \in DOMAIN W : k > h
  \/ \E k \in DOMAIN W : k <= h /\ W[k] = x /\ \A j \in DOMAIN W : j <= h => j <= k

\* A partition of n events is read again from wherever it is: the column shows some
\* prefix of it, no shorter than low.
Column(W, n, x, low) == \E h \in low..n : Latest(W, h, x)

Settles(e) == e.type \in {"case.state_changed", "case.resolved"}
Hands(e) == e.type \in {"case.takeover", "case.released"}
Control(e) == IF e.type = "case.takeover" THEN "HUMAN_CONTROL" ELSE "AUTONOMOUS"
StatusWrites(es) == [k \in {i \in DOMAIN es : Settles(es[i])} |-> es[k].to]
ModeWrites(es) == [k \in {i \in DOMAIN es : Hands(es[i])} |-> Control(es[k])]
RunWrites(es, r) == [k \in {i \in DOMAIN es : es[i].run = r} |-> es[k].status]

\* A case that is new has a row that says so, or says nothing.
Settled(s) == IF s = "NEW" THEN "none" ELSE s

\* Two sequences of writes that agree on the first n events.
Agree(W, V, n) == \A k \in 1..n : (k \in DOMAIN W <=> k \in DOMAIN V) /\ (k \in DOMAIN W => V[k] = W[k])
Positions(W) == DOMAIN W \in SUBSET (Nat \ {0})

LEMMA LatestUnique ==
  ASSUME NEW W, Positions(W), NEW h \in Nat, NEW x, NEW y, Latest(W, h, x), Latest(W, h, y)
  PROVE  x = y
  <1>1. \A k \in DOMAIN W : k \in Nat
    BY DEF Positions
  <1>2. CASE \E k \in DOMAIN W : k <= h
    <2>1. ~\A k \in DOMAIN W : k > h
      BY <1>1, <1>2
    <2>2. PICK i \in DOMAIN W : i <= h /\ W[i] = x /\ \A j \in DOMAIN W : j <= h => j <= i
      BY <2>1 DEF Latest
    <2>3. PICK k \in DOMAIN W : k <= h /\ W[k] = y /\ \A j \in DOMAIN W : j <= h => j <= k
      BY <2>1 DEF Latest
    <2>4. i = k
      BY <1>1, <2>2, <2>3
    <2> QED
      BY <2>2, <2>3, <2>4
  <1>3. CASE ~\E k \in DOMAIN W : k <= h
    BY <1>3 DEF Latest
  <1> QED
    BY <1>2, <1>3

LEMMA LatestWrite ==
  ASSUME NEW W, Positions(W), NEW k \in DOMAIN W
  PROVE  Latest(W, k, W[k])
  BY DEF Latest, Positions

LEMMA LatestSkip ==
  ASSUME NEW W, Positions(W), NEW h \in Nat, NEW x, Latest(W, h, x), h + 1 \notin DOMAIN W
  PROVE  Latest(W, h + 1, x)
  <1>1. \A k \in DOMAIN W : k \in Nat /\ (k <= h + 1 <=> k <= h) /\ (k > h => k > h + 1)
    BY DEF Positions
  <1> QED
    BY <1>1 DEF Latest

LEMMA LatestAgree ==
  ASSUME NEW W, NEW V, Positions(W), Positions(V), NEW h \in Nat, Agree(W, V, h), NEW x, Latest(W, h, x)
  PROVE  Latest(V, h, x)
  <1>1. /\ \A k \in DOMAIN W : k \in Nat \ {0} /\ (k <= h => k \in DOMAIN V /\ V[k] = W[k])
        /\ \A k \in DOMAIN V : k \in Nat \ {0} /\ (k <= h => k \in DOMAIN W)
    BY DEF Positions, Agree
  <1>2. CASE x = "none" /\ \A k \in DOMAIN W : k > h
    <2>1. \A k \in DOMAIN V : k > h
      BY <1>1, <1>2
    <2> QED
      BY <1>2, <2>1 DEF Latest
  <1>3. CASE \E k \in DOMAIN W : k <= h /\ W[k] = x /\ \A j \in DOMAIN W : j <= h => j <= k
    BY <1>1, <1>3 DEF Latest
  <1> QED
    BY <1>2, <1>3 DEF Latest

LEMMA ColumnGrows ==
  ASSUME NEW W, NEW V, Positions(W), Positions(V), NEW n \in Nat, NEW m \in Nat, n <= m,
         Agree(W, V, n), NEW x, NEW low \in Nat, Column(W, n, x, low)
  PROVE  Column(V, m, x, low)
  <1>1. PICK h \in low..n : Latest(W, h, x)
    BY DEF Column
  <1>2. h \in Nat /\ Agree(W, V, h)
    BY <1>1 DEF Agree
  <1>3. Latest(V, h, x)
    BY <1>1, <1>2, LatestAgree
  <1>4. h \in low..m
    OBVIOUS
  <1> QED
    BY <1>3, <1>4 DEF Column

\* The k-th event is projected, or the reader is put back.
LEMMA ColumnStep ==
  ASSUME NEW W, Positions(W), NEW n \in Nat, NEW x, NEW y, NEW low \in Nat, NEW low2 \in Nat,
         NEW k \in 1..n, Column(W, n, x, low),
         low2 <= k, low2 <= low \/ (low2 = low + 1 /\ k = low2),
         IF k \in DOMAIN W THEN y = W[k] ELSE y = x
  PROVE  Column(W, n, y, low2)
  <1>1. CASE k \in DOMAIN W
    <2>1. Latest(W, k, y)
      BY <1>1, LatestWrite
    <2>2. k \in low2..n
      OBVIOUS
    <2> QED
      BY <2>1, <2>2 DEF Column
  <1>2. CASE k \notin DOMAIN W
    <2>1. PICK h \in low..n : Latest(W, h, x)
      BY DEF Column
    <2>2. CASE h >= low2
      <3>1. h \in low2..n
        BY <2>2
      <3> QED
        BY <1>2, <2>1, <3>1 DEF Column
    <2>3. CASE h < low2
      <3>1. h \in Nat /\ k = h + 1 /\ k \in low2..n
        BY <2>3
      <3>2. Latest(W, h + 1, x)
        BY <1>2, <2>1, <3>1, LatestSkip
      <3> QED
        BY <1>2, <3>1, <3>2 DEF Column
    <2> QED
      BY <2>2, <2>3
  <1> QED
    BY <1>1, <1>2

LEMMA ColumnLower ==
  ASSUME NEW W, NEW n \in Nat, NEW x, NEW low \in Nat, NEW low2 \in Nat, low2 <= low, Column(W, n, x, low)
  PROVE  Column(W, n, x, low2)
  <1>1. PICK h \in low..n : Latest(W, h, x)
    BY DEF Column
  <1>2. h \in low2..n
    OBVIOUS
  <1> QED
    BY <1>1, <1>2 DEF Column

\* Read to its end, it shows what was written last.
LEMMA ColumnFull ==
  ASSUME NEW W, NEW n \in Nat, NEW x, Column(W, n, x, n)
  PROVE  Latest(W, n, x)
  BY DEF Column

Extends(es, fs) == Len(es) <= Len(fs) /\ \A k \in 1..Len(es) : fs[k] = es[k]

LEMMA WritesAgree ==
  ASSUME NEW S, NEW es \in Seq(S), NEW fs \in Seq(S), Extends(es, fs)
  PROVE  /\ Positions(StatusWrites(es)) /\ Positions(StatusWrites(fs))
         /\ Agree(StatusWrites(es), StatusWrites(fs), Len(es))
         /\ Positions(ModeWrites(es)) /\ Positions(ModeWrites(fs))
         /\ Agree(ModeWrites(es), ModeWrites(fs), Len(es))
         /\ \A r : /\ Positions(RunWrites(es, r)) /\ Positions(RunWrites(fs, r))
                   /\ Agree(RunWrites(es, r), RunWrites(fs, r), Len(es))
  <1>1. /\ DOMAIN es = 1..Len(es) /\ DOMAIN fs = 1..Len(fs) /\ Len(es) \in Nat /\ Len(fs) \in Nat
        /\ DOMAIN es \subseteq Nat \ {0} /\ DOMAIN fs \subseteq Nat \ {0}
        /\ 1..Len(es) \subseteq DOMAIN fs /\ \A k \in 1..Len(es) : fs[k] = es[k]
    BY DEF Extends
  <1>2. /\ Positions(StatusWrites(es)) /\ Positions(StatusWrites(fs))
        /\ Positions(ModeWrites(es)) /\ Positions(ModeWrites(fs))
    BY <1>1 DEF Positions, StatusWrites, ModeWrites
  <1>3. Agree(StatusWrites(es), StatusWrites(fs), Len(es))
    BY <1>1 DEF Agree, StatusWrites
  <1>4. Agree(ModeWrites(es), ModeWrites(fs), Len(es))
    BY <1>1 DEF Agree, ModeWrites
  <1>5. ASSUME NEW r
        PROVE  /\ Positions(RunWrites(es, r)) /\ Positions(RunWrites(fs, r))
               /\ Agree(RunWrites(es, r), RunWrites(fs, r), Len(es))
    BY <1>1 DEF Positions, Agree, RunWrites
  <1> QED
    BY <1>2, <1>3, <1>4, <1>5

-----------------------------------------------------------------------------
(* What the logs tell of the services' state                                *)

CaseEventTypes ==
  {"case.created", "case.state_changed", "case.resolved", "case.takeover", "case.released",
   "case.action.proposed", "case.note.added"} \cup DecisionTypes
EventRow ==
  [type : CaseEventTypes, from : CaseStatus \cup {"none"}, to : CaseStatus \cup {"none"},
   action : Actions \cup {None}]
ActRow ==
  [case : Cases \cup {None}, status : ActionStatus \cup {"none"}, policy : PolicyDecision \cup {"none"},
   required : Role \cup {"none"}, decided_by : Role \cup {"none"}]
RunModes == {"LIVE", "SHADOW"}
RunStatus == {"RUNNING"} \cup Ends
RowStatus == {"RUNNING", "COMPLETED", "ESCALATED", "FAILED", "CANCELLED"}
RunRow == [case : Cases \cup {None}, mode : RunModes \cup {"none"}, status : RowStatus \cup {"none"}]

\* What the event said of a run whose row has this status.
OutcomeOf(stored) == IF stored = "COMPLETED" THEN "RESOLVED" ELSE stored
FactTypes ==
  [comm |-> {"comm.email.sent", "comm.email.received"}, tool |-> {"tool.invoked", "tool.blocked"},
   agent |-> {"agent.run.started", "agent.run.completed"}]
OtherRow ==
  [type : FactTypes["comm"] \cup FactTypes["tool"] \cup FactTypes["agent"], run : Runs \cup {None},
   mode : RunModes \cup {"none"}, status : RunStatus \cup {"none", "SUCCESS", "DENIED"},
   root_cause : Causes \cup {None}]

SourceTyped ==
  /\ status \in [Cases -> CaseStatus \cup {"none"}]
  /\ mode \in [Cases -> AgentMode]
  /\ act \in [Actions -> ActRow]
  /\ log \in [Cases -> Seq(EventRow)]
  /\ run \in [Runs -> RunRow]
  /\ other \in [OtherTopics -> [Cases -> Seq(OtherRow)]]
  /\ \A t \in OtherTopics, c \in Cases : \A k \in DOMAIN other[t][c] : other[t][c][k].type \in FactTypes[t]

\* The k-th event of a case with status s, the actions being A.
CaseShape(c, es, k, s, A) ==
  LET e == es[k] IN
  /\ e.type = "case.created" <=> k = 1
  /\ e.type = "case.state_changed" => e.to \in CaseStatus \ {"NEW"}
  /\ e.type = "case.resolved" => e.to \in TERMINAL
  /\ ~Settles(e) => e.to \in {"none", "NEW"}
  /\ e.to \in TERMINAL => s \in TERMINAL
  /\ e.type = "case.released" => \E j \in DOMAIN es : es[j].type = "case.takeover"
  /\ e.type = "case.action.proposed" => e.action \in Actions /\ A[e.action].case = c
  /\ e.type \in DecisionTypes =>
       /\ e.action \in Actions /\ A[e.action].case = c
       /\ A[e.action].status = Outcome(e.type) /\ A[e.action].decided_by # "none"

\* A case's log tells its status and who controls it.
Tells(c, es, s, m, A) ==
  /\ s # "none" <=> es # <<>>
  /\ Latest(StatusWrites(es), Len(es), Settled(s))
  /\ \/ Latest(ModeWrites(es), Len(es), m)
     \/ m = "AUTONOMOUS" /\ Latest(ModeWrites(es), Len(es), "none")
  /\ \A k \in DOMAIN es : CaseShape(c, es, k, s, A)

ActTells(a) ==
  /\ act[a].case = None => act[a] = L!NoAction
  /\ act[a].decided_by # "none" => act[a].status \in Decision
  /\ act[a].case # None =>
       /\ act[a].policy \in PolicyDecision
       /\ \E k \in DOMAIN log[act[a].case] :
            log[act[a].case][k].type = "case.action.proposed" /\ log[act[a].case][k].action = a

AgentShape(c, k) ==
  LET e == other["agent"][c][k] IN
  /\ e.run \in Runs /\ run[e.run].case = c
  /\ e.type = "agent.run.started" =>
       e.mode = run[e.run].mode /\ e.status = "RUNNING" /\ e.root_cause = None
  /\ e.status \in RunStatus

RunTells(r) ==
  /\ run[r].case = None => run[r].status = "none" /\ run[r].mode = "none"
  /\ run[r].case # None =>
       LET es == other["agent"][run[r].case] IN
       /\ run[r].mode \in RunModes
       /\ Latest(RunWrites(es, r), Len(es), OutcomeOf(run[r].status))
       /\ \E k \in DOMAIN es : es[k].type = "agent.run.started" /\ es[k].run = r

Source ==
  /\ SourceTyped
  /\ \A c \in Cases : Tells(c, log[c], status[c], mode[c], act)
  /\ \A a \in Actions : ActTells(a)
  /\ \A c \in Cases : \A k \in DOMAIN other["agent"][c] : AgentShape(c, k)
  /\ \A r \in Runs : RunTells(r)

-----------------------------------------------------------------------------
(* What the tables tell of the logs                                         *)

TablesTyped ==
  /\ pos \in [Topics -> [Cases -> Nat]]
  /\ \A t \in Topics, c \in Cases : pos[t][c] <= Len(Stream(t, c))
  /\ dim_case \in [Cases -> CaseRow]
  /\ fact_action \in [Actions -> [there : BOOLEAN, case : Cases \cup {None},
                                  policy : PolicyDecision \cup {"none"}, outcome : Outcomes]]
  /\ fact_run \in [Runs -> [there : BOOLEAN, case : Cases \cup {None},
                            mode : RunModes \cup {"none"}, status : RunStatus \cup {"none"}]]
  /\ \A id \in fact_events : \E t \in Topics, c \in Cases : \E k \in DOMAIN Stream(t, c) : id = <<t, c, k>>
  /\ \A id \in fact_email : \E c \in Cases : \E k \in DOMAIN other["comm"][c] : id = <<"comm", c, k>>

\* Nothing in a row that no event says.
RowTells(c) ==
  LET d == dim_case[c] IN
  /\ ~d.there => d = NoCase
  /\ d.closed => \E k \in DOMAIN log[c] : log[c][k].to \in TERMINAL
  /\ d.escalated => \E k \in DOMAIN log[c] : log[c][k].to = "ESCALATED"
  /\ d.human_touched => \E k \in DOMAIN log[c] : ByHuman(log[c][k])
  /\ d.root_cause # None => \E k \in DOMAIN other["agent"][c] : other["agent"][c][k].root_cause # None
ActionTells(a) ==
  LET f == fact_action[a] IN
  /\ f.there => f.case = act[a].case /\ f.case # None
  /\ ~f.there => f = NoAction
  /\ f.policy \in {"none", act[a].policy}
  /\ f.outcome \in Decision => f.outcome = act[a].status /\ act[a].decided_by # "none"
RunRowTells(r) ==
  LET f == fact_run[r] IN
  /\ f.there => f.case = run[r].case /\ f.case # None
  /\ ~f.there => f = NoRun
  /\ f.mode \in {"none", run[r].mode}

\* What stays of an event once it was handled.
Sticks(c, k) ==
  LET d == dim_case[c]
      e == log[c][k] IN
  /\ e.type = "case.created" => d.there /\ d.details
  /\ e.to \in TERMINAL => d.closed
  /\ e.to = "ESCALATED" => d.escalated
  /\ ByHuman(e) => d.human_touched
  /\ e.type = "case.action.proposed" =>
       fact_action[e.action].there /\ fact_action[e.action].policy = act[e.action].policy
  /\ e.type \in DecisionTypes => fact_action[e.action].outcome \in Decision
RunSticks(c, k) ==
  LET e == other["agent"][c][k] IN
  /\ fact_run[e.run].there
  /\ e.type = "agent.run.started" => fact_run[e.run].mode = e.mode
  /\ e.root_cause # None => dim_case[c].root_cause # None

Tables ==
  /\ TablesTyped
  /\ \A c \in Cases : RowTells(c)
  /\ \A a \in Actions : ActionTells(a)
  /\ \A r \in Runs : RunRowTells(r)
  /\ \A c \in Cases :
       /\ \A k \in DOMAIN log[c] : <<"case", c, k>> \in fact_events => Sticks(c, k)
       /\ \A k \in DOMAIN other["agent"][c] : <<"agent", c, k>> \in fact_events => RunSticks(c, k)
       /\ \A k \in DOMAIN other["comm"][c] :
            <<"comm", c, k>> \in fact_events =>
              <<"comm", c, k>> \in fact_email

\* Since it was last begun a partition was read in order, and wholly.
InOrder(t, c) == <<t, c>> \notin disturbed
From(t, c) == IF InOrder(t, c) THEN pos[t][c] ELSE 0
ReadWholly ==
  \A t \in Topics, c \in Cases : \A k \in 1..From(t, c) : <<t, c, k>> \in fact_events
Columns ==
  /\ \A c \in Cases :
       /\ Column(StatusWrites(log[c]), Len(log[c]), Settled(dim_case[c].status), From("case", c))
       /\ Column(ModeWrites(log[c]), Len(log[c]), dim_case[c].mode, From("case", c))
  /\ \A r \in Runs : run[r].case # None =>
       Column(RunWrites(other["agent"][run[r].case], r), Len(other["agent"][run[r].case]),
              fact_run[r].status, From("agent", run[r].case))

PInv == Source /\ Tables /\ ReadWholly /\ Columns
-----------------------------------------------------------------------------
(* What follows from the invariant                                          *)

LEMMA DecisionNames ==
  /\ \A d \in Decision : DecisionEvent[d] \in DecisionTypes /\ Outcome(DecisionEvent[d]) = d
  /\ \A x \in DecisionTypes : Outcome(x) \in Decision /\ DecisionEvent[Outcome(x)] = x
  /\ DecisionTypes = {"case.action.approved", "case.action.edited", "case.action.rejected"}
  <1>1. DecisionTypes = {"case.action.approved", "case.action.edited", "case.action.rejected"}
    BY DEF DecisionTypes, DecisionEvent, Decision
  <1>2. ASSUME NEW x \in DecisionTypes
        PROVE  Outcome(x) \in Decision /\ DecisionEvent[Outcome(x)] = x
    <2>1. \E d \in Decision : DecisionEvent[d] = x
      BY DEF DecisionTypes
    <2> QED
      BY <2>1 DEF Outcome
  <1>3. ASSUME NEW d \in Decision
        PROVE  DecisionEvent[d] \in DecisionTypes /\ Outcome(DecisionEvent[d]) = d
    <2>1. DecisionEvent[d] \in DecisionTypes
      BY DEF DecisionTypes
    <2>2. \A a, b \in Decision : DecisionEvent[a] = DecisionEvent[b] => a = b
      BY DEF Decision, DecisionEvent
    <2> QED
      BY <1>2, <2>1, <2>2
  <1> QED
    BY <1>1, <1>2, <1>3

\* SourceTyped, as it is used.
LEMMA Typed ==
  ASSUME SourceTyped
  PROVE  /\ \A c \in Cases : /\ log[c] \in Seq(EventRow) /\ DOMAIN log[c] = 1..Len(log[c])
                             /\ Len(log[c]) \in Nat
                             /\ \A k \in DOMAIN log[c] : log[c][k] \in EventRow
                             /\ status[c] \in CaseStatus \cup {"none"} /\ mode[c] \in AgentMode
         /\ \A t \in OtherTopics, c \in Cases :
              /\ other[t][c] \in Seq(OtherRow) /\ DOMAIN other[t][c] = 1..Len(other[t][c])
              /\ Len(other[t][c]) \in Nat
              /\ \A k \in DOMAIN other[t][c] : other[t][c][k] \in OtherRow
         /\ \A a \in Actions : act[a] \in ActRow
         /\ \A r \in Runs : run[r] \in RunRow
  BY DEF SourceTyped

\* A partition read to its end: all of it was handled.
LEMMA AllHandled ==
  ASSUME PInv, NEW t \in Topics, NEW c \in Cases, UpToDate(t, c)
  PROVE  /\ From(t, c) = Len(Stream(t, c))
         /\ \A k \in DOMAIN Stream(t, c) : <<t, c, k>> \in fact_events
  <1>1. From(t, c) = Len(Stream(t, c))
    BY DEF UpToDate, From, InOrder
  <1>2. DOMAIN Stream(t, c) = 1..Len(Stream(t, c))
    <2>1. CASE t = "case"
      BY <2>1, Typed DEF PInv, Source, Stream
    <2>2. CASE t # "case"
      <3>1. t \in OtherTopics
        BY <2>2 DEF Topics
      <3> QED
        BY <2>2, <3>1, Typed DEF PInv, Source, Stream
    <2> QED
      BY <2>1, <2>2
  <1> QED
    BY <1>1, <1>2 DEF PInv, ReadWholly

LEMMA Sticking == PInv => DecisionsStick
  <1> SUFFICES ASSUME PInv, NEW c \in Cases, NEW k \in DOMAIN log[c], <<"case", c, k>> \in fact_events
               PROVE  LET e == log[c][k] IN
                      /\ e.type \in DecisionTypes =>
                           /\ fact_action[e.action].outcome = Outcome(e.type)
                           /\ dim_case[c].human_touched
                      /\ e.type = "case.action.proposed" =>
                           fact_action[e.action].policy = act[e.action].policy
                      /\ e.type = "case.resolved" => c \notin OpenCases
                      /\ e.to = "ESCALATED" => c \notin FunnelResolved
    BY DEF DecisionsStick
  <1> DEFINE e == log[c][k]
  <1>1. Sticks(c, k) /\ CaseShape(c, log[c], k, status[c], act)
    BY DEF PInv, Source, Tables, Tells
  <1>2. ASSUME e.type \in DecisionTypes
        PROVE  fact_action[e.action].outcome = Outcome(e.type) /\ dim_case[c].human_touched
    <2>1. /\ fact_action[e.action].outcome \in Decision /\ dim_case[c].human_touched
          /\ e.action \in Actions /\ act[e.action].status = Outcome(e.type)
      BY <1>1, <1>2 DEF Sticks, CaseShape, ByHuman
    <2>2. ActionTells(e.action)
      BY <2>1 DEF PInv, Tables
    <2> QED
      BY <2>1, <2>2 DEF ActionTells
  <1>3. e.type = "case.action.proposed" => fact_action[e.action].policy = act[e.action].policy
    BY <1>1 DEF Sticks
  <1>4. e.type = "case.resolved" => c \notin OpenCases
    BY <1>1 DEF Sticks, CaseShape, OpenCases
  <1>5. e.to = "ESCALATED" => c \notin FunnelResolved
    BY <1>1 DEF Sticks, FunnelResolved
  <1> QED
    BY <1>2, <1>3, <1>4, <1>5

LEMMA Following == PInv => ReadModelFollows
  <1> SUFFICES ASSUME PInv PROVE ReadModelFollows
    OBVIOUS
  <1>0. Source /\ Tables /\ ReadWholly /\ Columns /\ SourceTyped /\ TablesTyped
    BY DEF PInv, Source, Tables
  <1>1. ASSUME NEW c \in Cases, UpToDate("case", c), L!Exists(c)
        PROVE  RowFollows(c)
    <2> DEFINE d == dim_case[c]
               es == log[c]
               n == Len(es)
    <2>1. /\ es \in Seq(EventRow) /\ DOMAIN es = 1..n /\ n \in Nat /\ mode[c] \in AgentMode
          /\ status[c] \in CaseStatus \cup {"none"} /\ d \in CaseRow
      BY <1>0, Typed DEF TablesTyped
    <2>2. /\ From("case", c) = n /\ \A k \in DOMAIN es : Sticks(c, k)
      BY <1>0, <1>1, AllHandled DEF Tables, Stream, Topics
    <2>3. RowTells(c) /\ Tells(c, es, status[c], mode[c], act)
      BY <1>0 DEF Source, Tables
    <2>4. status[c] # "none" /\ es # <<>> /\ 1 \in DOMAIN es
      BY <1>1, <2>1, <2>3 DEF L!Exists, Tells
    <2>5. d.there /\ d.details
      BY <2>2, <2>3, <2>4 DEF Sticks, Tells, CaseShape
    <2>6. \A k \in DOMAIN es : CaseShape(c, es, k, status[c], act)
      BY <2>3 DEF Tells
    <2>7. Extends(es, es)
      BY <2>1 DEF Extends
    <2>8. Positions(StatusWrites(es)) /\ Positions(ModeWrites(es))
      BY <2>1, <2>7, WritesAgree
    <2>9. Settled(d.status) = Settled(status[c])
      <3>1. Latest(StatusWrites(es), n, Settled(d.status))
        BY <1>0, <2>1, <2>2, ColumnFull DEF Columns
      <3> QED
        BY <2>1, <2>3, <2>8, <3>1, LatestUnique DEF Tells
    <2>10. d.status # status[c] => d.status = "none" /\ status[c] = "NEW"
      BY <2>4, <2>9 DEF Settled
    <2>11. d.mode = IF InLog(c, TakesOver) THEN mode[c] ELSE "none"
      <3>1. Latest(ModeWrites(es), n, d.mode)
        BY <1>0, <2>1, <2>2, ColumnFull DEF Columns
      <3>2. CASE InLog(c, TakesOver)
        <4>1. PICK k \in DOMAIN es : Hands(es[k])
          BY <3>2 DEF InLog, TakesOver, Hands
        <4>2. k \in DOMAIN ModeWrites(es) /\ k <= n
          BY <2>1, <4>1 DEF ModeWrites
        <4>3. ~Latest(ModeWrites(es), n, "none")
          <5>1. \A i \in DOMAIN ModeWrites(es) : ModeWrites(es)[i] # "none"
            BY DEF ModeWrites, Control
          <5>2. ~\A i \in DOMAIN ModeWrites(es) : i > n
            BY <2>1, <4>2
          <5> QED
            BY <5>1, <5>2 DEF Latest
        <4>4. Latest(ModeWrites(es), n, mode[c])
          BY <2>3, <4>3 DEF Tells
        <4> QED
          BY <2>1, <2>8, <3>1, <3>2, <4>4, LatestUnique
      <3>3. CASE ~InLog(c, TakesOver)
        <4>1. \A k \in DOMAIN es : ~Hands(es[k])
          BY <2>6, <3>3 DEF InLog, TakesOver, Hands, CaseShape
        <4>2. DOMAIN ModeWrites(es) = {}
          BY <4>1 DEF ModeWrites
        <4> QED
          BY <3>1, <3>3, <4>2 DEF Latest
      <3> QED
        BY <3>2, <3>3
    <2>12. d.escalated <=> InLog(c, Escalates)
      BY <2>2, <2>3 DEF RowTells, Sticks, InLog, Escalates
    <2>13. d.closed <=> status[c] \in TERMINAL
      <3>1. d.closed => status[c] \in TERMINAL
        BY <2>3, <2>6 DEF RowTells, CaseShape
      <3>2. ASSUME status[c] \in TERMINAL PROVE d.closed
        <4>1. Latest(StatusWrites(es), n, status[c]) /\ status[c] # "none"
          BY <2>3, <2>4, <3>2 DEF Tells, Settled, TERMINAL
        <4>2. PICK k \in DOMAIN StatusWrites(es) : StatusWrites(es)[k] = status[c]
          BY <4>1 DEF Latest
        <4>3. k \in DOMAIN es /\ es[k].to = status[c]
          BY <4>2 DEF StatusWrites
        <4> QED
          BY <2>2, <3>2, <4>3 DEF Sticks
      <3> QED
        BY <3>1, <3>2
    <2>14. c \in OpenCases <=> ~is_terminal(status[c]) /\ d.status # "none"
      BY <2>1, <2>4, <2>10, <2>13 DEF OpenCases, OPEN_STATUSES, is_terminal, CaseRow, CaseStatus, TERMINAL
    <2>15. c \in ClosedCases <=> is_terminal(status[c])
      BY <2>13 DEF ClosedCases, is_terminal
    <2>16. d.human_touched <=> InLog(c, ByHuman)
      BY <2>2, <2>3 DEF RowTells, Sticks, InLog
    <2>17. c \in Untouched <=> is_terminal(status[c]) /\ ~InLog(c, ByHuman)
      BY <2>15, <2>16 DEF Untouched
    <2> QED
      BY <2>5, <2>10, <2>11, <2>12, <2>14, <2>15, <2>17 DEF RowFollows
  <1>2. ASSUME NEW c \in Cases, UpToDate("case", c), NEW a \in Actions, act[a].case = c
        PROVE  /\ fact_action[a].there /\ fact_action[a].case = c
               /\ fact_action[a].policy = act[a].policy /\ act[a].policy \in PolicyDecision
    <2>1. c # None
      BY ProjectorAssumption
    <2>2. PICK k \in DOMAIN log[c] : log[c][k].type = "case.action.proposed" /\ log[c][k].action = a
      BY <1>0, <1>2, <2>1 DEF Source, ActTells
    <2>3. Sticks(c, k)
      BY <1>0, <1>2, AllHandled DEF Tables, Stream, Topics
    <2> QED
      BY <1>0, <1>2, <2>1, <2>2, <2>3 DEF Sticks, Tables, ActionTells, Source, ActTells
  <1>3. ASSUME NEW a \in Actions, act[a].case # None, UpToDate("case", act[a].case)
        PROVE  ActionFollows(a)
    <2>1. act[a].case \in Cases
      BY <1>0, <1>3, Typed DEF ActRow
    <2>2. fact_action[a].case = act[a].case /\ fact_action[a].policy = act[a].policy
      BY <1>2, <1>3, <2>1
    <2>3. ActionTells(a)
      BY <1>0 DEF Tables
    <2> QED
      BY <2>2, <2>3 DEF ActionFollows, AutoAllowed, DecidedAs, ActionTells
  <1>4. ASSUME NEW r \in Runs, run[r].case # None, UpToDate("agent", run[r].case)
        PROVE  RunFollows(r)
    <2> DEFINE c == run[r].case
               es == other["agent"][c]
               f == fact_run[r]
    <2>1. c \in Cases /\ run[r] \in RunRow
      BY <1>0, <1>4, Typed DEF RunRow
    <2>2. /\ es \in Seq(OtherRow) /\ Len(es) \in Nat /\ From("agent", c) = Len(es)
          /\ \A k \in DOMAIN es : RunSticks(c, k) /\ AgentShape(c, k)
      BY <1>0, <1>4, <2>1, AllHandled, Typed DEF Tables, Source, Stream, Topics, OtherTopics
    <2>3. RunTells(r) /\ RunRowTells(r)
      BY <1>0 DEF Source, Tables
    <2>4. PICK k \in DOMAIN es : es[k].type = "agent.run.started" /\ es[k].run = r
      BY <1>4, <2>3 DEF RunTells
    <2>5. f.there /\ f.mode = run[r].mode /\ run[r].mode \in RunModes
      <3>1. f.there /\ f.mode = es[k].mode
        BY <2>2, <2>4 DEF RunSticks
      <3>2. es[k].mode = run[r].mode
        BY <2>2, <2>4 DEF AgentShape
      <3>3. run[r].mode \in RunModes
        BY <1>4, <2>3 DEF RunTells
      <3> QED
        BY <3>1, <3>2, <3>3
    <2>6. f.case = c
      BY <2>3, <2>5 DEF RunRowTells
    <2>7. run[r].status = StoredAs(f.status)
      <3>1. Latest(RunWrites(es, r), Len(es), f.status)
        BY <1>0, <1>4, <2>2, ColumnFull DEF Columns
      <3>2. Latest(RunWrites(es, r), Len(es), OutcomeOf(run[r].status))
        BY <1>4, <2>3 DEF RunTells
      <3>3. Positions(RunWrites(es, r))
        <4>1. Extends(es, es)
          BY <2>2 DEF Extends
        <4> QED
          BY <2>2, <4>1, WritesAgree
      <3>4. f.status = OutcomeOf(run[r].status)
        BY <2>2, <3>1, <3>2, <3>3, LatestUnique
      <3>5. run[r].status \in RowStatus \cup {"none"}
        BY <2>1 DEF RunRow
      <3> QED
        BY <3>4, <3>5 DEF OutcomeOf, StoredAs, RowStatus
    <2>8. f.status \in {"ESCALATED", "FAILED"} <=> run[r].status \in {"ESCALATED", "FAILED"}
      BY <2>7 DEF StoredAs
    <2> QED
      BY <2>5, <2>6, <2>7, <2>8 DEF RunFollows, LiveRuns, EscalatedRuns
  <1>5. ASSUME NEW c \in Cases, L!Exists(c)
        PROVE  FunnelFollows(c)
    <2>1. ASSUME UpToDate("case", c)
          PROVE  /\ c \in FunnelOpened
                 /\ c \in FunnelProposed <=> \E a \in Actions : act[a].case = c
      <3>1. c \in FunnelOpened
        BY <1>1, <1>5, <2>1 DEF FunnelOpened, RowFollows
      <3>2. ASSUME NEW a \in Actions, act[a].case = c PROVE c \in FunnelProposed
        <4>1. fact_action[a].case = c /\ fact_action[a].policy # "none"
          BY <1>2, <2>1, <3>2 DEF PolicyDecision
        <4> QED
          BY <4>1 DEF FunnelProposed
      <3>3. ASSUME c \in FunnelProposed PROVE \E a \in Actions : act[a].case = c
        <4>1. PICK a \in Actions : fact_action[a].policy # "none" /\ fact_action[a].case = c
          BY <3>3 DEF FunnelProposed
        <4>2. fact_action[a].there
          BY <1>0, <4>1 DEF Tables, ActionTells, NoAction
        <4> QED
          BY <1>0, <4>1, <4>2 DEF Tables, ActionTells
      <3> QED
        BY <3>1, <3>2, <3>3
    <2>2. ASSUME UpToDate("agent", c)
          PROVE  c \in FunnelTriaged <=>
                   \E k \in DOMAIN other["agent"][c] : other["agent"][c][k].root_cause # None
      <3>1. \A k \in DOMAIN other["agent"][c] : RunSticks(c, k)
        BY <1>0, <2>2, AllHandled DEF Tables, Stream, Topics, OtherTopics
      <3>2. RowTells(c)
        BY <1>0 DEF Tables
      <3>3. c \in FunnelTriaged <=> dim_case[c].root_cause # None
        BY <3>2 DEF FunnelTriaged, FunnelOpened, RowTells, NoCase
      <3> QED
        BY <3>1, <3>2, <3>3 DEF RunSticks, RowTells
    <2>3. ASSUME UpToDate("tool", c)
          PROVE  c \in FunnelExecuted <=>
                   \E k \in DOMAIN other["tool"][c] : other["tool"][c][k].status = "SUCCESS"
      <3>1. \A k \in DOMAIN other["tool"][c] : <<"tool", c, k>> \in fact_events
        BY <2>3, AllHandled DEF Stream, Topics, OtherTopics
      <3> QED
        BY <3>1 DEF FunnelExecuted
    <2>4. ASSUME UpToDate("comm", c)
          PROVE  c \in FunnelContacted <=>
                   \E k \in DOMAIN other["comm"][c] : other["comm"][c][k].type = "comm.email.sent"
      <3>1. \A k \in DOMAIN other["comm"][c] : <<"comm", c, k>> \in fact_email
        BY <1>0, <2>4, AllHandled DEF Tables, Stream, Topics, OtherTopics
      <3>2. \A id \in fact_email : id[2] = c =>
              \E k \in DOMAIN other["comm"][c] : id = <<"comm", c, k>>
        BY <1>0 DEF TablesTyped
      <3>3. ASSUME NEW k \in DOMAIN other["comm"][c], other["comm"][c][k].type = "comm.email.sent"
            PROVE  <<"comm", c, k>> \in MailsOut(c)
        BY <3>1, <3>3 DEF MailsOut
      <3>4. ASSUME NEW id \in MailsOut(c)
            PROVE  \E k \in DOMAIN other["comm"][c] : other["comm"][c][k].type = "comm.email.sent"
        BY <3>2, <3>4 DEF MailsOut
      <3>5. c \in FunnelContacted <=> MailsOut(c) # {}
        BY DEF FunnelContacted
      <3> QED
        BY <3>3, <3>4, <3>5
    <2> QED
      BY <2>1, <2>2, <2>3, <2>4 DEF FunnelFollows
  <1> QED
    BY <1>1, <1>3, <1>4, <1>5 DEF ReadModelFollows
-----------------------------------------------------------------------------
(* The services' steps                                                      *)

LEMMA LedgerNames ==
  /\ L!CaseStatus = CaseStatus /\ L!TERMINAL = TERMINAL
  /\ L!TRANSITIONS = TRANSITIONS
  /\ \A s : L!is_terminal(s) <=> s \in TERMINAL
  /\ \A src, dst : L!can_transition(src, dst) <=> can_transition(src, dst)
  /\ \A type, from, to, a : L!Event(type, from, to, a) = Event(type, from, to, a)
  /\ \A from, to, none : L!StateChanged(from, to, none) = StateChanged(from, to, none)
  /\ L!DecisionEvent = DecisionEvent
  /\ L!InitialActionStatus = InitialActionStatus
  <1>1. L!TERMINAL = TERMINAL /\ \A s : L!is_terminal(s) <=> s \in TERMINAL
    BY DEF TERMINAL, L!TERMINAL, L!is_terminal
  <1>2. L!TRANSITIONS = TRANSITIONS
    BY <1>1 DEF TRANSITIONS, L!TRANSITIONS, ActiveTargets, L!ActiveTargets
  <1>3. \A src, dst : L!can_transition(src, dst) <=> can_transition(src, dst)
    BY <1>2 DEF can_transition, L!can_transition
  <1>4. \A type, from, to, a : L!Event(type, from, to, a) = Event(type, from, to, a)
    BY DEF Event, L!Event
  <1>5. \A from, to, none : L!StateChanged(from, to, none) = StateChanged(from, to, none)
    BY <1>1, <1>4 DEF StateChanged, L!StateChanged, is_terminal
  <1> QED
    BY <1>1, <1>2, <1>3, <1>4, <1>5 DEF L!CaseStatus, CaseStatus, L!DecisionEvent, DecisionEvent,
       L!InitialActionStatus, InitialActionStatus

\* From a status that is not terminal to one that is not NEW.
LEMMA Lifecycle ==
  ASSUME NEW src \in CaseStatus, NEW dst, can_transition(src, dst)
  PROVE  src \notin TERMINAL /\ dst \in CaseStatus \ {"NEW"}
  BY DEF can_transition, TRANSITIONS, ActiveTargets, CaseStatus, TERMINAL

\* A case's log with one event more, or two.
LEMMA EventOne ==
  ASSUME NEW es \in Seq(EventRow), NEW e \in EventRow
  PROVE  /\ Append(es, e) \in Seq(EventRow) /\ es \o <<e>> = Append(es, e)
         /\ Len(Append(es, e)) = Len(es) + 1 /\ Len(es) \in Nat /\ Append(es, e) # <<>>
         /\ Append(es, e)[Len(es) + 1] = e /\ Extends(es, Append(es, e))
         /\ Len(es) + 1 \in DOMAIN Append(es, e)
         /\ DOMAIN es = 1..Len(es) /\ DOMAIN Append(es, e) = 1..(Len(es) + 1)
         /\ \A k \in DOMAIN es : k \in DOMAIN Append(es, e) /\ Append(es, e)[k] = es[k]
  <1> DEFINE gs == Append(es, e)
  <1>1. /\ gs \in Seq(EventRow) /\ Len(gs) = Len(es) + 1 /\ Len(es) \in Nat /\ gs[Len(es) + 1] = e
        /\ \A k \in 1..Len(es) : gs[k] = es[k]
    BY AppendProperties
  <1>2. es \o <<e>> = gs
    OBVIOUS
  <1> HIDE DEF gs
  <1>3. DOMAIN es = 1..Len(es) /\ DOMAIN gs = 1..(Len(es) + 1) /\ Len(es) + 1 \in DOMAIN gs
    BY <1>1
  <1>4. gs # <<>>
    BY <1>1
  <1>5. \A k \in DOMAIN es : k \in DOMAIN gs /\ gs[k] = es[k]
    BY <1>1, <1>3
  <1>6. Extends(es, gs)
    BY <1>1 DEF Extends
  <1> QED
    BY <1>1, <1>2, <1>3, <1>4, <1>5, <1>6 DEF gs

TwoMore(es, e, f, fs) ==
  /\ fs \in Seq(EventRow) /\ Extends(es, fs)
  /\ es \o (<<e>> \o <<f>>) = fs /\ es \o <<e, f>> = fs /\ Append(es, e) \o <<f>> = fs
  /\ Len(es) + 1 \in DOMAIN fs /\ fs[Len(es) + 1] = e /\ fs[Len(es) + 2] = f
  /\ \A k \in DOMAIN es : k \in DOMAIN fs /\ fs[k] = es[k]

LEMMA EventTwo ==
  ASSUME NEW es \in Seq(EventRow), NEW e \in EventRow, NEW f \in EventRow
  PROVE  TwoMore(es, e, f, Append(Append(es, e), f))
  <1> DEFINE fs == Append(Append(es, e), f)
  <1> DEFINE gs == Append(es, e)
  <1>1. /\ gs \in Seq(EventRow) /\ gs = es \o <<e>> /\ Len(gs) = Len(es) + 1 /\ Len(es) \in Nat
        /\ gs[Len(es) + 1] = e /\ DOMAIN es = 1..Len(es) /\ DOMAIN gs = 1..(Len(es) + 1)
        /\ \A k \in DOMAIN es : k \in DOMAIN gs /\ gs[k] = es[k]
    BY EventOne
  <1> HIDE DEF gs
  <1> HIDE DEF fs
  <1>2. /\ fs \in Seq(EventRow) /\ fs = gs \o <<f>> /\ Len(fs) = Len(gs) + 1 /\ fs[Len(gs) + 1] = f
        /\ \A k \in DOMAIN gs : k \in DOMAIN fs /\ fs[k] = gs[k]
    <2>1. fs = Append(gs, f)
      BY DEF gs, fs
    <2> QED
      BY <1>1, <2>1, EventOne
  <1>3. /\ <<e>> \in Seq(EventRow) /\ <<f>> \in Seq(EventRow) /\ <<e, f>> \in Seq(EventRow)
    OBVIOUS
  <1>4. <<e>> \o <<f>> = <<e, f>>
    <2>1. /\ <<e>> \o <<f>> \in Seq(EventRow) /\ Len(<<e>> \o <<f>>) = 2
          /\ (<<e>> \o <<f>>)[1] = e /\ (<<e>> \o <<f>>)[2] = f
      BY <1>3, ConcatProperties
    <2>2. Len(<<e, f>>) = 2 /\ <<e, f>>[1] = e /\ <<e, f>>[2] = f
      OBVIOUS
    <2>3. \A i \in 1..2 : i = 1 \/ i = 2
      OBVIOUS
    <2> QED
      BY <1>3, <2>1, <2>2, <2>3, SeqEqual
  <1>5. fs = es \o (<<e>> \o <<f>>)
    BY <1>1, <1>2, <1>3, ConcatAssociative
  <1>6. Len(es) + 1 \in DOMAIN fs /\ fs[Len(es) + 1] = e /\ fs[Len(es) + 2] = f
    BY <1>1, <1>2
  <1>7. \A k \in DOMAIN es : k \in DOMAIN fs /\ fs[k] = es[k]
    BY <1>1, <1>2
  <1>8. Extends(es, fs)
    BY <1>1, <1>2, <1>7 DEF Extends
  <1>9. TwoMore(es, e, f, fs)
    BY <1>2, <1>4, <1>5, <1>6, <1>7, <1>8 DEF TwoMore, gs
  <1> QED
    BY <1>9 DEF fs

\* An action keeps its case and verdict, and its decision once there is one.
ActGrown(A, B) ==
  \A a \in Actions : A[a].case # None =>
    /\ B[a].case = A[a].case /\ B[a].policy = A[a].policy
    /\ A[a].decided_by # "none" => B[a].status = A[a].status /\ B[a].decided_by = A[a].decided_by
Grown ==
  /\ \A c \in Cases : Extends(log[c], log'[c])
  /\ \A t \in OtherTopics, c \in Cases : Extends(other[t][c], other'[t][c])
  /\ ActGrown(act, act')
  /\ \A r \in Runs : run[r].case # None => run'[r].case = run[r].case /\ run'[r].mode = run[r].mode

LEMMA TellsSame ==
  ASSUME NEW c \in Cases, NEW es, NEW s, NEW m, NEW A, NEW B, Tells(c, es, s, m, A), ActGrown(A, B)
  PROVE  Tells(c, es, s, m, B)
  <1>1. c # None
    BY ProjectorAssumption
  <1>2. ASSUME NEW k \in DOMAIN es PROVE CaseShape(c, es, k, s, B)
    <2>1. CaseShape(c, es, k, s, A)
      BY DEF Tells
    <2> QED
      BY <1>1, <2>1 DEF CaseShape, ActGrown
  <1> QED
    BY <1>2 DEF Tells

\* One more event.
LEMMA TellsNext ==
  ASSUME NEW c \in Cases, NEW es \in Seq(EventRow), NEW e \in EventRow, NEW s, NEW s2, NEW m, NEW m2,
         NEW A, NEW B, Tells(c, es, s, m, A), ActGrown(A, B), s2 # "none",
         s \in TERMINAL => s2 \in TERMINAL,
         IF Settles(e) THEN s2 = e.to /\ s2 # "NEW" ELSE Settled(s2) = Settled(s),
         IF Hands(e) THEN m2 = Control(e) ELSE m2 = m,
         CaseShape(c, Append(es, e), Len(es) + 1, s2, B)
  PROVE  Tells(c, Append(es, e), s2, m2, B)
  <1> DEFINE fs == Append(es, e)
             n == Len(es)
  <1>1. /\ fs \in Seq(EventRow) /\ Len(fs) = n + 1 /\ n \in Nat /\ fs[n + 1] = e
        /\ DOMAIN es = 1..n /\ DOMAIN fs = 1..(n + 1) /\ \A k \in 1..n : fs[k] = es[k]
        /\ fs # <<>> /\ Extends(es, fs)
    <2>1. /\ fs \in Seq(EventRow) /\ Len(fs) = n + 1 /\ n \in Nat /\ fs[n + 1] = e
          /\ \A k \in 1..n : fs[k] = es[k]
      BY AppendProperties
    <2>2. DOMAIN es = 1..n /\ DOMAIN fs = 1..(n + 1)
      BY <2>1
    <2>3. n + 1 \in DOMAIN fs
      BY <2>1, <2>2
    <2>4. fs # <<>>
      BY <2>1
    <2> QED
      BY <2>1, <2>2, <2>4 DEF Extends
  <1>2. /\ Positions(StatusWrites(es)) /\ Positions(StatusWrites(fs))
        /\ Agree(StatusWrites(es), StatusWrites(fs), n)
        /\ Positions(ModeWrites(es)) /\ Positions(ModeWrites(fs))
        /\ Agree(ModeWrites(es), ModeWrites(fs), n)
    BY <1>1, WritesAgree
  <1> HIDE DEF fs
  <1>3. Latest(StatusWrites(fs), n + 1, Settled(s2))
    <2>1. CASE Settles(e)
      <3>1. n + 1 \in DOMAIN StatusWrites(fs) /\ StatusWrites(fs)[n + 1] = Settled(s2)
        BY <1>1, <2>1 DEF StatusWrites, Settled
      <3> QED
        BY <1>2, <3>1, LatestWrite
    <2>2. CASE ~Settles(e)
      <3>1. Latest(StatusWrites(fs), n, Settled(s2))
        BY <1>1, <1>2, <2>2, LatestAgree DEF Tells
      <3>2. n + 1 \notin DOMAIN StatusWrites(fs)
        BY <1>1, <2>2 DEF StatusWrites
      <3> QED
        BY <1>1, <1>2, <3>1, <3>2, LatestSkip
    <2> QED
      BY <2>1, <2>2
  <1>4. \/ Latest(ModeWrites(fs), n + 1, m2)
        \/ m2 = "AUTONOMOUS" /\ Latest(ModeWrites(fs), n + 1, "none")
    <2>1. CASE Hands(e)
      <3>1. n + 1 \in DOMAIN ModeWrites(fs) /\ ModeWrites(fs)[n + 1] = m2
        BY <1>1, <2>1 DEF ModeWrites
      <3> QED
        BY <1>2, <3>1, LatestWrite
    <2>2. CASE ~Hands(e)
      <3>1. n + 1 \notin DOMAIN ModeWrites(fs)
        BY <1>1, <2>2 DEF ModeWrites
      <3>2. ASSUME NEW x, Latest(ModeWrites(es), n, x) PROVE Latest(ModeWrites(fs), n + 1, x)
        <4>1. Latest(ModeWrites(fs), n, x)
          BY <1>1, <1>2, <3>2, LatestAgree
        <4> QED
          BY <1>1, <1>2, <3>1, <4>1, LatestSkip
      <3>3. m2 = m
        BY <2>2
      <3> QED
        BY <3>2, <3>3 DEF Tells
    <2> QED
      BY <2>1, <2>2
  <1>5. ASSUME NEW k \in DOMAIN fs PROVE CaseShape(c, fs, k, s2, B)
    <2>1. CASE k = n + 1
      BY <2>1 DEF fs
    <2>2. CASE k \in 1..n
      <3>1. c # None
        BY ProjectorAssumption
      <3>2. CaseShape(c, es, k, s, A) /\ fs[k] = es[k]
        BY <1>1, <2>2 DEF Tells
      <3>3. \A j \in DOMAIN es : j \in DOMAIN fs /\ fs[j] = es[j]
        BY <1>1
      <3> QED
        BY <3>1, <3>2, <3>3 DEF CaseShape, ActGrown
    <2> QED
      BY <1>1, <2>1, <2>2
  <1> QED
    BY <1>1, <1>3, <1>4, <1>5 DEF Tells, fs

\* A case's log grows, and tells what has become of the case.
LEMMA Announced ==
  ASSUME Source, NEW c \in Cases, NEW es \in Seq(EventRow), Extends(log[c], es),
         log' = [log EXCEPT ![c] = es],
         NEW s \in CaseStatus, status' = [status EXCEPT ![c] = s],
         NEW m \in AgentMode, mode' = [mode EXCEPT ![c] = m],
         act' \in [Actions -> ActRow], ActGrown(act, act'),
         Tells(c, es, s, m, act'),
         \A a \in Actions : act'[a] = act[a] \/ ActTells(a)',
         UNCHANGED <<other, run>>
  PROVE  Source' /\ Grown
  <1>1. /\ SourceTyped /\ \A d \in Cases : log[d] \in Seq(EventRow)
        /\ \A d \in Cases : log'[d] = IF d = c THEN es ELSE log[d]
        /\ \A d \in Cases \ {c} : status'[d] = status[d] /\ mode'[d] = mode[d]
        /\ status'[c] = s /\ mode'[c] = m
    BY DEF Source, SourceTyped
  <1>2. SourceTyped'
    <2>1. log' \in [Cases -> Seq(EventRow)] /\ status' \in [Cases -> CaseStatus \cup {"none"}]
          /\ mode' \in [Cases -> AgentMode]
      BY DEF Source, SourceTyped
    <2> QED
      BY <1>1, <2>1 DEF SourceTyped
  <1>3. ASSUME NEW d \in Cases PROVE Extends(log[d], log'[d])
    <2>1. Extends(log[d], log[d])
      BY <1>1, Typed DEF Extends
    <2> QED
      BY <1>1, <2>1
  <1>4. ASSUME NEW d \in Cases PROVE Tells(d, log'[d], status'[d], mode'[d], act')
    <2>1. CASE d = c
      BY <1>1, <2>1
    <2>2. CASE d # c
      <3>1. Tells(d, log[d], status[d], mode[d], act)
        BY DEF Source
      <3>2. Tells(d, log[d], status[d], mode[d], act')
        BY <3>1, TellsSame
      <3> QED
        BY <1>1, <2>2, <3>2
    <2> QED
      BY <2>1, <2>2
  <1>5. ASSUME NEW a \in Actions PROVE ActTells(a)'
    <2>1. CASE act'[a] = act[a]
      <3>1. ActTells(a) /\ act[a] \in ActRow
        BY <1>1, Typed DEF Source
      <3>2. act[a].case # None => act[a].case \in Cases
        BY <3>1 DEF ActRow
      <3>3. ASSUME NEW d \in Cases, NEW k \in DOMAIN log[d]
            PROVE  k \in DOMAIN log'[d] /\ log'[d][k] = log[d][k]
        <4>1. /\ Extends(log[d], log'[d]) /\ DOMAIN log[d] = 1..Len(log[d]) /\ Len(log[d]) \in Nat
          BY <1>1, <1>3, Typed
        <4>2. DOMAIN log'[d] = 1..Len(log'[d]) /\ Len(log'[d]) \in Nat
          BY <1>1
        <4> QED
          BY <4>1, <4>2 DEF Extends
      <3> QED
        BY <2>1, <3>1, <3>2, <3>3 DEF ActTells
    <2> QED
      BY <1>5, <2>1
  <1>6. \A d \in Cases : \A k \in DOMAIN other'["agent"][d] : AgentShape(d, k)'
    BY DEF Source, AgentShape
  <1>7. \A r \in Runs : RunTells(r)'
    BY DEF Source, RunTells
  <1>8. \A t \in OtherTopics, d \in Cases : Extends(other[t][d], other'[t][d])
    BY <1>1, Typed DEF Extends
  <1> QED
    BY <1>2, <1>3, <1>4, <1>5, <1>6, <1>7, <1>8 DEF Source, Grown
\* A case that is not over moves on.
LEMMA MovedOn ==
  ASSUME NEW c \in Cases, NEW es \in Seq(EventRow), es # <<>>, NEW s \in CaseStatus \ TERMINAL,
         NEW to \in CaseStatus \ {"NEW"}, NEW m \in AgentMode, NEW A, Tells(c, es, s, m, A)
  PROVE  LET fs == es \o StateChanged(s, to, None) IN
         /\ fs \in Seq(EventRow) /\ Extends(es, fs) /\ Tells(c, fs, to, m, A)
  <1> DEFINE e == Event("case.state_changed", s, to, None)
             f == Event("case.resolved", s, to, None)
             gs == Append(es, e)
             fs == Append(Append(es, e), f)
  <1>1. /\ e \in EventRow /\ f \in EventRow
        /\ e.type = "case.state_changed" /\ e.to = to /\ f.type = "case.resolved" /\ f.to = to
    BY DEF Event, EventRow, CaseEventTypes
  <1>2. StateChanged(s, to, None) = IF to \in TERMINAL THEN <<e, f>> ELSE <<e>>
    BY DEF StateChanged, is_terminal
  <1> HIDE DEF e, f
  <1>3. /\ gs \in Seq(EventRow) /\ es \o <<e>> = gs /\ Extends(es, gs)
        /\ gs[Len(es) + 1] = e /\ Len(gs) = Len(es) + 1 /\ gs # <<>>
    BY <1>1, EventOne
  <1>4. /\ fs \in Seq(EventRow) /\ es \o <<e, f>> = fs /\ Extends(es, fs) /\ fs[Len(es) + 2] = f
    <2>1. TwoMore(es, e, f, fs)
      BY <1>1, EventTwo
    <2> HIDE DEF fs
    <2> QED
      BY <2>1 DEF TwoMore
  <1> HIDE DEF fs
  <1>5. /\ to # "none" /\ to # "NEW" /\ to \in CaseStatus
        /\ e.type \notin DecisionTypes /\ f.type \notin DecisionTypes
    BY <1>1, DecisionNames DEF CaseStatus
  <1>6. ActGrown(A, A)
    BY DEF ActGrown
  <1>7. Len(es) \in Nat \ {0}
    BY EmptySeq
  <1> HIDE DEF gs
  <1>8. Settles(e) /\ ~Hands(e) /\ Settles(f) /\ ~Hands(f)
    BY <1>1 DEF Settles, Hands
  <1>9. Tells(c, gs, to, m, A)
    <2>1. Len(es) + 1 # 1
      BY <1>7
    <2>2. CaseShape(c, gs, Len(es) + 1, to, A)
      BY <1>1, <1>3, <1>5, <1>8, <2>1 DEF CaseShape
    <2> QED
      BY <1>1, <1>5, <1>6, <1>8, <2>2, TellsNext DEF gs
  <1>10. ASSUME to \in TERMINAL PROVE Tells(c, fs, to, m, A)
    <2>1. Len(gs) + 1 # 1 /\ fs[Len(gs) + 1] = f
      BY <1>3, <1>4, <1>7
    <2>2. CaseShape(c, fs, Len(gs) + 1, to, A)
      BY <1>1, <1>5, <1>8, <1>10, <2>1 DEF CaseShape
    <2>3. fs = Append(gs, f)
      BY DEF fs, gs
    <2> QED
      BY <1>1, <1>3, <1>5, <1>6, <1>8, <1>9, <2>2, <2>3, TellsNext
  <1> QED
    BY <1>2, <1>3, <1>4, <1>9, <1>10

LEMMA CaseServiceStep ==
  ASSUME Source, NEW c \in Cases, CaseService(c)
  PROVE  Source' /\ Grown
  <1> DEFINE es == log[c]
             s == status[c]
             m == mode[c]
  <1>1. /\ SourceTyped /\ c # None /\ es \in Seq(EventRow) /\ s \in CaseStatus \cup {"none"}
        /\ m \in AgentMode /\ Tells(c, es, s, m, act)
        /\ UNCHANGED <<other, run>> /\ act \in [Actions -> ActRow] /\ Len(es) \in Nat
        /\ log \in [Cases -> Seq(EventRow)] /\ status \in [Cases -> CaseStatus \cup {"none"}]
        /\ mode \in [Cases -> AgentMode] /\ "none" \notin CaseStatus
    BY ProjectorAssumption, Typed DEF Source, CaseService, SourceTyped, CaseStatus
  <1>2. ActGrown(act, act)
    BY DEF ActGrown
  <1>3. s # "none" => es # <<>> /\ Len(es) > 0 /\ s \in CaseStatus
    BY <1>1, EmptySeq DEF Tells
  <1> HIDE DEF es, s, m
  \* No action changes.
  <1>4. ASSUME NEW fs \in Seq(EventRow), Extends(es, fs), log' = [log EXCEPT ![c] = fs],
               NEW s2 \in CaseStatus, status' = [status EXCEPT ![c] = s2],
               NEW m2 \in AgentMode, mode' = [mode EXCEPT ![c] = m2], UNCHANGED act,
               Tells(c, fs, s2, m2, act)
        PROVE  Source' /\ Grown
    <2>1. /\ act' \in [Actions -> ActRow] /\ ActGrown(act, act') /\ Tells(c, fs, s2, m2, act')
          /\ \A a \in Actions : act'[a] = act[a]
      BY <1>1, <1>2, <1>4
    <2>2. Extends(log[c], fs)
      BY <1>4 DEF es
    <2> QED
      BY <1>1, <1>4, <2>1, <2>2, Announced
  <1>5. ASSUME NEW S, L!Open(c, S)
        PROVE  Source' /\ Grown
    <2> DEFINE e == Event("case.created", "none", "NEW", None)
    <2>1. e \in EventRow /\ e.type = "case.created" /\ e.to = "NEW"
      BY DEF Event, EventRow, CaseEventTypes, CaseStatus
    <2>2. /\ s = "none" /\ status' = [status EXCEPT ![c] = "NEW"] /\ mode' = [mode EXCEPT ![c] = m]
          /\ UNCHANGED act
      BY <1>1, <1>5 DEF L!Open, L!Exists, s, m
    <2>3. log' = [log EXCEPT ![c] = es \o <<e>>]
      BY <1>5, LedgerNames DEF L!Open, L!Say, es
    <2> HIDE DEF e
    <2>4. es \o <<e>> = Append(es, e) /\ Append(es, e) \in Seq(EventRow) /\ Extends(es, Append(es, e))
      BY <1>1, <2>1, EventOne
    <2>5. es = <<>> /\ Len(es) = 0
      BY <1>1, <2>2 DEF Tells
    <2>6. Append(es, e)[Len(es) + 1] = e
      BY <1>1, <2>1, AppendProperties
    <2>7. CaseShape(c, Append(es, e), Len(es) + 1, "NEW", act)
      BY <2>1, <2>5, <2>6, DecisionNames DEF CaseShape, Settles, TERMINAL
    <2>8. ~Settles(e) /\ ~Hands(e) /\ "NEW" \in CaseStatus /\ "none" \notin TERMINAL
          /\ Settled("NEW") = Settled("none")
      BY <2>1 DEF Settles, Hands, CaseStatus, TERMINAL, Settled
    <2>9. Tells(c, Append(es, e), "NEW", m, act)
      BY <1>1, <1>2, <2>1, <2>2, <2>7, <2>8, TellsNext
    <2> QED
      BY <1>1, <1>4, <2>1, <2>2, <2>3, <2>4, <2>8, <2>9
  <1>6. ASSUME NEW to \in Targets, L!Move(c, to)
        PROVE  Source' /\ Grown
    <2>1. /\ s # "none" /\ can_transition(s, to) /\ status' = [status EXCEPT ![c] = to]
          /\ log' = [log EXCEPT ![c] = es \o StateChanged(s, to, None)]
          /\ mode' = [mode EXCEPT ![c] = m] /\ UNCHANGED act
      BY <1>1, <1>6, LedgerNames DEF L!Move, L!Exists, L!Say, s, es, m
    <2>2. s \in CaseStatus \ TERMINAL /\ to \in CaseStatus \ {"NEW"} /\ es # <<>>
      BY <1>3, <2>1, Lifecycle
    <2> DEFINE fs == es \o StateChanged(s, to, None)
    <2>3. fs \in Seq(EventRow) /\ Extends(es, fs) /\ Tells(c, fs, to, m, act)
      BY <1>1, <2>2, MovedOn
    <2> HIDE DEF fs
    <2>4. log' = [log EXCEPT ![c] = fs]
      BY <2>1 DEF fs
    <2> QED
      BY <1>1, <1>4, <2>1, <2>2, <2>3, <2>4
  <1>7. ASSUME NEW type \in {"case.takeover", "case.released"}, s # "none",
               s \in TERMINAL => s \in TERMINAL,
               type = "case.released" => m = "HUMAN_CONTROL",
               log' = [log EXCEPT ![c] = es \o <<Event(type, "none", "none", None)>>],
               mode' = [mode EXCEPT ![c] = IF type = "case.takeover" THEN "HUMAN_CONTROL" ELSE "AUTONOMOUS"],
               UNCHANGED <<status, act>>
        PROVE  Source' /\ Grown
    <2> DEFINE e == Event(type, "none", "none", None)
               m2 == IF type = "case.takeover" THEN "HUMAN_CONTROL" ELSE "AUTONOMOUS"
    <2>1. e \in EventRow /\ e.type = type /\ e.to = "none"
      BY DEF Event, EventRow, CaseEventTypes
    <2> HIDE DEF e
    <2>2. /\ es \o <<e>> = Append(es, e) /\ Append(es, e)[Len(es) + 1] = e
          /\ Append(es, e) \in Seq(EventRow) /\ Extends(es, Append(es, e))
          /\ \A j \in DOMAIN es : j \in DOMAIN Append(es, e) /\ Append(es, e)[j] = es[j]
      BY <1>1, <2>1, EventOne
    <2>3. /\ Hands(e) /\ ~Settles(e) /\ m2 = Control(e) /\ m2 \in AgentMode /\ "none" \notin TERMINAL
      BY <2>1 DEF Hands, Settles, Control, AgentMode, TERMINAL
    <2>4. type = "case.released" => \E j \in DOMAIN es : es[j].type = "case.takeover"
      <3>1. ASSUME type = "case.released" PROVE \E k \in DOMAIN ModeWrites(es) : ModeWrites(es)[k] = "HUMAN_CONTROL"
        BY <1>1, <1>7, <3>1 DEF Tells, Latest
      <3> QED
        BY <3>1 DEF ModeWrites, Control
    <2>6. CaseShape(c, Append(es, e), Len(es) + 1, s, act)
      BY <1>3, <1>7, <2>1, <2>2, <2>3, <2>4, DecisionNames DEF CaseShape
    <2>7. Tells(c, Append(es, e), s, m2, act)
      BY <1>1, <1>2, <1>7, <2>1, <2>3, <2>6, TellsNext
    <2>8. status' = [status EXCEPT ![c] = s]
      BY <1>1, <1>7 DEF s
    <2> QED
      BY <1>3, <1>4, <1>7, <2>1, <2>2, <2>3, <2>7, <2>8 DEF e
  <1>8. CASE L!TakeOver(c)
    BY <1>1, <1>7, <1>8, LedgerNames DEF L!TakeOver, L!Live, L!Exists, L!Say, s, es
  <1>9. CASE L!HandBack(c)
    BY <1>1, <1>7, <1>9, LedgerNames DEF L!HandBack, L!Exists, L!Say, s, es, m
  \* One action changes: it is proposed, or decided; and the case may move on.
  <1>10. ASSUME NEW a \in Actions, NEW row \in ActRow, act' = [act EXCEPT ![a] = row], ActGrown(act, act'),
                ActTells(a)', UNCHANGED mode, s \in CaseStatus \ TERMINAL \/ UNCHANGED status, s # "none",
                NEW e \in EventRow, e.type \in {"case.action.proposed"} \cup DecisionTypes, e.to = "none",
                e.action = a, row.case = c,
                e.type \in DecisionTypes => row.status = Outcome(e.type) /\ row.decided_by # "none",
                \/ log' = [log EXCEPT ![c] = es \o <<e>>] /\ UNCHANGED status
                \/ \E to \in CaseStatus \ (TERMINAL \cup {"NEW"}) :
                     /\ log' = [log EXCEPT ![c] = es \o (<<e>> \o StateChanged(s, to, None))]
                     /\ status' = [status EXCEPT ![c] = to] /\ s \notin TERMINAL
         PROVE  Source' /\ Grown
    <2> DEFINE gs == Append(es, e)
    <2>1. act' \in [Actions -> ActRow] /\ act'[a] = row /\ \A b \in Actions \ {a} : act'[b] = act[b]
      BY <1>1, <1>10
    <2>2. /\ gs \in Seq(EventRow) /\ es \o <<e>> = gs /\ Extends(es, gs) /\ gs[Len(es) + 1] = e
          /\ gs # <<>> /\ Len(gs) = Len(es) + 1
      BY <1>1, <1>10, EventOne
    <2>3. Tells(c, gs, s, m, act')
      <3>1. CaseShape(c, gs, Len(es) + 1, s, act')
        BY <1>3, <1>10, <2>1, <2>2, DecisionNames DEF CaseShape, Settles, TERMINAL
      <3>2. ~Settles(e) /\ ~Hands(e)
        BY <1>10, DecisionNames DEF Settles, Hands
      <3> QED
        BY <1>1, <1>10, <3>1, <3>2, TellsNext
    <2>4. mode' = [mode EXCEPT ![c] = m] /\ \A b \in Actions : act'[b] = act[b] \/ ActTells(b)'
      <3>1. ASSUME NEW b \in Actions PROVE act'[b] = act[b] \/ ActTells(b)'
        BY <1>10, <2>1
      <3> QED
        BY <1>1, <1>10, <3>1 DEF m
    <2> HIDE DEF gs
    <2>5. CASE log' = [log EXCEPT ![c] = es \o <<e>>] /\ UNCHANGED status
      <3>1. log' = [log EXCEPT ![c] = gs] /\ status' = [status EXCEPT ![c] = s]
        BY <1>1, <2>2, <2>5 DEF s
      <3> QED
        BY <1>1, <1>3, <1>10, <2>1, <2>2, <2>3, <2>4, <3>1, Announced DEF es
    <2>6. ASSUME NEW to \in CaseStatus \ (TERMINAL \cup {"NEW"}), s \notin TERMINAL,
                 log' = [log EXCEPT ![c] = es \o (<<e>> \o StateChanged(s, to, None))],
                 status' = [status EXCEPT ![c] = to]
          PROVE  Source' /\ Grown
      <3> DEFINE f == Event("case.state_changed", s, to, None)
                 fs == Append(gs, f)
      <3>1. StateChanged(s, to, None) = <<f>> /\ f \in EventRow
        BY <1>3, <1>10, <2>6 DEF StateChanged, is_terminal, Event, EventRow, CaseEventTypes
      <3> HIDE DEF f
      <3>2. es \o (<<e>> \o <<f>>) = fs /\ gs \o <<f>> = fs /\ Extends(es, fs)
        <4>1. TwoMore(es, e, f, Append(Append(es, e), f))
          BY <1>1, <1>10, <3>1, EventTwo
        <4>2. TwoMore(es, e, f, fs)
          BY <4>1 DEF gs
        <4> HIDE DEF fs
        <4> QED
          BY <2>2, <4>2 DEF TwoMore, gs
      <3>3. fs \in Seq(EventRow) /\ Tells(c, fs, to, m, act')
        <4>1. /\ s \in CaseStatus \ TERMINAL /\ to \in CaseStatus \ {"NEW"}
          BY <1>3, <1>10, <2>6
        <4>2. gs \o StateChanged(s, to, None) = fs
          BY <3>1, <3>2
        <4> HIDE DEF fs
        <4> QED
          BY <1>1, <2>2, <2>3, <4>1, <4>2, MovedOn
      <3>4. log' = [log EXCEPT ![c] = fs]
        BY <2>6, <3>1, <3>2
      <3> HIDE DEF fs
      <3> QED
        BY <1>1, <1>10, <2>1, <2>4, <2>6, <3>2, <3>3, <3>4, Announced DEF es
    <2> QED
      BY <1>10, <2>5, <2>6
  <1>11. ASSUME NEW a \in Actions, NEW v \in Verdicts, L!Propose(c, a, v[1], v[2])
         PROVE  Source' /\ Grown
    <2> DEFINE e == Event("case.action.proposed", "none", "none", a)
               row == [case |-> c, status |-> InitialActionStatus[v[1]], policy |-> v[1],
                       required |-> v[2], decided_by |-> "none"]
    <2>1. /\ act[a] = L!NoAction /\ act[a].case = None /\ s # "none" /\ s \notin TERMINAL
          /\ act' = [act EXCEPT ![a] = row] /\ UNCHANGED mode
          /\ IF v[1] = "REQUIRE_APPROVAL" /\ s # "PENDING_APPROVAL"
             THEN /\ status' = [status EXCEPT ![c] = "PENDING_APPROVAL"]
                  /\ log' = [log EXCEPT ![c] = es \o (<<e>> \o StateChanged(s, "PENDING_APPROVAL", None))]
             ELSE log' = [log EXCEPT ![c] = es \o <<e>>] /\ UNCHANGED status
      <3>1. L!Live(c) /\ act[a] = L!NoAction /\ UNCHANGED mode /\ act' = [act EXCEPT ![a] = row]
        BY <1>11, LedgerNames DEF L!Propose
      <3>2. act[a].case = None
        BY <3>1 DEF L!NoAction
      <3>3. s # "none" /\ s \notin TERMINAL
        BY <3>1, LedgerNames DEF L!Live, L!Exists, s
      <3>4. IF v[1] = "REQUIRE_APPROVAL" /\ s # "PENDING_APPROVAL"
            THEN /\ status' = [status EXCEPT ![c] = "PENDING_APPROVAL"]
                 /\ L!Say(c, <<e>> \o StateChanged(s, "PENDING_APPROVAL", None))
            ELSE L!Say(c, <<e>>) /\ UNCHANGED status
        BY <1>11, LedgerNames DEF L!Propose, s
      <3> QED
        BY <3>1, <3>2, <3>3, <3>4 DEF L!Say, es
    <2>2. /\ e \in EventRow /\ e.type = "case.action.proposed" /\ e.to = "none" /\ e.action = a
      BY DEF Event, EventRow, CaseEventTypes
    <2>3. v[1] \in PolicyDecision /\ v[2] \in Role \cup {"none"}
      BY ProjectorAssumption
    <2>4. /\ row \in ActRow /\ row.case = c /\ row.policy = v[1] /\ row.decided_by = "none"
      BY <2>3 DEF ActRow, InitialActionStatus, PolicyDecision, ActionStatus
    <2> HIDE DEF e, row
    <2>5. ActGrown(act, act')
      BY <1>1, <2>1 DEF ActGrown
    <2>6. act'[a] = row
      BY <1>1, <2>1
    <2>7. \E k \in DOMAIN log'[c] : log'[c][k].type = "case.action.proposed" /\ log'[c][k].action = a
      <3> DEFINE gs == Append(es, e)
                 f == Event("case.state_changed", s, "PENDING_APPROVAL", None)
      <3>1. StateChanged(s, "PENDING_APPROVAL", None) = <<f>> /\ f \in EventRow
        BY <1>3, <2>1 DEF StateChanged, is_terminal, Event, EventRow, CaseEventTypes, CaseStatus, TERMINAL
      <3>2. Len(es) + 1 \in DOMAIN gs /\ gs[Len(es) + 1] = e /\ gs = es \o <<e>>
        BY <1>1, <2>2, EventOne
      <3> HIDE DEF f
      <3>3. /\ Append(gs, f) = es \o (<<e>> \o <<f>>) /\ Append(gs, f)[Len(es) + 1] = e
            /\ Len(es) + 1 \in DOMAIN Append(gs, f)
        <4>1. TwoMore(es, e, f, Append(gs, f))
          BY <1>1, <2>2, <3>1, EventTwo
        <4> HIDE DEF gs
        <4> QED
          BY <4>1 DEF TwoMore
      <3>4. log'[c] = gs \/ log'[c] = Append(gs, f)
        BY <1>1, <2>1, <3>1, <3>2, <3>3
      <3> HIDE DEF gs
      <3>5. Len(es) + 1 \in DOMAIN log'[c] /\ log'[c][Len(es) + 1] = e
        BY <1>1, <3>2, <3>3, <3>4
      <3> QED
        BY <2>2, <3>5
    <2>8. ActTells(a)'
      BY <1>1, <2>3, <2>4, <2>6, <2>7 DEF ActTells
    <2>9. "PENDING_APPROVAL" \in CaseStatus \ (TERMINAL \cup {"NEW"})
      BY DEF CaseStatus, TERMINAL
    <2>10. e.type \notin DecisionTypes
      BY <2>2, DecisionNames
    <2> QED
      BY <1>3, <1>10, <2>1, <2>2, <2>4, <2>5, <2>8, <2>9, <2>10
  <1>12. ASSUME NEW a \in Actions, NEW decision \in Decision, L!Decide(c, a, decision, "admin")
         PROVE  Source' /\ Grown
    <2> DEFINE e == Event(DecisionEvent[decision], "none", "none", a)
               row == [act[a] EXCEPT !.status = decision, !.decided_by = "admin"]
               to == IF decision = "REJECTED" THEN "INVESTIGATING" ELSE "ACTION_TAKEN"
               parked == /\ ~\E b \in Actions \ {a} : act[b].case = c /\ act[b].status = "PENDING"
                         /\ s = "PENDING_APPROVAL"
    <2>1. /\ act[a].case = c /\ act[a].status = "PENDING"
          /\ act' = [act EXCEPT ![a] = row] /\ UNCHANGED mode
          /\ IF parked
             THEN /\ status' = [status EXCEPT ![c] = to]
                  /\ log' = [log EXCEPT ![c] = es \o (<<e>> \o StateChanged(s, to, None))]
             ELSE log' = [log EXCEPT ![c] = es \o <<e>>] /\ UNCHANGED status
      BY <1>12, LedgerNames DEF L!Decide, L!Say, s, es
    <2> HIDE DEF parked
    <2>2. /\ e \in EventRow /\ e.type = DecisionEvent[decision] /\ e.to = "none" /\ e.action = a
      BY DecisionNames DEF Event, EventRow, CaseEventTypes
    <2>3. act[a] \in ActRow /\ ActTells(a)
      BY <1>1 DEF Source
    <2>4. /\ row \in ActRow /\ row.case = c /\ row.policy = act[a].policy
          /\ row.status = decision /\ row.decided_by = "admin"
      BY <2>1, <2>3 DEF ActRow, ActionStatus, Decision, Role
    <2> HIDE DEF e, row
    <2>5. act[a].decided_by = "none" /\ act'[a] = row
      BY <1>1, <2>1, <2>3 DEF ActTells, Decision
    <2>6. ActGrown(act, act')
      BY <1>1, <2>1, <2>4, <2>5 DEF ActGrown
    <2>7. e.type \in DecisionTypes /\ row.status = Outcome(e.type) /\ row.decided_by # "none"
      BY <2>2, <2>4, DecisionNames
    <2>8. to \in CaseStatus \ (TERMINAL \cup {"NEW"}) /\ (parked => s \notin TERMINAL)
      BY DEF CaseStatus, TERMINAL, parked
    <2>9. PICK k \in DOMAIN es : es[k].type = "case.action.proposed" /\ es[k].action = a
      BY <1>1, <2>1, <2>3 DEF ActTells, es
    <2>10. s # "none"
      BY <1>1, <2>9 DEF Tells
    <2>11. k \in DOMAIN log'[c] /\ log'[c][k] = es[k]
      <3> DEFINE gs == Append(es, e)
                 f == Event("case.state_changed", s, to, None)
      <3>1. StateChanged(s, to, None) = <<f>> /\ f \in EventRow
        BY <1>3, <2>8, <2>10 DEF StateChanged, is_terminal, Event, EventRow, CaseEventTypes
      <3> HIDE DEF f
      <3>2. gs = es \o <<e>> /\ \A j \in DOMAIN es : j \in DOMAIN gs /\ gs[j] = es[j]
        BY <1>1, <2>2, EventOne
      <3>4. /\ Append(gs, f) = es \o (<<e>> \o <<f>>)
            /\ \A j \in DOMAIN es : j \in DOMAIN Append(gs, f) /\ Append(gs, f)[j] = es[j]
        <4>1. TwoMore(es, e, f, Append(gs, f))
          BY <1>1, <2>2, <3>1, EventTwo
        <4> HIDE DEF gs
        <4> QED
          BY <4>1 DEF TwoMore
      <3>3. Append(gs, f) = es \o (<<e>> \o StateChanged(s, to, None))
        BY <3>1, <3>4
      <3> HIDE DEF gs
      <3>5. log'[c] = gs \/ log'[c] = Append(gs, f)
        <4>1. CASE parked
          BY <1>1, <2>1, <3>3, <4>1
        <4>2. CASE ~parked
          BY <1>1, <2>1, <3>2, <4>2
        <4> QED
          BY <4>1, <4>2
      <3> QED
        BY <2>9, <3>2, <3>4, <3>5
    <2>12. ActTells(a)'
      BY <1>1, <2>1, <2>3, <2>4, <2>5, <2>9, <2>11 DEF ActTells
    <2> HIDE DEF to
    <2> QED
      BY <1>3, <1>10, <2>1, <2>2, <2>4, <2>6, <2>7, <2>8, <2>10, <2>12
  <1> QED
    BY <1>5, <1>6, <1>8, <1>9, <1>11, <1>12 DEF CaseService

\* Another service publishes.
OneMore(t, c, e) ==
  /\ other' \in [OtherTopics -> [Cases -> Seq(OtherRow)]]
  /\ other'[t][c] = Append(other[t][c], e)
  /\ \A u \in OtherTopics, d \in Cases : u # t \/ d # c => other'[u][d] = other[u][d]
  /\ \A u \in OtherTopics, d \in Cases : Extends(other[u][d], other'[u][d])
  /\ Len(other'[t][c]) = Len(other[t][c]) + 1 /\ other'[t][c][Len(other[t][c]) + 1] = e
  /\ UNCHANGED case

LEMMA Published ==
  ASSUME SourceTyped, NEW t \in OtherTopics, NEW c \in Cases, NEW e \in OtherRow, Publish(t, c, e)
  PROVE  OneMore(t, c, e)
  <1> DEFINE es == other[t][c]
             fs == Append(es, e)
  <1>1. other \in [OtherTopics -> [Cases -> Seq(OtherRow)]] /\ es \in Seq(OtherRow)
    BY DEF SourceTyped
  <1>2. /\ fs \in Seq(OtherRow) /\ Len(fs) = Len(es) + 1 /\ fs[Len(es) + 1] = e /\ Len(es) \in Nat
        /\ \A k \in 1..Len(es) : fs[k] = es[k]
    BY <1>1, AppendProperties
  <1>3. other' = [other EXCEPT ![t][c] = fs] /\ UNCHANGED case
    BY DEF Publish
  <1> HIDE DEF fs
  <1>4. other' \in [OtherTopics -> [Cases -> Seq(OtherRow)]] /\ other'[t][c] = fs
    BY <1>1, <1>2, <1>3
  <1>5. \A u \in OtherTopics, d \in Cases : u # t \/ d # c => other'[u][d] = other[u][d]
    BY <1>1, <1>3
  <1>6. ASSUME NEW u \in OtherTopics, NEW d \in Cases PROVE Extends(other[u][d], other'[u][d])
    <2>1. CASE u = t /\ d = c
      BY <1>2, <1>4, <2>1 DEF Extends
    <2>2. CASE u # t \/ d # c
      BY <1>1, <1>5, <2>2 DEF Extends
    <2> QED
      BY <2>1, <2>2
  <1>7. Len(other'[t][c]) = Len(other[t][c]) + 1 /\ other'[t][c][Len(other[t][c]) + 1] = e
    BY <1>2, <1>4
  <1>8. other'[t][c] = Append(other[t][c], e)
    BY <1>4 DEF fs
  <1> QED
    BY <1>3, <1>4, <1>5, <1>6, <1>7, <1>8 DEF OneMore

\* The rest of the source says what it said.
LEMMA CaseKept ==
  ASSUME Source, UNCHANGED case
  PROVE  /\ \A c \in Cases : Tells(c, log'[c], status'[c], mode'[c], act')
         /\ \A a \in Actions : ActTells(a)'
         /\ \A c \in Cases : Extends(log[c], log'[c])
         /\ ActGrown(act, act')
  <1>1. UNCHANGED <<log, status, mode, act>>
    BY DEF case
  <1>2. \A c \in Cases : Extends(log[c], log'[c])
    BY <1>1, Typed DEF Extends, Source
  <1>3. ActGrown(act, act')
    BY <1>1 DEF ActGrown
  <1>4. \A a \in Actions : ActTells(a)'
    BY <1>1 DEF Source, ActTells
  <1> QED
    BY <1>1, <1>2, <1>3, <1>4 DEF Source

LEMMA FactStep ==
  ASSUME Source, NEW c \in Cases, SomeFact(c)
  PROVE  Source' /\ Grown
  <1>1. PICK t \in {"comm", "tool"}, e \in OtherRow : Publish(t, c, e) /\ e.type \in FactTypes[t] /\ UNCHANGED run
    <2>1. UNCHANGED run
      BY DEF SomeFact
    <2>2. ASSUME NEW type \in {"comm.email.sent", "comm.email.received"}
          PROVE  Fact(type, "none") \in OtherRow /\ Fact(type, "none").type \in FactTypes["comm"]
      BY DEF Fact, RunEvent, OtherRow, FactTypes
    <2>3. /\ Fact("tool.invoked", "SUCCESS") \in OtherRow /\ Fact("tool.blocked", "DENIED") \in OtherRow
          /\ Fact("tool.invoked", "SUCCESS").type \in FactTypes["tool"]
          /\ Fact("tool.blocked", "DENIED").type \in FactTypes["tool"]
      BY DEF Fact, RunEvent, OtherRow, FactTypes
    <2> QED
      BY <2>1, <2>2, <2>3, Zenon DEF SomeFact
  <1>2. SourceTyped /\ t \in OtherTopics /\ t # "agent" /\ "agent" \in OtherTopics
    BY DEF Source, OtherTopics
  <1>3. OneMore(t, c, e)
    BY <1>1, <1>2, Published
  <1>4. \A d \in Cases : other'["agent"][d] = other["agent"][d]
    BY <1>2, <1>3 DEF OneMore
  <1>5. \A u \in OtherTopics, d \in Cases : \A k \in DOMAIN other'[u][d] : other'[u][d][k].type \in FactTypes[u]
    <2> SUFFICES ASSUME NEW u \in OtherTopics, NEW d \in Cases, NEW k \in DOMAIN other'[u][d]
                 PROVE  other'[u][d][k].type \in FactTypes[u]
      OBVIOUS
    <2>1. CASE u = t /\ d = c
      <3>1. k \in 1..(Len(other[t][c]) + 1) /\ DOMAIN other[t][c] = 1..Len(other[t][c]) /\ Len(other[t][c]) \in Nat
        BY <1>2, <1>3, <2>1, Typed DEF OneMore
      <3>2. CASE k = Len(other[t][c]) + 1
        BY <1>1, <1>3, <2>1, <3>2 DEF OneMore
      <3>3. CASE k \in 1..Len(other[t][c])
        <4>1. other'[t][c][k] = other[t][c][k] /\ k \in DOMAIN other[t][c]
          BY <1>2, <1>3, <3>1, <3>3 DEF OneMore, Extends
        <4>2. other[t][c][k].type \in FactTypes[t]
          BY <1>2, <4>1 DEF SourceTyped
        <4> QED
          BY <2>1, <4>1, <4>2
      <3> QED
        BY <3>1, <3>2, <3>3
    <2>2. CASE u # t \/ d # c
      BY <1>2, <1>3, <2>2 DEF OneMore, SourceTyped
    <2> QED
      BY <2>1, <2>2
  <1>6. UNCHANGED case
    BY <1>3 DEF OneMore
  <1>7. SourceTyped'
    BY <1>1, <1>2, <1>3, <1>5, <1>6 DEF SourceTyped, OneMore, case
  <1>8. \A d \in Cases : \A k \in DOMAIN other'["agent"][d] : AgentShape(d, k)'
    BY <1>1, <1>4 DEF Source, AgentShape
  <1>9. \A r \in Runs : RunTells(r)'
    <2> SUFFICES ASSUME NEW r \in Runs PROVE RunTells(r)'
      OBVIOUS
    <2>1. RunTells(r) /\ run[r] \in RunRow
      BY <1>2, Typed DEF Source
    <2>2. run[r].case # None => run[r].case \in Cases
      BY <2>1 DEF RunRow
    <2> QED
      BY <1>1, <1>4, <2>1, <2>2 DEF RunTells
  <1>10. Grown
    BY <1>1, <1>3, <1>6, CaseKept DEF Grown, OneMore
  <1> QED
    BY <1>6, <1>7, <1>8, <1>9, <1>10, CaseKept DEF Source

\* A run's status is what its last event says.
LEMMA RunTellsNext ==
  ASSUME NEW es \in Seq(OtherRow), NEW e \in OtherRow, NEW r, NEW s, NEW s2,
         IF e.run = r THEN s2 = e.status ELSE s2 = s /\ Latest(RunWrites(es, r), Len(es), s)
  PROVE  Latest(RunWrites(Append(es, e), r), Len(es) + 1, s2)
  <1> DEFINE fs == Append(es, e)
             n == Len(es)
  <1>1. /\ fs \in Seq(OtherRow) /\ Len(fs) = n + 1 /\ fs[n + 1] = e /\ n \in Nat
        /\ \A k \in 1..n : fs[k] = es[k]
    BY AppendProperties
  <1> HIDE DEF fs
  <1>2. Extends(es, fs) /\ DOMAIN fs = 1..(n + 1)
    BY <1>1 DEF Extends
  <1>3. /\ Positions(RunWrites(es, r)) /\ Positions(RunWrites(fs, r))
        /\ Agree(RunWrites(es, r), RunWrites(fs, r), n)
    BY <1>1, <1>2, WritesAgree
  <1>4. CASE e.run = r
    <2>1. n + 1 \in DOMAIN RunWrites(fs, r) /\ RunWrites(fs, r)[n + 1] = s2
      BY <1>1, <1>2, <1>4 DEF RunWrites
    <2>2. Latest(RunWrites(fs, r), n + 1, s2)
      BY <1>3, <2>1, LatestWrite
    <2> QED
      BY <2>2 DEF fs
  <1>5. CASE e.run # r
    <2>1. n + 1 \notin DOMAIN RunWrites(fs, r)
      BY <1>1, <1>2, <1>5 DEF RunWrites
    <2>2. Latest(RunWrites(fs, r), n, s2)
      BY <1>1, <1>3, <1>5, LatestAgree
    <2>3. Latest(RunWrites(fs, r), n + 1, s2)
      BY <1>1, <1>3, <2>1, <2>2, LatestSkip
    <2> QED
      BY <2>3 DEF fs
  <1> QED
    BY <1>4, <1>5

\* An outcome is known again from the status it was stored as.
LEMMA ToldAgain ==
  ASSUME NEW e \in OtherRow, e.status \in RunStatus
  PROVE  /\ OutcomeOf(StoredAs(e.status)) = e.status
         /\ StoredAs(e.status) \in RowStatus
  BY ProjectorAssumption DEF OutcomeOf, StoredAs, RunStatus, RowStatus

LEMMA RunStep ==
  ASSUME Source, NEW c \in Cases, NEW r \in Runs, NEW e \in OtherRow, NEW row \in RunRow,
         Publish("agent", c, e), run' = [run EXCEPT ![r] = row],
         e.run = r, e.type \in FactTypes["agent"], e.status \in RunStatus,
         row.case = c, row.mode \in RunModes, row.status = StoredAs(e.status),
         e.type = "agent.run.started" => e.mode = row.mode /\ e.status = "RUNNING" /\ e.root_cause = None,
         run[r].case # None => run[r].case = c /\ run[r].mode = row.mode,
         run[r].case = None => e.type = "agent.run.started"
  PROVE  Source' /\ Grown
  <1> DEFINE es == other["agent"][c]
             n == Len(es)
  <1>1. /\ SourceTyped /\ "agent" \in OtherTopics /\ c # None /\ es \in Seq(OtherRow) /\ n \in Nat
        /\ DOMAIN es = 1..n /\ run \in [Runs -> RunRow]
    BY Typed, ProjectorAssumption DEF Source, OtherTopics, SourceTyped
  <1>2. OneMore("agent", c, e)
    BY <1>1, Published
  <1>3. /\ other'["agent"][c] = Append(es, e) /\ Len(other'["agent"][c]) = n + 1
        /\ other'["agent"][c][n + 1] = e /\ DOMAIN other'["agent"][c] = 1..(n + 1)
        /\ \A k \in 1..n : other'["agent"][c][k] = es[k]
        /\ \A u \in OtherTopics, d \in Cases : u # "agent" \/ d # c => other'[u][d] = other[u][d]
        /\ UNCHANGED case
    BY <1>1, <1>2 DEF OneMore, Extends
  <1>4. run' \in [Runs -> RunRow] /\ run'[r] = row /\ \A q \in Runs \ {r} : run'[q] = run[q]
    BY <1>1
  <1>5. \A u \in OtherTopics, d \in Cases : \A k \in DOMAIN other'[u][d] : other'[u][d][k].type \in FactTypes[u]
    <2> SUFFICES ASSUME NEW u \in OtherTopics, NEW d \in Cases, NEW k \in DOMAIN other'[u][d]
                 PROVE  other'[u][d][k].type \in FactTypes[u]
      OBVIOUS
    <2>1. CASE u = "agent" /\ d = c
      <3>2. CASE k = n + 1
        BY <1>3, <2>1, <3>2
      <3>3. CASE k \in 1..n
        BY <1>1, <1>3, <2>1, <3>3 DEF SourceTyped
      <3> QED
        BY <1>1, <1>3, <2>1, <3>2, <3>3
    <2>2. CASE u # "agent" \/ d # c
      BY <1>1, <1>3, <2>2 DEF SourceTyped
    <2> QED
      BY <2>1, <2>2
  <1>6. SourceTyped'
    BY <1>1, <1>2, <1>3, <1>4, <1>5 DEF SourceTyped, OneMore, case
  <1>7. ASSUME NEW d \in Cases, NEW k \in DOMAIN other'["agent"][d] PROVE AgentShape(d, k)'
    <2>1. ASSUME k \in DOMAIN other["agent"][d], other'["agent"][d][k] = other["agent"][d][k]
          PROVE  AgentShape(d, k)'
      <3>1. AgentShape(d, k) /\ d # None
        BY <2>1, ProjectorAssumption DEF Source
      <3> QED
        BY <1>4, <2>1, <3>1 DEF AgentShape
    <2>2. CASE d # c
      BY <1>1, <1>3, <2>1, <2>2
    <2>3. CASE d = c /\ k \in 1..n
      BY <1>1, <1>3, <2>1, <2>3
    <2>4. CASE d = c /\ k = n + 1
      BY <1>3, <1>4, <2>4 DEF AgentShape
    <2> QED
      BY <1>1, <1>3, <2>2, <2>3, <2>4
  <1>8. ASSUME NEW q \in Runs PROVE RunTells(q)'
    <2>1. RunTells(q) /\ (run[q].case # None => run[q].case \in Cases)
      BY <1>1 DEF Source, RunRow
    <2>2. CASE run'[q].case # c
      BY <1>1, <1>3, <1>4, <2>1, <2>2 DEF RunTells
    <2>3. CASE run'[q].case = c
      <3> DEFINE said == OutcomeOf(run[q].status)
                 says == OutcomeOf(run'[q].status)
      <3>1. Latest(RunWrites(Append(es, e), q), n + 1, says)
        <4>1. CASE e.run = q
          <5>1. run'[q].status = StoredAs(e.status)
            BY <1>4, <4>1
          <5>2. says = e.status
            BY <5>1, ToldAgain
          <5> HIDE DEF says
          <5> QED
            BY <1>1, <4>1, <5>2, RunTellsNext
        <4>2. CASE e.run # q
          <5>1. says = said /\ Latest(RunWrites(es, q), n, said)
            BY <1>1, <1>4, <2>1, <2>3, <4>2 DEF RunTells
          <5> HIDE DEF says, said
          <5> QED
            BY <1>1, <4>2, <5>1, RunTellsNext
        <4> QED
          BY <4>1, <4>2
      <3>2. run'[q].mode \in RunModes
        BY <1>1, <1>4, <2>1, <2>3 DEF RunTells
      <3>5. Latest(RunWrites(other'["agent"][c], q), Len(other'["agent"][c]), says)
        BY <1>3, <3>1
      <3>6. SUFFICES \E k \in DOMAIN other'["agent"][c] :
                       /\ other'["agent"][c][k].type = "agent.run.started"
                       /\ other'["agent"][c][k].run = q
        BY <1>1, <2>3, <3>2, <3>5, <3>6 DEF RunTells
      <3>3. CASE run[q].case = None
        <4>1. q = r
          BY <1>1, <1>4, <2>3, <3>3
        <4>2. n + 1 \in DOMAIN other'["agent"][c] /\ e.type = "agent.run.started"
          BY <1>1, <1>3, <3>3, <4>1
        <4> QED
          BY <1>3, <4>1, <4>2
      <3>4. CASE run[q].case # None
        <4>1. run[q].case = c
          BY <1>4, <2>3, <3>4
        <4>2. PICK k \in DOMAIN es : es[k].type = "agent.run.started" /\ es[k].run = q
          BY <2>1, <3>4, <4>1 DEF RunTells
        <4>3. k \in DOMAIN other'["agent"][c] /\ other'["agent"][c][k] = es[k]
          BY <1>1, <1>3
        <4> QED
          BY <4>2, <4>3
      <3> QED
        BY <3>3, <3>4
    <2> QED
      BY <2>2, <2>3
  <1>9. Grown
    BY <1>1, <1>2, <1>3, <1>4, CaseKept DEF Grown, OneMore
  <1> QED
    BY <1>3, <1>6, <1>7, <1>8, <1>9, CaseKept DEF Source

LEMMA RunSteps ==
  ASSUME Source, NEW r \in Runs
  PROVE  /\ \A c \in Cases, m \in RunModes : RunStarts(r, c, m) => Source' /\ Grown
         /\ \A s \in Ends, cause \in Causes \cup {None} :
              RunEnds(r, s, cause) => Source' /\ Grown
  <1>1. /\ run \in [Runs -> RunRow] /\ run[r] \in RunRow /\ RunTells(r)
        /\ None \notin Cases
    BY Typed, ProjectorAssumption DEF Source, SourceTyped
  <1>2. ASSUME NEW c \in Cases, NEW m \in RunModes, RunStarts(r, c, m) PROVE Source' /\ Grown
    <2> DEFINE e == RunEvent("agent.run.started", r, m, "RUNNING", None)
               row == [case |-> c, mode |-> m, status |-> "RUNNING"]
    <2>1. /\ e \in OtherRow /\ e.run = r /\ e.type = "agent.run.started" /\ e.mode = m
          /\ e.status = "RUNNING" /\ e.root_cause = None
      BY DEF RunEvent, OtherRow, FactTypes, RunStatus
    <2>2. row \in RunRow /\ row.case = c /\ row.mode = m /\ row.status = "RUNNING"
      BY DEF RunRow, RowStatus
    <2>3. /\ run[r].case = None /\ run' = [run EXCEPT ![r] = row] /\ Publish("agent", c, e)
      BY <1>2 DEF RunStarts
    <2> HIDE DEF e, row
    <2>4. e.type \in FactTypes["agent"] /\ e.status \in RunStatus
      BY <2>1 DEF FactTypes, RunStatus
    <2>5. row.mode \in RunModes /\ row.status = StoredAs(e.status)
      BY <2>1, <2>2 DEF StoredAs
    <2>6. e.type = "agent.run.started" => e.mode = row.mode /\ e.status = "RUNNING" /\ e.root_cause = None
      BY <2>1, <2>2
    <2> QED
      BY <2>1, <2>2, <2>3, <2>4, <2>5, <2>6, RunStep
  <1>3. ASSUME NEW s \in Ends, NEW cause \in Causes \cup {None}, RunEnds(r, s, cause)
        PROVE  Source' /\ Grown
    <2> DEFINE c == run[r].case
               e == RunEvent("agent.run.completed", r, "none", s, cause)
               row == [run[r] EXCEPT !.status = StoredAs(s)]
    <2>1. /\ e \in OtherRow /\ e.run = r /\ e.type = "agent.run.completed" /\ e.status = s
          /\ s \in RunStatus
      BY DEF RunEvent, OtherRow, FactTypes, RunStatus
    <2>2. c # None /\ run[r].mode \in RunModes
      BY <1>1, <1>3 DEF RunEnds, RunTells
    <2>3. c \in Cases
      BY <1>1, <2>2 DEF RunRow
    <2>4. row \in RunRow /\ row.case = c /\ row.mode = run[r].mode /\ row.status = StoredAs(e.status)
      <3>1. StoredAs(s) \in RowStatus
        BY <2>1, ToldAgain
      <3> QED
        BY <1>1, <2>1, <3>1 DEF RunRow
    <2>5. run' = [run EXCEPT ![r] = row] /\ Publish("agent", c, e)
      BY <1>3 DEF RunEnds
    <2> HIDE DEF e, row
    <2>6. e.type \in FactTypes["agent"] /\ e.status \in RunStatus
      BY <2>1 DEF FactTypes, RunStatus
    <2> HIDE DEF c
    <2> QED
      BY <2>1, <2>2, <2>3, <2>4, <2>5, <2>6, RunStep DEF c
  <1> QED
    BY <1>2, <1>3
\* What the tables show of the logs they show of longer ones.
LEMMA GrownTables ==
  ASSUME PInv, Source', Grown, UNCHANGED <<pos, tables, disturbed>>
  PROVE  PInv'
  <1>1. /\ UNCHANGED <<pos, disturbed, fact_events, dim_case, fact_action, fact_run, fact_email>>
        /\ SourceTyped /\ SourceTyped' /\ Tables /\ TablesTyped
    BY DEF PInv, Source, tables, Tables
  <1>2. /\ \A c \in Cases : Extends(log[c], log'[c])
        /\ \A t \in OtherTopics, c \in Cases : Extends(other[t][c], other'[t][c])
        /\ ActGrown(act, act')
        /\ \A r \in Runs : run[r].case # None => run'[r].case = run[r].case /\ run'[r].mode = run[r].mode
    BY DEF Grown
  <1>3. /\ \A c \in Cases : /\ log[c] \in Seq(EventRow) /\ DOMAIN log[c] = 1..Len(log[c]) /\ Len(log[c]) \in Nat
                            /\ log'[c] \in Seq(EventRow) /\ DOMAIN log'[c] = 1..Len(log'[c]) /\ Len(log'[c]) \in Nat
        /\ \A t \in OtherTopics, c \in Cases :
             /\ other[t][c] \in Seq(OtherRow) /\ DOMAIN other[t][c] = 1..Len(other[t][c])
             /\ Len(other[t][c]) \in Nat
             /\ other'[t][c] \in Seq(OtherRow) /\ DOMAIN other'[t][c] = 1..Len(other'[t][c])
             /\ Len(other'[t][c]) \in Nat
    BY <1>1 DEF SourceTyped
  <1>4. ASSUME NEW c \in Cases, NEW k \in DOMAIN log[c] PROVE k \in DOMAIN log'[c] /\ log'[c][k] = log[c][k]
    BY <1>2, <1>3 DEF Extends
  <1>5. ASSUME NEW t \in OtherTopics, NEW c \in Cases, NEW k \in DOMAIN other[t][c]
        PROVE  k \in DOMAIN other'[t][c] /\ other'[t][c][k] = other[t][c][k]
    <2> DEFINE es == other[t][c]
               fs == other'[t][c]
    <2>1. /\ Extends(es, fs) /\ DOMAIN es = 1..Len(es) /\ DOMAIN fs = 1..Len(fs)
          /\ Len(es) \in Nat /\ Len(fs) \in Nat /\ k \in DOMAIN es
      BY <1>2, <1>3, <1>5
    <2> HIDE DEF es, fs
    <2>2. k \in DOMAIN fs /\ fs[k] = es[k]
      BY <2>1 DEF Extends
    <2> QED
      BY <2>2 DEF es, fs
  <1>6. ASSUME NEW t \in Topics, NEW c \in Cases
        PROVE  /\ Len(Stream(t, c)) <= Len(Stream(t, c))' /\ Len(Stream(t, c)) \in Nat /\ Len(Stream(t, c))' \in Nat
               /\ \A k \in DOMAIN Stream(t, c) : k \in DOMAIN Stream(t, c)'
    <2>1. CASE t = "case"
      BY <1>2, <1>3, <1>4, <2>1 DEF Stream, Extends
    <2>2. CASE t # "case"
      <3>1. t \in OtherTopics
        BY <2>2 DEF Topics
      <3> QED
        BY <1>2, <1>3, <1>5, <2>2, <3>1 DEF Stream, Extends
    <2> QED
      BY <2>1, <2>2
  <1>7. "agent" \in OtherTopics /\ "comm" \in OtherTopics /\ None \notin Cases
    BY ProjectorAssumption DEF OtherTopics
  <1>8. TablesTyped'
    <2>1. \A t \in Topics, c \in Cases : pos'[t][c] <= Len(Stream(t, c))'
      BY <1>1, <1>6 DEF TablesTyped
    <2>2. \A id \in fact_events' : \E t \in Topics, c \in Cases : \E k \in DOMAIN Stream(t, c)' : id = <<t, c, k>>
      BY <1>1, <1>6 DEF TablesTyped
    <2>3. \A id \in fact_email' : \E c \in Cases : \E k \in DOMAIN other'["comm"][c] : id = <<"comm", c, k>>
      BY <1>1, <1>5, <1>7 DEF TablesTyped
    <2> QED
      BY <1>1, <2>1, <2>2, <2>3 DEF TablesTyped
  <1>9. ASSUME NEW c \in Cases PROVE RowTells(c)'
    <2>1. RowTells(c) /\ dim_case'[c] = dim_case[c]
      BY <1>1 DEF Tables
    <2> QED
      BY <1>4, <1>5, <1>7, <2>1 DEF RowTells
  <1>10. ASSUME NEW a \in Actions PROVE ActionTells(a)'
    <2>1. ActionTells(a) /\ fact_action'[a] = fact_action[a]
      BY <1>1 DEF Tables
    <2>2. ~fact_action[a].there => fact_action[a].policy = "none" /\ fact_action[a].outcome = "none"
      BY <2>1 DEF ActionTells, NoAction
    <2>3. "none" \notin Decision
      BY DEF Decision
    <2> QED
      BY <1>2, <2>1, <2>2, <2>3 DEF ActionTells, ActGrown
  <1>11. ASSUME NEW r \in Runs PROVE RunRowTells(r)'
    <2>1. RunRowTells(r) /\ fact_run'[r] = fact_run[r]
      BY <1>1 DEF Tables
    <2>2. ~fact_run[r].there => fact_run[r].mode = "none"
      BY <2>1 DEF RunRowTells, NoRun
    <2> QED
      BY <1>2, <2>1, <2>2 DEF RunRowTells
  <1>12. ASSUME NEW t \in Topics, NEW c \in Cases, NEW k, <<t, c, k>> \in fact_events
         PROVE  k \in DOMAIN Stream(t, c)
    <2>1. PICK u \in Topics, d \in Cases : \E i \in DOMAIN Stream(u, d) : <<t, c, k>> = <<u, d, i>>
      BY <1>1, <1>12 DEF TablesTyped
    <2> QED
      BY <2>1
  <1>13. ASSUME NEW c \in Cases, NEW k \in DOMAIN log'[c], <<"case", c, k>> \in fact_events'
         PROVE  Sticks(c, k)'
    <2>1. k \in DOMAIN log[c]
      <3>1. k \in DOMAIN Stream("case", c)
        BY <1>1, <1>12, <1>13 DEF Topics
      <3> QED
        BY <3>1 DEF Stream
    <2>2. Sticks(c, k) /\ log'[c][k] = log[c][k]
      BY <1>1, <1>4, <1>13, <2>1 DEF Tables
    <2>3. log[c][k].type = "case.action.proposed" => act'[log[c][k].action].policy = act[log[c][k].action].policy
      <3>1. CaseShape(c, log[c], k, status[c], act)
        BY <2>1 DEF PInv, Source, Tells
      <3> QED
        BY <1>2, <1>7, <3>1 DEF CaseShape, ActGrown
    <2> QED
      BY <1>1, <2>2, <2>3 DEF Sticks
  <1>14. ASSUME NEW c \in Cases, NEW k \in DOMAIN other'["agent"][c], <<"agent", c, k>> \in fact_events'
         PROVE  RunSticks(c, k)'
    <2>1. k \in DOMAIN other["agent"][c]
      <3>1. k \in DOMAIN Stream("agent", c)
        BY <1>1, <1>7, <1>12, <1>14 DEF Topics
      <3> QED
        BY <3>1 DEF Stream
    <2>2. RunSticks(c, k) /\ other'["agent"][c][k] = other["agent"][c][k]
      BY <1>1, <1>5, <1>7, <1>14, <2>1 DEF Tables
    <2> QED
      BY <1>1, <2>2 DEF RunSticks
  <1>15. ASSUME NEW c \in Cases, NEW k \in DOMAIN other'["comm"][c], <<"comm", c, k>> \in fact_events'
         PROVE  <<"comm", c, k>> \in fact_email'
    <2>1. k \in DOMAIN other["comm"][c]
      <3>1. k \in DOMAIN Stream("comm", c)
        BY <1>1, <1>7, <1>12, <1>15 DEF Topics
      <3> QED
        BY <3>1 DEF Stream
    <2> QED
      BY <1>1, <1>15, <2>1 DEF Tables
  <1>16. Tables'
    BY <1>8, <1>9, <1>10, <1>11, <1>13, <1>14, <1>15 DEF Tables
  <1>17. \A t \in Topics, c \in Cases : From(t, c)' = From(t, c)
    BY <1>1 DEF From, InOrder
  <1>18. ReadWholly'
    BY <1>1, <1>17 DEF PInv, ReadWholly
  <1>19. \A t \in Topics, c \in Cases : From(t, c) \in Nat /\ From(t, c) <= Len(Stream(t, c))
    BY <1>1, <1>6 DEF From, TablesTyped
  <1>20. ASSUME NEW c \in Cases
         PROVE  /\ Column(StatusWrites(log[c]), Len(log[c]), Settled(dim_case[c].status), From("case", c))'
                /\ Column(ModeWrites(log[c]), Len(log[c]), dim_case[c].mode, From("case", c))'
    <2>1. /\ Column(StatusWrites(log[c]), Len(log[c]), Settled(dim_case[c].status), From("case", c))
          /\ Column(ModeWrites(log[c]), Len(log[c]), dim_case[c].mode, From("case", c))
      BY DEF PInv, Columns
    <2>2. /\ Positions(StatusWrites(log[c])) /\ Positions(StatusWrites(log'[c]))
          /\ Agree(StatusWrites(log[c]), StatusWrites(log'[c]), Len(log[c]))
          /\ Positions(ModeWrites(log[c])) /\ Positions(ModeWrites(log'[c]))
          /\ Agree(ModeWrites(log[c]), ModeWrites(log'[c]), Len(log[c]))
      BY <1>2, <1>3, WritesAgree
    <2>3. /\ Len(log[c]) \in Nat /\ Len(log'[c]) \in Nat /\ Len(log[c]) <= Len(log'[c])
          /\ From("case", c) \in Nat
      BY <1>2, <1>3, <1>19 DEF Extends, Topics
    <2>4. Column(StatusWrites(log'[c]), Len(log'[c]), Settled(dim_case[c].status), From("case", c))
      BY <2>1, <2>2, <2>3, ColumnGrows
    <2>5. Column(ModeWrites(log'[c]), Len(log'[c]), dim_case[c].mode, From("case", c))
      BY <2>1, <2>2, <2>3, ColumnGrows
    <2>6. From("case", c)' = From("case", c) /\ dim_case'[c] = dim_case[c]
      BY <1>1, <1>17 DEF Topics
    <2> QED
      BY <2>4, <2>5, <2>6
  <1>21. ASSUME NEW r \in Runs, run'[r].case # None
         PROVE  Column(RunWrites(other["agent"][run[r].case], r), Len(other["agent"][run[r].case]),
                       fact_run[r].status, From("agent", run[r].case))'
    <2> DEFINE c == run'[r].case
    <2>1. c \in Cases
      BY <1>1, <1>21, Typed DEF SourceTyped, RunRow
    <2>2. /\ Positions(RunWrites(other["agent"][c], r)) /\ Positions(RunWrites(other'["agent"][c], r))
          /\ Agree(RunWrites(other["agent"][c], r), RunWrites(other'["agent"][c], r), Len(other["agent"][c]))
      BY <1>2, <1>3, <1>7, <2>1, WritesAgree
    <2>3. /\ Len(other["agent"][c]) \in Nat /\ Len(other'["agent"][c]) \in Nat
          /\ Len(other["agent"][c]) <= Len(other'["agent"][c])
          /\ From("agent", c) \in Nat /\ From("agent", c) <= Len(other["agent"][c])
      BY <1>2, <1>3, <1>7, <1>19, <2>1 DEF Extends, Topics, Stream
    <2>4. Column(RunWrites(other["agent"][c], r), Len(other["agent"][c]), fact_run[r].status, From("agent", c))
      <3>1. CASE run[r].case # None
        BY <1>2, <3>1 DEF PInv, Columns
      <3>2. CASE run[r].case = None
        <4>1. fact_run[r].status = "none"
          <5>1. RunRowTells(r)
            BY <1>1 DEF Tables
          <5> QED
            BY <3>2, <5>1 DEF RunRowTells, NoRun
        <4>2. DOMAIN RunWrites(other["agent"][c], r) = {}
          <5>1. \A k \in DOMAIN other["agent"][c] : AgentShape(c, k)
            BY <2>1 DEF PInv, Source
          <5>2. \A k \in DOMAIN other["agent"][c] : other["agent"][c][k].run # r
            BY <1>7, <2>1, <3>2, <5>1 DEF AgentShape
          <5> QED
            BY <5>2 DEF RunWrites
        <4>3. Latest(RunWrites(other["agent"][c], r), Len(other["agent"][c]), "none")
          BY <4>2 DEF Latest
        <4>4. Len(other["agent"][c]) \in From("agent", c)..Len(other["agent"][c])
          BY <2>3
        <4> QED
          BY <4>1, <4>3, <4>4 DEF Column
      <3> QED
        BY <3>1, <3>2
    <2>5. Column(RunWrites(other'["agent"][c], r), Len(other'["agent"][c]), fact_run[r].status, From("agent", c))
      BY <2>2, <2>3, <2>4, ColumnGrows
    <2>6. From("agent", run[r].case)' = From("agent", c)
      BY <1>1, <2>1 DEF From, InOrder
    <2> QED
      BY <1>1, <2>5, <2>6
  <1>22. Columns'
    BY <1>20, <1>21 DEF Columns
  <1> QED
    BY <1>16, <1>18, <1>22 DEF PInv
-----------------------------------------------------------------------------
(* An event is handled                                                      *)

ActionRow == [there : BOOLEAN, case : Cases \cup {None},
              policy : PolicyDecision \cup {"none"}, outcome : Outcomes]
FactRunRow == [there : BOOLEAN, case : Cases \cup {None},
               mode : RunModes \cup {"none"}, status : RunStatus \cup {"none"}]

\* What a row has it keeps.
Rises(d, d2) ==
  /\ d2.there \/ d2 = d
  /\ d.there => d2.there
  /\ d.details => d2.details
  /\ d.closed => d2.closed
  /\ d.escalated => d2.escalated
  /\ d.human_touched => d2.human_touched
  /\ d.root_cause # None => d2.root_cause # None
ActionRises(f, f2) ==
  /\ f.there => f2.there
  /\ f.policy # "none" => f2.policy = f.policy
  /\ f.outcome \in Decision => f2.outcome \in Decision
RunRises(f, f2) ==
  /\ f.there => f2.there
  /\ f.mode # "none" => f2.mode = f.mode

RowsTyped ==
  /\ dim_case \in [Cases -> CaseRow]
  /\ fact_action \in [Actions -> ActionRow]
  /\ fact_run \in [Runs -> FactRunRow]
RowsTell ==
  /\ RowsTyped
  /\ \A c \in Cases : RowTells(c)
  /\ \A a \in Actions : ActionTells(a)
  /\ \A r \in Runs : RunRowTells(r)
RowsRise ==
  /\ \A c \in Cases : Rises(dim_case[c], dim_case'[c])
  /\ \A a \in Actions : ActionRises(fact_action[a], fact_action'[a])
  /\ \A r \in Runs : RunRises(fact_run[r], fact_run'[r])
  /\ fact_email \subseteq fact_email'

\* The columns that show the last of the events handled.
CaseColumns(c, e) ==
  /\ Settled(dim_case'[c].status) = IF Settles(e) THEN e.to ELSE Settled(dim_case[c].status)
  /\ dim_case'[c].mode = IF Hands(e) THEN Control(e) ELSE dim_case[c].mode
SameColumns(c) == dim_case'[c].status = dim_case[c].status /\ dim_case'[c].mode = dim_case[c].mode

\* How an event of its case changes its row.
RowChange(d, e, d2) ==
  /\ d2 \in CaseRow
  /\ Rises(d, d2)
  /\ d2.closed => d.closed \/ e.to \in TERMINAL
  /\ d2.escalated => d.escalated \/ e.to = "ESCALATED"
  /\ d2.human_touched => d.human_touched \/ ByHuman(e)
  /\ d2.root_cause = d.root_cause
  /\ e.type = "case.created" => d2.there /\ d2.details
  /\ e.to \in TERMINAL => d2.closed
  /\ e.to = "ESCALATED" => d2.escalated
  /\ ByHuman(e) => d2.human_touched
  /\ Settled(d2.status) = IF Settles(e) THEN e.to ELSE Settled(d.status)
  /\ d2.mode = IF Hands(e) THEN Control(e) ELSE d.mode

LEMMA CaseRowChange ==
  ASSUME NEW c \in Cases, NEW e \in EventRow, NEW id, dim_case \in [Cases -> CaseRow],
         ~dim_case[c].there => dim_case[c] = NoCase,
         e.type = "case.state_changed" => e.to \in CaseStatus \ {"NEW"},
         e.type = "case.resolved" => e.to \in TERMINAL,
         ~Settles(e) => e.to \in {"none", "NEW"},
         _project(c, e, id)
  PROVE  /\ RowChange(dim_case[c], e, dim_case'[c])
         /\ \A b \in Cases \ {c} : dim_case'[b] = dim_case[b]
         /\ dim_case' \in [Cases -> CaseRow]
         /\ UNCHANGED <<fact_run, fact_email>>
  <1> DEFINE d == dim_case[c]
             d2 == dim_case'[c]
  <1>1. /\ d \in CaseRow /\ d.there \in BOOLEAN /\ d.details \in BOOLEAN /\ d.closed \in BOOLEAN
        /\ d.escalated \in BOOLEAN /\ d.human_touched \in BOOLEAN
        /\ d.status \in CaseStatus \cup {"none"} /\ d.mode \in AgentMode \cup {"none"}
        /\ d.first_agent \in BOOLEAN /\ d.root_cause \in Causes \cup {None} /\ d.emails_sent \in Nat
    BY DEF CaseRow
  <1>2. /\ "NEW" \notin TERMINAL /\ "none" \notin TERMINAL /\ "ESCALATED" \notin TERMINAL
        /\ TERMINAL \subseteq CaseStatus /\ "NEW" \in CaseStatus /\ "none" \notin CaseStatus
    BY DEF TERMINAL, CaseStatus
  <1>3. /\ e.type \in CaseEventTypes /\ e.to \in CaseStatus \cup {"none"}
        /\ DecisionTypes = {"case.action.approved", "case.action.edited", "case.action.rejected"}
    BY DecisionNames DEF EventRow
  <1>4. ASSUME NEW row \in CaseRow, Patch(c, row)
        PROVE  /\ d2 = row /\ \A b \in Cases \ {c} : dim_case'[b] = dim_case[b]
               /\ dim_case' \in [Cases -> CaseRow]
    BY <1>4 DEF Patch
  <1>5. ASSUME UNCHANGED dim_case
        PROVE  /\ d2 = d /\ \A b \in Cases \ {c} : dim_case'[b] = dim_case[b]
               /\ dim_case' \in [Cases -> CaseRow]
    BY <1>5
  <1>6. CASE Created(c, e)
    <2> DEFINE row == [Row(c) EXCEPT !.details = TRUE, !.status = IF dim_case[c].there THEN @ ELSE "NEW"]
    <2>1. /\ row \in CaseRow /\ row.there /\ row.details /\ row.closed = d.closed /\ row.escalated = d.escalated
          /\ row.human_touched = d.human_touched /\ row.root_cause = d.root_cause
          /\ row.status = (IF d.there THEN d.status ELSE "NEW") /\ row.mode = d.mode
      BY <1>1, <1>2 DEF Row, CaseRow
    <2>2. Patch(c, row) /\ e.type = "case.created" /\ UNCHANGED <<fact_run, fact_email>>
      BY <1>6 DEF Created
    <2> HIDE DEF row
    <2>3. d2 = row
      BY <1>4, <2>1, <2>2
    <2>4. ~Settles(e) /\ ~Hands(e) /\ ~ByHuman(e) /\ e.to \notin TERMINAL /\ e.to # "ESCALATED"
      BY <1>2, <1>3, <2>2 DEF Settles, Hands, ByHuman
    <2>5. ~d.there => d.status = "none"
      BY DEF NoCase
    <2>6. Settled(row.status) = Settled(d.status)
      BY <2>1, <2>5 DEF Settled
    <2>7. RowChange(d, e, row)
      BY <2>1, <2>4, <2>6 DEF RowChange, Rises
    <2> QED
      BY <1>4, <2>1, <2>2, <2>3, <2>7
  <1>7. CASE Changed(c, e)
    <2> DEFINE row == StateChangeOfRow(c, e.to)
    <2>0. e.type = "case.state_changed" /\ e.to \in CaseStatus \ {"NEW"}
      BY <1>7 DEF Changed
    <2>1. /\ row \in CaseRow /\ row.there /\ row.details = d.details
          /\ row.closed = (d.closed \/ e.to \in TERMINAL)
          /\ row.escalated = (d.escalated \/ e.to = "ESCALATED")
          /\ row.human_touched = d.human_touched /\ row.root_cause = d.root_cause
          /\ row.status = e.to /\ row.mode = d.mode
      BY <1>1, <2>0 DEF StateChangeOfRow, Row, CaseRow
    <2>2. Patch(c, row) /\ UNCHANGED <<fact_run, fact_email>>
      BY <1>7 DEF Changed
    <2> HIDE DEF row
    <2>3. d2 = row
      BY <1>4, <2>1, <2>2
    <2>4. Settles(e) /\ ~Hands(e) /\ ~ByHuman(e)
      BY <1>3, <2>0 DEF Settles, Hands, ByHuman
    <2>6. Settled(row.status) = e.to
      BY <2>0, <2>1 DEF Settled
    <2>7. RowChange(d, e, row)
      BY <2>0, <2>1, <2>4, <2>6 DEF RowChange, Rises
    <2> QED
      BY <1>4, <2>1, <2>2, <2>3, <2>7
  <1>8. CASE Resolved(c, e)
    <2> DEFINE row == [Row(c) EXCEPT !.status = e.to, !.closed = TRUE]
    <2>0. e.type = "case.resolved" /\ e.to \in TERMINAL
      BY <1>8 DEF Resolved
    <2>1. /\ row \in CaseRow /\ row.there /\ row.details = d.details
          /\ row.closed /\ row.escalated = d.escalated
          /\ row.human_touched = d.human_touched /\ row.root_cause = d.root_cause
          /\ row.status = e.to /\ row.mode = d.mode
      BY <1>1, <1>2, <2>0 DEF Row, CaseRow
    <2>2. Patch(c, row) /\ UNCHANGED <<fact_run, fact_email>>
      BY <1>8 DEF Resolved
    <2> HIDE DEF row
    <2>3. d2 = row
      BY <1>4, <2>1, <2>2
    <2>4. Settles(e) /\ ~Hands(e) /\ ~ByHuman(e) /\ e.to # "ESCALATED" /\ e.to # "NEW"
      BY <1>2, <1>3, <2>0 DEF Settles, Hands, ByHuman
    <2>6. Settled(row.status) = e.to
      BY <2>1, <2>4 DEF Settled
    <2>7. RowChange(d, e, row)
      BY <2>0, <2>1, <2>4, <2>6 DEF RowChange, Rises
    <2> QED
      BY <1>4, <2>1, <2>2, <2>3, <2>7
  <1>9. CASE Handover(c, e)
    <2> DEFINE row == [Row(c) EXCEPT !.human_touched = TRUE,
                         !.mode = IF e.type = "case.takeover" THEN "HUMAN_CONTROL" ELSE "AUTONOMOUS"]
    <2>0. e.type \in {"case.takeover", "case.released"}
      BY <1>9 DEF Handover
    <2>1. /\ row \in CaseRow /\ row.there /\ row.details = d.details
          /\ row.closed = d.closed /\ row.escalated = d.escalated
          /\ row.human_touched /\ row.root_cause = d.root_cause
          /\ row.status = d.status /\ row.mode = Control(e)
      BY <1>1 DEF Row, CaseRow, Control, AgentMode
    <2>2. Patch(c, row) /\ UNCHANGED <<fact_run, fact_email>>
      BY <1>9 DEF Handover
    <2> HIDE DEF row
    <2>3. d2 = row
      BY <1>4, <2>1, <2>2
    <2>4. ~Settles(e) /\ Hands(e) /\ ByHuman(e) /\ e.to # "ESCALATED" /\ e.to \notin TERMINAL
          /\ e.type # "case.created"
      BY <1>2, <2>0 DEF Settles, Hands, ByHuman
    <2>7. RowChange(d, e, row)
      BY <2>1, <2>4 DEF RowChange, Rises
    <2> QED
      BY <1>4, <2>1, <2>2, <2>3, <2>7
  <1>10. CASE Decided(c, e)
    <2> DEFINE row == [Row(c) EXCEPT !.human_touched = TRUE]
    <2>0. e.type \in DecisionTypes
      BY <1>10 DEF Decided
    <2>1. /\ row \in CaseRow /\ row.there /\ row.details = d.details
          /\ row.closed = d.closed /\ row.escalated = d.escalated
          /\ row.human_touched /\ row.root_cause = d.root_cause
          /\ row.status = d.status /\ row.mode = d.mode
      BY <1>1 DEF Row, CaseRow
    <2>2. Patch(c, row) /\ UNCHANGED <<fact_run, fact_email>>
      BY <1>10 DEF Decided
    <2> HIDE DEF row
    <2>3. d2 = row
      BY <1>4, <2>1, <2>2
    <2>5. ~Settles(e) /\ ~Hands(e) /\ ByHuman(e) /\ e.type # "case.created"
      BY <1>3, <2>0 DEF Settles, Hands, ByHuman
    <2>4. e.to # "ESCALATED" /\ e.to \notin TERMINAL
      BY <1>2, <2>5
    <2>7. RowChange(d, e, row)
      BY <2>1, <2>4, <2>5 DEF RowChange, Rises
    <2> QED
      BY <1>4, <2>1, <2>2, <2>3, <2>7
  <1>11. CASE Proposed(c, e) \/ Noted(c, e)
    <2>1. /\ e.type \in {"case.action.proposed", "case.note.added"}
          /\ UNCHANGED <<dim_case, fact_run, fact_email>>
      BY <1>11 DEF Proposed, Noted
    <2>2. ~Settles(e) /\ ~Hands(e) /\ ~ByHuman(e) /\ e.type # "case.created"
      BY <1>3, <2>1 DEF Settles, Hands, ByHuman
    <2>3. e.to # "ESCALATED" /\ e.to \notin TERMINAL
      BY <1>2, <2>2
    <2>4. RowChange(d, e, d)
      BY <1>1, <2>2, <2>3 DEF RowChange, Rises
    <2> QED
      BY <1>5, <2>1, <2>4
  <1>12. CASE Started(c, e) \/ Ended(c, e) \/ Mailed(c, e, id) \/ ToolCalled(e)
    BY <1>3, <1>12 DEF Started, Ended, Mailed, ToolCalled, CaseEventTypes
  <1> QED
    BY <1>6, <1>7, <1>8, <1>9, <1>10, <1>11, <1>12 DEF _project

\* An action's row follows the action.
LEMMA CaseActionChange ==
  ASSUME Source, RowsTell, NEW c \in Cases, NEW k \in DOMAIN log[c], NEW id,
         _project(c, log[c][k], id), UNCHANGED act
  PROVE  /\ fact_action' \in [Actions -> ActionRow]
         /\ \A a \in Actions : ActionTells(a)' /\ ActionRises(fact_action[a], fact_action'[a])
         /\ log[c][k].type = "case.action.proposed" =>
              /\ fact_action'[log[c][k].action].there
              /\ fact_action'[log[c][k].action].policy = act[log[c][k].action].policy
         /\ log[c][k].type \in DecisionTypes => fact_action'[log[c][k].action].outcome \in Decision
  <1> DEFINE e == log[c][k]
             a == e.action
             f == fact_action[a]
  <1>1. CaseShape(c, log[c], k, status[c], act) /\ e \in EventRow /\ c # None
    BY Typed, ProjectorAssumption DEF Source, Tells
  <1>2. fact_action \in [Actions -> ActionRow] /\ \A b \in Actions : ActionTells(b) /\ act[b] \in ActRow
    BY Typed DEF RowsTell, RowsTyped, Source
  <1>3. DecisionTypes = {"case.action.approved", "case.action.edited", "case.action.rejected"}
    BY DecisionNames
  <1>4. e.type \in CaseEventTypes
    BY <1>1 DEF EventRow
  <1>5. ASSUME NEW x \in Actions, NEW row \in ActionRow, fact_action' = [fact_action EXCEPT ![x] = row],
               row.there, row.case = act[x].case, row.case # None, row.policy \in {"none", act[x].policy},
               row.outcome \in Decision => row.outcome = act[x].status /\ act[x].decided_by # "none",
               ActionRises(fact_action[x], row)
        PROVE  /\ fact_action' \in [Actions -> ActionRow] /\ fact_action'[x] = row
               /\ \A b \in Actions : ActionTells(b)' /\ ActionRises(fact_action[b], fact_action'[b])
    <2>1. fact_action' \in [Actions -> ActionRow] /\ fact_action'[x] = row
      BY <1>2, <1>5
    <2>2. ActionTells(x)'
      BY <1>5, <2>1 DEF ActionTells
    <2>3. ASSUME NEW b \in Actions, b # x PROVE ActionTells(b)' /\ ActionRises(fact_action[b], fact_action'[b])
      <3>1. fact_action'[b] = fact_action[b] /\ ActionTells(b)
        BY <1>2, <1>5, <2>3
      <3> QED
        BY <3>1 DEF ActionTells, ActionRises
    <2>4. ActionRises(fact_action[x], fact_action'[x])
      BY <1>5, <2>1
    <2> QED
      BY <2>1, <2>2, <2>3, <2>4
  <1>6. CASE Proposed(c, e)
    <2>1. /\ e.type = "case.action.proposed" /\ fact_action' = [fact_action EXCEPT ![a] = ProposedRow(c, a)]
          /\ a \in Actions /\ act[a].case = c
      BY <1>1, <1>6 DEF Proposed, CaseShape
    <2>2. act[a] \in ActRow /\ ActionTells(a) /\ f \in ActionRow /\ act[a].policy \in PolicyDecision \cup {"none"}
      BY <1>2, <2>1 DEF ActRow
    <2> DEFINE row == ProposedRow(c, a)
    <2>3. /\ row \in ActionRow /\ row.there /\ row.case = c /\ row.policy = act[a].policy
          /\ row.outcome = IF f.there THEN f.outcome ELSE "PROPOSED"
      BY <2>2 DEF ProposedRow, ActionRow, Outcomes
    <2> HIDE DEF row
    <2>4. "PROPOSED" \notin Decision /\ "none" \notin Decision
      BY DEF Decision
    <2>5. ~f.there => f.policy = "none" /\ f.outcome = "none"
      BY <2>2 DEF ActionTells, NoAction
    <2>6. ActionRises(f, row)
      BY <2>2, <2>3, <2>4, <2>5 DEF ActionRises, ActionTells
    <2>7. row.outcome \in Decision => row.outcome = act[a].status /\ act[a].decided_by # "none"
      BY <2>2, <2>3, <2>4 DEF ActionTells
    <2>8. fact_action' = [fact_action EXCEPT ![a] = row]
      BY <2>1 DEF row
    <2>9. /\ fact_action' \in [Actions -> ActionRow] /\ fact_action'[a] = row
          /\ \A b \in Actions : ActionTells(b)' /\ ActionRises(fact_action[b], fact_action'[b])
      BY <1>1, <1>5, <2>1, <2>3, <2>6, <2>7, <2>8
    <2> QED
      BY <1>3, <2>1, <2>3, <2>9
  <1>7. CASE Decided(c, e)
    <2> DEFINE row == [f EXCEPT !.there = TRUE, !.case = c, !.outcome = Outcome(e.type)]
    <2>1. /\ e.type \in DecisionTypes /\ fact_action' = [fact_action EXCEPT ![a] = row]
          /\ a \in Actions /\ act[a].case = c /\ act[a].status = Outcome(e.type) /\ act[a].decided_by # "none"
      BY <1>1, <1>7 DEF Decided, CaseShape
    <2>2. act[a] \in ActRow /\ ActionTells(a) /\ f \in ActionRow /\ Outcome(e.type) \in Decision
      BY <1>2, <2>1, DecisionNames
    <2>3. /\ row \in ActionRow /\ row.there /\ row.case = c /\ row.policy = f.policy
          /\ row.outcome = Outcome(e.type)
      BY <2>2 DEF ActionRow, Outcomes
    <2> HIDE DEF row
    <2>6. ActionRises(f, row)
      BY <2>2, <2>3 DEF ActionRises
    <2>7. row.policy \in {"none", act[a].policy}
      BY <2>2, <2>3 DEF ActionTells
    <2>9. /\ fact_action' \in [Actions -> ActionRow] /\ fact_action'[a] = row
          /\ \A b \in Actions : ActionTells(b)' /\ ActionRises(fact_action[b], fact_action'[b])
      BY <1>1, <1>5, <2>1, <2>3, <2>6, <2>7
    <2> QED
      BY <1>3, <2>1, <2>2, <2>3, <2>9
  <1>8. CASE UNCHANGED fact_action /\ e.type # "case.action.proposed" /\ e.type \notin DecisionTypes
    <2>1. ASSUME NEW b \in Actions PROVE ActionTells(b)' /\ ActionRises(fact_action[b], fact_action'[b])
      <3>1. ActionTells(b)
        BY <1>2
      <3> QED
        BY <1>8, <3>1 DEF ActionTells, ActionRises
    <2> QED
      BY <1>2, <1>8, <2>1
  <1>9. Created(c, e) \/ Changed(c, e) \/ Resolved(c, e) \/ Handover(c, e) \/ Noted(c, e) => <1>8!1
    BY <1>3 DEF Created, Changed, Resolved, Handover, Noted
  <1>10. CASE Started(c, e) \/ Ended(c, e) \/ Mailed(c, e, id) \/ ToolCalled(e)
    BY <1>3, <1>4, <1>10 DEF Started, Ended, Mailed, ToolCalled, CaseEventTypes
  <1> QED
    BY <1>6, <1>7, <1>8, <1>9, <1>10 DEF _project

\* What an event does to the rows, for every topic.
HandledRows(t, c, k) ==
  /\ RowsTell' /\ RowsRise
  /\ t = "case" => Sticks(c, k)' /\ CaseColumns(c, log[c][k])
  /\ t # "case" => SameColumns(c)
  /\ \A b \in Cases \ {c} : SameColumns(b)
  /\ t = "agent" => /\ RunSticks(c, k)'
                    /\ fact_run'[other["agent"][c][k].run].status = other["agent"][c][k].status
  /\ \A r \in Runs : t # "agent" \/ r # other["agent"][c][k].run => fact_run'[r].status = fact_run[r].status
  /\ t = "comm" => <<t, c, k>> \in fact_email'
  /\ fact_email' \subseteq fact_email \cup (IF t = "comm" THEN {<<t, c, k>>} ELSE {})

LEMMA CaseHandled ==
  ASSUME Source, RowsTell, NEW c \in Cases, NEW k \in DOMAIN log[c],
         _project(c, log[c][k], <<"case", c, k>>), UNCHANGED <<case, other, run>>
  PROVE  HandledRows("case", c, k)
  <1> DEFINE e == log[c][k]
             id == <<"case", c, k>>
  <1>1. CaseShape(c, log[c], k, status[c], act) /\ e \in EventRow
    BY Typed DEF Source, Tells
  <1>2. UNCHANGED <<log, act, status, other, run>>
    BY DEF case
  <1>3. RowsTyped /\ RowTells(c)
    BY DEF RowsTell
  <1>4. /\ RowChange(dim_case[c], e, dim_case'[c])
        /\ \A b \in Cases \ {c} : dim_case'[b] = dim_case[b]
        /\ dim_case' \in [Cases -> CaseRow]
        /\ UNCHANGED <<fact_run, fact_email>>
    <2>1. /\ ~dim_case[c].there => dim_case[c] = NoCase
          /\ e.type = "case.state_changed" => e.to \in CaseStatus \ {"NEW"}
          /\ e.type = "case.resolved" => e.to \in TERMINAL
          /\ ~Settles(e) => e.to \in {"none", "NEW"}
          /\ dim_case \in [Cases -> CaseRow]
      BY <1>1, <1>3 DEF RowTells, RowsTyped, CaseShape
    <2> HIDE DEF e, id
    <2>2. e \in EventRow /\ _project(c, e, id)
      BY <1>1 DEF e, id
    <2> QED
      BY <2>1, <2>2, CaseRowChange
  <1>5. /\ fact_action' \in [Actions -> ActionRow]
        /\ \A a \in Actions : ActionTells(a)' /\ ActionRises(fact_action[a], fact_action'[a])
        /\ log[c][k].type = "case.action.proposed" =>
             /\ fact_action'[log[c][k].action].there
             /\ fact_action'[log[c][k].action].policy = act[log[c][k].action].policy
        /\ log[c][k].type \in DecisionTypes => fact_action'[log[c][k].action].outcome \in Decision
    BY <1>2, CaseActionChange
  <1>6. RowTells(c)'
    <2>1. /\ dim_case'[c].there \/ dim_case'[c] = dim_case[c]
          /\ dim_case'[c].closed => dim_case[c].closed \/ e.to \in TERMINAL
          /\ dim_case'[c].escalated => dim_case[c].escalated \/ e.to = "ESCALATED"
          /\ dim_case'[c].human_touched => dim_case[c].human_touched \/ ByHuman(e)
          /\ dim_case'[c].root_cause = dim_case[c].root_cause
      BY <1>4 DEF RowChange, Rises
    <2> QED
      BY <1>2, <1>3, <2>1 DEF RowTells
  <1>7. ASSUME NEW b \in Cases PROVE RowTells(b)' /\ Rises(dim_case[b], dim_case'[b])
    <2>1. CASE b = c
      BY <1>4, <1>6, <2>1 DEF RowChange
    <2>2. CASE b # c
      <3>1. RowTells(b) /\ dim_case'[b] = dim_case[b]
        BY <1>4, <2>2 DEF RowsTell
      <3> QED
        BY <1>2, <3>1 DEF RowTells, Rises
    <2> QED
      BY <2>1, <2>2
  <1>8. ASSUME NEW r \in Runs PROVE RunRowTells(r)' /\ RunRises(fact_run[r], fact_run'[r])
    <2>1. RunRowTells(r)
      BY DEF RowsTell
    <2> QED
      BY <1>2, <1>4, <2>1 DEF RunRowTells, RunRises
  <1>9. RowsTell' /\ RowsRise
    BY <1>3, <1>4, <1>5, <1>7, <1>8 DEF RowsTell, RowsTyped, RowsRise
  <1>10. Sticks(c, k)'
    <2>1. /\ e.type = "case.created" => dim_case'[c].there /\ dim_case'[c].details
          /\ e.to \in TERMINAL => dim_case'[c].closed
          /\ e.to = "ESCALATED" => dim_case'[c].escalated
          /\ ByHuman(e) => dim_case'[c].human_touched
      BY <1>4 DEF RowChange
    <2> QED
      BY <1>2, <1>5, <2>1 DEF Sticks
  <1>11. CaseColumns(c, e)
    BY <1>4 DEF RowChange, CaseColumns
  <1>12. \A b \in Cases \ {c} : SameColumns(b)
    BY <1>4 DEF SameColumns
  <1> QED
    BY <1>4, <1>9, <1>10, <1>11, <1>12 DEF HandledRows

\* Rows of other tables, and other rows of these.
LEMMA RestRises ==
  ASSUME RowsTell, NEW c \in Cases, UNCHANGED <<case, other, run, fact_action>>
  PROVE  /\ fact_action' \in [Actions -> ActionRow]
         /\ \A a \in Actions : ActionTells(a)' /\ ActionRises(fact_action[a], fact_action'[a])
         /\ \A b \in Cases : dim_case'[b] = dim_case[b] => RowTells(b)' /\ Rises(dim_case[b], dim_case'[b])
         /\ \A r \in Runs : fact_run'[r] = fact_run[r] => RunRowTells(r)' /\ RunRises(fact_run[r], fact_run'[r])
  <1>1. UNCHANGED <<log, act, other, run, fact_action>>
    BY DEF case
  <1>2. fact_action' \in [Actions -> ActionRow]
    BY <1>1 DEF RowsTell, RowsTyped
  <1>3. ASSUME NEW a \in Actions PROVE ActionTells(a)' /\ ActionRises(fact_action[a], fact_action'[a])
    <2>1. ActionTells(a)
      BY DEF RowsTell
    <2> QED
      BY <1>1, <2>1 DEF ActionTells, ActionRises
  <1>4. ASSUME NEW b \in Cases, dim_case'[b] = dim_case[b] PROVE RowTells(b)' /\ Rises(dim_case[b], dim_case'[b])
    <2>1. RowTells(b)
      BY DEF RowsTell
    <2> QED
      BY <1>1, <1>4, <2>1 DEF RowTells, Rises
  <1>5. ASSUME NEW r \in Runs, fact_run'[r] = fact_run[r] PROVE RunRowTells(r)' /\ RunRises(fact_run[r], fact_run'[r])
    <2>1. RunRowTells(r)
      BY DEF RowsTell
    <2> QED
      BY <1>1, <1>5, <2>1 DEF RunRowTells, RunRises
  <1> QED
    BY <1>2, <1>3, <1>4, <1>5

\* A row changed in columns no event of the case writes.
SameRow(d, d2) ==
  /\ d2 \in CaseRow /\ d2.there
  /\ d2.details = d.details /\ d2.status = d.status /\ d2.mode = d.mode
  /\ d2.closed = d.closed /\ d2.escalated = d.escalated /\ d2.human_touched = d.human_touched
Founded(c, d, d2) ==
  \/ d2.root_cause = d.root_cause
  \/ /\ d2.root_cause # None
     /\ \E k \in DOMAIN other["agent"][c] : other["agent"][c][k].root_cause # None
RowIs(c, row) ==
  /\ dim_case' \in [Cases -> CaseRow] /\ dim_case'[c] = row
  /\ RowTells(c)' /\ Rises(dim_case[c], dim_case'[c])
  /\ \A b \in Cases : SameColumns(b) /\ (b # c => dim_case'[b] = dim_case[b])

LEMMA RowKept ==
  ASSUME RowsTell, NEW c \in Cases, UNCHANGED <<case, other>>,
         NEW row, Patch(c, row), SameRow(dim_case[c], row), Founded(c, dim_case[c], row)
  PROVE  RowIs(c, row)
  <1>1. dim_case \in [Cases -> CaseRow] /\ RowTells(c) /\ UNCHANGED <<log, other>>
    BY DEF RowsTell, RowsTyped, case
  <1>2. dim_case' \in [Cases -> CaseRow] /\ dim_case'[c] = row /\ \A b \in Cases \ {c} : dim_case'[b] = dim_case[b]
    BY <1>1 DEF SameRow, Patch
  <1>3. RowTells(c)'
    BY <1>1, <1>2 DEF RowTells, SameRow, Founded
  <1>4. Rises(dim_case[c], row)
    BY DEF Rises, SameRow, Founded
  <1>5. \A b \in Cases : SameColumns(b) /\ (b # c => dim_case'[b] = dim_case[b])
    BY <1>2 DEF SameColumns, SameRow
  <1> QED
    BY <1>2, <1>3, <1>4, <1>5 DEF RowIs

LEMMA AgentHandled ==
  ASSUME Source, RowsTell, NEW c \in Cases, NEW k \in DOMAIN other["agent"][c],
         _project(c, other["agent"][c][k], <<"agent", c, k>>), UNCHANGED <<case, other, run>>
  PROVE  HandledRows("agent", c, k)
  <1> DEFINE e == other["agent"][c][k]
             id == <<"agent", c, k>>
             r == e.run
             d == dim_case[c]
  <1>1. /\ AgentShape(c, k) /\ e \in OtherRow /\ e.type \in FactTypes["agent"] /\ c # None
    BY Typed, ProjectorAssumption DEF Source, SourceTyped, OtherTopics
  <1>2. /\ r \in Runs /\ run[r].case = c /\ e.status \in RunStatus
        /\ e.type = "agent.run.started" => e.mode = run[r].mode /\ e.status = "RUNNING" /\ e.root_cause = None
        /\ run[r].mode \in RunModes
    <2>1. r \in Runs /\ RunTells(r)
      BY <1>1 DEF AgentShape, Source
    <2> QED
      BY <1>1, <2>1 DEF AgentShape, RunTells
  <1>3. /\ RowsTyped /\ d \in CaseRow /\ fact_run \in [Runs -> FactRunRow] /\ fact_run[r] \in FactRunRow
        /\ RunRowTells(r) /\ dim_case \in [Cases -> CaseRow]
    BY <1>2 DEF RowsTell, RowsTyped
  <1>4. UNCHANGED <<log, other, run, act>>
    BY DEF case
  <1>5. DecisionTypes = {"case.action.approved", "case.action.edited", "case.action.rejected"}
    BY DecisionNames
  <1>6. e.root_cause \in Causes \cup {None} /\ e.mode \in RunModes \cup {"none"}
    BY <1>1 DEF OtherRow
  \* The run's row, and the case's.
  <1>7. ASSUME UNCHANGED fact_action, UNCHANGED fact_email,
               NEW f \in FactRunRow, fact_run' = [fact_run EXCEPT ![r] = f],
               f.there, f.case = c, f.status = e.status, f.mode \in {"none", run[r].mode},
               e.type = "agent.run.started" => f.mode = e.mode,
               fact_run[r].mode # "none" => f.mode = fact_run[r].mode,
               RowTells(c)', Rises(dim_case[c], dim_case'[c]), dim_case' \in [Cases -> CaseRow],
               \A b \in Cases : SameColumns(b) /\ (b # c => dim_case'[b] = dim_case[b]),
               e.root_cause # None => dim_case'[c].root_cause # None
        PROVE  HandledRows("agent", c, k)
    <2>1. /\ fact_run' \in [Runs -> FactRunRow] /\ fact_run'[r] = f
          /\ \A q \in Runs \ {r} : fact_run'[q] = fact_run[q]
      BY <1>2, <1>3, <1>7
    <2>2. /\ fact_action' \in [Actions -> ActionRow]
          /\ \A a \in Actions : ActionTells(a)' /\ ActionRises(fact_action[a], fact_action'[a])
          /\ \A b \in Cases : dim_case'[b] = dim_case[b] => RowTells(b)' /\ Rises(dim_case[b], dim_case'[b])
          /\ \A q \in Runs : fact_run'[q] = fact_run[q] => RunRowTells(q)' /\ RunRises(fact_run[q], fact_run'[q])
      BY <1>4, <1>7, RestRises
    <2>3. ASSUME NEW q \in Runs PROVE RunRowTells(q)' /\ RunRises(fact_run[q], fact_run'[q])
      <3>1. CASE q = r
        <4>1. RunRises(fact_run[r], f)
          BY <1>7 DEF RunRises
        <4>2. /\ fact_run'[q].there /\ fact_run'[q].case = run'[q].case /\ fact_run'[q].case # None
              /\ fact_run'[q].mode \in {"none", run'[q].mode}
          BY <1>1, <1>2, <1>4, <1>7, <2>1, <3>1
        <4>3. RunRowTells(q)'
          BY <4>2 DEF RunRowTells
        <4> QED
          BY <2>1, <3>1, <4>1, <4>3
      <3>2. CASE q # r
        BY <2>1, <2>2, <3>2
      <3> QED
        BY <3>1, <3>2
    <2>4. \A b \in Cases : RowTells(b)' /\ Rises(dim_case[b], dim_case'[b])
      BY <1>7, <2>2
    <2>5. RowsTell' /\ RowsRise
      BY <1>7, <2>1, <2>2, <2>3, <2>4 DEF RowsTell, RowsTyped, RowsRise
    <2>6. RunSticks(c, k)'
      <3>1. other'["agent"][c][k] = e
        BY <1>4
      <3> QED
        BY <1>7, <2>1, <3>1 DEF RunSticks
    <2>7. \A q \in Runs : q # r => fact_run'[q].status = fact_run[q].status
      BY <2>1
    <2> QED
      BY <1>7, <2>1, <2>5, <2>6, <2>7 DEF HandledRows
  <1>8. CASE Started(c, e)
    <2> DEFINE f == [there |-> TRUE, case |-> c, mode |-> e.mode, status |-> "RUNNING"]
               row == [Row(c) EXCEPT !.first_agent = TRUE]
    <2>1. /\ e.type = "agent.run.started" /\ fact_run' = [fact_run EXCEPT ![r] = f]
          /\ UNCHANGED <<fact_action, fact_email>>
          /\ (Patch(c, row) \/ UNCHANGED dim_case)
      BY <1>8 DEF Started
    <2>2. f \in FactRunRow /\ f.there /\ f.case = c /\ f.status = e.status /\ f.mode = e.mode /\ e.mode = run[r].mode
      BY <1>2, <1>6, <2>1 DEF FactRunRow
    <2>3. fact_run[r].mode # "none" => f.mode = fact_run[r].mode
      BY <1>3, <2>2 DEF RunRowTells
    <2>4. SameRow(d, row) /\ Founded(c, d, row)
      BY <1>3 DEF CaseRow, Row, SameRow, Founded
    <2> HIDE DEF f, row
    <2>5. /\ RowTells(c)' /\ Rises(dim_case[c], dim_case'[c]) /\ dim_case' \in [Cases -> CaseRow]
          /\ \A b \in Cases : SameColumns(b) /\ (b # c => dim_case'[b] = dim_case[b])
      <3>1. CASE Patch(c, row)
        <4>1. RowIs(c, row)
          BY <2>4, <3>1, RowKept
        <4> QED
          BY <4>1 DEF RowIs
      <3>2. CASE UNCHANGED dim_case
        BY <1>3, <2>1, <3>2, RestRises DEF SameColumns
      <3> QED
        BY <2>1, <3>1, <3>2
    <2>6. e.root_cause = None
      BY <1>2, <2>1
    <2> QED
      BY <1>7, <2>1, <2>2, <2>3, <2>5, <2>6
  <1>9. CASE Ended(c, e)
    <2> DEFINE f == [fact_run[r] EXCEPT !.there = TRUE, !.case = c, !.status = e.status]
               row == [Row(c) EXCEPT !.root_cause = e.root_cause]
    <2>1. /\ e.type = "agent.run.completed" /\ fact_run' = [fact_run EXCEPT ![r] = f]
          /\ UNCHANGED <<fact_action, fact_email>>
          /\ IF e.root_cause # None THEN Patch(c, row) ELSE UNCHANGED dim_case
      BY <1>9 DEF Ended
    <2>2. f \in FactRunRow /\ f.there /\ f.case = c /\ f.status = e.status /\ f.mode = fact_run[r].mode
      BY <1>2, <1>3 DEF FactRunRow
    <2>3. f.mode \in {"none", run[r].mode} /\ e.type # "agent.run.started"
      BY <1>3, <2>1, <2>2 DEF RunRowTells
    <2>4. SameRow(d, row) /\ row.root_cause = e.root_cause
      BY <1>3, <1>6 DEF CaseRow, Row, SameRow
    <2> HIDE DEF f, row
    <2>5. /\ RowTells(c)' /\ Rises(dim_case[c], dim_case'[c]) /\ dim_case' \in [Cases -> CaseRow]
          /\ \A b \in Cases : SameColumns(b) /\ (b # c => dim_case'[b] = dim_case[b])
          /\ e.root_cause # None => dim_case'[c].root_cause # None
      <3>1. CASE e.root_cause # None
        <4>1. Patch(c, row)
          BY <2>1, <3>1
        <4>2. Founded(c, d, row)
          BY <2>4, <3>1 DEF Founded
        <4>3. RowIs(c, row)
          BY <2>4, <4>1, <4>2, RowKept
        <4> QED
          BY <2>4, <3>1, <4>3 DEF RowIs
      <3>2. CASE e.root_cause = None
        BY <1>3, <2>1, <3>2, RestRises DEF SameColumns
      <3> QED
        BY <2>1, <3>1, <3>2
    <2> QED
      BY <1>7, <2>1, <2>2, <2>3, <2>5
  <1>10. ~(Created(c, e) \/ Changed(c, e) \/ Resolved(c, e) \/ Handover(c, e) \/ Proposed(c, e) \/ Decided(c, e)
           \/ Noted(c, e) \/ Mailed(c, e, id) \/ ToolCalled(e))
    BY <1>1, <1>5 DEF FactTypes, Created, Changed, Resolved, Handover, Proposed, Decided, Noted, Mailed, ToolCalled
  <1> QED
    BY <1>8, <1>9, <1>10 DEF _project

LEMMA FactHandled ==
  ASSUME Source, RowsTell, NEW t \in {"comm", "tool"}, NEW c \in Cases, NEW k \in DOMAIN other[t][c],
         _project(c, other[t][c][k], <<t, c, k>>), UNCHANGED <<case, other, run>>
  PROVE  HandledRows(t, c, k)
  <1> DEFINE e == other[t][c][k]
             id == <<t, c, k>>
             d == dim_case[c]
  <1>1. t \in OtherTopics /\ e.type \in FactTypes[t]
    BY DEF Source, SourceTyped, OtherTopics
  <1>2. RowsTyped /\ d \in CaseRow /\ dim_case \in [Cases -> CaseRow] /\ fact_run \in [Runs -> FactRunRow]
    BY DEF RowsTell, RowsTyped
  <1>3. DecisionTypes = {"case.action.approved", "case.action.edited", "case.action.rejected"}
    BY DecisionNames
  <1>4. \/ Mailed(c, e, id) /\ t = "comm"
        \/ ToolCalled(e) /\ t = "tool"
    <2>1. CASE t = "comm"
      <3>1. e.type \in {"comm.email.sent", "comm.email.received"}
        BY <1>1, <2>1 DEF FactTypes
      <3>2. ~(Created(c, e) \/ Changed(c, e) \/ Resolved(c, e) \/ Handover(c, e) \/ Proposed(c, e) \/ Decided(c, e)
           \/ Noted(c, e) \/ Started(c, e) \/ Ended(c, e) \/ ToolCalled(e))
        BY <1>3, <3>1 DEF Created, Changed, Resolved, Handover, Proposed, Decided, Noted, Started, Ended, ToolCalled
      <3> QED
        BY <2>1, <3>2 DEF _project
    <2>2. CASE t = "tool"
      <3>1. e.type \in {"tool.invoked", "tool.blocked"}
        BY <1>1, <2>2 DEF FactTypes
      <3>2. ~(Created(c, e) \/ Changed(c, e) \/ Resolved(c, e) \/ Handover(c, e) \/ Proposed(c, e) \/ Decided(c, e)
           \/ Noted(c, e) \/ Started(c, e) \/ Ended(c, e) \/ Mailed(c, e, id))
        BY <1>3, <3>1 DEF Created, Changed, Resolved, Handover, Proposed, Decided, Noted, Started, Ended, Mailed
      <3> QED
        BY <2>2, <3>2 DEF _project
    <2> QED
      BY <2>1, <2>2
  <1>5. /\ UNCHANGED <<fact_action, fact_run>>
        /\ fact_email' = fact_email \cup (IF t = "comm" THEN {id} ELSE {})
        /\ Patch(c, CountMail(c)) \/ UNCHANGED dim_case
    BY <1>4 DEF Mailed, ToolCalled
  <1>6. /\ dim_case' \in [Cases -> CaseRow]
        /\ \A b \in Cases : SameColumns(b) /\ RowTells(b)' /\ Rises(dim_case[b], dim_case'[b])
    <2>1. CASE UNCHANGED dim_case
      BY <1>2, <1>5, <2>1, RestRises DEF SameColumns
    <2>2. CASE Patch(c, CountMail(c)) /\ d.there
      <3> DEFINE row == [d EXCEPT !.emails_sent = @ + 1]
      <3>1. Patch(c, row)
        BY <2>2 DEF CountMail
      <3>2. SameRow(d, row) /\ Founded(c, d, row)
        BY <1>2, <2>2 DEF CaseRow, SameRow, Founded
      <3> HIDE DEF row
      <3>3. RowIs(c, row)
        BY <3>1, <3>2, RowKept
      <3> QED
        BY <1>5, <3>3, RestRises DEF RowIs
    <2>3. CASE Patch(c, CountMail(c)) /\ ~d.there
      <3>1. UNCHANGED dim_case
        BY <1>2, <2>3 DEF Patch, CountMail
      <3> QED
        BY <2>1, <3>1
    <2> QED
      BY <1>5, <2>1, <2>2, <2>3
  <1>7. /\ fact_action' \in [Actions -> ActionRow]
        /\ \A a \in Actions : ActionTells(a)' /\ ActionRises(fact_action[a], fact_action'[a])
        /\ \A r \in Runs : RunRowTells(r)' /\ RunRises(fact_run[r], fact_run'[r])
    BY <1>5, RestRises
  <1>8. RowsTell' /\ RowsRise
    BY <1>2, <1>5, <1>6, <1>7 DEF RowsTell, RowsTyped, RowsRise
  <1> QED
    BY <1>5, <1>6, <1>8 DEF HandledRows

LEMMA SourceKept ==
  ASSUME Source, UNCHANGED <<case, other, run>>
  PROVE  Source' /\ \A t \in Topics, c \in Cases : Stream(t, c)' = Stream(t, c)
  <1>1. UNCHANGED <<status, mode, act, log, other, run>>
    BY DEF case
  <1>2. SourceTyped'
    BY <1>1 DEF Source, SourceTyped
  <1>3. \A c \in Cases : \A k \in DOMAIN other'["agent"][c] : AgentShape(c, k)'
    BY <1>1 DEF Source, AgentShape
  <1>4. \A r \in Runs : RunTells(r)'
    BY <1>1 DEF Source, RunTells
  <1>5. \A t \in Topics, c \in Cases : Stream(t, c)' = Stream(t, c)
    BY <1>1 DEF Stream
  <1> QED
    BY <1>1, <1>2, <1>3, <1>4, <1>5, CaseKept DEF Source

LEMMA StreamTyped ==
  ASSUME Source, NEW t \in Topics, NEW c \in Cases
  PROVE  DOMAIN Stream(t, c) = 1..Len(Stream(t, c)) /\ Len(Stream(t, c)) \in Nat
  <1>1. CASE t = "case"
    BY <1>1, Typed DEF Source, Stream
  <1>2. CASE t # "case"
    <2>1. t \in OtherTopics
      BY <1>2 DEF Topics
    <2> QED
      BY <1>2, <2>1, Typed DEF Source, Stream
  <1> QED
    BY <1>1, <1>2

\* The reader's place, and what is read again from it.
Placed ==
  /\ pos \in [Topics -> [Cases -> Nat]]
  /\ \A t \in Topics, c \in Cases : pos[t][c] <= Len(Stream(t, c))

\* The k-th event of a partition was handled: the part read in order may end with it.
Advanced(t, c, k) ==
  /\ From(t, c)' \in Nat /\ From(t, c)' <= k
  /\ From(t, c)' <= From(t, c) \/ (From(t, c)' = From(t, c) + 1 /\ k = From(t, c)')
  /\ \A u \in Topics, d \in Cases : u # t \/ d # c => From(u, d)' = From(u, d)

LEMMA HandledTables ==
  ASSUME PInv, NEW t \in Topics, NEW c \in Cases, NEW k \in DOMAIN Stream(t, c),
         HandledRows(t, c, k), fact_events' = fact_events \cup {<<t, c, k>>},
         UNCHANGED <<case, other, run>>, Placed'
  PROVE  Tables'
  <1>1. UNCHANGED <<log, act, other, run>> /\ Source
    BY DEF case, PInv
  <1>2. \A u \in Topics, d \in Cases : Stream(u, d)' = Stream(u, d)
    BY <1>1, SourceKept
  <1>3. Tables /\ TablesTyped /\ RowsTell' /\ RowsRise /\ RowsTyped'
    BY DEF PInv, Tables, HandledRows, RowsTell
  <1>4. TablesTyped'
    <2>1. \A id \in fact_events' : \E u \in Topics, d \in Cases : \E i \in DOMAIN Stream(u, d)' : id = <<u, d, i>>
      BY <1>2, <1>3 DEF TablesTyped
    <2>2. \A id \in fact_email' : \E d \in Cases : \E i \in DOMAIN other'["comm"][d] : id = <<"comm", d, i>>
      <3>1. t = "comm" => k \in DOMAIN other["comm"][c]
        BY DEF Stream
      <3> QED
        BY <1>1, <1>3, <3>1 DEF TablesTyped, HandledRows
    <2>3. /\ dim_case' \in [Cases -> CaseRow]
          /\ fact_action' \in [Actions -> [there : BOOLEAN, case : Cases \cup {None},
                                  policy : PolicyDecision \cup {"none"}, outcome : Outcomes]]
          /\ fact_run' \in [Runs -> [there : BOOLEAN, case : Cases \cup {None},
                            mode : RunModes \cup {"none"}, status : RunStatus \cup {"none"}]]
      BY <1>3 DEF RowsTyped, ActionRow, FactRunRow
    <2> QED
      BY <2>1, <2>2, <2>3 DEF TablesTyped, Placed
  <1>5. ASSUME NEW d \in Cases, NEW i \in DOMAIN log[d], <<"case", d, i>> \in fact_events'
        PROVE  Sticks(d, i)'
    <2>1. CASE <<"case", d, i>> = <<t, c, k>>
      BY <2>1 DEF HandledRows
    <2>2. CASE <<"case", d, i>> \in fact_events
      <3> DEFINE e == log[d][i]
      <3>1. Sticks(d, i) /\ Rises(dim_case[d], dim_case'[d]) /\ \A a \in Actions : ActionRises(fact_action[a], fact_action'[a])
        BY <1>3, <2>2 DEF Tables, RowsRise
      <3>2. CaseShape(d, log[d], i, status[d], act)
        BY <1>1 DEF Source, Tells
      <3>3. /\ e.type = "case.action.proposed" => e.action \in Actions /\ act[e.action].case = d
            /\ e.type \in DecisionTypes => e.action \in Actions
        BY <3>2 DEF CaseShape
      <3>4. e.type = "case.action.proposed" => act[e.action].policy # "none"
        <4>1. d # None /\ "none" \notin PolicyDecision
          BY ProjectorAssumption DEF PolicyDecision
        <4> QED
          BY <1>1, <3>3, <4>1 DEF Source, ActTells
      <3> QED
        BY <1>1, <3>1, <3>3, <3>4 DEF Sticks, Rises, ActionRises
    <2> QED
      BY <1>5, <2>1, <2>2
  <1>6. ASSUME NEW d \in Cases, NEW i \in DOMAIN other["agent"][d], <<"agent", d, i>> \in fact_events'
        PROVE  RunSticks(d, i)'
    <2>1. CASE <<"agent", d, i>> = <<t, c, k>>
      BY <2>1 DEF HandledRows
    <2>2. CASE <<"agent", d, i>> \in fact_events
      <3> DEFINE e == other["agent"][d][i]
      <3>1. RunSticks(d, i) /\ Rises(dim_case[d], dim_case'[d]) /\ \A r \in Runs : RunRises(fact_run[r], fact_run'[r])
        BY <1>3, <2>2 DEF Tables, RowsRise
      <3>2. AgentShape(d, i) /\ d # None /\ "none" \notin RunModes
        BY <1>1, ProjectorAssumption DEF Source, RunModes
      <3>3. e.run \in Runs /\ (e.type = "agent.run.started" => e.mode # "none")
        BY <1>1, <3>2 DEF AgentShape, Source, RunTells
      <3> QED
        BY <1>1, <3>1, <3>3 DEF RunSticks, Rises, RunRises
    <2> QED
      BY <1>6, <2>1, <2>2
  <1>7. ASSUME NEW d \in Cases, NEW i \in DOMAIN other["comm"][d], <<"comm", d, i>> \in fact_events'
        PROVE  <<"comm", d, i>> \in fact_email'
    <2>1. CASE <<"comm", d, i>> = <<t, c, k>>
      BY <2>1 DEF HandledRows
    <2>2. CASE <<"comm", d, i>> \in fact_events
      BY <1>3, <2>2 DEF Tables, RowsRise
    <2> QED
      BY <1>7, <2>1, <2>2
  <1> QED
    BY <1>1, <1>3, <1>4, <1>5, <1>6, <1>7 DEF Tables, RowsTell

LEMMA HandleStep ==
  ASSUME PInv, NEW t \in Topics, NEW c \in Cases, NEW k \in DOMAIN Stream(t, c), handle(t, c, k),
         Placed', Advanced(t, c, k)
  PROVE  PInv'
  <1>1. /\ Source /\ Tables /\ TablesTyped /\ SourceTyped /\ RowsTell
        /\ UNCHANGED <<case, other, run>> /\ fact_events' = fact_events \cup {<<t, c, k>>}
    BY DEF PInv, Source, handle, Tables, RowsTell, RowsTyped, TablesTyped, ActionRow, FactRunRow
  <1>2. /\ Source' /\ UNCHANGED <<log, other, run>>
        /\ \A u \in Topics, d \in Cases : Stream(u, d)' = Stream(u, d)
    BY <1>1, SourceKept DEF case
  <1>3. HandledRows(t, c, k)
    <2>1. _project(c, Stream(t, c)[k], <<t, c, k>>)
      BY DEF handle
    <2>2. CASE t = "case"
      <3>1. k \in DOMAIN log[c] /\ _project(c, log[c][k], <<"case", c, k>>)
        BY <2>1, <2>2 DEF Stream
      <3> QED
        BY <1>1, <2>2, <3>1, CaseHandled
    <2>3. CASE t = "agent"
      <3>1. k \in DOMAIN other["agent"][c] /\ _project(c, other["agent"][c][k], <<"agent", c, k>>)
        BY <2>1, <2>3 DEF Stream
      <3> QED
        BY <1>1, <2>3, <3>1, AgentHandled
    <2>4. CASE t \in {"comm", "tool"}
      <3>1. k \in DOMAIN other[t][c] /\ _project(c, other[t][c][k], <<t, c, k>>)
        BY <2>1, <2>4 DEF Stream
      <3> QED
        BY <1>1, <2>4, <3>1, FactHandled
    <2> QED
      BY <2>2, <2>3, <2>4 DEF Topics, OtherTopics
  <1>4. Tables'
    BY <1>1, <1>3, HandledTables
  <1>5. /\ From(t, c)' \in Nat /\ From(t, c)' <= k
        /\ From(t, c)' <= From(t, c) \/ (From(t, c)' = From(t, c) + 1 /\ k = From(t, c)')
        /\ \A u \in Topics, d \in Cases : u # t \/ d # c => From(u, d)' = From(u, d)
    BY DEF Advanced
  <1>6. \A u \in Topics, d \in Cases : From(u, d) \in Nat /\ From(u, d) <= Len(Stream(u, d))
    BY <1>1, StreamTyped DEF From, TablesTyped
  <1>7. k \in 1..Len(Stream(t, c)) /\ Len(Stream(t, c)) \in Nat
    BY <1>1, StreamTyped
  <1>8. ReadWholly'
    <2>1. ASSUME NEW u \in Topics, NEW d \in Cases, NEW i \in 1..From(u, d)' PROVE <<u, d, i>> \in fact_events'
      <3>1. i \in 1..From(u, d) \/ (u = t /\ d = c /\ i = k)
        BY <1>5, <1>6
      <3> QED
        BY <1>1, <3>1 DEF PInv, ReadWholly
    <2> QED
      BY <2>1 DEF ReadWholly
  <1>9. ASSUME NEW d \in Cases
        PROVE  /\ Column(StatusWrites(log[d]), Len(log[d]), Settled(dim_case'[d].status), From("case", d)')
               /\ Column(ModeWrites(log[d]), Len(log[d]), dim_case'[d].mode, From("case", d)')
    <2>1. /\ Column(StatusWrites(log[d]), Len(log[d]), Settled(dim_case[d].status), From("case", d))
          /\ Column(ModeWrites(log[d]), Len(log[d]), dim_case[d].mode, From("case", d))
      BY DEF PInv, Columns
    <2>2. CASE t # "case" \/ d # c
      <3>1. dim_case'[d].status = dim_case[d].status /\ dim_case'[d].mode = dim_case[d].mode
        BY <1>3, <2>2 DEF HandledRows, SameColumns
      <3>2. From("case", d)' = From("case", d)
        BY <1>5, <2>2 DEF Topics
      <3> QED
        BY <2>1, <3>1, <3>2
    <2>3. CASE t = "case" /\ d = c
      <3> DEFINE e == log[c][k]
      <3>1. CaseColumns(c, e)
        BY <1>3, <2>3 DEF HandledRows
      <3>2. k \in 1..Len(log[c]) /\ Len(log[c]) \in Nat /\ DOMAIN log[c] = 1..Len(log[c]) /\ log[c] \in Seq(EventRow)
        BY <1>1, <1>7, <2>3, Typed DEF Stream
      <3>3. Positions(StatusWrites(log[c])) /\ Positions(ModeWrites(log[c]))
        BY <3>2, WritesAgree DEF Extends
      <3>4. IF k \in DOMAIN StatusWrites(log[c]) THEN Settled(dim_case'[c].status) = StatusWrites(log[c])[k]
            ELSE Settled(dim_case'[c].status) = Settled(dim_case[c].status)
        BY <3>1, <3>2 DEF CaseColumns, StatusWrites
      <3>5. IF k \in DOMAIN ModeWrites(log[c]) THEN dim_case'[c].mode = ModeWrites(log[c])[k]
            ELSE dim_case'[c].mode = dim_case[c].mode
        BY <3>1, <3>2 DEF CaseColumns, ModeWrites
      <3> DEFINE low == From("case", c)
                 low2 == From("case", c)'
      <3>6. /\ low \in Nat /\ low2 \in Nat /\ low2 <= k
            /\ low2 <= low \/ (low2 = low + 1 /\ k = low2)
        BY <1>5, <1>6, <2>3
      <3>7. /\ Column(StatusWrites(log[c]), Len(log[c]), Settled(dim_case[c].status), low)
            /\ Column(ModeWrites(log[c]), Len(log[c]), dim_case[c].mode, low)
        BY <2>1, <2>3
      <3> HIDE DEF low, low2
      <3>8. Column(StatusWrites(log[c]), Len(log[c]), Settled(dim_case'[c].status), low2)
        BY <3>2, <3>3, <3>4, <3>6, <3>7, ColumnStep
      <3>9. Column(ModeWrites(log[c]), Len(log[c]), dim_case'[c].mode, low2)
        BY <3>2, <3>3, <3>5, <3>6, <3>7, ColumnStep
      <3> QED
        BY <2>3, <3>8, <3>9 DEF low2
    <2> QED
      BY <2>2, <2>3
  <1>10. ASSUME NEW r \in Runs, run[r].case # None
         PROVE  Column(RunWrites(other["agent"][run[r].case], r), Len(other["agent"][run[r].case]),
                       fact_run'[r].status, From("agent", run[r].case)')
    <2> DEFINE d == run[r].case
               es == other["agent"][d]
    <2>1. Column(RunWrites(es, r), Len(es), fact_run[r].status, From("agent", d))
      BY <1>10 DEF PInv, Columns
    <2>2. d \in Cases /\ "agent" \in OtherTopics /\ "agent" \in Topics
      BY <1>1, <1>10, Typed DEF RunRow, OtherTopics, Topics
    <2>3. CASE t # "agent" \/ d # c
      <3>1. fact_run'[r].status = fact_run[r].status
        <4>1. t = "agent" => r # other["agent"][c][k].run
          <5>1. t = "agent" => AgentShape(c, k)
            BY <1>1 DEF Source, Stream
          <5> QED
            BY <2>3, <5>1 DEF AgentShape
        <4> QED
          BY <1>3, <4>1 DEF HandledRows
      <3>2. From("agent", d)' = From("agent", d)
        BY <1>2, <1>5, <2>2, <2>3 DEF From, InOrder
      <3> QED
        BY <1>2, <2>1, <3>1, <3>2
    <2>4. CASE t = "agent" /\ d = c
      <3>2. k \in 1..Len(es) /\ Len(es) \in Nat /\ DOMAIN es = 1..Len(es) /\ es \in Seq(OtherRow)
        BY <1>1, <1>7, <2>2, <2>4, Typed DEF Stream
      <3>3. Positions(RunWrites(es, r))
        BY <3>2, WritesAgree DEF Extends
      <3>4. IF k \in DOMAIN RunWrites(es, r) THEN fact_run'[r].status = RunWrites(es, r)[k]
            ELSE fact_run'[r].status = fact_run[r].status
        BY <1>3, <2>4, <3>2 DEF HandledRows, RunWrites
      <3> DEFINE low == From("agent", c)
                 low2 == From("agent", c)'
      <3>6. /\ low \in Nat /\ low2 \in Nat /\ low2 <= k
            /\ low2 <= low \/ (low2 = low + 1 /\ k = low2)
        BY <1>5, <1>6, <2>4
      <3>7. Column(RunWrites(es, r), Len(es), fact_run[r].status, low)
        BY <2>1, <2>4
      <3>9. From("agent", run[r].case)' = low2
        BY <1>2, <2>4 DEF From, InOrder
      <3> HIDE DEF low, low2, es
      <3>8. Column(RunWrites(es, r), Len(es), fact_run'[r].status, low2)
        BY <3>2, <3>3, <3>4, <3>6, <3>7, ColumnStep
      <3> QED
        BY <3>8, <3>9 DEF es
    <2> QED
      BY <2>3, <2>4
  <1>11. Columns'
    BY <1>2, <1>9, <1>10 DEF Columns
  <1> QED
    BY <1>2, <1>4, <1>8, <1>11 DEF PInv

\* Nothing is handled, and no more counts as read in order than did.
LEMMA PlaceStep ==
  ASSUME PInv, UNCHANGED <<case, other, run, tables>>, Placed',
         \A t \in Topics, c \in Cases : From(t, c)' \in Nat /\ From(t, c)' <= From(t, c)
  PROVE  PInv'
  <1>1. /\ UNCHANGED <<log, act, other, run, fact_events, dim_case, fact_action, fact_run, fact_email>>
        /\ Source /\ Tables /\ TablesTyped
    BY DEF case, tables, PInv, Tables
  <1>2. Source' /\ \A t \in Topics, c \in Cases : Stream(t, c)' = Stream(t, c)
    BY <1>1, SourceKept
  <1>3. \A t \in Topics, c \in Cases : From(t, c) \in Nat
    BY <1>1 DEF From, TablesTyped
  <1>4. TablesTyped'
    BY <1>1, <1>2 DEF TablesTyped, Placed
  <1>5. ASSUME NEW c \in Cases PROVE RowTells(c)'
    BY <1>1 DEF Tables, RowTells
  <1>6. ASSUME NEW a \in Actions PROVE ActionTells(a)'
    BY <1>1 DEF Tables, ActionTells
  <1>7. ASSUME NEW r \in Runs PROVE RunRowTells(r)'
    BY <1>1 DEF Tables, RunRowTells
  <1>8. ASSUME NEW c \in Cases, NEW k \in DOMAIN log[c], <<"case", c, k>> \in fact_events' PROVE Sticks(c, k)'
    BY <1>1, <1>8 DEF Tables, Sticks
  <1>14. ASSUME NEW c \in Cases, NEW k \in DOMAIN other["agent"][c], <<"agent", c, k>> \in fact_events'
         PROVE  RunSticks(c, k)'
    BY <1>1, <1>14 DEF Tables, RunSticks
  <1>15. ASSUME NEW c \in Cases, NEW k \in DOMAIN other["comm"][c], <<"comm", c, k>> \in fact_events'
         PROVE  <<"comm", c, k>> \in fact_email'
    BY <1>1, <1>15 DEF Tables
  <1>9. Tables'
    BY <1>1, <1>4, <1>5, <1>6, <1>7, <1>8, <1>14, <1>15 DEF Tables
  <1>10. ReadWholly'
    <2>1. ASSUME NEW t \in Topics, NEW c \in Cases, NEW k \in 1..From(t, c)' PROVE <<t, c, k>> \in fact_events'
      <3>1. k \in 1..From(t, c)
        BY <1>3
      <3> QED
        BY <1>1, <3>1 DEF PInv, ReadWholly
    <2> QED
      BY <2>1 DEF ReadWholly
  <1>11. ASSUME NEW c \in Cases
         PROVE  /\ Column(StatusWrites(log[c]), Len(log[c]), Settled(dim_case[c].status), From("case", c))'
                /\ Column(ModeWrites(log[c]), Len(log[c]), dim_case[c].mode, From("case", c))'
    <2> DEFINE low == From("case", c)
               low2 == From("case", c)'
    <2>1. /\ low \in Nat /\ low2 \in Nat /\ low2 <= low /\ Len(log[c]) \in Nat
      BY <1>1, <1>3, Typed DEF Topics, Source
    <2>2. /\ Column(StatusWrites(log[c]), Len(log[c]), Settled(dim_case[c].status), low)
          /\ Column(ModeWrites(log[c]), Len(log[c]), dim_case[c].mode, low)
      BY DEF PInv, Columns
    <2> HIDE DEF low, low2
    <2>3. /\ Column(StatusWrites(log[c]), Len(log[c]), Settled(dim_case[c].status), low2)
          /\ Column(ModeWrites(log[c]), Len(log[c]), dim_case[c].mode, low2)
      BY <2>1, <2>2, ColumnLower
    <2> QED
      BY <1>1, <2>3 DEF low2
  <1>12. ASSUME NEW r \in Runs, run'[r].case # None
         PROVE  Column(RunWrites(other["agent"][run[r].case], r), Len(other["agent"][run[r].case]),
                       fact_run[r].status, From("agent", run[r].case))'
    <2> DEFINE c == run[r].case
               low == From("agent", c)
               low2 == From("agent", run[r].case)'
    <2>1. c \in Cases /\ "agent" \in OtherTopics /\ "agent" \in Topics
      BY <1>1, <1>12, Typed DEF Source, RunRow, OtherTopics, Topics
    <2>2. low2 = From("agent", c)' /\ low \in Nat
      BY <1>1, <1>3, <2>1
    <2>3. low2 \in Nat /\ low2 <= low /\ Len(other["agent"][c]) \in Nat
      <3>1. \A d \in Cases : From("agent", d)' \in Nat /\ From("agent", d)' <= From("agent", d)
        BY <2>1
      <3>2. c' = c
        BY <1>1
      <3> QED
        BY <1>1, <2>1, <3>1, <3>2, Typed DEF Source, From, InOrder
    <2>4. Column(RunWrites(other["agent"][c], r), Len(other["agent"][c]), fact_run[r].status, low)
      BY <1>1, <1>12 DEF PInv, Columns
    <2> HIDE DEF low, low2
    <2>5. Column(RunWrites(other["agent"][c], r), Len(other["agent"][c]), fact_run[r].status, low2)
      BY <2>2, <2>3, <2>4, ColumnLower
    <2> QED
      BY <1>1, <2>5 DEF low2
  <1>13. Columns'
    BY <1>11, <1>12 DEF Columns
  <1> QED
    BY <1>2, <1>9, <1>10, <1>13 DEF PInv

LEMMA ReaderSteps ==
  ASSUME PInv, NEW t \in Topics, NEW c \in Cases
  PROVE  /\ Consume(t, c) => PInv'
         /\ HandlerFails(t, c) => PInv'
         /\ Rewind(t, c) => PInv'
         /\ ComesAgain(t, c) => PInv'
  <1>1. /\ Source /\ TablesTyped /\ pos \in [Topics -> [Cases -> Nat]]
        /\ \A u \in Topics, d \in Cases : pos[u][d] <= Len(Stream(u, d)) /\ pos[u][d] \in Nat
    BY DEF PInv, Tables, TablesTyped
  <1>2. DOMAIN Stream(t, c) = 1..Len(Stream(t, c)) /\ Len(Stream(t, c)) \in Nat
    BY <1>1, StreamTyped
  <1>3. ASSUME UNCHANGED <<case, other, run>>
        PROVE  \A u \in Topics, d \in Cases : Stream(u, d)' = Stream(u, d)
    BY <1>1, <1>3, SourceKept
  <1>4. ASSUME Next1(t, c)
        PROVE  /\ pos' \in [Topics -> [Cases -> Nat]] /\ pos'[t][c] = pos[t][c] + 1
               /\ \A u \in Topics, d \in Cases : u # t \/ d # c => pos'[u][d] = pos[u][d]
               /\ \A u \in Topics, d \in Cases : pos'[u][d] <= Len(Stream(u, d))
    <2>1. /\ pos' \in [Topics -> [Cases -> Nat]] /\ pos'[t][c] = pos[t][c] + 1
          /\ \A u \in Topics, d \in Cases : u # t \/ d # c => pos'[u][d] = pos[u][d]
      BY <1>1, <1>4 DEF Next1
    <2>2. pos'[t][c] <= Len(Stream(t, c))
      BY <1>1, <1>2, <1>4, <2>1 DEF Next1
    <2>3. ASSUME NEW u \in Topics, NEW d \in Cases PROVE pos'[u][d] <= Len(Stream(u, d))
      <3>1. CASE u = t /\ d = c
        BY <2>2, <3>1
      <3>2. CASE u # t \/ d # c
        BY <1>1, <2>1, <3>2
      <3> QED
        BY <3>1, <3>2
    <2> QED
      BY <2>1, <2>3
  <1>5. ASSUME Consume(t, c) PROVE PInv'
    <2> DEFINE k == pos[t][c] + 1
    <2>1. Next1(t, c) /\ handle(t, c, k) /\ UNCHANGED disturbed /\ UNCHANGED <<case, other, run>>
      BY <1>5 DEF Consume, handle
    <2>2. k \in DOMAIN Stream(t, c)
      BY <1>1, <1>2, <2>1 DEF Next1
    <2>3. Placed'
      BY <1>3, <1>4, <2>1 DEF Placed
    <2>4. Advanced(t, c, k)
      <3>1. /\ From(t, c)' = (IF InOrder(t, c) THEN k ELSE 0) /\ k \in Nat
            /\ From(t, c) = (IF InOrder(t, c) THEN pos[t][c] ELSE 0)
        BY <1>1, <1>4, <2>1 DEF From, InOrder
      <3>2. \A u \in Topics, d \in Cases : u # t \/ d # c => From(u, d)' = From(u, d)
        BY <1>4, <2>1 DEF From, InOrder
      <3> QED
        BY <1>1, <3>1, <3>2 DEF Advanced
    <2> HIDE DEF k
    <2> QED
      BY <2>1, <2>2, <2>3, <2>4, HandleStep
  <1>6. ASSUME HandlerFails(t, c) PROVE PInv'
    <2>1. /\ Next1(t, c) /\ disturbed' = disturbed \cup {<<t, c>>} /\ UNCHANGED <<case, other, run, tables>>
      BY <1>6 DEF HandlerFails
    <2>2. Placed'
      BY <1>3, <1>4, <2>1 DEF Placed
    <2>3. ASSUME NEW u \in Topics, NEW d \in Cases PROVE From(u, d)' \in Nat /\ From(u, d)' <= From(u, d)
      <3>1. CASE u = t /\ d = c
        BY <1>1, <2>1, <3>1 DEF From, InOrder
      <3>2. CASE u # t \/ d # c
        BY <1>1, <1>4, <2>1, <3>2 DEF From, InOrder
      <3> QED
        BY <3>1, <3>2
    <2> QED
      BY <2>1, <2>2, <2>3, PlaceStep
  <1>7. ASSUME Rewind(t, c) PROVE PInv'
    <2>1. PICK p \in 0..pos[t][c] - 1 :
             /\ pos' = [pos EXCEPT ![t][c] = p]
             /\ disturbed' = IF p = 0 THEN disturbed \ {<<t, c>>} ELSE disturbed
      BY <1>7 DEF Rewind
    <2>2. UNCHANGED <<case, other, run, tables>>
      BY <1>7 DEF Rewind
    <2>3. /\ pos' \in [Topics -> [Cases -> Nat]] /\ pos'[t][c] = p /\ p \in Nat /\ p < pos[t][c]
          /\ \A u \in Topics, d \in Cases : u # t \/ d # c => pos'[u][d] = pos[u][d]
      BY <1>1, <2>1
    <2>4. ASSUME NEW u \in Topics, NEW d \in Cases PROVE pos'[u][d] <= Len(Stream(u, d))
      <3>1. CASE u = t /\ d = c
        BY <1>1, <1>2, <2>3, <3>1
      <3>2. CASE u # t \/ d # c
        BY <1>1, <2>3, <3>2
      <3> QED
        BY <3>1, <3>2
    <2>5. Placed'
      BY <1>3, <2>2, <2>3, <2>4 DEF Placed
    <2>6. ASSUME NEW u \in Topics, NEW d \in Cases PROVE From(u, d)' \in Nat /\ From(u, d)' <= From(u, d)
      <3>1. CASE u = t /\ d = c
        BY <1>1, <2>1, <2>3, <3>1 DEF From, InOrder
      <3>2. CASE u # t \/ d # c
        BY <1>1, <2>1, <2>3, <3>2 DEF From, InOrder
      <3> QED
        BY <3>1, <3>2
    <2> QED
      BY <2>2, <2>5, <2>6, PlaceStep
  <1>8. ASSUME ComesAgain(t, c) PROVE PInv'
    <2>1. PICK k \in 1..pos[t][c] : handle(t, c, k)
      BY <1>8 DEF ComesAgain
    <2>2. UNCHANGED <<case, other, run>> /\ UNCHANGED pos /\ disturbed' = disturbed \cup {<<t, c>>}
      BY <1>8, <2>1 DEF ComesAgain, handle
    <2>3. k \in DOMAIN Stream(t, c) /\ k \in Nat
      BY <1>1, <1>2
    <2>4. Placed'
      BY <1>1, <1>3, <2>2 DEF Placed
    <2>5. Advanced(t, c, k)
      <3>1. From(t, c)' = 0 /\ From(t, c) \in Nat
        BY <1>1, <2>2 DEF From, InOrder
      <3>2. \A u \in Topics, d \in Cases : u # t \/ d # c => From(u, d)' = From(u, d)
        BY <2>2 DEF From, InOrder
      <3> QED
        BY <2>3, <3>1, <3>2 DEF Advanced
    <2> QED
      BY <2>1, <2>3, <2>4, <2>5, HandleStep
  <1> QED
    BY <1>5, <1>6, <1>7, <1>8

-----------------------------------------------------------------------------
(* The specification                                                        *)

LEMMA Begins == Init => PInv
  <1> SUFFICES ASSUME Init PROVE PInv
    OBVIOUS
  <1>1. /\ status = [c \in Cases |-> "none"] /\ mode = [c \in Cases |-> "AUTONOMOUS"]
        /\ act = [a \in Actions |-> L!NoAction] /\ log = [c \in Cases |-> <<>>]
        /\ other = [t \in OtherTopics |-> [c \in Cases |-> <<>>]]
        /\ run = [r \in Runs |-> [case |-> None, mode |-> "none", status |-> "none"]]
        /\ pos = [t \in Topics |-> [c \in Cases |-> 0]]
        /\ fact_events = {} /\ dim_case = [c \in Cases |-> NoCase] /\ fact_action = [a \in Actions |-> NoAction]
        /\ fact_run = [r \in Runs |-> NoRun] /\ fact_email = {} /\ disturbed = {}
    BY DEF Init, L!Init
  <1>2. /\ L!NoAction \in ActRow /\ L!NoAction.case = None /\ L!NoAction.decided_by = "none"
        /\ [case |-> None, mode |-> "none", status |-> "none"] \in RunRow
    BY DEF L!NoAction, ActRow, RunRow
  <1>3. <<>> \in Seq(EventRow) /\ <<>> \in Seq(OtherRow) /\ DOMAIN <<>> = {} /\ Len(<<>>) = 0
    OBVIOUS
  <1>4. SourceTyped
    BY <1>1, <1>2, <1>3 DEF SourceTyped, AgentMode
  <1>5. "agent" \in OtherTopics /\ "comm" \in OtherTopics
    BY DEF OtherTopics
  <1>6. /\ DOMAIN StatusWrites(<<>>) = {} /\ DOMAIN ModeWrites(<<>>) = {}
        /\ \A r : DOMAIN RunWrites(<<>>, r) = {}
    BY <1>3 DEF StatusWrites, ModeWrites, RunWrites
  <1>7. /\ Latest(StatusWrites(<<>>), 0, "none") /\ Latest(ModeWrites(<<>>), 0, "none")
        /\ \A r : Latest(RunWrites(<<>>, r), 0, "none")
    BY <1>6 DEF Latest
  <1>8. ASSUME NEW c \in Cases PROVE Tells(c, log[c], status[c], mode[c], act)
    <2>1. log[c] = <<>> /\ status[c] = "none" /\ mode[c] = "AUTONOMOUS" /\ Settled("none") = "none"
      BY <1>1 DEF Settled
    <2> QED
      BY <1>3, <1>7, <2>1 DEF Tells
  <1>9. ASSUME NEW a \in Actions PROVE ActTells(a)
    BY <1>1, <1>2 DEF ActTells
  <1>10. \A c \in Cases : \A k \in DOMAIN other["agent"][c] : AgentShape(c, k)
    BY <1>1, <1>3, <1>5
  <1>11. \A r \in Runs : RunTells(r)
    BY <1>1 DEF RunTells
  <1>12. Source
    BY <1>4, <1>8, <1>9, <1>10, <1>11 DEF Source
  <1>13. ASSUME NEW t \in Topics, NEW c \in Cases PROVE Stream(t, c) = <<>> /\ pos[t][c] = 0 /\ From(t, c) = 0
    BY <1>1 DEF Stream, Topics, From
  <1>14. NoCase \in CaseRow
    BY DEF NoCase, CaseRow
  <1>15. TablesTyped
    <2>1. /\ NoAction \in [there : BOOLEAN, case : Cases \cup {None},
                           policy : PolicyDecision \cup {"none"}, outcome : Outcomes]
          /\ NoRun \in [there : BOOLEAN, case : Cases \cup {None},
                        mode : RunModes \cup {"none"}, status : RunStatus \cup {"none"}]
      BY DEF NoAction, NoRun, Outcomes
    <2>2. \A t \in Topics, c \in Cases : pos[t][c] <= Len(Stream(t, c))
      BY <1>3, <1>13
    <2>3. pos \in [Topics -> [Cases -> Nat]]
      BY <1>1
    <2> QED
      BY <1>1, <1>14, <2>1, <2>2, <2>3 DEF TablesTyped
  <1>16. \A c \in Cases : RowTells(c)
    BY <1>1 DEF RowTells, NoCase
  <1>17. \A a \in Actions : ActionTells(a)
    BY <1>1 DEF ActionTells, NoAction, Decision
  <1>18. \A r \in Runs : RunRowTells(r)
    BY <1>1 DEF RunRowTells, NoRun
  <1>19. Tables
    BY <1>1, <1>15, <1>16, <1>17, <1>18 DEF Tables
  <1>20. ReadWholly
    BY <1>13 DEF ReadWholly
  <1>21. Columns
    <2>1. ASSUME NEW c \in Cases
          PROVE  /\ Column(StatusWrites(log[c]), Len(log[c]), Settled(dim_case[c].status), From("case", c))
                 /\ Column(ModeWrites(log[c]), Len(log[c]), dim_case[c].mode, From("case", c))
      <3>1. log[c] = <<>> /\ Settled(dim_case[c].status) = "none" /\ dim_case[c].mode = "none" /\ From("case", c) = 0
        BY <1>1, <1>13 DEF NoCase, Settled, Topics
      <3>2. 0 \in 0..0
        OBVIOUS
      <3> QED
        BY <1>3, <1>7, <3>1, <3>2 DEF Column
    <2> QED
      BY <1>1, <2>1 DEF Columns
  <1> QED
    BY <1>12, <1>19, <1>20, <1>21 DEF PInv

LEMMA Continues == PInv /\ [Next]_vars => PInv'
  <1> SUFFICES ASSUME PInv, [Next]_vars PROVE PInv'
    OBVIOUS
  <1>1. Source
    BY DEF PInv
  <1>2. ASSUME NEW c \in Cases, CaseService(c) PROVE PInv'
    <2>1. UNCHANGED <<pos, tables, disturbed>>
      BY <1>2 DEF CaseService
    <2> QED
      BY <1>1, <1>2, <2>1, CaseServiceStep, GrownTables
  <1>3. ASSUME NEW c \in Cases, SomeFact(c) PROVE PInv'
    <2>1. UNCHANGED <<pos, tables, disturbed>>
      BY <1>3 DEF SomeFact, Publish
    <2> QED
      BY <1>1, <1>3, <2>1, FactStep, GrownTables
  <1>4. ASSUME NEW c \in Cases, NEW r \in Runs, NEW m \in {"LIVE", "SHADOW"}, RunStarts(r, c, m) PROVE PInv'
    <2>1. UNCHANGED <<pos, tables, disturbed>>
      BY <1>4 DEF RunStarts, Publish
    <2>2. Source' /\ Grown
      BY <1>1, <1>4, RunSteps DEF RunModes
    <2> QED
      BY <2>1, <2>2, GrownTables
  <1>5. ASSUME NEW r \in Runs, NEW s \in Ends, NEW cause \in Causes \cup {None},
               RunEnds(r, s, cause)
        PROVE  PInv'
    <2>1. UNCHANGED <<pos, tables, disturbed>>
      BY <1>5 DEF RunEnds, Publish
    <2>2. Source' /\ Grown
      BY <1>1, <1>5, RunSteps
    <2> QED
      BY <2>1, <2>2, GrownTables
  <1>6. ASSUME NEW c \in Cases, NEW t \in Topics,
               Consume(t, c) \/ HandlerFails(t, c) \/ Rewind(t, c) \/ ComesAgain(t, c)
        PROVE  PInv'
    BY <1>6, ReaderSteps
  <1>7. CASE UNCHANGED vars
    <2>1. UNCHANGED <<case, other, run, tables>> /\ UNCHANGED <<pos, disturbed>>
      BY <1>7 DEF vars
    <2>2. /\ pos \in [Topics -> [Cases -> Nat]] /\ \A t \in Topics, c \in Cases : pos[t][c] <= Len(Stream(t, c))
      BY DEF PInv, Tables, TablesTyped
    <2>3. Placed'
      <3>1. \A t \in Topics, c \in Cases : Stream(t, c)' = Stream(t, c)
        BY <1>1, <2>1, SourceKept
      <3> QED
        BY <2>1, <2>2, <3>1 DEF Placed
    <2>4. \A t \in Topics, c \in Cases : From(t, c)' \in Nat /\ From(t, c)' <= From(t, c)
      BY <2>1, <2>2 DEF From, InOrder
    <2> QED
      BY <2>1, <2>3, <2>4, PlaceStep
  <1> QED
    BY <1>2, <1>3, <1>4, <1>5, <1>6, <1>7 DEF Next

\* The tables show what some of the events said that the projector has been given, and
\* each log what its service did, from the first event of a case to its last.
THEOREM ProjectorInvariant == Spec => []PInv
  <1> QED
    BY Begins, Continues, PTL DEF Spec

\* In whatever order the projector is given its events, and given them again, a decision
\* and an execution that the dashboard shows stay: it never unlearns them.
THEOREM DecisionsCorrect == Spec => []DecisionsStick
  <1> QED
    BY ProjectorInvariant, Sticking, PTL

\* Once a topic was read to its end with nothing out of order, the dashboard shows the
\* case, the actions, the invoices and the runs as the services' own rows have them.
THEOREM DashboardCorrect == Spec => []ReadModelFollows
  <1> QED
    BY ProjectorInvariant, Following, PTL

-----------------------------------------------------------------------------
(* THE KNOWLEDGE SERVICE                                                    *)

USE KnowledgeAssumption

KnowledgeSpec == KnowledgeInit /\ [][KnowledgeNext]_knowledge

Filing == {"upserting", "inserting", "replacing", "deleting", "embedding"}
Rewriting == {"deleting", "embedding"}
Remembering == {"listing", "adding"}

ChunkRow == [ref : Refs, text : Nat, id : Nat]
FactRow == [topic : Subjects, conf : Nat, next : Nat]
WriterRow ==
  [phase : Filing \cup Remembering \cup {"idle", "extracting"}, ref : Refs \cup {"none"},
   text : Nat, gone : SUBSET ChunkRow, topic : Subjects \cup {"none"}, conf : Nat, old : Nat]

\* Rows, writers and searches are well formed.
KnowledgeTyped ==
  /\ ended \in Nat
  /\ doc \in [Refs -> Nat]
  /\ chunk \in SUBSET ChunkRow /\ IsFiniteSet(chunk)
  /\ fact \in Seq(FactRow) /\ Len(fact) <= MaxFacts
  /\ writer \in [Writers -> WriterRow]
  /\ search \in [under_way : BOOLEAN, ids : SUBSET Nat, kept : SUBSET Refs]

Indexed(r) == {x \in chunk : x.ref = r}

\* What a writer has read is still so when it writes, or somebody has crossed it.
Knows(v) ==
  /\ v.phase \in Filing => v.ref \in Refs /\ v.text > 0
  /\ v.phase \notin Rewriting => v.gone = {}
  /\ \A x \in v.gone : x.ref = v.ref
  /\ v.phase \in Rewriting /\ v.ref \notin crossed => v.gone = Indexed(v.ref)
  /\ v.phase \in Remembering => v.topic \in Subjects
  /\ v.phase = "adding" =>
       /\ v.old # 0 => v.old \in DOMAIN fact /\ fact[v.old].topic = v.topic
       /\ v.topic \notin crossed => Duplicates(v.topic) \subseteq {v.old}

\* The locks: one writer at most has deleted the chunks of a document, or inserted it.
Exclusive ==
  \A u, w \in Writers : In(w, "embedding") /\ Holds(u, writer[w].ref) => u = w

KInv ==
  /\ KnowledgeTyped /\ SearchFindsTheText /\ FactsAccountedFor
  /\ \A i \in DOMAIN fact : fact[i].next \in DOMAIN fact \cup {Live, Retired}
  /\ \A w \in Writers : Knows(writer[w])
  /\ Exclusive

LEMMA RestingRow == Resting \in WriterRow /\ Resting.phase = "idle" /\ Resting.gone = {}
  BY DEF Resting, WriterRow

\* A step of one writer that changes no row.
LEMMA OneWriter ==
  ASSUME KInv, NEW w \in Writers, NEW v \in WriterRow,
         writer' = [writer EXCEPT ![w] = v], Knows(v),
         v.phase = "embedding" => \A u \in Writers \ {w} : ~Holds(u, v.ref),
         UNCHANGED <<ended, doc, chunk, fact, search, crossed>>
  PROVE  KInv'
  <1>1. /\ writer' \in [Writers -> WriterRow]
        /\ writer'[w] = v /\ \A u \in Writers \ {w} : writer'[u] = writer[u]
    BY DEF KInv, KnowledgeTyped
  <1>2. KnowledgeTyped'
    BY <1>1 DEF KInv, KnowledgeTyped
  <1>3. SearchFindsTheText'
    BY DEF KInv, SearchFindsTheText, Found
  <1>4. FactsAccountedFor'
    BY DEF KInv, FactsAccountedFor, Duplicates
  <1>5. \A u \in Writers : Knows(writer[u])'
    BY <1>1 DEF KInv, Knows, Duplicates, Indexed
  <1>6. Exclusive'
    BY <1>1 DEF KInv, Exclusive, In, Holds
  <1> QED
    BY <1>2, <1>3, <1>4, <1>5, <1>6 DEF KInv

\* A writer that begins, or is done with its document.
LEMMA EasySteps ==
  ASSUME KInv, NEW w \in Writers,
         \/ write_for_case(w) \/ Fails(w) \/ Deletes(w) \/ BeginsDelete(w)
         \/ Selects(w) \/ Inserts(w) \/ extract_facts(w)
         \/ \E ref \in Papers, text \in 1..MaxVersion : create_document(w, ref, text)
         \/ \E topic \in Subjects, conf \in Confidences : add_memory(w, topic, conf)
  PROVE  KInv'
  <1> DEFINE old == writer[w]
  <1>1. /\ old \in WriterRow /\ Knows(old) /\ doc \in [Refs -> Nat] /\ KnowledgeTyped
        /\ ended \in Nat /\ chunk \in SUBSET ChunkRow
    BY DEF KInv, KnowledgeTyped
  <1>2. UNCHANGED <<ended, doc, chunk, fact, search, crossed>>
    BY DEF write_for_case, Fails, Deletes, BeginsDelete, Selects, Inserts, extract_facts,
           create_document, add_memory
  <1>3. ASSUME NEW v \in WriterRow, Sets(w, v), Knows(v),
               v.phase = "embedding" => \A u \in Writers \ {w} : ~Holds(u, v.ref)
        PROVE  KInv'
    BY <1>2, <1>3, OneWriter DEF Sets
  <1>4. Knows(Resting)
    BY RestingRow DEF Knows, Resting, Filing, Rewriting, Remembering
  <1>5. CASE Rests(w)
    BY <1>3, <1>4, <1>5, RestingRow DEF Rests
  <1>6. Then(w) \in WriterRow /\ Knows(Then(w)) /\ Then(w).phase # "embedding"
    BY <1>4, RestingRow DEF Then, Resting, WriterRow, Knows, Filing, Rewriting, Remembering
  <1>7. ASSUME NEW ref \in Refs, NEW text \in Nat \ {0},
               Sets(w, [Resting EXCEPT !.phase = "upserting", !.ref = ref, !.text = text])
        PROVE  KInv'
    <2> DEFINE v == [Resting EXCEPT !.phase = "upserting", !.ref = ref, !.text = text]
    <2>1. v \in WriterRow /\ v.phase = "upserting" /\ v.ref = ref /\ v.text = text /\ v.gone = {}
      BY DEF Resting, WriterRow, Filing
    <2> HIDE DEF v
    <2>2. Knows(v)
      BY <2>1 DEF Knows, Filing, Rewriting, Remembering
    <2> QED
      BY <1>3, <1>7, <2>1, <2>2 DEF v
  <1>8. CASE write_for_case(w)
    <2>1. "resolution" \in Refs /\ ended \in Nat \ {0}
      BY <1>1, <1>8 DEF write_for_case, Refs
    <2> QED
      BY <1>7, <1>8, <2>1 DEF write_for_case, Starts
  <1>9. CASE \E ref \in Papers, text \in 1..MaxVersion : create_document(w, ref, text)
    <2>1. PICK ref \in Papers, text \in 1..MaxVersion : create_document(w, ref, text)
      BY <1>9
    <2>2. ref \in Refs /\ text \in Nat \ {0}
      BY DEF Refs
    <2> QED
      BY <1>7, <2>1, <2>2 DEF create_document, Starts
  <1>10. ASSUME NEW topic \in Subjects, NEW conf \in Confidences,
                Sets(w, [Resting EXCEPT !.phase = "listing", !.topic = topic, !.conf = conf])
         PROVE  KInv'
    <2> DEFINE v == [Resting EXCEPT !.phase = "listing", !.topic = topic, !.conf = conf]
    <2>1. v \in WriterRow /\ v.phase = "listing" /\ v.topic = topic /\ v.gone = {}
      BY DEF Resting, WriterRow, Remembering
    <2> HIDE DEF v
    <2>2. Knows(v)
      BY <2>1 DEF Knows, Filing, Rewriting, Remembering
    <2> QED
      BY <1>3, <1>10, <2>1, <2>2 DEF v
  <1>11. CASE \E topic \in Subjects, conf \in Confidences : add_memory(w, topic, conf)
    BY <1>10, <1>11 DEF add_memory, Starts
  <1>12. CASE extract_facts(w)
    BY <1>5, <1>10, <1>12 DEF extract_facts
  <1>13. ASSUME NEW phase \in Filing, Moves(w, phase), old.phase \in Filing,
                phase \in Rewriting => old.phase \in Rewriting \/ (old.ref \notin crossed => Indexed(old.ref) = {}),
                phase \notin Rewriting => old.phase \notin Rewriting,
                phase = "embedding" => \A u \in Writers \ {w} : ~Holds(u, old.ref)
         PROVE  KInv'
    <2> DEFINE v == [old EXCEPT !.phase = phase]
    <2>1. /\ v \in WriterRow /\ v.phase = phase /\ v.ref = old.ref /\ v.text = old.text
          /\ v.gone = old.gone
      BY <1>1 DEF WriterRow
    <2>2. Moves(w, phase) <=> Sets(w, v)
      BY DEF Moves
    <2> HIDE DEF v, old
    <2>3. Knows(v)
      BY <1>1, <1>13, <2>1 DEF Knows, Filing, Rewriting, Remembering
    <2> QED
      BY <1>3, <1>13, <2>1, <2>2, <2>3
  <1>14. CASE Selects(w)
    <2>1. old.phase = "upserting"
      BY <1>14 DEF Selects, In
    <2>2. Sets(w, Then(w)) \/ Moves(w, "inserting") \/ Moves(w, "replacing")
      BY <1>14 DEF Selects
    <2>3. CASE Sets(w, Then(w))
      BY <1>3, <1>6, <2>3
    <2>4. ASSUME NEW phase \in {"inserting", "replacing"}, Moves(w, phase) PROVE KInv'
      BY <1>13, <2>1, <2>4 DEF Filing, Rewriting
    <2> QED
      BY <2>2, <2>3, <2>4
  <1>15. CASE BeginsDelete(w)
    <2> DEFINE v == [old EXCEPT !.phase = "deleting", !.gone = OldChunks(w)]
    <2>1. old.phase = "replacing" /\ OldChunks(w) = Indexed(old.ref) /\ Sets(w, v)
      BY <1>15 DEF BeginsDelete, In, OldChunks, Indexed
    <2>2. /\ v \in WriterRow /\ v.phase = "deleting" /\ v.ref = old.ref /\ v.text = old.text
          /\ v.gone = Indexed(v.ref)
      BY <1>1, <2>1 DEF WriterRow, Indexed, Filing
    <2> HIDE DEF v, old
    <2>3. Knows(v)
      BY <1>1, <2>1, <2>2 DEF Knows, Filing, Rewriting, Remembering, Indexed
    <2> QED
      BY <1>3, <2>1, <2>2, <2>3
  <1>16. CASE Deletes(w)
    BY <1>13, <1>16 DEF Deletes, In, Filing, Rewriting, Free
  <1>17. CASE Inserts(w)
    <2>1. CASE doc[old.ref] = 0
      <3>1. Indexed(old.ref) = {}
        BY <1>1, <1>17, <2>1 DEF KInv, SearchFindsTheText, Indexed, Inserts, In, Knows, Filing
      <3> QED
        BY <1>13, <1>17, <2>1, <3>1 DEF Inserts, In, Filing, Rewriting, Free
    <2>2. CASE doc[old.ref] # 0
      BY <1>5, <1>17, <2>2 DEF Inserts
    <2> QED
      BY <2>1, <2>2
  <1>18. CASE Fails(w)
    BY <1>5, <1>18 DEF Fails
  <1> QED
    BY <1>8, <1>9, <1>11, <1>12, <1>14, <1>15, <1>16, <1>17, <1>18

LEMMA DuplicatesFinite ==
  ASSUME fact \in Seq(FactRow), NEW t
  PROVE  /\ DOMAIN fact = 1..Len(fact) /\ Len(fact) \in Nat
         /\ Duplicates(t) \in SUBSET (1..Len(fact)) /\ IsFiniteSet(Duplicates(t))
  <1>1. DOMAIN fact = 1..Len(fact) /\ Len(fact) \in Nat
    OBVIOUS
  <1>2. IsFiniteSet(1..Len(fact))
    BY <1>1, FS_Interval
  <1>3. Duplicates(t) \in SUBSET (1..Len(fact))
    BY <1>1 DEF Duplicates
  <1> QED
    BY <1>1, <1>2, <1>3, FS_Subset

LEMMA list_memoryStep ==
  ASSUME KInv, NEW w \in Writers, list_memory(w)
  PROVE  KInv'
  <1> DEFINE old == writer[w]
             dups == Duplicates(old.topic)
             v == [old EXCEPT !.phase = "adding", !.old = Max({0} \cup dups)]
  <1>1. /\ old \in WriterRow /\ Knows(old) /\ old.phase = "listing" /\ fact \in Seq(FactRow)
        /\ UNCHANGED <<ended, doc, chunk, fact, search, crossed>>
        /\ writer' = [writer EXCEPT ![w] = v]
    BY DEF KInv, KnowledgeTyped, list_memory, In, Sets
  <1>2. /\ DOMAIN fact = 1..Len(fact) /\ Len(fact) \in Nat
        /\ dups \in SUBSET (1..Len(fact)) /\ IsFiniteSet(dups)
    BY <1>1, DuplicatesFinite
  <1>3. Max({0} \cup dups) \in {0} \cup dups /\ \A y \in dups : Max({0} \cup dups) >= y
    <2>1. IsFiniteSet({0} \cup dups) /\ {0} \cup dups \in SUBSET Int
      BY <1>2, FS_AddElement
    <2> HIDE DEF dups
    <2> QED
      BY <2>1, MaxIs
  <1>4. /\ v \in WriterRow /\ v.phase = "adding" /\ v.topic = old.topic /\ v.gone = old.gone
        /\ v.ref = old.ref /\ v.old = Max({0} \cup dups)
    <2>1. Max({0} \cup dups) \in Nat
      BY <1>2, <1>3
    <2> HIDE DEF dups
    <2> QED
      BY <1>1, <2>1 DEF WriterRow, Remembering
  <1>5. old.topic \in Subjects
    BY <1>1 DEF Knows, Remembering
  <1>6. old.topic \notin crossed => \A x, y \in dups : x = y
    BY <1>2, <1>5, AtMostOne DEF KInv, FactsAccountedFor
  <1>7. old.topic \notin crossed => dups \subseteq {Max({0} \cup dups)}
    <2> DEFINE m == Max({0} \cup dups)
    <2>1. \A y \in dups : y \in Nat /\ y > 0
      BY <1>2
    <2>2. (m = 0 \/ m \in dups) /\ \A y \in dups : m >= y
      BY <1>3
    <2>3. m = 0 => dups = {}
      <3> HIDE DEF m, dups
      <3> QED
        BY <2>1, <2>2
    <2> HIDE DEF m, dups
    <2>4. old.topic \notin crossed => dups \subseteq {m}
      BY <1>6, <2>2, <2>3
    <2> QED
      BY <2>4 DEF m
  <1>8. Max({0} \cup dups) # 0 =>
          Max({0} \cup dups) \in DOMAIN fact /\ fact[Max({0} \cup dups)].topic = old.topic
    <2>1. \A i \in dups : i \in DOMAIN fact /\ fact[i].topic = old.topic
      BY DEF Duplicates
    <2> QED
      BY <1>3, <2>1
  <1> HIDE DEF v, old
  <1>9. Knows(v)
    BY <1>1, <1>4, <1>5, <1>7, <1>8 DEF Knows, Filing, Rewriting, Remembering, old
  <1> QED
    BY <1>1, <1>4, <1>9, OneWriter DEF v

-----------------------------------------------------------------------------
(* Searches and people                                                      *)

LEMMA SearchStep ==
  ASSUME KInv, Ranks \/ Fetches
  PROVE  KInv'
  <1>1. UNCHANGED <<ended, doc, chunk, fact, writer, crossed>>
    BY DEF Ranks, Fetches
  <1>2. /\ search' \in [under_way : BOOLEAN, ids : SUBSET Nat, kept : SUBSET Refs]
        /\ \A r \in search'.kept : \E x \in chunk : x.id \in search'.ids /\ x.ref = r /\ x.text = doc[r]
    <2>1. CASE Ranks
      <3>1. search' = [under_way |-> TRUE, ids |-> {x.id : x \in chunk}, kept |-> {r \in Refs : doc[r] # 0}]
        BY <2>1 DEF Ranks
      <3>2. {x.id : x \in chunk} \in SUBSET Nat
        BY DEF KInv, KnowledgeTyped, ChunkRow
      <3>3. \A r \in Refs : doc[r] # 0 => \E x \in chunk : x.ref = r /\ x.text = doc[r]
        BY DEF KInv, SearchFindsTheText
      <3> QED
        BY <3>1, <3>2, <3>3
    <2>2. CASE Fetches
      BY <2>2 DEF Fetches, NoSearch
    <2> QED
      BY <2>1, <2>2
  <1>3. KnowledgeTyped'
    BY <1>1, <1>2 DEF KInv, KnowledgeTyped
  <1>4. SearchFindsTheText'
    BY <1>1, <1>2 DEF KInv, SearchFindsTheText, Found
  <1>5. FactsAccountedFor'
    BY <1>1 DEF KInv, FactsAccountedFor, Duplicates
  <1>6. \A u \in Writers : Knows(writer[u])'
    BY <1>1 DEF KInv, Knows, Duplicates, Indexed
  <1>7. Exclusive'
    BY <1>1 DEF KInv, Exclusive, In, Holds
  <1> QED
    BY <1>1, <1>3, <1>4, <1>5, <1>6, <1>7 DEF KInv, Live, Retired

LEMMA CaseEndsStep ==
  ASSUME KInv, CaseEnds
  PROVE  KInv'
  <1>1. UNCHANGED <<doc, chunk, fact, writer, search, crossed>> /\ ended' \in Nat
    BY DEF CaseEnds, KInv, KnowledgeTyped
  <1>2. KnowledgeTyped'
    BY <1>1 DEF KInv, KnowledgeTyped
  <1>3. SearchFindsTheText' /\ FactsAccountedFor'
    BY <1>1 DEF KInv, SearchFindsTheText, Found, FactsAccountedFor, Duplicates
  <1>4. \A u \in Writers : Knows(writer[u])'
    BY <1>1 DEF KInv, Knows, Duplicates, Indexed
  <1>5. Exclusive'
    BY <1>1 DEF KInv, Exclusive, In, Holds
  <1> QED
    BY <1>1, <1>2, <1>3, <1>4, <1>5 DEF KInv, Live, Retired

\* A person retires a fact.
LEMMA SupersedeStep ==
  ASSUME KInv, NEW i \in DOMAIN fact, supersede(i)
  PROVE  KInv'
  <1>1. /\ UNCHANGED <<ended, doc, chunk, writer, search, crossed>>
        /\ fact' = [fact EXCEPT ![i].next = Retired] /\ fact \in Seq(FactRow)
        /\ Len(fact) <= MaxFacts
    BY DEF supersede, KInv, KnowledgeTyped
  <1>2. /\ DOMAIN fact' = DOMAIN fact /\ DOMAIN fact = 1..Len(fact) /\ Len(fact) \in Nat
        /\ fact' \in Seq(FactRow) /\ Len(fact') = Len(fact)
        /\ \A j \in DOMAIN fact :
             /\ fact'[j].topic = fact[j].topic /\ fact'[j].conf = fact[j].conf
             /\ fact'[j].next = IF j = i THEN Retired ELSE fact[j].next
    <2>1. Retired \in Nat
      BY DEF Retired
    <2>2. fact[i] \in FactRow
      BY <1>1
    <2> DEFINE r == [fact[i] EXCEPT !.next = Retired]
    <2>3. r \in FactRow /\ r.topic = fact[i].topic /\ r.conf = fact[i].conf /\ r.next = Retired
      BY <2>1, <2>2 DEF FactRow
    <2>4. fact' = [fact EXCEPT ![i] = r]
      BY <1>1
    <2> HIDE DEF r
    <2> QED
      BY <1>1, <2>3, <2>4
  <1>3. KnowledgeTyped'
    BY <1>1, <1>2 DEF KInv, KnowledgeTyped
  <1>4. SearchFindsTheText'
    BY <1>1 DEF KInv, SearchFindsTheText, Found
  <1>5. \A t : Duplicates(t)' \in SUBSET Duplicates(t)
    BY <1>2 DEF Duplicates, Live, Retired
  <1>6. FactsAccountedFor'
    <2>1. ASSUME NEW j \in DOMAIN fact', fact'[j].next \notin {Live, Retired}
          PROVE  /\ fact'[j].next > j /\ fact'[fact'[j].next].topic = fact'[j].topic
                 /\ fact'[fact'[j].next].conf >= fact'[j].conf
      <3>1. fact'[j].next = fact[j].next /\ fact[j].next \in DOMAIN fact
        BY <1>2, <2>1 DEF KInv
      <3> QED
        BY <1>2, <2>1, <3>1 DEF KInv, FactsAccountedFor
    <2>2. ASSUME NEW t \in Subjects \ crossed
          PROVE  Cardinality(Duplicates(t)') <= 1
      <3>1. IsFiniteSet(Duplicates(t)) /\ IsFiniteSet(Duplicates(t)')
        BY <1>1, <1>5, DuplicatesFinite, FS_Subset
      <3>2. \A x, y \in Duplicates(t) : x = y
        BY <3>1, AtMostOne DEF KInv, FactsAccountedFor
      <3> QED
        BY <1>5, <3>1, <3>2, AtMostOne
    <2> QED
      BY <1>1, <2>1, <2>2 DEF FactsAccountedFor, Duplicates, Live, Retired
  <1>7. \A j \in DOMAIN fact' : fact'[j].next \in DOMAIN fact' \cup {Live, Retired}
    BY <1>2 DEF KInv
  <1>8. \A u \in Writers : Knows(writer[u])'
    <2> SUFFICES ASSUME NEW u \in Writers PROVE Knows(writer[u])'
      OBVIOUS
    <2>1. Knows(writer[u]) /\ writer'[u] = writer[u]
      BY <1>1 DEF KInv
    <2>2. Duplicates(writer[u].topic)' \in SUBSET Duplicates(writer[u].topic)
      BY <1>2, <2>1 DEF Duplicates, Live, Retired
    <2> QED
      BY <1>1, <1>2, <2>1, <2>2 DEF Knows, Indexed
  <1>9. Exclusive'
    BY <1>1 DEF KInv, Exclusive, In, Holds
  <1> QED
    BY <1>3, <1>4, <1>6, <1>7, <1>8, <1>9 DEF KInv, Live, Retired

-----------------------------------------------------------------------------
(* The two steps that write                                                 *)

\* The rows after add_fact: the old one points to the new one, which is live.
LEMMA FactRows ==
  ASSUME KInv, NEW w \in Writers, add_fact(w)
  PROVE  LET n == Len(fact)
             old == writer[w].old
             topic == writer[w].topic IN
         /\ n \in Nat /\ n + 1 <= MaxFacts /\ topic \in Subjects
         /\ old # 0 => old \in 1..n /\ fact[old].topic = topic
         /\ fact' \in Seq(FactRow) /\ Len(fact') = n + 1
         /\ \A i \in 1..n :
              /\ fact'[i].topic = fact[i].topic /\ fact'[i].conf = fact[i].conf
              /\ fact'[i].next = IF i = old THEN n + 1 ELSE fact[i].next
         /\ fact'[n + 1].topic = topic /\ fact'[n + 1].next = Live
         /\ old # 0 => fact'[n + 1].conf >= fact[old].conf
  <1> DEFINE n == Len(fact)
             v == writer[w]
             old == v.old
             conf == AtLeast(v.conf, old)
             new == [topic |-> v.topic, conf |-> conf, next |-> Live]
             F == IF old = 0 THEN fact ELSE [fact EXCEPT ![old].next = n + 1]
  <1>1. /\ fact \in Seq(FactRow) /\ n \in Nat /\ DOMAIN fact = 1..n /\ n + 1 <= MaxFacts
        /\ v \in WriterRow /\ v.phase = "adding" /\ Knows(v) /\ fact' = Append(F, new)
    BY DEF KInv, KnowledgeTyped, add_fact, In
  <1>2. v.topic \in Subjects /\ old \in Nat /\ v.conf \in Nat
        /\ (old # 0 => old \in 1..n /\ fact[old].topic = v.topic /\ fact[old] \in FactRow)
    BY <1>1 DEF Knows, WriterRow, Remembering
  <1>3. conf \in Nat /\ (old # 0 => conf >= fact[old].conf)
    <2>1. CASE old = 0
      BY <1>2, <2>1 DEF AtLeast
    <2>2. CASE old # 0
      <3> DEFINE S == {v.conf, fact[old].conf}
      <3>1. S \in SUBSET Nat /\ S # {} /\ fact[old].conf \in S
        BY <1>2, <2>2 DEF FactRow
      <3>2. IsFiniteSet(S)
        <4>1. IsFiniteSet({v.conf}) /\ S = {v.conf} \cup {fact[old].conf}
          BY FS_Singleton
        <4> QED
          BY <4>1, FS_AddElement
      <3>3. conf = Max(S)
        BY <2>2 DEF AtLeast
      <3> HIDE DEF S, conf
      <3>4. S \in SUBSET Int
        BY <3>1
      <3> QED
        BY <3>1, <3>2, <3>3, <3>4, MaxIs
    <2> QED
      BY <2>1, <2>2
  <1> HIDE DEF conf
  <1>4. /\ new \in FactRow /\ new.topic = v.topic /\ new.next = Live /\ new.conf = conf
    BY <1>2, <1>3 DEF FactRow, Live
  <1>5. /\ F \in Seq(FactRow) /\ Len(F) = n
        /\ \A i \in 1..n :
             /\ F[i].topic = fact[i].topic /\ F[i].conf = fact[i].conf
             /\ F[i].next = IF i = old THEN n + 1 ELSE fact[i].next
    <2>1. CASE old = 0
      BY <1>1, <2>1
    <2>2. CASE old # 0
      <3> DEFINE r == [fact[old] EXCEPT !.next = n + 1]
      <3>1. r \in FactRow /\ r.topic = fact[old].topic /\ r.conf = fact[old].conf /\ r.next = n + 1
        <4>1. fact[old] \in FactRow /\ n + 1 \in Nat
          BY <1>1, <1>2, <2>2
        <4> HIDE DEF n, old
        <4> QED
          BY <4>1 DEF FactRow
      <3>2. F = [fact EXCEPT ![old] = r]
        BY <2>2
      <3> HIDE DEF r, F
      <3> QED
        BY <1>1, <1>2, <2>2, <3>1, <3>2
    <2> QED
      BY <2>1, <2>2
  <1> HIDE DEF F, new
  <1>6. /\ fact' \in Seq(FactRow) /\ Len(fact') = n + 1 /\ fact'[n + 1] = new
        /\ \A i \in 1..n : fact'[i] = F[i]
    BY <1>1, <1>4, <1>5, AppendProperties
  <1> QED
    BY <1>1, <1>2, <1>3, <1>4, <1>5, <1>6

LEMMA AddStep ==
  ASSUME KInv, NEW w \in Writers, add_fact(w)
  PROVE  KInv'
  <1> DEFINE n == Len(fact)
             v == writer[w]
             old == v.old
             topic == v.topic
  <1>1. /\ n \in Nat /\ n + 1 <= MaxFacts /\ topic \in Subjects
        /\ old # 0 => old \in 1..n /\ fact[old].topic = topic
        /\ fact' \in Seq(FactRow) /\ Len(fact') = n + 1
        /\ \A i \in 1..n :
             /\ fact'[i].topic = fact[i].topic /\ fact'[i].conf = fact[i].conf
             /\ fact'[i].next = IF i = old THEN n + 1 ELSE fact[i].next
        /\ fact'[n + 1].topic = topic /\ fact'[n + 1].next = Live
        /\ old # 0 => fact'[n + 1].conf >= fact[old].conf
    BY FactRows
  <1>2. /\ UNCHANGED <<ended, doc, chunk, search>> /\ fact \in Seq(FactRow)
        /\ writer' = [writer EXCEPT ![w] = Resting] /\ writer \in [Writers -> WriterRow]
        /\ v.phase = "adding" /\ Knows(v)
        /\ crossed \subseteq crossed'
        /\ topic \notin crossed' => \A u \in Writers \ {w} : ~(In(u, "adding") /\ writer[u].topic = topic)
    BY DEF add_fact, KInv, KnowledgeTyped, In, Rests, Sets
  <1>3. /\ writer'[w] = Resting /\ \A u \in Writers \ {w} : writer'[u] = writer[u]
        /\ writer' \in [Writers -> WriterRow]
    BY <1>2, RestingRow
  <1>4. DOMAIN fact = 1..n /\ DOMAIN fact' = 1..(n + 1)
    BY <1>1, <1>2
  <1> HIDE DEF v, n
  <1>5. KnowledgeTyped'
    BY <1>1, <1>2, <1>3 DEF KInv, KnowledgeTyped
  <1>6. SearchFindsTheText'
    BY <1>2 DEF KInv, SearchFindsTheText, Found
  <1>7. \A t \in Subjects \ {topic} : Duplicates(t)' \in SUBSET Duplicates(t)
    BY <1>1, <1>4 DEF Duplicates
  <1>8. ASSUME topic \notin crossed,
               NEW i \in 1..(n + 1), fact'[i].topic = topic, fact'[i].next = Live
        PROVE  i = n + 1
    <2>1. Duplicates(topic) \subseteq {old}
      BY <1>2, <1>8 DEF Knows
    <2>2. CASE i \in 1..n
      <3>1. i # old /\ i \in Duplicates(topic)
        BY <1>1, <1>4, <1>8, <2>2 DEF Duplicates, Live
      <3> QED
        BY <2>1, <3>1
    <2> QED
      BY <1>1, <2>2
  <1>9. FactsAccountedFor'
    <2>1. ASSUME NEW j \in DOMAIN fact', fact'[j].next \notin {Live, Retired}
          PROVE  /\ fact'[j].next > j /\ fact'[fact'[j].next].topic = fact'[j].topic
                 /\ fact'[fact'[j].next].conf >= fact'[j].conf
      <3>1. j \in 1..n
        BY <1>1, <1>4, <2>1
      <3>2. CASE j = old
        BY <1>1, <3>1, <3>2
      <3>3. CASE j # old
        <4>1. fact'[j].next = fact[j].next /\ fact[j].next \in 1..n
          BY <1>1, <1>4, <2>1, <3>1, <3>3 DEF KInv
        <4> QED
          BY <1>1, <1>4, <2>1, <3>1, <4>1 DEF KInv, FactsAccountedFor
      <3> QED
        BY <3>2, <3>3
    <2>2. ASSUME NEW t \in Subjects \ crossed'
          PROVE  Cardinality(Duplicates(t)') <= 1
      <3>1. IsFiniteSet(Duplicates(t)) /\ IsFiniteSet(Duplicates(t)')
        <4>1. IsFiniteSet(1..(n + 1)) /\ Duplicates(t)' \in SUBSET (1..(n + 1))
          <5>1. Duplicates(t)' \in SUBSET (1..(n + 1))
            BY <1>4 DEF Duplicates
          <5>2. 1 \in Int /\ n + 1 \in Int
            BY <1>1
          <5> QED
            BY <5>1, <5>2, FS_Interval
        <4> QED
          BY <1>2, <4>1, DuplicatesFinite, FS_Subset
      <3>2. CASE t = topic
        <4>1. \A x, y \in Duplicates(t)' : x = y
          <5>1. t \notin crossed
            BY <1>2, <2>2
          <5> SUFFICES ASSUME NEW x \in Duplicates(t)' PROVE x = n + 1
            OBVIOUS
          <5> QED
            BY <1>4, <1>8, <3>2, <5>1 DEF Duplicates
        <4> QED
          BY <3>1, <4>1, AtMostOne
      <3>3. CASE t # topic
        <4>1. \A x, y \in Duplicates(t) : x = y
          BY <1>2, <2>2, <3>1, AtMostOne DEF KInv, FactsAccountedFor
        <4>2. \A x, y \in Duplicates(t)' : x = y
          BY <1>7, <3>3, <4>1
        <4> QED
          BY <3>1, <4>2, AtMostOne
      <3> QED
        BY <3>2, <3>3
    <2> QED
      BY <2>1, <2>2 DEF FactsAccountedFor, Duplicates, Live, Retired
  <1>10. \A j \in DOMAIN fact' : fact'[j].next \in DOMAIN fact' \cup {Live, Retired}
    <2> SUFFICES ASSUME NEW j \in 1..(n + 1) PROVE fact'[j].next \in 1..(n + 1) \cup {Live, Retired}
      BY <1>4
    <2>1. CASE j = n + 1
      BY <1>1, <2>1
    <2>2. CASE j = old /\ j \in 1..n
      BY <1>1, <2>2
    <2>3. CASE j \in 1..n /\ j # old
      BY <1>1, <1>4, <2>3 DEF KInv
    <2> QED
      BY <1>1, <2>1, <2>2, <2>3
  <1>11. ASSUME NEW u \in Writers
         PROVE  Knows(writer[u])'
    <2>1. CASE u = w
      BY <1>3, <2>1, RestingRow DEF Knows, Filing, Rewriting, Remembering
    <2>2. CASE u # w
      <3> DEFINE q == writer[u]
      <3>1. writer'[u] = q /\ Knows(q) /\ q \in WriterRow
        BY <1>2, <1>3, <2>2 DEF KInv
      <3>2. ASSUME q.phase = "adding"
            PROVE  /\ q.old # 0 => q.old \in DOMAIN fact' /\ fact'[q.old].topic = q.topic
                   /\ q.topic \notin crossed' => Duplicates(q.topic)' \subseteq {q.old}
        <4>1. q.topic \in Subjects
          BY <3>1, <3>2 DEF Knows, Remembering
        <4>2. q.topic \notin crossed' => q.topic # topic
          BY <1>2, <2>2, <3>2 DEF In
        <4>3. q.topic # topic => {i \in DOMAIN fact' : fact'[i].topic = q.topic /\ fact'[i].next = Live}
                                   \subseteq Duplicates(q.topic)
          BY <1>1, <1>4 DEF Duplicates
        <4>4. q.topic \notin crossed => Duplicates(q.topic) \subseteq {q.old}
          BY <3>1, <3>2 DEF Knows
        <4>5. q.old # 0 => q.old \in DOMAIN fact' /\ fact'[q.old].topic = q.topic
          BY <1>1, <1>4, <3>1, <3>2 DEF Knows
        <4> QED
          BY <1>2, <3>1, <4>2, <4>3, <4>4, <4>5 DEF Duplicates
      <3> QED
        BY <1>2, <3>1, <3>2 DEF Knows, Indexed
    <2> QED
      BY <2>1, <2>2
  <1>12. Exclusive'
    BY <1>2, <1>3, RestingRow DEF KInv, Exclusive, In, Holds
  <1> QED
    BY <1>5, <1>6, <1>9, <1>10, <1>11, <1>12 DEF KInv, Live, Retired

\* A document's text and chunk are committed together, in place of what was deleted.
LEMMA IndexesStep ==
  ASSUME KInv, NEW w \in Writers, Indexes(w)
  PROVE  KInv'
  <1> DEFINE v == writer[w]
             ref == v.ref
             id == 1 + Max({0} \cup {x.id : x \in chunk})
             new == [ref |-> ref, text |-> v.text, id |-> id]
  <1>1. /\ v \in WriterRow /\ Knows(v) /\ v.phase = "embedding" /\ KnowledgeTyped
        /\ chunk' = (chunk \ v.gone) \cup {new} /\ doc' = [doc EXCEPT ![ref] = v.text]
        /\ search' = [search EXCEPT !.kept = @ \ {ref}]
        /\ writer' = [writer EXCEPT ![w] = Then(w)]
        /\ crossed \subseteq crossed' /\ (Overlapped(w, ref) => ref \in crossed')
        /\ UNCHANGED <<ended, fact>>
    BY DEF KInv, KnowledgeTyped, Indexes, In, Sets
  <1>2. id \in Nat
    <2> DEFINE S == {0} \cup {x.id : x \in chunk}
               ids == {x.id : x \in chunk}
               f == [x \in chunk |-> x.id]
    <2>1. IsFiniteSet(chunk) /\ f \in Surjection(chunk, ids)
      BY <1>1 DEF KnowledgeTyped, Surjection
    <2>2. IsFiniteSet(ids) /\ ids \in SUBSET Nat
      BY <1>1, <2>1, FS_Surjection DEF KnowledgeTyped, ChunkRow
    <2>3. IsFiniteSet(S) /\ S \in SUBSET Nat /\ S \in SUBSET Int /\ S # {}
      BY <2>2, FS_AddElement
    <2>4. id = 1 + Max(S)
      OBVIOUS
    <2> HIDE DEF S, id
    <2>5. Max(S) \in S
      BY <2>3, MaxIs
    <2>6. Max(S) \in Nat
      BY <2>3, <2>5
    <2> QED
      BY <2>4, <2>6
  <1>3. /\ ref \in Refs /\ v.text \in Nat \ {0} /\ \A x \in v.gone : x.ref = ref
        /\ ref \notin crossed => v.gone = Indexed(ref)
    BY <1>1 DEF Knows, WriterRow, Filing, Rewriting
  <1> HIDE DEF id
  <1>4. new \in ChunkRow /\ new.ref = ref /\ new.text = v.text
    BY <1>2, <1>3 DEF ChunkRow
  <1>5. /\ Then(w) \in WriterRow /\ Then(w).phase \in {"idle", "extracting"} /\ Then(w).gone = {}
    BY DEF Then, Resting, WriterRow
  <1>6. /\ writer' \in [Writers -> WriterRow] /\ writer'[w] = Then(w)
        /\ \A u \in Writers \ {w} : writer'[u] = writer[u]
    BY <1>1, <1>5 DEF KnowledgeTyped
  <1>7. /\ doc' \in [Refs -> Nat] /\ doc'[ref] = v.text
        /\ \A r \in Refs \ {ref} : doc'[r] = doc[r]
    BY <1>1, <1>3 DEF KnowledgeTyped
  <1> HIDE DEF new
  <1>8. chunk' \in SUBSET ChunkRow /\ IsFiniteSet(chunk')
    <2>1. IsFiniteSet(chunk \ v.gone)
      BY <1>1, FS_Subset DEF KnowledgeTyped
    <2> QED
      BY <1>1, <1>4, <2>1, FS_AddElement DEF KnowledgeTyped
  <1>9. /\ search' \in [under_way : BOOLEAN, ids : SUBSET Nat, kept : SUBSET Refs]
        /\ search'.ids = search.ids /\ search'.kept = search.kept \ {ref}
    BY <1>1 DEF KnowledgeTyped
  <1>10. \A r : r # ref => {x \in chunk' : x.ref = r} = Indexed(r)
    BY <1>1, <1>3, <1>4 DEF Indexed
  <1>11. ref \notin crossed' => {x \in chunk' : x.ref = ref} = {new}
    BY <1>1, <1>3, <1>4 DEF Indexed
  <1>12. KnowledgeTyped'
    BY <1>1, <1>6, <1>7, <1>8, <1>9 DEF KnowledgeTyped
  <1>13. SearchFindsTheText'
    <2>1. ASSUME NEW r \in search'.kept
          PROVE  \E x \in chunk' : x.id \in search'.ids /\ x.ref = r /\ x.text = doc'[r]
      <3>1. r \in search.kept /\ r # ref /\ r \in Refs
        BY <1>9, <2>1
      <3>2. PICK x \in Found : x.ref = r /\ x.text = doc[r]
        BY <3>1 DEF KInv, SearchFindsTheText
      <3>3. x \in chunk /\ x.id \in search.ids
        BY DEF Found
      <3>4. x \in chunk'
        BY <1>1, <1>3, <3>1, <3>2, <3>3
      <3> QED
        BY <1>7, <1>9, <3>1, <3>2, <3>3, <3>4
    <2>2. ASSUME NEW r \in Refs
          PROVE  LET indexed == {x \in chunk' : x.ref = r} IN
                 /\ doc'[r] = 0 => indexed = {}
                 /\ doc'[r] # 0 => \E x \in indexed : x.text = doc'[r]
                 /\ r \notin crossed' => Cardinality(indexed) <= 1
      <3>1. CASE r = ref
        <4>1. r \notin crossed' => Cardinality({x \in chunk' : x.ref = r}) <= 1
          BY <1>11, <3>1, FS_Singleton
        <4>2. new \in chunk'
          BY <1>1
        <4> QED
          BY <1>3, <1>4, <1>7, <3>1, <4>1, <4>2
      <3>2. CASE r # ref
        <4>1. {x \in chunk' : x.ref = r} = Indexed(r) /\ doc'[r] = doc[r]
          BY <1>7, <1>10, <3>2
        <4>2. /\ doc[r] = 0 => Indexed(r) = {}
              /\ doc[r] # 0 => \E x \in Indexed(r) : x.text = doc[r]
              /\ r \notin crossed => Cardinality(Indexed(r)) <= 1
          BY DEF KInv, SearchFindsTheText, Indexed
        <4> DEFINE indexed == {x \in chunk' : x.ref = r}
        <4> HIDE DEF indexed
        <4>3. /\ doc'[r] = 0 => indexed = {}
              /\ doc'[r] # 0 => \E x \in indexed : x.text = doc'[r]
              /\ r \notin crossed' => Cardinality(indexed) <= 1
          BY <1>1, <4>1, <4>2 DEF indexed
        <4> QED
          BY <4>3 DEF indexed
      <3> QED
        BY <3>1, <3>2
    <2> QED
      BY <2>1, <2>2 DEF SearchFindsTheText, Found
  <1>14. FactsAccountedFor'
    <2>1. ASSUME NEW t \in Subjects \ crossed'
          PROVE  Cardinality(Duplicates(t)') <= 1
      <3>1. t \in Subjects \ crossed
        BY <1>1, <2>1
      <3> QED
        BY <1>1, <3>1 DEF KInv, FactsAccountedFor, Duplicates
    <2> QED
      BY <1>1, <2>1 DEF KInv, FactsAccountedFor, Duplicates
  <1>15. ASSUME NEW u \in Writers
         PROVE  Knows(writer[u])'
    <2>1. CASE u = w
      BY <1>5, <1>6, <2>1 DEF Knows, Filing, Rewriting, Remembering
    <2>2. CASE u # w
      <3> DEFINE q == writer[u]
      <3>1. writer'[u] = q /\ Knows(q) /\ q \in WriterRow
        BY <1>1, <1>6, <2>2 DEF KInv, KnowledgeTyped
      <3>2. ASSUME q.phase \in Rewriting, q.ref \notin crossed'
            PROVE  q.gone = {x \in chunk' : x.ref = q.ref}
        <4>1. q.gone = Indexed(q.ref)
          BY <1>1, <3>1, <3>2 DEF Knows
        <4>2. q.ref # ref
          <5>1. CASE q.phase = "deleting"
            BY <1>1, <2>2, <3>2, <5>1 DEF Overlapped, In
          <5>2. CASE q.phase = "embedding"
            BY <1>1, <2>2, <5>2 DEF KInv, Exclusive, In, Holds
          <5> QED
            BY <3>2, <5>1, <5>2 DEF Rewriting
        <4> QED
          BY <1>10, <4>1, <4>2
      <3>3. Duplicates(q.topic)' = Duplicates(writer'[u].topic)
        BY <1>1, <3>1 DEF Duplicates
      <3> QED
        BY <1>1, <3>1, <3>2, <3>3 DEF Knows, Indexed, Duplicates
    <2> QED
      BY <2>1, <2>2
  <1>16. Exclusive'
    BY <1>5, <1>6 DEF KInv, Exclusive, In, Holds
  <1> QED
    BY <1>1, <1>12, <1>13, <1>14, <1>15, <1>16 DEF KInv, Live, Retired

-----------------------------------------------------------------------------
(* The invariant                                                            *)

LEMMA KInit ==
  ASSUME KnowledgeInit
  PROVE  KInv
  <1> USE DEF KnowledgeInit
  <1>1. \A w \in Writers : writer[w] = Resting
    OBVIOUS
  <1>2. KnowledgeTyped
    <2>1. /\ ended \in Nat /\ doc \in [Refs -> Nat] /\ chunk \in SUBSET ChunkRow
          /\ IsFiniteSet(chunk) /\ search \in [under_way : BOOLEAN, ids : SUBSET Nat, kept : SUBSET Refs]
      BY FS_EmptySet DEF NoSearch
    <2>2. fact \in Seq(FactRow) /\ Len(fact) <= MaxFacts
      OBVIOUS
    <2>3. writer \in [Writers -> WriterRow]
      BY RestingRow
    <2> QED
      BY <2>1, <2>2, <2>3 DEF KnowledgeTyped
  <1>3. SearchFindsTheText
    <2>1. \A r \in Refs : doc[r] = 0 /\ {x \in chunk : x.ref = r} = {}
      OBVIOUS
    <2> QED
      BY <2>1, FS_EmptySet DEF SearchFindsTheText, NoSearch
  <1>4. DOMAIN fact = {}
    OBVIOUS
  <1>5. FactsAccountedFor
    <2>1. ASSUME NEW t \in Subjects
          PROVE  Cardinality(Duplicates(t)) <= 1
      <3>1. Duplicates(t) = {}
        BY <1>4 DEF Duplicates
      <3> QED
        BY <3>1, FS_EmptySet
    <2> QED
      BY <1>4, <2>1 DEF FactsAccountedFor
  <1>6. \A w \in Writers : Knows(writer[w])
    BY <1>1 DEF Knows, Resting, Filing, Rewriting, Remembering
  <1>7. Exclusive
    BY <1>1 DEF Exclusive, In, Resting
  <1> QED
    BY <1>2, <1>3, <1>4, <1>5, <1>6, <1>7 DEF KInv

LEMMA KStep ==
  ASSUME KInv, [KnowledgeNext]_knowledge
  PROVE  KInv'
  <1>1. CASE UNCHANGED knowledge
    <2>1. UNCHANGED <<ended, doc, chunk, fact, writer, search, writes, crossed>>
      BY <1>1 DEF knowledge
    <2>2. KnowledgeTyped' /\ SearchFindsTheText'
      <3>1. KnowledgeTyped'
        BY <2>1 DEF KInv, KnowledgeTyped
      <3>2. SearchFindsTheText'
        BY <2>1 DEF KInv, SearchFindsTheText, Found
      <3> QED
        BY <3>1, <3>2
    <2>5. FactsAccountedFor'
      BY <2>1 DEF KInv, FactsAccountedFor, Duplicates
    <2>3. \A w \in Writers : Knows(writer[w])'
      BY <2>1 DEF KInv, Knows, Duplicates, Indexed
    <2>4. Exclusive'
      BY <2>1 DEF KInv, Exclusive, In, Holds
    <2> QED
      BY <2>1, <2>2, <2>3, <2>4, <2>5 DEF KInv, Live, Retired
  <1>2. CASE CaseEnds
    BY <1>2, CaseEndsStep
  <1>3. CASE Ranks \/ Fetches
    BY <1>3, SearchStep
  <1>4. ASSUME NEW i \in DOMAIN fact, supersede(i)
        PROVE  KInv'
    BY <1>4, SupersedeStep
  <1>5. ASSUME NEW w \in Writers, WriterStep(w)
        PROVE  KInv'
    <2>1. CASE Selects(w) \/ BeginsDelete(w) \/ Deletes(w) \/ Inserts(w) \/ extract_facts(w)
      BY <2>1, EasySteps
    <2>2. CASE Indexes(w)
      BY <2>2, IndexesStep
    <2>3. CASE list_memory(w)
      BY <2>3, list_memoryStep
    <2>4. CASE add_fact(w)
      BY <2>4, AddStep
    <2> QED
      BY <1>5, <2>1, <2>2, <2>3, <2>4 DEF WriterStep
  <1>6. ASSUME NEW w \in Writers,
               \/ write_for_case(w) \/ Fails(w)
               \/ \E ref \in Papers, text \in 1..MaxVersion : create_document(w, ref, text)
               \/ \E topic \in Subjects, conf \in Confidences : add_memory(w, topic, conf)
        PROVE  KInv'
    BY <1>6, EasySteps
  <1> QED
    BY <1>1, <1>2, <1>3, <1>4, <1>5, <1>6 DEF KnowledgeNext

\* Rows, writers and searches stay well formed, and what a writer goes by stays true.
THEOREM KnowledgeInvariant == KnowledgeSpec => []KInv
  BY KInit, KStep, PTL DEF KnowledgeSpec

\* A search whose chunks are ranked while documents change finds the present text of each
\* document that nobody rewrote meanwhile, and nothing stale unless two writers crossed.
THEOREM SearchCorrect == KnowledgeSpec => []SearchFindsTheText
  <1>1. KInv => SearchFindsTheText
    BY DEF KInv
  <1> QED
    BY <1>1, KnowledgeInvariant, PTL

\* A remembered fact is replaced only by one as sure on the same topic, and no topic has
\* two that are live unless two writers of it did not see each other.
THEOREM FactsCorrect == KnowledgeSpec => []FactsAccountedFor
  <1>1. KInv => FactsAccountedFor
    BY DEF KInv
  <1> QED
    BY <1>1, KnowledgeInvariant, PTL
=============================================================================
