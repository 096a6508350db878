------------------------ MODULE CommunicationProofs ------------------------
(***************************************************************************)
(* What holds of sending and receiving for any number of keys, calls,      *)
(* mails, passes and analysts, through any number of failures and crashes. *)
(***************************************************************************)
EXTENDS Communication, SequenceTheorems, TLAPS

USE CommunicationAssumption

\* What is there once a request or a row has got so far.
Filled ==
  /\ \A s \in Calls : send[s].phase # "idle" =>
       send[s].key \in Keys /\ send[s].case \in Cases /\ send[s].thread \in Messages
  /\ \A p \in Passes : pass[p].phase = "reading" =>
       pass[p].todo # <<>> /\ pass[p].thread \in Messages
  /\ \A a \in Analysts : link[a].phase # "idle" =>
       link[a].mail \in Mails /\ link[a].case \in Cases /\ Stored(link[a].mail)
  /\ \A x \in Messages : Stored(x) => row[x].thread \in Messages

\* One call at most is past the INSERT of a key; the mail server has what it was given
\* and nothing before.
Sending(s) == send[s].phase \in {"queued", "taken", "error"}
SendInv ==
  /\ \A s \in Calls : Sending(s) => Stored(send[s].key)
  /\ \A s, q \in Calls : Sending(s) /\ Sending(q) /\ send[s].key = send[q].key => s = q
  /\ \A s \in Calls : send[s].phase = "queued" => ~InInbox(send[s].key)
  /\ \A s \in Calls : send[s].phase = "taken" => InInbox(send[s].key)

IInv == TypeOK /\ Filled /\ SendInv /\ MailedOnce /\ NoSilentGap

LEMMA Nothing ==
  NoRow \in MessageRow /\ NoSend \in SendRow /\ Rest \in PassRow /\ NoLink \in LinkRow
  BY DEF NoRow, NoSend, Rest, NoLink, MessageRow, SendRow, PassRow, LinkRow, Status

-----------------------------------------------------------------------------
(* The mailbox only grows at its end. *)

LEMMA Delivered ==
  ASSUME inbox \in Seq(Messages), NEW x \in Messages, inbox' = Append(inbox, x)
  PROVE  /\ inbox' \in Seq(Messages)
         /\ \A y \in Messages : InInbox(y)' <=> InInbox(y) \/ y = x
         /\ DOMAIN inbox \subseteq DOMAIN inbox'
         /\ \A i \in DOMAIN inbox : inbox'[i] = inbox[i]
         /\ \A i \in DOMAIN inbox' \ DOMAIN inbox : inbox'[i] = x /\ i = Len(inbox) + 1
  <1>1. /\ Len(inbox') = Len(inbox) + 1
        /\ DOMAIN inbox = 1..Len(inbox) /\ DOMAIN inbox' = 1..Len(inbox')
        /\ Len(inbox) \in Nat
        /\ inbox'[Len(inbox) + 1] = x
        /\ \A i \in 1..Len(inbox) : inbox'[i] = inbox[i]
    OBVIOUS
  <1>2. inbox' \in Seq(Messages)
    OBVIOUS
  <1>3. \A y \in Messages : InInbox(y)' <=> InInbox(y) \/ y = x
    BY <1>1 DEF InInbox
  <1> QED
    BY <1>1, <1>2, <1>3

\* What is said of our own mails survives a step that leaves them, the mailbox and the
\* calls alone.
LEMMA OthersStep ==
  ASSUME IInv, UNCHANGED <<inbox, send>>, \A k \in Keys : row'[k] = row[k],
         \A k \in Keys : k \in answered' => k \in answered \/ Stored(k),
         TypeOK', faults' >= faults
  PROVE  SendInv' /\ MailedOnce' /\ NoSilentGap'
  <1>1. \A s \in Calls : Sending(s) => send[s].key \in Keys
    BY DEF IInv, Filled, Sending
  <1>2. SendInv'
    BY <1>1 DEF IInv, SendInv, Sending, Stored, InInbox
  <1>3. MailedOnce'
    BY DEF IInv, MailedOnce
  <1>4. NoSilentGap'
    BY DEF IInv, NoSilentGap, UnderWay, InInbox, Stored, TypeOK
  <1> QED
    BY <1>2, <1>3, <1>4

-----------------------------------------------------------------------------
(* The poller *)

LEMMA PassStep ==
  ASSUME IInv, NEW p \in Passes, NEW q \in PassRow,
         pass' = [pass EXCEPT ![p] = q],
         Len(q.todo) <= Window,
         q.phase = "reading" => q.todo # <<>> /\ q.thread \in Messages,
         UNCHANGED <<tables, mailbox, send, link, answered>>,
         faults' \in 0..MaxFaults, faults' >= faults
  PROVE  IInv'
  <1>1. /\ UNCHANGED <<row, threads, threadCase, inbox, letter, send, link, answered>>
        /\ pass \in [Passes -> PassRow]
    BY DEF TypeOK, tables, mailbox, IInv
  <1>2. /\ pass' \in [Passes -> PassRow]
        /\ pass'[p] = q /\ \A o \in Passes \ {p} : pass'[o] = pass[o]
    BY <1>1
  <1>3. TypeOK
    BY DEF IInv
  <1>4. TypeOK'
    <2>1. \A o \in Passes : Len(pass'[o].todo) <= Window
      BY <1>2, <1>3 DEF TypeOK
    <2> QED
      BY <1>1, <1>2, <1>3, <2>1 DEF TypeOK
  <1>5. Filled'
    BY <1>1, <1>2 DEF IInv, Filled, Stored
  <1> QED
    BY <1>1, <1>4, <1>5, OthersStep DEF IInv

LEMMA RestingFits == Len(Rest.todo) <= Window /\ Rest.phase # "reading"
  BY DEF Rest

LEMMA ListedFits ==
  ASSUME inbox \in Seq(Messages)
  PROVE  Listed \in Seq(Messages) /\ Len(Listed) <= Window
  <1>1. Len(inbox) \in Nat /\ DOMAIN inbox = 1..Len(inbox)
    OBVIOUS
  <1>2. Size \in Nat /\ Size <= Len(inbox) /\ Size <= Window
    BY <1>1 DEF Size
  <1>3. \A i \in 1..Size : Len(inbox) + 1 - i \in DOMAIN inbox
    BY <1>1, <1>2
  <1>4. \A i \in 1..Size : inbox[Len(inbox) + 1 - i] \in Messages
    BY <1>3, ElementOfSeq
  <1>5. Listed \in [1..Size -> Messages]
    BY <1>4 DEF Listed
  <1> QED
    BY <1>2, <1>5, LenProperties

LEMMA ListsInductive ==
  ASSUME IInv, NEW p \in Passes, Lists(p)
  PROVE  IInv'
  <1> DEFINE q == [Rest EXCEPT !.phase = "scanning", !.todo = Listed]
  <1>1. Listed \in Seq(Messages) /\ Len(Listed) <= Window
    BY ListedFits DEF TypeOK, IInv
  <1>2. q \in PassRow /\ q.phase = "scanning" /\ q.todo = Listed
    BY <1>1 DEF Rest, PassRow
  <1>3. pass' = [pass EXCEPT ![p] = q] /\ UNCHANGED <<tables, mailbox, send, link, answered>>
    BY DEF Lists
  <1>4. faults' \in 0..MaxFaults /\ faults' >= faults
    BY DEF TypeOK, Lists, IInv
  <1> HIDE DEF q
  <1> QED
    BY <1>1, <1>2, <1>3, <1>4, PassStep

LEMMA ReadsInductive ==
  ASSUME IInv, NEW p \in Passes, Reads(p)
  PROVE  IInv'
  <1>1. PICK i \in DOMAIN pass[p].todo, t \in Messages, c \in Cases \cup {None} :
          pass' = [pass EXCEPT ![p] =
            [phase |-> "reading", thread |-> t, case |-> c,
             todo |-> SubSeq(pass[p].todo, i, Len(pass[p].todo))]]
    BY DEF Reads
  <1> DEFINE s == pass[p].todo
             u == SubSeq(s, i, Len(s))
             q == [phase |-> "reading", thread |-> t, case |-> c, todo |-> u]
  <1>2. s \in Seq(Messages) /\ Len(s) <= Window
    BY DEF TypeOK, IInv, PassRow
  <1>3. u \in Seq(Messages) /\ Len(u) = Len(s) - i + 1 /\ i \in 1..Len(s)
    BY <1>2, SubSeqProperties
  <1>4. u # <<>> /\ Len(u) <= Window
    <2> HIDE DEF u, s
    <2>1. Len(s) \in Nat /\ Len(u) > 0 /\ Len(u) <= Window
      BY <1>2, <1>3
    <2> QED
      BY <1>3, <2>1
  <1>5. q \in PassRow
    BY <1>3 DEF PassRow
  <1>6. UNCHANGED <<tables, mailbox, send, link, answered>>
        /\ faults' \in 0..MaxFaults /\ faults' >= faults
    BY DEF TypeOK, Reads, IInv
  <1> QED
    BY <1>1, <1>4, <1>5, <1>6, PassStep

LEMMA RestInductive ==
  ASSUME IInv, NEW p \in Passes,
         Ends(p) \/ Aborts(p) \/ \E m \in Mails : Collides(p, m)
  PROVE  IInv'
  <1>1. pass' = [pass EXCEPT ![p] = Rest] /\ UNCHANGED <<tables, mailbox, send, link, answered>>
    BY DEF Ends, Aborts, Collides
  <1>2. faults' \in 0..MaxFaults /\ faults' >= faults
    BY DEF TypeOK, Ends, Aborts, Collides, Fault, IInv
  <1> QED
    BY <1>1, <1>2, Nothing, RestingFits, PassStep

\* A message and its thread; nothing is said of the rows of others.
LEMMA Inserted ==
  ASSUME TypeOK, NEW x \in Messages, NEW r \in MessageRow, Insert(x, r)
  PROVE  /\ row' \in [Messages -> MessageRow]
         /\ row'[x] = r /\ \A y \in Messages \ {x} : row'[y] = row[y]
         /\ threads' \in Seq(Messages)
         /\ threadCase' \in [Messages -> Cases \cup {None}]
  <1>1. r.case \in Cases \cup {None}
    BY DEF MessageRow
  <1> QED
    BY <1>1 DEF TypeOK, Insert

LEMMA IngestsInductive ==
  ASSUME IInv, NEW p \in Passes, NEW m \in Mails, Ingests(p, m)
  PROVE  IInv'
  <1> DEFINE r == [status |-> IF pass[p].case = None THEN "UNLINKED" ELSE "RECEIVED",
                   thread |-> pass[p].thread, case |-> pass[p].case, refs |-> letter[m].refs]
             q == [Rest EXCEPT !.phase = "scanning", !.todo = Tail(pass[p].todo)]
  <1>1. TypeOK /\ m \in Messages /\ m \notin Keys /\ pass[p] \in PassRow /\ letter[m] \in Letter
    BY DEF TypeOK, IInv, Messages
  <1>2. pass[p].todo # <<>> /\ pass[p].thread \in Messages
    BY DEF IInv, Filled, Ingests, Ingesting
  <1>3. r \in MessageRow /\ r.status # "none" /\ r.thread \in Messages
    BY <1>1, <1>2 DEF MessageRow, PassRow, Letter, Status
  <1>4. q \in PassRow /\ q.phase = "scanning" /\ Len(q.todo) <= Window
    <2>1. pass[p].todo \in Seq(Messages) /\ Len(pass[p].todo) <= Window
      BY <1>1 DEF TypeOK, PassRow
    <2>2. Tail(pass[p].todo) \in Seq(Messages) /\ Len(Tail(pass[p].todo)) <= Window
      BY <1>2, <2>1, HeadTailProperties
    <2> QED
      BY <2>2 DEF Rest, PassRow
  <1>5. /\ Insert(m, r) /\ pass' = [pass EXCEPT ![p] = q]
        /\ UNCHANGED <<inbox, letter, send, link, answered, faults>>
    BY DEF Ingests, mailbox
  <1> HIDE DEF r, q
  <1>6. /\ row' \in [Messages -> MessageRow]
        /\ row'[m] = r /\ \A y \in Messages \ {m} : row'[y] = row[y]
        /\ threads' \in Seq(Messages)
        /\ threadCase' \in [Messages -> Cases \cup {None}]
    BY <1>1, <1>3, <1>5, Inserted
  <1>7. /\ pass' \in [Passes -> PassRow] /\ pass'[p] = q
        /\ \A o \in Passes \ {p} : pass'[o] = pass[o]
    BY <1>1, <1>4, <1>5 DEF TypeOK
  <1>8. TypeOK'
    <2>1. \A o \in Passes : Len(pass'[o].todo) <= Window
      BY <1>1, <1>4, <1>7 DEF TypeOK
    <2> QED
      BY <1>1, <1>5, <1>6, <1>7, <2>1 DEF TypeOK
  <1>9. Filled'
    <2>1. \A x \in Messages : Stored(x) => Stored(x)'
      BY <1>3, <1>6 DEF Stored
    <2>2. \A x \in Messages : Stored(x)' => row'[x].thread \in Messages
      BY <1>3, <1>6 DEF Stored, IInv, Filled
    <2> QED
      BY <1>4, <1>5, <1>7, <2>1, <2>2 DEF IInv, Filled, Messages
  <1>10. faults' >= faults /\ \A k \in Keys : row'[k] = row[k]
    BY <1>1, <1>5, <1>6 DEF TypeOK, Messages
  <1> QED
    BY <1>5, <1>8, <1>9, <1>10, OthersStep DEF IInv

-----------------------------------------------------------------------------
(* Analysts *)

LEMMA LinkStep ==
  ASSUME IInv, NEW a \in Analysts, NEW q \in LinkRow,
         link' = [link EXCEPT ![a] = q],
         q.phase # "idle" => q.mail \in Mails /\ q.case \in Cases /\ Stored(q.mail),
         UNCHANGED <<tables, mailbox, send, pass, answered, faults>>
  PROVE  IInv'
  <1>1. /\ UNCHANGED <<row, threads, threadCase, inbox, letter, send, pass, answered, faults>>
        /\ TypeOK
    BY DEF tables, mailbox, IInv
  <1>2. /\ link' \in [Analysts -> LinkRow] /\ link'[a] = q
        /\ \A o \in Analysts \ {a} : link'[o] = link[o]
    BY <1>1 DEF TypeOK
  <1>3. TypeOK'
    BY <1>1, <1>2 DEF TypeOK
  <1>4. Filled'
    BY <1>1, <1>2 DEF IInv, Filled, Stored
  <1>5. faults' >= faults
    BY <1>1 DEF TypeOK
  <1> QED
    BY <1>1, <1>3, <1>4, <1>5, OthersStep DEF IInv

LEMMA RelinkInductive ==
  ASSUME IInv, NEW a \in Analysts, relink_message(a)
  PROVE  IInv'
  <1>1. ASSUME NEW m \in Mails, NEW c \in Cases, Chooses(a, m, c)
        PROVE  IInv'
    <2> DEFINE q == [phase |-> "asking", mail |-> m, case |-> c, free |-> FALSE]
    <2>1. q \in LinkRow
      BY DEF LinkRow
    <2>2. Stored(m) /\ link' = [link EXCEPT ![a] = q]
      BY <1>1 DEF Chooses, Unlinked
    <2> QED
      BY <1>1, <2>1, <2>2, LinkStep DEF Chooses
  <1>2. CASE ReadsThread(a)
    <2> DEFINE q == [link[a] EXCEPT !.phase = "linking",
                       !.free = threadCase[row[link[a].mail].thread] = None]
    <2>1. link[a] \in LinkRow /\ link[a].phase # "idle"
      BY <1>2 DEF TypeOK, IInv, ReadsThread
    <2>2. q \in LinkRow /\ q.mail = link[a].mail /\ q.case = link[a].case
      BY <2>1 DEF LinkRow
    <2>3. link' = [link EXCEPT ![a] = q]
      BY <1>2, <2>1 DEF ReadsThread, LinkRow
    <2>4. q.mail \in Mails /\ q.case \in Cases /\ Stored(q.mail)
      BY <2>1, <2>2 DEF IInv, Filled
    <2> QED
      BY <1>2, <2>2, <2>3, <2>4, LinkStep DEF ReadsThread
  <1>3. CASE Links(a)
    <2> DEFINE m == link[a].mail
               c == link[a].case
               r == [row[m] EXCEPT !.case = c, !.status = "RECEIVED"]
    <2>1. TypeOK /\ m \in Mails /\ m \in Messages /\ c \in Cases /\ Stored(m)
          /\ row[m].thread \in Messages
      BY <1>3 DEF IInv, Filled, Links, Messages
    <2>2. /\ row' = [row EXCEPT ![m] = r]
          /\ threadCase' \in {threadCase, [threadCase EXCEPT ![row[m].thread] = c]}
          /\ link' = [link EXCEPT ![a] = NoLink]
          /\ UNCHANGED <<threads, inbox, letter, send, pass, answered, faults>>
      BY <1>3 DEF Links, mailbox
    <2>3. row[m] \in MessageRow
      BY <2>1 DEF TypeOK
    <2>4. r \in MessageRow /\ r.status = "RECEIVED" /\ r.thread = row[m].thread
      BY <2>1, <2>3 DEF MessageRow, Status
    <2> HIDE DEF r, m, c
    <2>5. /\ row' \in [Messages -> MessageRow] /\ row'[m] = r
          /\ \A x \in Messages \ {m} : row'[x] = row[x]
      BY <2>1, <2>2, <2>4 DEF TypeOK
    <2>6. threadCase' \in [Messages -> Cases \cup {None}]
      BY <2>1, <2>2 DEF TypeOK
    <2>7. /\ link' \in [Analysts -> LinkRow] /\ link'[a] = NoLink
          /\ \A o \in Analysts \ {a} : link'[o] = link[o]
      BY <2>1, <2>2, Nothing DEF TypeOK
    <2>8. TypeOK'
      BY <2>1, <2>2, <2>5, <2>6, <2>7 DEF TypeOK
    <2>9. Filled'
      <3>1. \A x \in Messages : Stored(x) => Stored(x)'
        BY <2>4, <2>5 DEF Stored
      <3>2. \A x \in Messages : Stored(x)' => row'[x].thread \in Messages
        BY <2>1, <2>4, <2>5 DEF Stored, IInv, Filled
      <3> QED
        BY <2>2, <2>7, <3>1, <3>2 DEF IInv, Filled, Messages, NoLink
    <2>10. faults' >= faults /\ \A k \in Keys : row'[k] = row[k]
      BY <2>1, <2>2, <2>5 DEF TypeOK, Messages
    <2> QED
      BY <2>2, <2>8, <2>9, <2>10, OthersStep DEF IInv
  <1> QED
    BY <1>1, <1>2, <1>3 DEF relink_message

-----------------------------------------------------------------------------
(* Customers *)

LEMMA WritesInductive ==
  ASSUME IInv, NEW m \in Mails, Writes(m)
  PROVE  IInv'
  <1>1. /\ TypeOK /\ m \in Messages /\ m \notin Keys
        /\ inbox' = Append(inbox, m)
        /\ UNCHANGED <<row, threads, threadCase, send, pass, link, answered, faults>>
    BY DEF IInv, Messages, Writes, tables
  <1>2. PICK l \in Letters(m) \cup {letter[x] : x \in {y \in Mails : InInbox(y)}} :
          letter' = [letter EXCEPT ![m] = l]
    BY DEF Writes
  <1>3. l \in Letter
    <2>1. \A x \in Messages : Refs(x) \subseteq Messages
      BY <1>1 DEF TypeOK, MessageRow, Letter, Refs, IdOf, Messages
    <2> QED
      BY <1>1, <2>1 DEF TypeOK, Letters, Letter
  <1>4. /\ inbox' \in Seq(Messages)
        /\ \A y \in Messages : InInbox(y)' <=> InInbox(y) \/ y = m
        /\ DOMAIN inbox \subseteq DOMAIN inbox'
        /\ \A i \in DOMAIN inbox : inbox'[i] = inbox[i]
        /\ \A i \in DOMAIN inbox' \ DOMAIN inbox : inbox'[i] = m
    BY <1>1, Delivered DEF TypeOK
  <1>5. TypeOK'
    BY <1>1, <1>2, <1>3, <1>4 DEF TypeOK
  <1>6. Filled'
    BY <1>1 DEF IInv, Filled, Stored
  <1>7. \A k \in Keys : k \in Messages /\ k # m /\ (InInbox(k)' <=> InInbox(k))
    BY <1>1, <1>4 DEF Messages
  <1>8. SendInv'
    <2>1. \A s \in Calls : Sending(s) => send[s].key \in Keys
      BY DEF IInv, Filled, Sending
    <2> QED
      BY <1>1, <1>7, <2>1 DEF IInv, SendInv, Sending, Stored
  <1>9. MailedOnce'
    BY <1>1, <1>4 DEF IInv, MailedOnce
  <1>10. NoSilentGap'
    BY <1>1, <1>7 DEF IInv, NoSilentGap, UnderWay, Stored
  <1> QED
    BY <1>5, <1>6, <1>8, <1>9, <1>10 DEF IInv

-----------------------------------------------------------------------------
(* send_email *)

LEMMA FindsInductive ==
  ASSUME IInv, NEW s \in Calls, NEW k \in Keys, Finds(s, k)
  PROVE  IInv'
  <1>1. /\ UNCHANGED <<row, threads, threadCase, inbox, letter, send, pass, link, faults>>
        /\ answered' = answered \cup {k}
    BY DEF Finds, tables, mailbox
  <1>2. TypeOK'
    BY <1>1 DEF IInv, TypeOK
  <1>3. Filled'
    BY <1>1 DEF IInv, Filled, Stored
  <1>4. \A j \in Keys : j \in answered' => j \in answered \/ Stored(j)
    BY <1>1 DEF Finds
  <1> QED
    BY <1>1, <1>2, <1>3, <1>4, OthersStep DEF IInv, TypeOK

\* A call that is not past its INSERT, before and after the step, changes nothing else.
LEMMA SendStep ==
  ASSUME IInv, NEW s \in Calls, NEW q \in SendRow,
         send' = [send EXCEPT ![s] = q],
         ~Sending(s), q.phase \in {"idle", "prepared"},
         q.phase # "idle" => q.key \in Keys /\ q.case \in Cases /\ q.thread \in Messages,
         UNCHANGED <<tables, mailbox, pass, link, answered, faults>>
  PROVE  IInv'
  <1>1. /\ UNCHANGED <<row, threads, threadCase, inbox, letter, pass, link, answered, faults>>
        /\ TypeOK
    BY DEF tables, mailbox, IInv
  <1>2. /\ send' \in [Calls -> SendRow] /\ send'[s] = q
        /\ \A o \in Calls \ {s} : send'[o] = send[o]
    BY <1>1 DEF TypeOK
  <1>3. TypeOK'
    BY <1>1, <1>2 DEF TypeOK
  <1>4. Filled'
    BY <1>1, <1>2 DEF IInv, Filled, Stored
  <1>5. ~Sending(s)' /\ \A o \in Calls \ {s} : Sending(o)' <=> Sending(o)
    BY <1>2 DEF Sending
  <1>6. SendInv'
    BY <1>1, <1>2, <1>5 DEF IInv, SendInv, Stored, InInbox, Sending
  <1>7. MailedOnce'
    BY <1>1 DEF IInv, MailedOnce
  <1>8. NoSilentGap'
    <2>1. \A k \in Keys : UnderWay(k) => UnderWay(k)'
      BY <1>2 DEF UnderWay, Sending
    <2> QED
      BY <1>1, <2>1 DEF IInv, NoSilentGap, Stored, InInbox
  <1> QED
    BY <1>3, <1>4, <1>6, <1>7, <1>8 DEF IInv

LEMMA PreparesInductive ==
  ASSUME IInv, NEW s \in Calls, NEW k \in Keys, NEW c \in Cases, Prepares(s, k, c)
  PROVE  IInv'
  <1>1. PICK parents \in {{x} : x \in {y \in Messages : Stored(y)}} \cup {{}}, t \in Messages :
          send' = [send EXCEPT ![s] = [phase |-> "prepared", key |-> k, case |-> c,
                     refs |-> {IdOf(x) : x \in parents}, thread |-> t]]
    BY DEF Prepares
  <1> DEFINE q == [phase |-> "prepared", key |-> k, case |-> c,
                   refs |-> {IdOf(x) : x \in parents}, thread |-> t]
  <1>2. \A x \in Messages : IdOf(x) \in Messages
    BY DEF IInv, TypeOK, Letter, IdOf, Messages
  <1>3. q \in SendRow
    <2>1. {IdOf(x) : x \in parents} \subseteq Messages
      BY <1>2
    <2> QED
      BY <2>1 DEF SendRow
  <1>4. ~Sending(s) /\ UNCHANGED <<tables, mailbox, pass, link, answered, faults>>
    BY DEF Prepares, Sending
  <1>5. q.phase = "prepared" /\ q.key = k /\ q.case = c /\ q.thread = t
    OBVIOUS
  <1>6. send' = [send EXCEPT ![s] = q]
    BY <1>1
  <1> HIDE DEF q
  <1> QED
    BY <1>3, <1>4, <1>5, <1>6, SendStep

LEMMA RefusedInductive ==
  ASSUME IInv, NEW s \in Calls, Refused(s)
  PROVE  IInv'
  <1>1. ~Sending(s) /\ send' = [send EXCEPT ![s] = NoSend]
        /\ UNCHANGED <<tables, mailbox, pass, link, answered, faults>>
    BY DEF Refused, Sending
  <1>2. NoSend \in SendRow /\ NoSend.phase = "idle"
    BY Nothing DEF NoSend
  <1> QED
    BY <1>1, <1>2, SendStep

\* What every step of a call past its INSERT starts from.
LEMMA SendingFacts ==
  ASSUME IInv, NEW s \in Calls, send[s].phase # "idle"
  PROVE  /\ TypeOK /\ send[s] \in SendRow
         /\ send[s].key \in Keys /\ send[s].key \in Messages
         /\ send[s].thread \in Messages /\ send[s].case \in Cases
         /\ row[send[s].key] \in MessageRow
         /\ \A o \in Calls : Sending(o) => send[o].key \in Keys
  <1>1. TypeOK
    BY DEF IInv
  <1>2. \A o \in Calls : Sending(o) => send[o].phase # "idle"
    BY DEF Sending
  <1>3. send[s].key \in Keys /\ send[s].thread \in Messages /\ send[s].case \in Cases
        /\ \A o \in Calls : Sending(o) => send[o].key \in Keys
    BY <1>2 DEF IInv, Filled
  <1> QED
    BY <1>1, <1>3 DEF TypeOK, Messages

LEMMA QueuesInductive ==
  ASSUME IInv, NEW s \in Calls, Queues(s)
  PROVE  IInv'
  <1>k. PICK k \in Keys : k = send[s].key
    BY SendingFacts DEF Queues
  <1> DEFINE r == [status |-> "QUEUED", thread |-> send[s].thread,
                   case |-> send[s].case, refs |-> send[s].refs]
             q == [send[s] EXCEPT !.phase = "queued"]
  <1>1. send[s].phase = "prepared" /\ ~Stored(k) /\ Insert(k, r)
        /\ UNCHANGED <<inbox, letter, pass, link, answered, faults>>
    BY <1>k DEF Queues, UniqueKey, mailbox
  <1>2. /\ TypeOK /\ send[s] \in SendRow /\ k \in Keys /\ k \in Messages
        /\ send[s].thread \in Messages /\ send[s].case \in Cases
        /\ \A o \in Calls : Sending(o) => send[o].key \in Keys
    BY <1>k, <1>1, SendingFacts
  <1>3. r \in MessageRow /\ r.status = "QUEUED" /\ r.thread \in Messages
    BY <1>2 DEF MessageRow, SendRow, Status
  <1>4. q \in SendRow /\ q.phase = "queued" /\ q.key = k /\ q.case \in Cases /\ q.thread \in Messages
    BY <1>k, <1>2 DEF SendRow
  <1>5. send' = [send EXCEPT ![s] = q]
    BY <1>2 DEF Queues, TypeOK
  <1> HIDE DEF r, q
  <1>6. /\ row' \in [Messages -> MessageRow]
        /\ row'[k] = r /\ \A y \in Messages \ {k} : row'[y] = row[y]
        /\ threads' \in Seq(Messages)
        /\ threadCase' \in [Messages -> Cases \cup {None}]
    BY <1>1, <1>2, <1>3, Inserted
  <1>7. /\ send' \in [Calls -> SendRow] /\ send'[s] = q
        /\ \A o \in Calls \ {s} : send'[o] = send[o]
    BY <1>2, <1>4, <1>5 DEF TypeOK
  <1>8. TypeOK'
    BY <1>1, <1>2, <1>6, <1>7 DEF TypeOK
  <1>9. \A x \in Messages : Stored(x)' <=> Stored(x) \/ x = k
    BY <1>3, <1>6 DEF Stored
  <1>10. Filled'
    <2>1. \A x \in Messages : Stored(x)' => row'[x].thread \in Messages
      BY <1>3, <1>6, <1>9 DEF IInv, Filled
    <2> QED
      BY <1>1, <1>2, <1>4, <1>7, <1>9, <2>1 DEF IInv, Filled, Messages
  <1>11. ~Sending(s) /\ \A o \in Calls : Sending(o)' <=> Sending(o) \/ o = s
    BY <1>1, <1>4, <1>7 DEF Sending
  <1>12. ~InInbox(k)
    BY <1>1, <1>2 DEF IInv, NoSilentGap
  <1>13. SendInv'
    <2>1. \A o \in Calls \ {s} : Sending(o) => send[o].key # k /\ send[o].key \in Messages
      BY <1>1, <1>2 DEF IInv, SendInv, Messages
    <2> QED
      BY <1>1, <1>2, <1>4, <1>7, <1>9, <1>11, <1>12, <2>1 DEF IInv, SendInv, InInbox, Sending
  <1>14. MailedOnce'
    BY <1>1 DEF IInv, MailedOnce
  <1>15. NoSilentGap'
    <2>1. UnderWay(k)'
      BY <1>4, <1>7 DEF UnderWay
    <2>2. \A x \in Keys : UnderWay(x) => UnderWay(x)'
      BY <1>7, <1>11 DEF UnderWay, Sending
    <2> QED
      BY <1>1, <1>3, <1>6, <1>9, <2>1, <2>2 DEF IInv, NoSilentGap, InInbox, Messages
  <1> QED
    BY <1>8, <1>10, <1>13, <1>14, <1>15 DEF IInv

\* The server takes the mail, and the call may or may not hear of it.
LEMMA SmtpInductive ==
  ASSUME IInv, NEW s \in Calls, SmtpTakes(s) \/ SmtpFails(s)
  PROVE  IInv'
  <1>1. send[s].phase = "queued"
    BY DEF SmtpTakes, SmtpFails, MayDeliver
  <1>k. PICK k \in Keys : k = send[s].key
    BY <1>1, SendingFacts
  <1>2. /\ TypeOK /\ send[s] \in SendRow /\ k \in Keys /\ k \in Messages
        /\ \A o \in Calls : Sending(o) => send[o].key \in Keys
    BY <1>k, <1>1, SendingFacts
  <1>3. /\ UNCHANGED <<row, threads, threadCase, letter, pass, link, answered>>
        /\ faults' \in 0..MaxFaults /\ faults' >= faults
    BY <1>2 DEF SmtpTakes, SmtpFails, Fault, tables, TypeOK
  <1>4. PICK f \in {"taken", "error"} :
          /\ send' = [send EXCEPT ![s] = [send[s] EXCEPT !.phase = f]]
          /\ inbox' = Append(inbox, k) \/ (inbox' = inbox /\ f = "error")
    <2>1. CASE SmtpTakes(s)
      BY <1>k, <1>2, <2>1 DEF SmtpTakes, TypeOK
    <2>2. CASE SmtpFails(s)
      BY <1>k, <1>2, <2>2 DEF SmtpFails, TypeOK
    <2> QED
      BY <2>1, <2>2
  <1> DEFINE q == [send[s] EXCEPT !.phase = f]
  <1>5. /\ q \in SendRow /\ q.phase = f /\ q.key = k
        /\ q.case = send[s].case /\ q.thread = send[s].thread
    BY <1>k, <1>2 DEF SendRow
  <1>6. /\ send' \in [Calls -> SendRow] /\ send'[s] = q
        /\ \A o \in Calls \ {s} : send'[o] = send[o]
    BY <1>2, <1>4, <1>5 DEF TypeOK
  <1> HIDE DEF q
  <1>7. /\ inbox' \in Seq(Messages)
        /\ \A y \in Messages : InInbox(y)' => InInbox(y) \/ y = k
        /\ \A y \in Messages : InInbox(y) => InInbox(y)'
        /\ f = "taken" => InInbox(k)'
        /\ \A i \in DOMAIN inbox : inbox'[i] = inbox[i]
        /\ \A i \in DOMAIN inbox' \ DOMAIN inbox : inbox'[i] = k /\ i = Len(inbox) + 1
    <2>1. CASE inbox' = inbox /\ f = "error"
      BY <1>2, <2>1 DEF InInbox, TypeOK
    <2>2. CASE inbox' = Append(inbox, k)
      BY <1>2, <2>2, Delivered DEF TypeOK
    <2> QED
      BY <1>4, <2>1, <2>2
  <1>8. TypeOK'
    BY <1>2, <1>3, <1>6, <1>7 DEF TypeOK
  <1>9. Filled'
    BY <1>k, <1>1, <1>2, <1>3, <1>5, <1>6 DEF IInv, Filled, Stored
  <1>10. Sending(s) /\ \A o \in Calls : Sending(o)' <=> Sending(o)
    BY <1>1, <1>4, <1>5, <1>6 DEF Sending
  <1>11. ~InInbox(k) /\ Stored(k)
    BY <1>k, <1>1, <1>10 DEF IInv, SendInv
  <1>12. SendInv'
    <2>1. \A o \in Calls \ {s} : Sending(o) => send[o].key # k /\ send[o].key \in Messages
      BY <1>k, <1>2, <1>10 DEF IInv, SendInv, Messages
    <2>2. \A o \in Calls : Sending(o)' => Stored(send[o].key)' /\ send'[o].key = send[o].key
      BY <1>k, <1>3, <1>5, <1>6, <1>10, <1>11 DEF IInv, SendInv, Stored
    <2>3. \A o, o2 \in Calls : Sending(o)' /\ Sending(o2)' /\ send'[o].key = send'[o2].key => o = o2
      BY <1>10, <2>2 DEF IInv, SendInv
    <2>4. \A o \in Calls : send'[o].phase = "queued" => ~InInbox(send[o].key)'
      <3> SUFFICES ASSUME NEW o \in Calls, send'[o].phase = "queued" PROVE ~InInbox(send[o].key)'
        OBVIOUS
      <3>1. o # s /\ send'[o] = send[o] /\ Sending(o)
        BY <1>4, <1>5, <1>6 DEF Sending
      <3>2. ~InInbox(send[o].key) /\ send[o].key # k /\ send[o].key \in Messages
        BY <2>1, <3>1 DEF IInv, SendInv
      <3>3. \A y \in Messages \ {k} : ~InInbox(y) => ~InInbox(y)'
        BY <1>7
      <3> QED
        BY <3>1, <3>2, <3>3 DEF InInbox
    <2>5. \A o \in Calls : send'[o].phase = "taken" => InInbox(send[o].key)'
      <3> SUFFICES ASSUME NEW o \in Calls, send'[o].phase = "taken" PROVE InInbox(send[o].key)'
        OBVIOUS
      <3>1. CASE o = s
        BY <1>4, <1>5, <1>6, <1>7, <3>1 DEF InInbox
      <3>2. CASE o # s
        <4>1. send'[o] = send[o] /\ Sending(o) /\ InInbox(send[o].key) /\ send[o].key \in Messages
          BY <1>6, <2>1, <3>2 DEF IInv, SendInv, Sending
        <4> QED
          BY <1>7, <4>1 DEF InInbox
      <3> QED
        BY <3>1, <3>2
    <2> QED
      BY <2>2, <2>3, <2>4, <2>5 DEF SendInv
  <1>13. MailedOnce'
    <2>1. \A i \in DOMAIN inbox : inbox[i] # k
      BY <1>11 DEF InInbox
    <2> QED
      BY <1>7, <2>1 DEF IInv, MailedOnce
  <1>14. NoSilentGap'
    <2>1. \A x \in Keys : UnderWay(x) => UnderWay(x)'
      BY <1>k, <1>4, <1>5, <1>6 DEF UnderWay
    <2>2. faults > 0 => faults' > 0
      BY <1>2, <1>3 DEF TypeOK
    <2> QED
      BY <1>3, <1>7, <1>11, <2>1, <2>2 DEF IInv, NoSilentGap, Stored, Messages
  <1> QED
    BY <1>8, <1>9, <1>12, <1>13, <1>14 DEF IInv

LEMMA SettlesInductive ==
  ASSUME IInv, NEW s \in Calls, Settles(s)
  PROVE  IInv'
  <1> DEFINE k == send[s].key
             r == [row[k] EXCEPT !.status = Outcome(s)]
  <1>1. send[s].phase \in {"taken", "error"} /\ send' = [send EXCEPT ![s] = NoSend]
        /\ answered' = answered \cup {k}
        /\ UNCHANGED <<threads, threadCase, inbox, letter, pass, link, faults>>
    BY DEF Settles, mailbox
  <1>2. /\ TypeOK /\ k \in Keys /\ k \in Messages /\ row[k] \in MessageRow
        /\ \A o \in Calls : Sending(o) => send[o].key \in Keys
    BY <1>1, SendingFacts
  <1>3. /\ r \in MessageRow /\ r.status \in {"SENT", "FAILED"} /\ r.thread = row[k].thread
        /\ r.status = "SENT" => send[s].phase = "taken"
    BY <1>2 DEF MessageRow, Outcome, Status
  <1>4. row' = [row EXCEPT ![k] = r]
    BY <1>2 DEF Settles, TypeOK
  <1> HIDE DEF r, k
  <1>5. /\ row' \in [Messages -> MessageRow] /\ row'[k] = r
        /\ \A x \in Messages \ {k} : row'[x] = row[x]
    BY <1>2, <1>3, <1>4 DEF TypeOK
  <1>6. /\ send' \in [Calls -> SendRow] /\ send'[s].phase = "idle"
        /\ \A o \in Calls \ {s} : send'[o] = send[o]
    BY <1>1, <1>2, Nothing DEF TypeOK, NoSend
  <1>7. TypeOK'
    BY <1>1, <1>2, <1>5, <1>6 DEF TypeOK
  <1>8. Sending(s) /\ ~Sending(s)' /\ \A o \in Calls \ {s} : Sending(o)' <=> Sending(o)
    BY <1>1, <1>6 DEF Sending
  <1>9. Stored(k) /\ \A x \in Messages : Stored(x)' <=> Stored(x)
    <2>1. Stored(k)
      BY <1>8 DEF IInv, SendInv, k
    <2> QED
      BY <1>3, <1>5, <2>1 DEF Stored
  <1>10. Filled'
    <2>1. \A x \in Messages : Stored(x)' => row'[x].thread \in Messages
      BY <1>2, <1>3, <1>5, <1>9 DEF IInv, Filled
    <2> QED
      BY <1>1, <1>6, <1>9, <2>1 DEF IInv, Filled, Messages
  <1>11. SendInv'
    BY <1>1, <1>2, <1>6, <1>8, <1>9 DEF IInv, SendInv, InInbox, Messages, Sending
  <1>12. MailedOnce'
    BY <1>1 DEF IInv, MailedOnce
  <1>13. NoSilentGap'
    <2>1. \A x \in Keys \ {k} : UnderWay(x) => UnderWay(x)'
      BY <1>6 DEF UnderWay, k
    <2>2. r.status = "SENT" => InInbox(k)
      BY <1>3 DEF IInv, SendInv, k
    <2> QED
      BY <1>1, <1>2, <1>3, <1>5, <1>9, <2>1, <2>2 DEF IInv, NoSilentGap, InInbox, Messages
  <1> QED
    BY <1>7, <1>10, <1>11, <1>12, <1>13 DEF IInv

-----------------------------------------------------------------------------
(* The whole *)

LEMMA CrashInductive ==
  ASSUME IInv, Crash
  PROVE  IInv'
  <1>1. /\ TypeOK /\ UNCHANGED <<row, threads, threadCase, inbox, letter, answered>>
        /\ faults' = faults + 1 /\ faults' \in 0..MaxFaults
    BY DEF IInv, TypeOK, Crash, Fault, tables, mailbox
  <1>2. /\ send' \in [Calls -> SendRow] /\ \A s \in Calls : send'[s] = NoSend
        /\ pass' \in [Passes -> PassRow] /\ \A p \in Passes : pass'[p] = Rest
        /\ link' \in [Analysts -> LinkRow] /\ \A a \in Analysts : link'[a] = NoLink
    BY Nothing DEF Crash
  <1>3. TypeOK'
    BY <1>1, <1>2, RestingFits DEF TypeOK
  <1>4. Filled'
    <2>1. NoSend.phase = "idle" /\ NoLink.phase = "idle" /\ Rest.phase # "reading"
      BY DEF NoSend, NoLink, Rest
    <2> QED
      BY <1>1, <1>2, <2>1 DEF IInv, Filled, Stored
  <1>5. SendInv'
    <2>1. \A s \in Calls : ~Sending(s)' /\ send'[s].phase = "idle"
      BY <1>2 DEF Sending, NoSend
    <2> QED
      BY <2>1 DEF SendInv
  <1>6. MailedOnce'
    BY <1>1 DEF IInv, MailedOnce
  <1>7. NoSilentGap'
    <2>1. faults' > 0
      BY <1>1, <1>1 DEF TypeOK
    <2> QED
      BY <1>1, <2>1 DEF IInv, NoSilentGap, Stored, InInbox
  <1> QED
    BY <1>3, <1>4, <1>5, <1>6, <1>7 DEF IInv

LEMMA InitInductive == Init => IInv
  <1> SUFFICES ASSUME Init PROVE IInv
    OBVIOUS
  <1>1. TypeOK
    <2>1. \A m \in Mails : [refs |-> {}, names |-> None, id |-> m] \in Letter
      BY DEF Letter
    <2> QED
      BY <2>1, Nothing, RestingFits DEF Init, TypeOK
  <1>2. \A x \in Messages : ~Stored(x) /\ ~InInbox(x) /\ row[x].status = "none"
    BY DEF Init, Stored, InInbox, NoRow
  <1>3. Filled
    BY <1>2 DEF Init, Filled, NoSend, NoLink, Rest
  <1>4. SendInv
    BY DEF Init, SendInv, Sending, NoSend
  <1>5. MailedOnce
    BY DEF Init, MailedOnce
  <1>6. NoSilentGap
    BY <1>2 DEF Init, NoSilentGap, Messages
  <1> QED
    BY <1>1, <1>3, <1>4, <1>5, <1>6 DEF IInv

LEMMA StepInductive == IInv /\ [Next]_vars => IInv'
  <1> SUFFICES ASSUME IInv, [Next]_vars PROVE IInv'
    OBVIOUS
  <1>1. ASSUME NEW m \in Mails, Writes(m) PROVE IInv'
    BY <1>1, WritesInductive
  <1>2. ASSUME NEW s \in Calls, send_email(s) PROVE IInv'
    BY <1>2, FindsInductive, PreparesInductive, QueuesInductive, RefusedInductive,
       SmtpInductive, SettlesInductive DEF send_email
  <1>3. ASSUME NEW p \in Passes, poll_once(p) \/ Aborts(p) PROVE IInv'
    BY <1>3, ListsInductive, ReadsInductive, RestInductive, IngestsInductive DEF poll_once
  <1>4. ASSUME NEW a \in Analysts, relink_message(a) PROVE IInv'
    BY <1>4, RelinkInductive
  <1>5. CASE Crash
    BY <1>5, CrashInductive
  <1>6. CASE UNCHANGED vars
    <2>1. UNCHANGED <<row, threads, threadCase, inbox, letter, send, pass, link, answered, faults>>
      BY <1>6 DEF vars, tables, mailbox
    <2> QED
      BY <2>1 DEF IInv, TypeOK, Filled, SendInv, Sending, MailedOnce, NoSilentGap, UnderWay,
         Stored, InInbox
  <1> QED
    BY <1>1, <1>2, <1>3, <1>4, <1>5, <1>6 DEF Next

LEMMA Inductive == Spec => []IInv
  BY InitInductive, StepInductive, PTL DEF Spec

\* Rows, requests and passes stay well formed, whatever fails.
THEOREM TypeCorrect == Spec => []TypeOK
  <1>1. IInv => TypeOK
    BY DEF IInv
  <1> QED
    BY <1>1, Inductive, PTL

\* One mail per idempotency key: no repetition of a call, parallel or after a crash, makes
\* send_email hand its message to SMTP again.
THEOREM OneMailPerKey == Spec => []MailedOnce
  <1>1. IInv => MailedOnce
    BY DEF IInv
  <1> QED
    BY <1>1, Inductive, PTL

\* No silent gap in what was sent: what the mail server was given is on record before, SENT
\* means it was given, and only an accident leaves QUEUED what no call is working on.
THEOREM NoGap == Spec => []NoSilentGap
  <1>1. IInv => NoSilentGap
    BY DEF IInv
  <1> QED
    BY <1>1, Inductive, PTL

-----------------------------------------------------------------------------
(* Conversations: who is in the thread of whom *)

\* A Message-ID names one letter, with all its copies, and no two stored mails have the same.
LetterInv ==
  /\ \A m \in Mails :
       /\ letter[letter[m].id] = letter[m]
       /\ InInbox(m) => InInbox(letter[m].id)
       /\ ~InInbox(m) => letter[m].id = m /\ letter[m].refs = {} /\ ~Stored(m)
  /\ \A x, y \in Mails : Stored(x) /\ Stored(y) /\ letter[x].id = letter[y].id => x = y

\* A thread of ours has a case.
Placed(t) == t \in Keys => threadCase[t] \in Cases
ThreadInv ==
  /\ \A x \in Messages : Stored(x) => Placed(row[x].thread)
  /\ \A i \in DOMAIN threads : Placed(threads[i])

\* A mail of ours answers at most one message, which is stored and in the same thread.
Answers(refs, t) ==
  /\ \A y, z \in refs : y = z
  /\ \A y \in refs : \E x \in Messages : Stored(x) /\ IdOf(x) = y
  /\ \A x \in Messages : Stored(x) /\ IdOf(x) \in refs => row[x].thread = t
OurAnswers == \A k \in Keys : Stored(k) => Answers(row[k].refs, row[k].thread)

\* Whatever a mail that refers to k refers to besides is k's own reference, one of ours that
\* answers k, or a mail of which every copy refers to k too; and what is stored of it is in k's thread.
Known(y) == IF y \in Keys THEN Stored(y) ELSE InInbox(y)
Among(k, y) ==
  \/ y = k
  \/ y \in row[k].refs
  \/ y \in Keys /\ k \in row[y].refs
  \/ y \in Mails /\ \A x \in Mails : letter[x].id = y => k \in letter[x].refs
TogetherWith(k, refs) ==
  /\ \A y \in refs : Among(k, y)
  /\ \A x \in Messages : Stored(x) /\ IdOf(x) \in refs => row[x].thread = row[k].thread
Conversation(refs) ==
  /\ \A y \in refs : Known(y)
  /\ \A k \in refs \cap Keys : TogetherWith(k, refs)

\* What a request has found out is still so when it is written down.
SendKnows(s) ==
  send[s].phase = "prepared" =>
    /\ send[s].thread = send[s].key \/ Placed(send[s].thread)
    /\ Answers(send[s].refs, send[s].thread)
Joins(m, t, c) ==
  \A k \in letter[m].refs \cap Keys :
    /\ t = row[k].thread
    /\ t \in Keys => c # None
PassKnows(p) ==
  /\ \A i \in DOMAIN pass[p].todo : InInbox(pass[p].todo[i])
  /\ \A m \in Mails : Ingesting(p, m) =>
       /\ Joins(m, pass[p].thread, pass[p].case)
       /\ Placed(pass[p].thread)

ConvInv ==
  /\ LetterInv /\ ThreadInv /\ OurAnswers
  /\ \A m \in Mails : Conversation(letter[m].refs)
  /\ \A s \in Calls : SendKnows(s)
  /\ \A p \in Passes : PassKnows(p)
  /\ ReplyJoinsItsThread

-----------------------------------------------------------------------------
(* What any step may do to the tables and the mailbox *)

Arrives(m) ==
  /\ ~InInbox(m) /\ InInbox(m)'
  /\ letter'[m].id = m \/ \E x \in Mails : InInbox(x) /\ letter'[m] = letter[x]

IsInserted(x) ==
  /\ \A y \in Messages : Stored(y) => IdOf(y) # IdOf(x)
  /\ Placed(row[x].thread)'
  /\ x \in Mails =>
       /\ InInbox(x) /\ letter'[x] = letter[x]
       /\ \A k \in letter[x].refs \cap Keys :
            /\ row'[x].thread = row[k].thread
            /\ row'[x].thread \in Keys => row'[x].status = "RECEIVED"
  /\ x \in Keys => Answers(row'[x].refs, row'[x].thread)

Later ==
  /\ \A x \in Messages :
       /\ InInbox(x) => InInbox(x)'
       /\ Stored(x) => /\ Stored(x)'
                       /\ row'[x].thread = row[x].thread /\ row'[x].refs = row[x].refs
       /\ x \in Mails /\ row[x].status = "RECEIVED" => row'[x].status = "RECEIVED"
       /\ ~Stored(x) /\ Stored(x)' => IsInserted(x)
  /\ \A x, y \in Messages : ~Stored(x) /\ Stored(x)' /\ ~Stored(y) /\ Stored(y)' => x = y
  /\ \A m \in Mails : letter'[m] = letter[m] \/ Arrives(m)
  /\ \A t \in Messages : Placed(t) => Placed(t)'
  /\ \A i \in DOMAIN threads' :
       Placed(threads[i])' \/ (i \in DOMAIN threads /\ threads'[i] = threads[i])

\* A stored message keeps its Message-ID.
LEMMA IdStays ==
  ASSUME IInv, LetterInv, Later
  PROVE  /\ \A x \in Messages : Stored(x) => IdOf(x)' = IdOf(x) /\ IdOf(x) \in Messages
         /\ \A x \in Messages : Stored(x)' => IdOf(x)' = IdOf(x)
         /\ \A m \in Mails : InInbox(m) \/ Stored(m)' => letter'[m] = letter[m]
  <1>1. \A m \in Mails : InInbox(m) => letter'[m] = letter[m]
    BY DEF Later, Arrives
  <1>2. \A m \in Mails : Stored(m) => InInbox(m)
    BY DEF LetterInv
  <1>3. \A m \in Mails : Stored(m)' => letter'[m] = letter[m]
    BY <1>1, <1>2 DEF Later, IsInserted, Messages
  <1>4. \A x \in Messages : IdOf(x) \in Messages
    BY DEF IInv, TypeOK, Letter, IdOf, Messages
  <1> QED
    BY <1>1, <1>2, <1>3, <1>4 DEF IdOf, Messages

LEMMA LetterStep ==
  ASSUME IInv, LetterInv, Later
  PROVE  LetterInv'
  <1>1. \A m \in Mails : letter[m].id \in Mails
    BY DEF IInv, TypeOK, Letter
  <1>2. \A m \in Mails : InInbox(m) => letter'[m] = letter[m] /\ InInbox(m)'
    BY IdStays DEF Later, Messages
  <1>3. ASSUME NEW m \in Mails
        PROVE  /\ letter'[letter'[m].id] = letter'[m]
               /\ InInbox(m)' => InInbox(letter[m].id)'
               /\ ~InInbox(m)' => letter'[m].id = m /\ letter'[m].refs = {} /\ ~Stored(m)'
    <2>1. CASE InInbox(m)
      <3>1. InInbox(letter[m].id) /\ letter[m].id \in Mails /\ letter[letter[m].id] = letter[m]
        BY <1>1, <2>1 DEF LetterInv
      <3>2. letter'[m] = letter[m] /\ InInbox(m)' /\ letter'[letter[m].id] = letter[m]
        BY <1>2, <2>1, <3>1
      <3>3. InInbox(letter[m].id)'
        BY <1>2, <3>1, <3>2 DEF InInbox
      <3> QED
        BY <2>1, <3>2, <3>3
    <2>2. CASE ~InInbox(m) /\ letter'[m] = letter[m]
      <3>1. letter[m].id = m /\ letter[m].refs = {} /\ ~Stored(m)
        BY <2>2 DEF LetterInv
      <3>2. ~Stored(m)'
        BY <2>2, <3>1 DEF Later, IsInserted, Messages
      <3> QED
        BY <2>2, <3>1, <3>2 DEF InInbox
    <2>3. CASE Arrives(m)
      <3>1. CASE letter'[m].id = m
        BY <2>3, <3>1 DEF Arrives, InInbox
      <3>2. CASE \E x \in Mails : InInbox(x) /\ letter'[m] = letter[x]
        <4> PICK x \in Mails : InInbox(x) /\ letter'[m] = letter[x]
          BY <3>2
        <4>1. letter[x].id \in Mails /\ InInbox(letter[x].id) /\ letter[letter[x].id] = letter[x]
          BY <1>1, <3>2 DEF LetterInv
        <4>2. letter'[letter[x].id] = letter[x]
          BY <1>2, <4>1
        <4>3. InInbox(letter[m].id)'
          BY <1>2, <3>2, <4>1 DEF InInbox
        <4> QED
          BY <2>3, <3>2, <4>2, <4>3 DEF Arrives
      <3> QED
        BY <2>3, <3>1, <3>2 DEF Arrives
    <2> QED
      BY <2>1, <2>2, <2>3 DEF Later
  <1>4. ASSUME NEW x \in Mails, NEW y \in Mails, Stored(x)', Stored(y)', letter'[x].id = letter'[y].id
        PROVE  x = y
    <2>1. letter'[x] = letter[x] /\ letter'[y] = letter[y] /\ IdOf(x) = IdOf(y)
      BY <1>4, IdStays DEF IdOf, Messages
    <2>2. \A z \in Messages : ~Stored(z) /\ Stored(z)' =>
            \A o \in Messages : Stored(o) => IdOf(o) # IdOf(z)
      BY DEF Later, IsInserted
    <2>3. CASE Stored(x) /\ Stored(y)
      BY <1>4, <2>1, <2>3 DEF LetterInv
    <2>4. CASE ~Stored(x) /\ ~Stored(y)
      BY <1>4, <2>4 DEF Later, Messages
    <2> QED
      BY <1>4, <2>1, <2>2, <2>3, <2>4 DEF Messages
  <1> QED
    BY <1>3, <1>4 DEF LetterInv, InInbox, Stored

LEMMA ThreadStep ==
  ASSUME IInv, ThreadInv, Later
  PROVE  ThreadInv'
  <1>1. \A x \in Messages : Stored(x) => row[x].thread \in Messages
    BY DEF IInv, Filled
  <1>2. ASSUME NEW x \in Messages, Stored(x)' PROVE Placed(row[x].thread)'
    <2>1. CASE Stored(x)
      <3>1. Placed(row[x].thread) /\ row'[x].thread = row[x].thread
        BY <2>1 DEF ThreadInv, Later
      <3> QED
        BY <1>1, <2>1, <3>1 DEF Later, Placed
    <2>2. CASE ~Stored(x)
      BY <1>2, <2>2 DEF Later, IsInserted
    <2> QED
      BY <2>1, <2>2
  <1>3. ASSUME NEW i \in DOMAIN threads' PROVE Placed(threads[i])'
    <2>1. CASE i \in DOMAIN threads /\ threads'[i] = threads[i]
      <3>1. Placed(threads[i]) /\ threads[i] \in Messages
        BY <2>1, ElementOfSeq DEF ThreadInv, IInv, TypeOK
      <3> QED
        BY <2>1, <3>1 DEF Later, Placed
    <2> QED
      BY <2>1 DEF Later
  <1> QED
    BY <1>2, <1>3 DEF ThreadInv, Stored, Placed

\* What holds of the one message a mail answers keeps holding.
LEMMA AnswersStay ==
  ASSUME IInv, LetterInv, Later, NEW refs, NEW t, Answers(refs, t)
  PROVE  /\ \A y, z \in refs : y = z
         /\ \A y \in refs : \E x \in Messages : Stored(x)' /\ IdOf(x)' = y
         /\ \A x \in Messages : Stored(x)' /\ IdOf(x)' \in refs => row'[x].thread = t
  <1>1. \A y \in refs : \E x \in Messages : Stored(x)' /\ IdOf(x)' = y
    <2> SUFFICES ASSUME NEW y \in refs PROVE \E x \in Messages : Stored(x)' /\ IdOf(x)' = y
      OBVIOUS
    <2>1. PICK x \in Messages : Stored(x) /\ IdOf(x) = y
      BY DEF Answers
    <2> QED
      BY <2>1, IdStays DEF Later
  <1>2. ASSUME NEW x \in Messages, Stored(x)', IdOf(x)' \in refs
        PROVE  row'[x].thread = t
    <2>1. IdOf(x) \in refs
      BY <1>2, IdStays
    <2>2. CASE Stored(x)
      BY <2>1, <2>2 DEF Later, Answers
    <2>3. CASE ~Stored(x)
      <3>1. PICK y \in Messages : Stored(y) /\ IdOf(y) = IdOf(x)
        BY <2>1 DEF Answers
      <3> QED
        BY <1>2, <2>3, <3>1 DEF Later, IsInserted
    <2> QED
      BY <2>2, <2>3
  <1>3. \A y, z \in refs : y = z
    BY DEF Answers
  <1> QED
    BY <1>1, <1>2, <1>3

LEMMA OurAnswersStep ==
  ASSUME IInv, LetterInv, OurAnswers, Later
  PROVE  OurAnswers'
  <1>1. ASSUME NEW k \in Keys, Stored(k)'
        PROVE  Answers(row'[k].refs, row'[k].thread)
    <2>1. k \in Messages
      BY DEF Messages
    <2>2. CASE Stored(k)
      BY <2>1, <2>2 DEF OurAnswers, Later
    <2>3. CASE ~Stored(k)
      BY <1>1, <2>1, <2>3 DEF Later, IsInserted
    <2> QED
      BY <2>2, <2>3
  <1>2. ASSUME NEW k \in Keys, Stored(k)'
        PROVE  Answers(row[k].refs, row[k].thread)'
    <2>1. Answers(row'[k].refs, row'[k].thread)
      BY <1>1, <1>2
    <2> DEFINE refs == row'[k].refs
               t == row'[k].thread
    <2>2. /\ \A y, z \in refs : y = z
          /\ \A y \in refs : \E x \in Messages : Stored(x)' /\ IdOf(x)' = y
          /\ \A x \in Messages : Stored(x)' /\ IdOf(x)' \in refs => row'[x].thread = t
      <3> HIDE DEF refs, t
      <3> QED
        BY <2>1, AnswersStay DEF refs, t
    <2> QED
      BY <2>2 DEF Answers, Stored, IdOf
  <1> QED
    BY <1>2 DEF OurAnswers, Stored, Answers, IdOf

LEMMA KnownStays ==
  ASSUME Later, NEW y \in Messages, Known(y)
  PROVE  Known(y)'
  BY DEF Later, Known, InInbox, Stored

\* What k was in a conversation with it still is: what has come since has an ID of its own,
\* or it is a copy.
LEMMA AmongStays ==
  ASSUME IInv, LetterInv, Later, NEW k \in Keys, Stored(k), NEW y \in Messages, Known(y),
         Among(k, y)
  PROVE  Among(k, y)'
  <1>1. k \in Messages /\ row'[k].refs = row[k].refs
    BY DEF Messages, Later
  <1>2. y \in Keys => row'[y].refs = row[y].refs
    BY DEF Known, Later
  <1>3. ASSUME y \in Mails, \A x \in Mails : letter[x].id = y => k \in letter[x].refs,
               NEW x \in Mails, letter'[x].id = y
        PROVE  k \in letter'[x].refs
    <2>1. y # x \/ InInbox(x)
      <3>1. y \notin Keys /\ InInbox(y)
        BY <1>3 DEF Known
      <3> QED
        BY <3>1 DEF InInbox
    <2>2. CASE letter'[x] = letter[x]
      BY <1>3, <2>2
    <2>3. CASE Arrives(x)
      BY <1>3, <2>1, <2>3 DEF Arrives
    <2> QED
      BY <2>2, <2>3 DEF Later
  <1>4. CASE y \in Mails /\ \A x \in Mails : letter[x].id = y => k \in letter[x].refs
    BY <1>3, <1>4 DEF Among
  <1> QED
    BY <1>1, <1>2, <1>4 DEF Among

LEMMA ConversationStays ==
  ASSUME IInv, ConvInv, Later, NEW refs \in SUBSET Messages, Conversation(refs)
  PROVE  /\ \A y \in refs : Known(y)'
         /\ \A k \in refs \cap Keys :
              /\ \A y \in refs : Among(k, y)'
              /\ \A x \in Messages : Stored(x)' /\ IdOf(x)' \in refs => row'[x].thread = row'[k].thread
  <1>1. /\ LetterInv /\ OurAnswers
        /\ \A x \in Mails : letter[x].id \in Mails
    BY DEF ConvInv, IInv, TypeOK, Letter
  <1>2. \A y \in refs : Known(y) /\ Known(y)'
    BY <1>1, KnownStays DEF Conversation
  <1>3. ASSUME NEW k \in refs \cap Keys
        PROVE  /\ \A y \in refs : Among(k, y)'
               /\ \A x \in Messages : Stored(x)' /\ IdOf(x)' \in refs => row'[x].thread = row'[k].thread
    <2>1. k \in Messages /\ Stored(k) /\ TogetherWith(k, refs)
      BY <1>2, <1>3 DEF Conversation, Known
    <2>2. \A y \in refs : Among(k, y)'
      BY <1>1, <1>2, <2>1, AmongStays DEF TogetherWith
    <2>3. row'[k].thread = row[k].thread
      BY <2>1 DEF Later
    <2>4. ASSUME NEW x \in Messages, Stored(x)', IdOf(x)' \in refs
          PROVE  row'[x].thread = row[k].thread
      <3>1. IdOf(x) \in refs
        BY <1>1, <2>4, IdStays
      <3>2. CASE Stored(x)
        BY <2>1, <3>1, <3>2 DEF TogetherWith, Later
      <3>3. CASE ~Stored(x)
        <4>1. IsInserted(x)
          BY <2>4, <3>3 DEF Later
        <4>2. x \in Mails
          BY <1>2, <3>1, <3>3 DEF Messages, IdOf, Known
        <4>3. IdOf(x) \in Mails /\ IdOf(x) = letter[x].id
          BY <1>1, <4>2 DEF IdOf
        <4>4. IdOf(x) \notin row[k].refs
          <5>1. Answers(row[k].refs, row[k].thread)
            BY <1>1, <2>1 DEF OurAnswers
          <5> QED
            BY <4>1, <5>1 DEF Answers, IsInserted
        <4>5. k \in letter[x].refs
          <5>1. Among(k, IdOf(x)) /\ IdOf(x) # k /\ IdOf(x) \notin Keys
            BY <2>1, <3>1, <4>3 DEF TogetherWith
          <5> QED
            BY <4>2, <4>3, <4>4, <5>1 DEF Among
        <4> QED
          BY <4>1, <4>2, <4>5 DEF IsInserted
      <3> QED
        BY <3>2, <3>3
    <2> QED
      BY <2>2, <2>3, <2>4
  <1>4. \A y \in refs : Known(y)'
    BY <1>2
  <1> QED
    BY <1>3, <1>4

\* A mail with the references of a conversation is part of it.
LEMMA ConversationOf ==
  ASSUME IInv, ConvInv, Later, NEW m \in Mails, Conversation(letter'[m].refs),
         letter'[m].refs \in SUBSET Messages
  PROVE  Conversation(letter[m].refs)'
  <1> DEFINE refs == letter'[m].refs
  <1>1. /\ \A y \in refs : Known(y)'
        /\ \A k \in refs \cap Keys :
             /\ \A y \in refs : Among(k, y)'
             /\ \A x \in Messages : Stored(x)' /\ IdOf(x)' \in refs => row'[x].thread = row'[k].thread
    <2>1. refs \in SUBSET Messages /\ Conversation(refs)
      OBVIOUS
    <2> HIDE DEF refs
    <2> QED
      BY <2>1, ConversationStays
  <1> QED
    BY <1>1 DEF Conversation, TogetherWith, Among, Known, IdOf, Stored, InInbox

LEMMA ReplyStep ==
  ASSUME IInv, ConvInv, Later
  PROVE  ReplyJoinsItsThread'
  <1> SUFFICES ASSUME NEW m \in Mails, Stored(m)', NEW k \in letter'[m].refs \cap Keys
               PROVE  /\ row'[m].thread = row'[k].thread
                      /\ row'[m].thread \in Keys => row'[m].status = "RECEIVED"
    BY DEF ReplyJoinsItsThread, Stored
  <1>1. m \in Messages /\ k \in Messages /\ letter'[m] = letter[m] /\ k \in letter[m].refs
    BY IdStays DEF Messages, ConvInv
  <1>2. Stored(k) /\ row'[k].thread = row[k].thread
    BY <1>1 DEF ConvInv, Conversation, Known, Later
  <1>3. CASE Stored(m)
    BY <1>1, <1>2, <1>3 DEF ConvInv, ReplyJoinsItsThread, Later
  <1>4. CASE ~Stored(m)
    BY <1>1, <1>2, <1>4 DEF Later, IsInserted
  <1> QED
    BY <1>3, <1>4

\* A request that is not served by the step still knows what it knew.
LEMMA SendKnowsStill ==
  ASSUME IInv, ConvInv, Later, NEW s \in Calls, SendKnows(s), send'[s] = send[s]
  PROVE  SendKnows(s)'
  <1> SUFFICES ASSUME send[s].phase = "prepared"
               PROVE  /\ send[s].thread = send[s].key \/ Placed(send[s].thread)'
                      /\ Answers(send[s].refs, send[s].thread)'
    BY DEF SendKnows, Answers, IdOf, Stored, Placed
  <1> DEFINE refs == send[s].refs
             t == send[s].thread
  <1>1. Answers(refs, t) /\ t \in Messages /\ (t = send[s].key \/ Placed(t))
    BY DEF SendKnows, IInv, Filled
  <1>2. Placed(t) => (t \in Keys => threadCase'[t] \in Cases)
    BY <1>1 DEF Later, Placed
  <1>3. /\ \A y, z \in refs : y = z
        /\ \A y \in refs : \E x \in Messages : Stored(x)' /\ IdOf(x)' = y
        /\ \A x \in Messages : Stored(x)' /\ IdOf(x)' \in refs => row'[x].thread = t
    <2> HIDE DEF refs, t
    <2> QED
      BY <1>1, AnswersStay DEF ConvInv
  <1> QED
    BY <1>1, <1>2, <1>3 DEF Answers, Placed, Stored, IdOf

LEMMA JoinsStays ==
  ASSUME IInv, ConvInv, Later, NEW m \in Mails, InInbox(m), NEW t, NEW c, Joins(m, t, c)
  PROVE  \A k \in letter'[m].refs \cap Keys : t = row'[k].thread /\ (t \in Keys => c # None)
  <1>1. letter'[m] = letter[m] /\ \A k \in letter[m].refs \cap Keys : Stored(k) /\ k \in Messages
    BY IdStays DEF ConvInv, Conversation, Known, Messages
  <1> QED
    BY <1>1 DEF Joins, Later

LEMMA PassKnowsStill ==
  ASSUME IInv, ConvInv, Later, NEW p \in Passes, PassKnows(p), pass'[p] = pass[p]
  PROVE  PassKnows(p)'
  <1>1. pass[p].todo \in Seq(Messages)
    BY DEF IInv, TypeOK, PassRow
  <1>2. \A i \in DOMAIN pass[p].todo : pass[p].todo[i] \in Messages
    BY <1>1, ElementOfSeq
  <1>3. \A i \in DOMAIN pass[p].todo : InInbox(pass[p].todo[i])'
    BY <1>2 DEF PassKnows, Later, InInbox
  <1>4. ASSUME NEW m \in Mails, Ingesting(p, m)
        PROVE  /\ Joins(m, pass[p].thread, pass[p].case)'
               /\ Placed(pass[p].thread)'
    <2>1. pass[p].todo # <<>> /\ pass[p].thread \in Messages /\ m = Head(pass[p].todo)
      BY <1>4 DEF IInv, Filled, Ingesting
    <2>2. 1 \in DOMAIN pass[p].todo /\ m = pass[p].todo[1]
      BY <1>1, <2>1
    <2>3. InInbox(m) /\ Joins(m, pass[p].thread, pass[p].case) /\ Placed(pass[p].thread)
      BY <1>4, <2>2 DEF PassKnows
    <2> DEFINE t == pass[p].thread
               c == pass[p].case
    <2>4. \A k \in letter'[m].refs \cap Keys : t = row'[k].thread /\ (t \in Keys => c # None)
      <3> HIDE DEF t, c
      <3> QED
        BY <2>3, JoinsStays DEF t, c
    <2>5. t \in Keys => threadCase'[t] \in Cases
      BY <2>1, <2>3 DEF Later, Placed
    <2> QED
      BY <2>4, <2>5 DEF Joins, Placed
  <1> QED
    BY <1>3, <1>4 DEF PassKnows, Ingesting, InInbox, Joins, Placed

LEMMA ConvStep ==
  ASSUME IInv, ConvInv, Later,
         \A s \in Calls : SendKnows(s)', \A p \in Passes : PassKnows(p)',
         \A m \in Mails : letter'[m] # letter[m] => Conversation(letter[m].refs)'
  PROVE  ConvInv'
  <1>1. LetterInv' /\ ThreadInv' /\ OurAnswers' /\ ReplyJoinsItsThread'
    BY LetterStep, ThreadStep, OurAnswersStep, ReplyStep DEF ConvInv
  <1>2. ASSUME NEW m \in Mails, letter'[m] = letter[m]
        PROVE  Conversation(letter[m].refs)'
    <2>1. letter'[m].refs \in SUBSET Messages /\ Conversation(letter'[m].refs)
      BY <1>2 DEF IInv, TypeOK, Letter, ConvInv
    <2> QED
      BY <2>1, ConversationOf
  <1>3. \A m \in Mails : Conversation(letter[m].refs)'
    BY <1>2
  <1> QED
    BY <1>1, <1>3 DEF ConvInv

\* The steps that leave threads, references and letters as they are.
LEMMA AlikeIsLater ==
  ASSUME \A x \in Messages : /\ Stored(x)' <=> Stored(x)
                             /\ row'[x].thread = row[x].thread /\ row'[x].refs = row[x].refs
                             /\ x \in Mails /\ row[x].status = "RECEIVED" => row'[x].status = "RECEIVED"
                             /\ InInbox(x) => InInbox(x)',
         letter' = letter, threads' = threads,
         \A t \in Messages : Placed(t) => Placed(t)'
  PROVE  Later
  BY DEF Later

LEMMA SameIsLater ==
  ASSUME UNCHANGED <<row, threads, threadCase, inbox, letter>>
  PROVE  Later
  <1>1. \A x \in Messages : (Stored(x)' <=> Stored(x)) /\ (InInbox(x) => InInbox(x)') /\ (Placed(x) => Placed(x)')
    BY DEF Stored, InInbox, Placed
  <1> QED
    BY <1>1, AlikeIsLater

\* A step of a pass, of a call, of neither.
LEMMA PassConv ==
  ASSUME IInv, ConvInv, UNCHANGED <<row, threads, threadCase, inbox, letter, send>>,
         NEW p \in Passes, \A o \in Passes \ {p} : pass'[o] = pass[o], PassKnows(p)'
  PROVE  ConvInv'
  <1>1. Later
    BY SameIsLater
  <1>2. \A s \in Calls : SendKnows(s)'
    BY <1>1, SendKnowsStill DEF ConvInv
  <1>3. \A o \in Passes : PassKnows(o)'
    BY <1>1, PassKnowsStill DEF ConvInv
  <1> QED
    BY <1>1, <1>2, <1>3, ConvStep

LEMMA SendConv ==
  ASSUME IInv, ConvInv, Later, letter' = letter, pass' = pass,
         NEW s \in Calls, \A o \in Calls \ {s} : send'[o] = send[o], SendKnows(s)'
  PROVE  ConvInv'
  <1>1. \A o \in Calls : SendKnows(o)'
    BY SendKnowsStill DEF ConvInv
  <1>2. \A p \in Passes : PassKnows(p)'
    BY PassKnowsStill DEF ConvInv
  <1> QED
    BY <1>1, <1>2, ConvStep

LEMMA OtherConv ==
  ASSUME IInv, ConvInv, Later, send' = send, pass' = pass,
         \A m \in Mails : letter'[m] # letter[m] => Conversation(letter[m].refs)'
  PROVE  ConvInv'
  <1>1. \A s \in Calls : SendKnows(s)'
    BY SendKnowsStill DEF ConvInv
  <1>2. \A p \in Passes : PassKnows(p)'
    BY PassKnowsStill DEF ConvInv
  <1> QED
    BY <1>1, <1>2, ConvStep

-----------------------------------------------------------------------------
(* Each action *)

LEMMA RestKnows ==
  ASSUME NEW p \in Passes, pass'[p].todo = <<>>, pass'[p].phase # "reading"
  PROVE  PassKnows(p)'
  BY DEF PassKnows, Ingesting

LEMMA RestConv ==
  ASSUME IInv, ConvInv, NEW p \in Passes,
         Ends(p) \/ Aborts(p) \/ \E m \in Mails : Collides(p, m)
  PROVE  ConvInv'
  <1>1. /\ pass' = [pass EXCEPT ![p] = Rest] /\ pass \in [Passes -> PassRow]
        /\ UNCHANGED <<row, threads, threadCase, inbox, letter, send>>
    BY DEF Ends, Aborts, Collides, tables, mailbox, IInv, TypeOK
  <1>2. pass'[p].todo = <<>> /\ pass'[p].phase # "reading"
    BY <1>1 DEF Rest
  <1> QED
    BY <1>1, <1>2, RestKnows, PassConv

LEMMA ListsConv ==
  ASSUME IInv, ConvInv, NEW p \in Passes, Lists(p)
  PROVE  ConvInv'
  <1>1. /\ pass' = [pass EXCEPT ![p] = [Rest EXCEPT !.phase = "scanning", !.todo = Listed]]
        /\ pass \in [Passes -> PassRow]
        /\ UNCHANGED <<row, threads, threadCase, inbox, letter, send>>
    BY DEF Lists, tables, mailbox, IInv, TypeOK
  <1>2. pass'[p].todo = Listed /\ pass'[p].phase = "scanning"
    BY <1>1 DEF Rest
  <1>3. \A i \in DOMAIN Listed : InInbox(Listed[i])
    <2>1. inbox \in Seq(Messages)
      BY DEF IInv, TypeOK
    <2>2. Size \in Nat /\ Size <= Len(inbox) /\ Len(inbox) \in Nat /\ DOMAIN inbox = 1..Len(inbox)
      BY <2>1 DEF Size
    <2>3. \A i \in 1..Size : Len(inbox) + 1 - i \in DOMAIN inbox
      BY <2>2
    <2> QED
      BY <2>3 DEF Listed, InInbox
  <1>4. PassKnows(p)'
    BY <1>1, <1>2, <1>3 DEF PassKnows, Ingesting, InInbox
  <1> QED
    BY <1>1, <1>4, PassConv

LEMMA SendEnds ==
  ASSUME NEW s \in Calls, send'[s].phase # "prepared"
  PROVE  SendKnows(s)'
  BY DEF SendKnows

LEMMA RefusedConv ==
  ASSUME IInv, ConvInv, NEW s \in Calls, Refused(s)
  PROVE  ConvInv'
  <1>1. /\ send' = [send EXCEPT ![s] = NoSend] /\ send \in [Calls -> SendRow]
        /\ UNCHANGED <<row, threads, threadCase, inbox, letter, pass>>
    BY DEF Refused, tables, mailbox, IInv, TypeOK
  <1>2. send'[s].phase # "prepared"
    BY <1>1 DEF NoSend
  <1> QED
    BY <1>1, <1>2, SendEnds, SendConv, SameIsLater

LEMMA FindsConv ==
  ASSUME IInv, ConvInv, NEW s \in Calls, NEW k \in Keys, Finds(s, k)
  PROVE  ConvInv'
  <1>1. UNCHANGED <<row, threads, threadCase, inbox, letter, send, pass>>
    BY DEF Finds, tables, mailbox
  <1> QED
    BY <1>1, SameIsLater, OtherConv

LEMMA PreparesConv ==
  ASSUME IInv, ConvInv, NEW s \in Calls, NEW k \in Keys, NEW c \in Cases, Prepares(s, k, c)
  PROVE  ConvInv'
  <1>1. PICK parents \in {{x} : x \in {y \in Messages : Stored(y)}} \cup {{}}, t \in Messages :
          /\ ThreadFor(k, c, parents, t)
          /\ send' = [send EXCEPT ![s] = [phase |-> "prepared", key |-> k, case |-> c,
               refs |-> {IdOf(x) : x \in parents}, thread |-> t]]
    BY DEF Prepares
  <1>2. /\ UNCHANGED <<row, threads, threadCase, inbox, letter, pass>>
        /\ send \in [Calls -> SendRow] /\ LetterInv /\ ThreadInv
    BY DEF Prepares, tables, mailbox, IInv, TypeOK, ConvInv
  <1> DEFINE refs == {IdOf(x) : x \in parents}
  <1>3. send'[s].key = k /\ send'[s].thread = t /\ send'[s].refs = refs
    BY <1>1, <1>2
  <1>4. Answers(refs, t)
    <2>1. CASE parents = {}
      BY <2>1 DEF Answers
    <2>2. CASE parents # {}
      <3>1. PICK p \in Messages : Stored(p) /\ parents = {p}
        BY <1>1, <2>2
      <3>2. t = row[p].thread /\ refs = {IdOf(p)}
        BY <1>1, <3>1 DEF ThreadFor
      <3>3. \A x \in Messages : Stored(x) /\ IdOf(x) = IdOf(p) => x = p
        <4>1. \A m \in Mails : letter[m].id \in Mails
          BY DEF IInv, TypeOK, Letter
        <4> QED
          BY <1>2, <3>1, <4>1 DEF LetterInv, IdOf, Messages
      <3> QED
        BY <3>1, <3>2, <3>3 DEF Answers
    <2> QED
      BY <2>1, <2>2
  <1>5. t = k \/ Placed(t)
    <2>1. CASE parents # {}
      BY <1>1, <1>2, <2>1 DEF ThreadFor, ThreadInv
    <2>2. CASE parents = {}
      BY <1>1, <1>2, <2>2 DEF ThreadFor, Newest, ThreadInv
    <2> QED
      BY <2>1, <2>2
  <1>6. SendKnows(s)'
    <2> HIDE DEF refs
    <2> QED
      BY <1>2, <1>3, <1>4, <1>5 DEF SendKnows, Answers, Placed, IdOf, Stored
  <1>7. \A o \in Calls \ {s} : send'[o] = send[o]
    BY <1>1, <1>2
  <1>8. Later
    BY <1>2, SameIsLater
  <1> QED
    BY <1>2, <1>6, <1>7, <1>8, SendConv

LEMMA SmtpConv ==
  ASSUME IInv, ConvInv, NEW s \in Calls, SmtpTakes(s) \/ SmtpFails(s)
  PROVE  ConvInv'
  <1>1. /\ UNCHANGED <<row, threads, threadCase, letter, pass>>
        /\ send \in [Calls -> SendRow] /\ inbox \in Seq(Messages)
        /\ send[s].key \in Messages
    BY SendingFacts DEF SmtpTakes, SmtpFails, tables, IInv, TypeOK, MayDeliver
  <1>2. /\ inbox' = inbox \/ inbox' = Append(inbox, send[s].key)
        /\ send'[s].phase # "prepared" /\ \A o \in Calls \ {s} : send'[o] = send[o]
    BY <1>1 DEF SmtpTakes, SmtpFails, SendRow
  <1>3. \A x \in Messages : InInbox(x) => InInbox(x)'
    <2>1. CASE inbox' = inbox
      BY <2>1 DEF InInbox
    <2>2. CASE inbox' = Append(inbox, send[s].key)
      BY <1>1, <2>2, Delivered
    <2> QED
      BY <1>2, <2>1, <2>2
  <1>4. Later
    <2>1. \A x \in Messages : (Stored(x)' <=> Stored(x)) /\ (Placed(x) => Placed(x)')
      BY <1>1 DEF Stored, Placed
    <2> QED
      BY <1>1, <1>3, <2>1, AlikeIsLater
  <1> QED
    BY <1>1, <1>2, <1>4, SendEnds, SendConv

LEMMA SettlesConv ==
  ASSUME IInv, ConvInv, NEW s \in Calls, Settles(s)
  PROVE  ConvInv'
  <1> DEFINE k == send[s].key
             r == [row[k] EXCEPT !.status = Outcome(s)]
  <1>1. /\ UNCHANGED <<threads, threadCase, inbox, letter, pass>>
        /\ send' = [send EXCEPT ![s] = NoSend] /\ send \in [Calls -> SendRow]
        /\ row \in [Messages -> MessageRow]
        /\ send[s].phase \in {"taken", "error"}
    BY DEF Settles, mailbox, IInv, TypeOK
  <1>2. k \in Messages /\ row[k] \in MessageRow /\ Sending(s) /\ k \in Keys
    BY <1>1, SendingFacts DEF Sending
  <1>3. r.thread = row[k].thread /\ r.refs = row[k].refs /\ r.status \in {"SENT", "FAILED"}
    BY <1>2 DEF MessageRow, Outcome
  <1>4. row' = [row EXCEPT ![k] = r]
    BY <1>1, <1>2 DEF Settles
  <1>5. Stored(k)
    BY <1>2 DEF IInv, SendInv
  <1> HIDE DEF r, k
  <1>6. row'[k] = r /\ \A x \in Messages \ {k} : row'[x] = row[x]
    BY <1>1, <1>2, <1>4
  <1>7. \A x \in Messages : /\ Stored(x)' <=> Stored(x)
                            /\ row'[x].thread = row[x].thread /\ row'[x].refs = row[x].refs
                            /\ x \in Mails /\ row[x].status = "RECEIVED" => row'[x].status = "RECEIVED"
    BY <1>2, <1>3, <1>5, <1>6 DEF Stored
  <1>8. Later
    <2>1. \A x \in Messages : (InInbox(x) => InInbox(x)') /\ (Placed(x) => Placed(x)')
      BY <1>1 DEF InInbox, Placed
    <2> QED
      BY <1>1, <1>7, <2>1, AlikeIsLater
  <1>9. send'[s].phase # "prepared" /\ \A o \in Calls \ {s} : send'[o] = send[o]
    BY <1>1 DEF NoSend
  <1> QED
    BY <1>1, <1>8, <1>9, SendEnds, SendConv

\* The INSERT of x, with what its request knows.
LEMMA InsertIsLater ==
  ASSUME IInv, LetterInv, NEW x \in Messages, NEW r \in MessageRow, Insert(x, r),
         ~Stored(x), letter' = letter, inbox' = inbox,
         \A y \in Messages : Stored(y) => IdOf(y) # IdOf(x),
         r.thread = x \/ Placed(r.thread), r.thread \in Messages,
         x \in Keys => r.case \in Cases /\ Answers(r.refs, r.thread),
         x \in Mails => /\ InInbox(x)
                        /\ \A k \in letter[x].refs \cap Keys :
                             r.thread = row[k].thread /\ (r.thread \in Keys => r.status = "RECEIVED")
  PROVE  Later
  <1>1. /\ TypeOK
        /\ row'[x] = r /\ \A y \in Messages \ {x} : row'[y] = row[y]
    BY Inserted DEF IInv
  <1>2. ASSUME NEW t \in Messages, Placed(t) \/ (t = x /\ r.thread = x)
        PROVE  Placed(t)'
    <2>1. r.thread = x => threadCase' = [threadCase EXCEPT ![x] = r.case]
      BY DEF Insert
    <2>2. r.thread # x => threadCase' = threadCase
      BY DEF Insert
    <2> QED
      BY <1>1, <1>2, <2>1, <2>2 DEF Placed, TypeOK, Messages
  <1>3. \A y \in Messages : (InInbox(y) => InInbox(y)') /\ (y # x => (Stored(y)' <=> Stored(y)))
    BY <1>1 DEF InInbox, Stored
  <1>4. threadCase'[r.thread] \in Cases \/ r.thread \notin Keys
    BY <1>2 DEF Placed
  <1>5. IsInserted(x)
    BY <1>1, <1>4 DEF IsInserted, Placed, Messages
  <1>6. ASSUME NEW i \in DOMAIN threads'
        PROVE  Placed(threads[i])' \/ (i \in DOMAIN threads /\ threads'[i] = threads[i])
    <2>1. CASE r.thread = x
      <3>1. threads' = Append(threads, x) /\ threads \in Seq(Messages)
        BY <1>1, <2>1 DEF Insert, TypeOK
      <3>2. (i \in DOMAIN threads /\ threads'[i] = threads[i]) \/ threads'[i] = x
        BY <3>1, AppendProperties
      <3>3. x \in Keys => threadCase'[x] \in Cases
        BY <1>4, <2>1
      <3> QED
        BY <3>2, <3>3 DEF Placed
    <2>2. CASE r.thread # x
      BY <2>2 DEF Insert
    <2> QED
      BY <2>1, <2>2
  <1>7. \A t \in Messages : Placed(t) => Placed(t)'
    BY <1>2
  <1>8. \A y \in Messages :
          /\ Stored(y) => /\ Stored(y)'
                          /\ row'[y].thread = row[y].thread /\ row'[y].refs = row[y].refs
          /\ row[y].status = "RECEIVED" => row'[y].status = "RECEIVED"
          /\ ~Stored(y) /\ Stored(y)' => y = x
    BY <1>1, <1>3 DEF Stored
  <1> QED
    BY <1>3, <1>5, <1>6, <1>7, <1>8 DEF Later

LEMMA QueuesConv ==
  ASSUME IInv, ConvInv, NEW s \in Calls, Queues(s)
  PROVE  ConvInv'
  <1>k. PICK k \in Keys : k = send[s].key
    BY SendingFacts DEF Queues
  <1> DEFINE r == [status |-> "QUEUED", thread |-> send[s].thread,
                   case |-> send[s].case, refs |-> send[s].refs]
  <1>1. send[s].phase = "prepared" /\ ~Stored(k) /\ Insert(k, r)
        /\ UNCHANGED <<inbox, letter, pass>>
        /\ send' = [send EXCEPT ![s].phase = "queued"]
    BY <1>k DEF Queues, UniqueKey, mailbox
  <1>2. /\ send \in [Calls -> SendRow] /\ send[s] \in SendRow /\ k \in Messages
        /\ send[s].thread \in Messages /\ send[s].case \in Cases
    BY <1>k, <1>1, SendingFacts DEF TypeOK
  <1>3. r \in MessageRow /\ r.thread \in Messages /\ r.case \in Cases
    BY <1>2 DEF MessageRow, SendRow, Status
  <1>4. (r.thread = k \/ Placed(r.thread)) /\ Answers(r.refs, r.thread)
    BY <1>k, <1>1 DEF ConvInv, SendKnows
  <1>5. \A y \in Messages : Stored(y) => IdOf(y) # IdOf(k)
    BY <1>1 DEF IInv, TypeOK, Letter, IdOf, Messages
  <1>6. Later
    <2> HIDE DEF r
    <2> QED
      BY <1>1, <1>2, <1>3, <1>4, <1>5, InsertIsLater DEF ConvInv
  <1>7. send'[s].phase # "prepared" /\ \A o \in Calls \ {s} : send'[o] = send[o]
    BY <1>1, <1>2 DEF SendRow
  <1> QED
    BY <1>1, <1>6, <1>7, SendEnds, SendConv

LEMMA IngestsConv ==
  ASSUME IInv, ConvInv, NEW p \in Passes, NEW m \in Mails, Ingests(p, m)
  PROVE  ConvInv'
  <1> DEFINE r == [status |-> IF pass[p].case = None THEN "UNLINKED" ELSE "RECEIVED",
                   thread |-> pass[p].thread, case |-> pass[p].case, refs |-> letter[m].refs]
             q == [Rest EXCEPT !.phase = "scanning", !.todo = Tail(pass[p].todo)]
             todo == pass[p].todo
  <1>1. /\ m \in Messages /\ m \notin Keys /\ pass[p] \in PassRow /\ letter[m] \in Letter
        /\ pass \in [Passes -> PassRow] /\ todo \in Seq(Messages) /\ LetterInv
    BY DEF TypeOK, IInv, Messages, PassRow, ConvInv
  <1>2. /\ Insert(m, r) /\ pass' = [pass EXCEPT ![p] = q]
        /\ UNCHANGED <<inbox, letter, send>> /\ Ingesting(p, m) /\ UniqueMail(m)
    BY DEF Ingests, mailbox
  <1>3. todo # <<>> /\ pass[p].thread \in Messages /\ m = Head(todo)
    BY <1>2 DEF IInv, Filled, Ingesting
  <1>4. r \in MessageRow /\ r.thread = pass[p].thread /\ r.thread \in Messages
    BY <1>1, <1>3 DEF MessageRow, PassRow, Letter, Status
  <1>5. InInbox(m)
    <2>1. 1 \in DOMAIN todo /\ m = todo[1]
      BY <1>1, <1>3
    <2> QED
      BY <2>1 DEF ConvInv, PassKnows
  <1>6. /\ Placed(pass[p].thread)
        /\ \A k \in letter[m].refs \cap Keys :
             r.thread = row[k].thread /\ (r.thread \in Keys => r.status = "RECEIVED")
    BY <1>2, <1>4 DEF ConvInv, PassKnows, Joins
  <1>7. ~Stored(m) /\ \A y \in Messages : Stored(y) => IdOf(y) # IdOf(m)
    BY <1>1, <1>2 DEF UniqueMail, IdOf, IInv, TypeOK, Letter, Messages
  <1>8. Later
    <2> HIDE DEF r
    <2> QED
      BY <1>1, <1>2, <1>4, <1>5, <1>6, <1>7, InsertIsLater
  <1>9. PassKnows(p)'
    <2>1. pass'[p].phase = "scanning" /\ pass'[p].todo = Tail(todo)
      BY <1>1, <1>2 DEF Rest
    <2>2. \A i \in DOMAIN Tail(todo) : i + 1 \in DOMAIN todo /\ Tail(todo)[i] = todo[i + 1]
      BY <1>1, <1>3, HeadTailProperties
    <2>3. \A i \in DOMAIN Tail(todo) : InInbox(Tail(todo)[i])
      BY <2>2 DEF ConvInv, PassKnows
    <2> QED
      BY <1>2, <2>1, <2>3 DEF PassKnows, Ingesting, InInbox
  <1>10. \A o \in Passes \ {p} : pass'[o] = pass[o]
    BY <1>1, <1>2
  <1>11. \A o \in Passes : PassKnows(o)'
    BY <1>8, <1>9, <1>10, PassKnowsStill DEF ConvInv
  <1>12. \A s \in Calls : SendKnows(s)'
    BY <1>2, <1>8, SendKnowsStill DEF ConvInv
  <1> QED
    BY <1>2, <1>8, <1>11, <1>12, ConvStep

LEMMA ReadsConv ==
  ASSUME IInv, ConvInv, NEW p \in Passes, Reads(p)
  PROVE  ConvInv'
  <1> DEFINE todo == pass[p].todo
  <1>1. PICK i \in DOMAIN todo, t \in Messages, c \in Cases \cup {None} :
          /\ NextNew(p, i)
          /\ Belongs(todo[i], t, c)
          /\ pass' = [pass EXCEPT ![p] =
               [phase |-> "reading", thread |-> t, case |-> c, todo |-> SubSeq(todo, i, Len(todo))]]
    BY DEF Reads
  <1>2. /\ UNCHANGED <<row, threads, threadCase, inbox, letter, send>>
        /\ pass \in [Passes -> PassRow] /\ todo \in Seq(Messages)
        /\ LetterInv /\ ThreadInv
    BY DEF Reads, tables, mailbox, IInv, TypeOK, PassRow, ConvInv
  <1> DEFINE m == todo[i]
             u == SubSeq(todo, i, Len(todo))
             parents == {x \in Messages : Stored(x) /\ IdOf(x) \in letter[m].refs}
  <1>3. m \in Mails /\ m \in Messages /\ InInbox(m)
    BY <1>1 DEF NextNew, IsNew, Messages, ConvInv, PassKnows
  <1>4. u \in Seq(Messages) /\ u # <<>> /\ Head(u) = m
        /\ \A j \in DOMAIN u : \E o \in DOMAIN todo : u[j] = todo[o]
    <2>1. i \in 1..Len(todo) /\ Len(todo) \in Nat
      BY <1>2
    <2>2. u \in Seq(Messages) /\ Len(u) = Len(todo) - i + 1
          /\ \A j \in 1..Len(u) : u[j] = todo[i + j - 1]
      BY <1>2, <2>1, SubSeqProperties
    <2> HIDE DEF u
    <2>3. 1 \in 1..Len(u) /\ DOMAIN u = 1..Len(u) /\ DOMAIN todo = 1..Len(todo)
      BY <1>2, <2>1, <2>2
    <2>4. Head(u) = u[1] /\ u[1] = todo[i] /\ u # <<>>
      BY <2>1, <2>2, <2>3
    <2>5. \A j \in 1..Len(u) : i + j - 1 \in DOMAIN todo
      BY <2>1, <2>2, <2>3
    <2> QED
      BY <2>2, <2>3, <2>4, <2>5
  <1>5. Conversation(letter[m].refs)
    BY <1>3 DEF ConvInv
  <1>6. Placed(t)
    <2>1. CASE \E x \in parents : t = row[x].thread
      BY <1>2, <2>1 DEF ThreadInv
    <2>2. CASE Newest(c, t)
      BY <1>2, <2>2 DEF Newest, ThreadInv
    <2>3. CASE t = m
      BY <1>3, <2>3 DEF Placed
    <2> QED
      BY <1>1, <2>1, <2>2, <2>3 DEF Belongs
  <1>7. Joins(m, t, c)
    <2> SUFFICES ASSUME NEW k \in letter[m].refs \cap Keys
                 PROVE  t = row[k].thread /\ (t \in Keys => c # None)
      BY DEF Joins
    <2>1. k \in Messages /\ Stored(k) /\ IdOf(k) = k
      BY <1>5 DEF Conversation, Known, Messages, IdOf
    <2>2. k \in parents
      BY <2>1
    <2>3. PICK x \in parents : t = row[x].thread /\ c = threadCase[t]
      BY <1>1, <2>2 DEF Belongs
    <2>4. row[x].thread = row[k].thread
      BY <1>5, <2>3 DEF Conversation, TogetherWith
    <2> QED
      BY <1>6, <2>3, <2>4 DEF Placed
  <1>8. pass'[p].phase = "reading" /\ pass'[p].todo = u /\ pass'[p].thread = t /\ pass'[p].case = c
    BY <1>1, <1>2
  <1>9. \A j \in DOMAIN u : InInbox(u[j])
    BY <1>4 DEF ConvInv, PassKnows
  <1>10. PassKnows(p)'
    <2> HIDE DEF u, m
    <2>1. \A n \in Mails : (pass'[p].phase = "reading" /\ Head(pass'[p].todo) = n) => n = m
      BY <1>4, <1>8
    <2>2. letter' = letter /\ row' = row /\ threadCase' = threadCase /\ inbox' = inbox
      BY <1>2
    <2> QED
      BY <1>6, <1>7, <1>8, <1>9, <2>1, <2>2 DEF PassKnows, Ingesting, InInbox, Joins, Placed
  <1>11. \A o \in Passes \ {p} : pass'[o] = pass[o]
    BY <1>1, <1>2
  <1> QED
    BY <1>2, <1>10, <1>11, PassConv

LEMMA RelinkConv ==
  ASSUME IInv, ConvInv, NEW a \in Analysts, relink_message(a)
  PROVE  ConvInv'
  <1>1. ASSUME (\E m \in Mails, c \in Cases : Chooses(a, m, c)) \/ ReadsThread(a)
        PROVE  ConvInv'
    <2>1. UNCHANGED <<row, threads, threadCase, inbox, letter, send, pass>>
      BY <1>1 DEF Chooses, ReadsThread, tables, mailbox
    <2> QED
      BY <2>1, SameIsLater, OtherConv
  <1>2. CASE Links(a)
    <2> DEFINE m == link[a].mail
               c == link[a].case
               r == [row[m] EXCEPT !.case = c, !.status = "RECEIVED"]
    <2>1. TypeOK /\ m \in Mails /\ m \in Messages /\ c \in Cases /\ Stored(m) /\ row[m] \in MessageRow
      BY <1>2 DEF IInv, Filled, Links, Messages, TypeOK
    <2>2. /\ row' = [row EXCEPT ![m] = r]
          /\ threadCase' \in {threadCase, [threadCase EXCEPT ![row[m].thread] = c]}
          /\ UNCHANGED <<threads, inbox, letter, send, pass>>
      BY <1>2 DEF Links, mailbox
    <2>3. r.status = "RECEIVED" /\ r.thread = row[m].thread /\ r.refs = row[m].refs
      BY <2>1 DEF MessageRow
    <2> HIDE DEF r, m, c
    <2>4. row'[m] = r /\ \A x \in Messages \ {m} : row'[x] = row[x]
      BY <2>1, <2>2 DEF TypeOK
    <2>5. \A x \in Messages : /\ Stored(x)' <=> Stored(x)
                              /\ row'[x].thread = row[x].thread /\ row'[x].refs = row[x].refs
                              /\ row[x].status = "RECEIVED" => row'[x].status = "RECEIVED"
      BY <2>1, <2>3, <2>4 DEF Stored
    <2>6. \A t \in Messages : (InInbox(t) => InInbox(t)') /\ (Placed(t) => Placed(t)')
      BY <2>1, <2>2 DEF InInbox, Placed, TypeOK
    <2>7. Later
      BY <2>2, <2>5, <2>6, AlikeIsLater
    <2> QED
      BY <2>2, <2>7, OtherConv
  <1> QED
    BY <1>1, <1>2 DEF relink_message

LEMMA CrashConv ==
  ASSUME IInv, ConvInv, Crash
  PROVE  ConvInv'
  <1>1. /\ UNCHANGED <<row, threads, threadCase, inbox, letter>>
        /\ \A s \in Calls : send'[s] = NoSend
        /\ \A p \in Passes : pass'[p] = Rest
    BY DEF Crash, tables, mailbox
  <1>2. \A s \in Calls : SendKnows(s)'
    BY <1>1, SendEnds DEF NoSend
  <1>3. \A p \in Passes : PassKnows(p)'
    BY <1>1, RestKnows DEF Rest
  <1> QED
    BY <1>1, <1>2, <1>3, SameIsLater, ConvStep

\* The references of a reply to what is in the mailbox are those of its conversation.
LEMMA ReplyConverses ==
  ASSUME IInv, ConvInv, NEW y \in Messages, InInbox(y)
  PROVE  Conversation(Refs(y)) /\ Refs(y) \in SUBSET Messages
  <1>1. CASE y \in Keys
    <2> DEFINE own == row[y].refs
    <2>1. Stored(y) /\ y \notin Mails /\ Answers(own, row[y].thread) /\ own \in SUBSET Messages
      BY <1>1 DEF IInv, NoSilentGap, ConvInv, OurAnswers, TypeOK, MessageRow, Messages
    <2>2. Refs(y) = {y} \cup own
      BY <2>1 DEF Refs, IdOf
    <2>3. \A z \in own : Known(z)
      <3> SUFFICES ASSUME NEW z \in own PROVE Known(z)
        OBVIOUS
      <3>1. PICK x \in Messages : Stored(x) /\ IdOf(x) = z
        BY <2>1 DEF Answers
      <3>2. CASE x \in Keys
        BY <3>1, <3>2 DEF Known, IdOf, Messages
      <3>3. CASE x \in Mails
        <4>1. z = letter[x].id /\ z \in Mails /\ InInbox(z)
          BY <3>1, <3>3 DEF ConvInv, LetterInv, IdOf, IInv, TypeOK, Letter
        <4> QED
          BY <4>1 DEF Known
      <3> QED
        BY <3>2, <3>3 DEF Messages
    <2>4. Known(y)
      BY <1>1, <2>1 DEF Known
    <2>5. \A x \in Messages : Stored(x) /\ IdOf(x) \in Refs(y) => row[x].thread = row[y].thread
      <3>1. \A x \in Messages : IdOf(x) = y => x = y
        BY <1>1 DEF IdOf, IInv, TypeOK, Letter, Messages
      <3> QED
        BY <2>1, <2>2, <3>1 DEF Answers
    <2>6. ASSUME NEW k \in Refs(y) \cap Keys
          PROVE  TogetherWith(k, Refs(y))
      <3>1. k \in Messages /\ Stored(k) /\ IdOf(k) = k
        BY <2>2, <2>3, <2>4, <2>6 DEF Known, Messages, IdOf
      <3>2. row[k].thread = row[y].thread
        BY <2>5, <2>6, <3>1
      <3>3. \A z \in Refs(y) : Among(k, z)
        BY <1>1, <2>1, <2>2, <2>6 DEF Among, Answers
      <3> QED
        BY <2>5, <3>2, <3>3 DEF TogetherWith
    <2> QED
      BY <2>1, <2>2, <2>3, <2>4, <2>6 DEF Conversation
  <1>2. CASE y \in Mails
    <2> DEFINE i == letter[y].id
               own == letter[y].refs
    <2>1. /\ Refs(y) = {i} \cup own /\ i \in Mails /\ i \notin Keys /\ own \in SUBSET Messages
          /\ InInbox(i) /\ Conversation(own)
      BY <1>2 DEF Refs, IdOf, IInv, TypeOK, Letter, ConvInv, LetterInv
    <2>2. \A x \in Mails : letter[x].id = i => letter[x] = letter[y]
      <3>1. \A x \in Mails : letter[letter[x].id] = letter[x]
        BY DEF ConvInv, LetterInv
      <3> QED
        BY <1>2, <3>1
    <2> HIDE DEF i, own
    <2>3. \A z \in Refs(y) : Known(z)
      BY <2>1 DEF Conversation, Known
    <2>4. ASSUME NEW k \in Refs(y) \cap Keys
          PROVE  TogetherWith(k, Refs(y))
      <3>1. k \in own /\ TogetherWith(k, own)
        BY <2>1, <2>4 DEF Conversation
      <3>2. Among(k, i)
        BY <2>1, <2>2, <3>1 DEF Among, own
      <3>3. \A x \in Messages : Stored(x) /\ IdOf(x) = i => row[x].thread = row[k].thread
        <4> SUFFICES ASSUME NEW x \in Messages, Stored(x), IdOf(x) = i
                     PROVE  row[x].thread = row[k].thread
          OBVIOUS
        <4>1. x \in Mails /\ letter[x].id = i
          BY <2>1 DEF IdOf, Messages
        <4>2. k \in letter[x].refs
          BY <2>2, <3>1, <4>1 DEF own
        <4> QED
          BY <4>1, <4>2 DEF ConvInv, ReplyJoinsItsThread
      <3> QED
        BY <2>1, <3>1, <3>2, <3>3 DEF TogetherWith
    <2> QED
      BY <2>1, <2>3, <2>4 DEF Conversation, Messages
  <1> QED
    BY <1>1, <1>2 DEF Messages

LEMMA WritesConv ==
  ASSUME IInv, ConvInv, NEW m \in Mails, Writes(m)
  PROVE  ConvInv'
  <1>1. /\ ~InInbox(m) /\ m \in Messages /\ inbox' = Append(inbox, m) /\ inbox \in Seq(Messages)
        /\ UNCHANGED <<row, threads, threadCase, send, pass>> /\ letter \in [Mails -> Letter]
    BY DEF Writes, tables, Messages, IInv, TypeOK
  <1>2. PICK l \in Letters(m) \cup {letter[x] : x \in {y \in Mails : InInbox(y)}} :
          letter' = [letter EXCEPT ![m] = l]
    BY DEF Writes
  <1>3. letter'[m] = l /\ \A x \in Mails \ {m} : letter'[x] = letter[x]
    BY <1>1, <1>2
  <1>4. \A x \in Messages : InInbox(x)' <=> InInbox(x) \/ x = m
    BY <1>1, Delivered
  <1>5. Arrives(m)
    <2>1. InInbox(m)'
      BY <1>1, <1>4
    <2>2. l.id = m \/ \E x \in Mails : InInbox(x) /\ l = letter[x]
      BY DEF Letters
    <2> QED
      BY <1>1, <1>3, <2>1, <2>2 DEF Arrives
  <1>6. Later
    <2>1. \A x \in Messages : (Stored(x)' <=> Stored(x)) /\ (Placed(x) => Placed(x)')
      BY <1>1 DEF Stored, Placed
    <2> QED
      BY <1>1, <1>3, <1>4, <1>5, <2>1 DEF Later
  <1>7. Conversation(l.refs) /\ l.refs \in SUBSET Messages
    <2>1. CASE l \in Letters(m)
      <3>1. l.refs = {} \/ \E y \in Messages : InInbox(y) /\ l.refs = Refs(y)
        BY <2>1 DEF Letters
      <3>2. Conversation({})
        BY DEF Conversation
      <3> QED
        BY <3>1, <3>2, ReplyConverses
    <2>2. CASE \E x \in Mails : l = letter[x]
      BY <1>1, <2>2 DEF ConvInv, Letter
    <2> QED
      BY <2>1, <2>2
  <1>8. Conversation(letter[m].refs)'
    BY <1>3, <1>6, <1>7, ConversationOf
  <1> QED
    BY <1>1, <1>3, <1>6, <1>8, OtherConv

LEMMA InitConv == Init => ConvInv
  <1> SUFFICES ASSUME Init PROVE ConvInv
    OBVIOUS
  <1>1. /\ \A x \in Messages : ~Stored(x) /\ ~InInbox(x)
        /\ \A m \in Mails : letter[m].id = m /\ letter[m].refs = {}
        /\ threads = <<>>
    BY DEF Init, Stored, InInbox, NoRow
  <1>2. LetterInv /\ ReplyJoinsItsThread
    BY <1>1 DEF LetterInv, ReplyJoinsItsThread, Messages
  <1>3. ThreadInv /\ OurAnswers
    BY <1>1 DEF ThreadInv, OurAnswers, Messages
  <1>4. \A m \in Mails : Conversation(letter[m].refs)
    BY <1>1 DEF Conversation
  <1>5. \A s \in Calls : SendKnows(s)
    BY DEF Init, NoSend, SendKnows
  <1>6. \A p \in Passes : PassKnows(p)
    BY DEF Init, Rest, PassKnows, Ingesting
  <1> QED
    BY <1>2, <1>3, <1>4, <1>5, <1>6 DEF ConvInv

LEMMA StepConv == IInv /\ ConvInv /\ [Next]_vars => ConvInv'
  <1> SUFFICES ASSUME IInv, ConvInv, [Next]_vars PROVE ConvInv'
    OBVIOUS
  <1>1. ASSUME NEW m \in Mails, Writes(m) PROVE ConvInv'
    BY <1>1, WritesConv
  <1>2. ASSUME NEW s \in Calls, send_email(s) PROVE ConvInv'
    BY <1>2, FindsConv, PreparesConv, QueuesConv, RefusedConv, SmtpConv, SettlesConv
       DEF send_email
  <1>3. ASSUME NEW p \in Passes, poll_once(p) \/ Aborts(p) PROVE ConvInv'
    BY <1>3, ListsConv, ReadsConv, RestConv, IngestsConv DEF poll_once
  <1>4. ASSUME NEW a \in Analysts, relink_message(a) PROVE ConvInv'
    BY <1>4, RelinkConv
  <1>5. CASE Crash
    BY <1>5, CrashConv
  <1>6. CASE UNCHANGED vars
    <2>1. UNCHANGED <<row, threads, threadCase, inbox, letter, send, pass>>
      BY <1>6 DEF vars, tables, mailbox
    <2> QED
      BY <2>1, SameIsLater, OtherConv
  <1> QED
    BY <1>1, <1>2, <1>3, <1>4, <1>5, <1>6 DEF Next

\* A customer's answer to a mail of ours is stored in that mail's thread, through crashes,
\* copies, concurrent passes and relinking, and in a thread we opened it has a case.
THEOREM RepliesJoin == Spec => []ReplyJoinsItsThread
  <1>1. Spec => []ConvInv
    BY Inductive, InitConv, StepConv, PTL DEF Spec
  <1>2. ConvInv => ReplyJoinsItsThread
    BY DEF ConvInv
  <1> QED
    BY <1>1, <1>2, PTL
=============================================================================
