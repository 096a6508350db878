--------------------------- MODULE Communication ---------------------------
(***************************************************************************)
(* E-mail, out and in.  A send writes its row (QUEUED), hands the mail to  *)
(* SMTP and settles the row (SENT, FAILED), each in a transaction of its   *)
(* own.  A poller, and whoever                                        *)
(* calls POST /inbound/poll, walks through the mailbox and stores what     *)
(* customers wrote, in the thread and case it belongs to if it can tell.   *)
(* Analysts link the rest.  One process, which may die at any await.       *)
(*                                                                         *)
(*   services/communication/recoup_communication/{service,routes,clients,  *)
(*   models}.py                                                            *)
(*                                                                         *)
(* A message we send is known by its idempotency key, one we receive by    *)
(* its place in the mailbox, a thread by the message that opened it.       *)
(* Addresses, subjects, bodies and the invoice numbers kept for display    *)
(* are left out, and so is the line a message leaves in the case's         *)
(* timeline, as the timeline is in CaseService.                            *)
(***************************************************************************)
EXTENDS Naturals, Sequences

CONSTANTS Cases,       \* those that exist
          Keys,       \* idempotency keys, and the message sent under each
          Calls,      \* calls of send_email that run at once
          Mails,      \* what customers write
          Passes,     \* the poller's loop, and callers of /inbound/poll
          Loop,       \* the pass that is the loop
          Analysts,
          None,       \* no case, message or thread
          Window,     \* list_messages(limit)
          MaxFaults   \* bound: failures and crashes ever

ASSUME CommunicationAssumption ==
  /\ Loop \in Passes
  /\ Window \in Nat \ {0} /\ MaxFaults \in Nat
  /\ Keys \cap Mails = {}
  /\ None \notin Cases \cup Keys \cup Mails

VARIABLES row,        \* table messages
          threads,    \* table threads, in the order they were created
          threadCase, \* their case_id
          inbox,      \* the mail server: what it took, oldest first
          letter,     \* what each customer's mail says
          send, pass, link,   \* requests under way
          answered,   \* keys a call was answered for
          faults

tables == <<row, threads, threadCase>>
mailbox == <<inbox, letter>>
vars == <<tables, mailbox, send, pass, link, answered, faults>>

Messages == Keys \cup Mails

NoRow == [status |-> "none", thread |-> None, case |-> None, refs |-> {}]
NoSend == [phase |-> "idle", key |-> None, case |-> None, refs |-> {}, thread |-> None]
Rest == [phase |-> "resting", todo |-> <<>>, thread |-> None, case |-> None]
NoLink == [phase |-> "idle", mail |-> None, case |-> None, free |-> FALSE]

Init ==
  /\ row = [x \in Messages |-> NoRow]
  /\ threads = <<>>
  /\ threadCase = [x \in Messages |-> None]
  /\ inbox = <<>>
  /\ letter = [m \in Mails |-> [refs |-> {}, names |-> None, id |-> m]]
  /\ send = [s \in Calls |-> NoSend]
  /\ pass = [p \in Passes |-> Rest]
  /\ link = [a \in Analysts |-> NoLink]
  /\ answered = {}
  /\ faults = 0

Fault == faults < MaxFaults /\ faults' = faults + 1

Stored(x) == row[x].status # "none"
InInbox(x) == \E i \in DOMAIN inbox : inbox[i] = x

\* threads_for_case(...)[-1]
Newest(c, t) ==
  \E i \in DOMAIN threads :
    /\ threads[i] = t /\ threadCase[t] = c
    /\ \A j \in DOMAIN threads : j > i => threadCase[threads[j]] # c
HasThread(c) == \E i \in DOMAIN threads : threadCase[threads[i]] = c

\* A message and, if it is its own thread, that thread.
Insert(x, r) ==
  /\ row' = [row EXCEPT ![x] = r]
  /\ threads' = IF r.thread = x THEN Append(threads, x) ELSE threads
  /\ threadCase' = IF r.thread = x THEN [threadCase EXCEPT ![x] = r.case] ELSE threadCase

-----------------------------------------------------------------------------
(* Customers *)

\* Message-IDs.
IdOf(x) == IF x \in Mails THEN letter[x].id ELSE x

\* The In-Reply-To and References of a reply to x.
Refs(x) == {IdOf(x)} \cup (IF x \in Mails THEN letter[x].refs ELSE row[x].refs)

\* A mail replies to one that arrived or to none, and names an invoice of a case or none.
Letters(m) ==
  {[refs |-> refs, names |-> c, id |-> m] :
     refs \in {Refs(x) : x \in {y \in Messages : InInbox(y)}} \cup {{}}, c \in Cases \cup {None}}

\* It may also be another, with its Message-ID, delivered twice.
Writes(m) ==
  /\ ~InInbox(m)
  /\ \E l \in Letters(m) \cup {letter[x] : x \in {y \in Mails : InInbox(y)}} :
       letter' = [letter EXCEPT ![m] = l]
  /\ inbox' = Append(inbox, m)
  /\ UNCHANGED <<tables, send, pass, link, answered, faults>>

-----------------------------------------------------------------------------
(* send_email *)

\* A call whose key is known is given the row as it stands.
Finds(s, k) ==
  /\ send[s].phase = "idle"
  /\ Stored(k)
  /\ answered' = answered \cup {k}
  /\ UNCHANGED <<tables, mailbox, send, pass, link, faults>>

\* _thread_for_send, with the message replied to, if any
ThreadFor(k, c, parents, t) ==
  IF parents # {} THEN \E x \in parents : t = row[x].thread
  ELSE IF HasThread(c) THEN Newest(c, t)
  ELSE t = k

Prepares(s, k, c) ==
  /\ send[s].phase = "idle"
  /\ ~Stored(k)
  /\ \E parents \in {{x} : x \in {y \in Messages : Stored(y)}} \cup {{}}, t \in Messages :
       /\ ThreadFor(k, c, parents, t)
       /\ send' = [send EXCEPT ![s] = [phase |-> "prepared", key |-> k, case |-> c,
                     refs |-> {IdOf(x) : x \in parents}, thread |-> t]]
  /\ UNCHANGED <<tables, mailbox, pass, link, answered, faults>>

\* The unique index on idempotency_key, looked at by the INSERT.
AnyKey(s) == TRUE
UniqueKey(s) == ~Stored(send[s].key)

Queues(s) ==
  /\ send[s].phase = "prepared"
  /\ UniqueKey(s)
  /\ Insert(send[s].key, [status |-> "QUEUED", thread |-> send[s].thread,
                          case |-> send[s].case, refs |-> send[s].refs])
  /\ send' = [send EXCEPT ![s].phase = "queued"]
  /\ UNCHANGED <<mailbox, pass, link, answered, faults>>

Refused(s) ==
  /\ send[s].phase = "prepared"
  /\ ~UniqueKey(s)
  /\ send' = [send EXCEPT ![s] = NoSend]
  /\ UNCHANGED <<tables, mailbox, pass, link, answered, faults>>

\* A mutation: SMTP inside the transaction that has not committed the row yet.
InTransaction(s) == send[s].phase \in {"prepared", "queued"}
MayDeliver(s) == send[s].phase = "queued"

SmtpTakes(s) ==
  /\ MayDeliver(s)
  /\ inbox' = Append(inbox, send[s].key)
  /\ send' = [send EXCEPT ![s].phase = "taken"]
  /\ UNCHANGED <<tables, letter, pass, link, answered, faults>>

\* An error may come after the server took the mail.
SmtpFails(s) ==
  /\ MayDeliver(s)
  /\ Fault
  /\ inbox' \in {inbox, Append(inbox, send[s].key)}
  /\ send' = [send EXCEPT ![s].phase = "error"]
  /\ UNCHANGED <<tables, letter, pass, link, answered>>

Outcome(s) == IF send[s].phase = "taken" THEN "SENT" ELSE "FAILED"

Settles(s) ==
  /\ send[s].phase \in {"taken", "error"}
  /\ row' = [row EXCEPT ![send[s].key].status = Outcome(s)]
  /\ answered' = answered \cup {send[s].key}
  /\ send' = [send EXCEPT ![s] = NoSend]
  /\ UNCHANGED <<threads, threadCase, mailbox, pass, link, faults>>

send_email(s) ==
  \/ \E k \in Keys : Finds(s, k) \/ \E c \in Cases : Prepares(s, k, c)
  \/ Queues(s) \/ Refused(s)
  \/ SmtpTakes(s) \/ SmtpFails(s)
  \/ Settles(s)

-----------------------------------------------------------------------------
(* poll_once *)

Size == IF Len(inbox) < Window THEN Len(inbox) ELSE Window
OldestFirst == [i \in 1..Size |-> inbox[i]]

\* The newest messages, newest first.
Listed == [i \in 1..Size |-> inbox[Len(inbox) + 1 - i]]

\* Our own copies are passed over, and what is stored, which stays so.
IsNew(x) == x \in Mails /\ ~Stored(x)

\* A pass that would find nothing new changes nothing.
Lists(p) ==
  /\ pass[p].phase = "resting"
  /\ \E i \in DOMAIN Listed : IsNew(Listed[i])
  /\ pass' = [pass EXCEPT ![p] = [Rest EXCEPT !.phase = "scanning", !.todo = Listed]]
  /\ UNCHANGED <<tables, mailbox, send, link, answered, faults>>

NextNew(p, i) ==
  /\ i \in DOMAIN pass[p].todo /\ IsNew(pass[p].todo[i])
  /\ \A j \in 1..i - 1 : ~IsNew(pass[p].todo[j])

Ends(p) ==
  /\ pass[p].phase = "scanning"
  /\ \A i \in DOMAIN pass[p].todo : ~IsNew(pass[p].todo[i])
  /\ pass' = [pass EXCEPT ![p] = Rest]
  /\ UNCHANGED <<tables, mailbox, send, link, answered, faults>>

\* A mutation: the invoice is looked at first.
InvoiceFirst(m, t, c) ==
  IF letter[m].names # None
  THEN c = letter[m].names /\ IF HasThread(c) THEN Newest(c, t) ELSE t = m
  ELSE LET parents == {x \in Messages : Stored(x) /\ IdOf(x) \in letter[m].refs} IN
       IF parents # {} THEN (\E x \in parents : t = row[x].thread) /\ c = threadCase[t]
       ELSE t = m /\ c = None

\* By thread, else by the invoice's case, else nowhere: t and c are where m belongs.
Belongs(m, t, c) ==
  LET parents == {x \in Messages : Stored(x) /\ IdOf(x) \in letter[m].refs} IN
  IF parents # {} THEN (\E x \in parents : t = row[x].thread) /\ c = threadCase[t]
  ELSE IF letter[m].names # None
  THEN c = letter[m].names /\ IF HasThread(c) THEN Newest(c, t) ELSE t = m
  ELSE t = m /\ c = None

Reads(p) ==
  /\ pass[p].phase = "scanning"
  /\ \E i \in DOMAIN pass[p].todo, t \in Messages, c \in Cases \cup {None} :
       /\ NextNew(p, i)
       /\ Belongs(pass[p].todo[i], t, c)
       /\ pass' = [pass EXCEPT ![p] =
            [phase |-> "reading", thread |-> t, case |-> c,
             todo |-> SubSeq(pass[p].todo, i, Len(pass[p].todo))]]
  /\ UNCHANGED <<tables, mailbox, send, link, answered, faults>>

\* The unique indexes on external_id and message_id.
AnyMail(m) == TRUE
UniqueMail(m) == \A x \in Mails : Stored(x) => x # m /\ letter[x].id # letter[m].id

Ingesting(p, m) == pass[p].phase = "reading" /\ Head(pass[p].todo) = m

Ingests(p, m) ==
  /\ Ingesting(p, m)
  /\ UniqueMail(m)
  /\ Insert(m, [status |-> IF pass[p].case = None THEN "UNLINKED" ELSE "RECEIVED",
                thread |-> pass[p].thread, case |-> pass[p].case, refs |-> letter[m].refs])
  /\ pass' = [pass EXCEPT ![p] =
       [Rest EXCEPT !.phase = "scanning", !.todo = Tail(pass[p].todo)]]
  /\ UNCHANGED <<mailbox, send, link, answered, faults>>

\* Whatever fails ends the pass, with all that is still to scan: the INSERT,
Collides(p, m) ==
  /\ Ingesting(p, m)
  /\ ~UniqueMail(m)
  /\ pass' = [pass EXCEPT ![p] = Rest]
  /\ UNCHANGED <<tables, mailbox, send, link, answered, faults>>

\* or a call to the mailbox or the case service.
Aborts(p) ==
  /\ pass[p].phase \in {"scanning", "reading"}
  /\ Fault
  /\ pass' = [pass EXCEPT ![p] = Rest]
  /\ UNCHANGED <<tables, mailbox, send, link, answered>>

poll_once(p) ==
  \/ Lists(p) \/ Reads(p) \/ Ends(p)
  \/ \E m \in Mails : Ingests(p, m) \/ Collides(p, m)

-----------------------------------------------------------------------------
(* relink_message *)

Unlinked(m) == m \in Mails /\ Stored(m) /\ row[m].case = None

\* It reads the message, asks the case service, reads the thread,
Chooses(a, m, c) ==
  /\ link[a].phase = "idle"
  /\ Unlinked(m)
  /\ link' = [link EXCEPT ![a] = [phase |-> "asking", mail |-> m, case |-> c, free |-> FALSE]]
  /\ UNCHANGED <<tables, mailbox, send, pass, answered, faults>>

ReadsThread(a) ==
  /\ link[a].phase = "asking"
  /\ link' = [link EXCEPT ![a].phase = "linking",
                          ![a].free = threadCase[row[link[a].mail].thread] = None]
  /\ UNCHANGED <<tables, mailbox, send, pass, answered, faults>>

\* and commits.  Nothing tells it that the rows have changed since.
Links(a) ==
  LET m == link[a].mail  c == link[a].case IN
  /\ link[a].phase = "linking"
  /\ row' = [row EXCEPT ![m] = [row[m] EXCEPT !.case = c, !.status = "RECEIVED"]]
  /\ threadCase' = IF link[a].free THEN [threadCase EXCEPT ![row[m].thread] = c] ELSE threadCase
  /\ link' = [link EXCEPT ![a] = NoLink]
  /\ UNCHANGED <<threads, mailbox, send, pass, answered, faults>>

relink_message(a) ==
  \/ \E m \in Mails, c \in Cases : Chooses(a, m, c)
  \/ ReadsThread(a) \/ Links(a)

-----------------------------------------------------------------------------

\* The process dies and is started again: what was committed or handed over stays.
Crash ==
  /\ Fault
  /\ send' = [s \in Calls |-> NoSend]
  /\ pass' = [p \in Passes |-> Rest]
  /\ link' = [a \in Analysts |-> NoLink]
  /\ UNCHANGED <<tables, mailbox, answered>>

Next ==
  \/ \E m \in Mails : Writes(m)
  \/ \E s \in Calls : send_email(s)
  \/ \E p \in Passes : poll_once(p) \/ Aborts(p)
  \/ \E a \in Analysts : relink_message(a)
  \/ Crash

Spec == Init /\ [][Next]_vars

\* _loop catches every exception and polls again.
FairSpec == Spec /\ WF_vars(poll_once(Loop))

-----------------------------------------------------------------------------
(* Properties *)

Status == {"none", "QUEUED", "SENT", "FAILED", "RECEIVED", "UNLINKED"}

MessageRow == [status : Status, thread : Messages \cup {None},
               case : Cases \cup {None}, refs : SUBSET Messages]
Letter == [refs : SUBSET Messages, names : Cases \cup {None}, id : Mails]
SendRow == [phase : {"idle", "prepared", "queued", "taken", "error"},
            key : Keys \cup {None}, case : Cases \cup {None},
            refs : SUBSET Messages, thread : Messages \cup {None}]
PassRow == [phase : {"resting", "scanning", "reading"}, todo : Seq(Messages),
            thread : Messages \cup {None}, case : Cases \cup {None}]
LinkRow == [phase : {"idle", "asking", "linking"}, mail : Mails \cup {None},
            case : Cases \cup {None}, free : BOOLEAN]

\* Rows and requests are well formed: what a row, a thread or a request refers to is a
\* message or a case of the right kind.
TypeOK ==
  /\ row \in [Messages -> MessageRow]
  /\ threads \in Seq(Messages)
  /\ threadCase \in [Messages -> Cases \cup {None}]
  /\ inbox \in Seq(Messages)
  /\ letter \in [Mails -> Letter]
  /\ send \in [Calls -> SendRow]
  /\ pass \in [Passes -> PassRow]
  /\ \A p \in Passes : Len(pass[p].todo) <= Window
  /\ link \in [Analysts -> LinkRow]
  /\ answered \subseteq Keys
  /\ faults \in 0..MaxFaults

\* However often a call is repeated, in parallel or after a crash, the mail server is
\* given one mail per key.
MailedOnce ==
  \A i, j \in DOMAIN inbox : inbox[i] = inbox[j] /\ inbox[i] \in Keys => i = j

\* What the docstring of send_email says of a crash mid-SMTP: whatever the server was
\* given, or a call was answered for, has a row, only what it was given is SENT, and a
\* row is left QUEUED only by a call that is under way or was cut off.
UnderWay(k) ==
  \E s \in Calls : send[s].key = k /\ send[s].phase \in {"queued", "taken", "error"}
NoSilentGap ==
  \A k \in Keys :
    /\ InInbox(k) \/ k \in answered => Stored(k)
    /\ row[k].status = "SENT" => InInbox(k)
    /\ row[k].status = "QUEUED" => UnderWay(k) \/ faults > 0

\* A customer's answer to one of our mails lands in its conversation, even if it comes
\* before our own row is settled or after a crash has cut that off; and when we opened
\* the conversation, it is not left to a human.
ReplyJoinsItsThread ==
  \A m \in Mails : Stored(m) => \A k \in letter[m].refs \cap Keys :
    /\ row[m].thread = row[k].thread
    /\ row[m].thread \in Keys => row[m].status = "RECEIVED"

\* More mail than one listing holds has come since; or a later one with an ID that is stored
\* already makes every pass fail before it comes to this one.
Pushed(m) == \A i \in DOMAIN inbox : inbox[i] = m => i + Window <= Len(inbox)
Blocked(m) ==
  \E i, j \in DOMAIN inbox :
    /\ inbox[i] = m /\ i <= j /\ inbox[j] \in Mails
    /\ ~Stored(inbox[j]) /\ ~UniqueMail(inbox[j])

\* Every mail in the mailbox is stored in the end, whatever fails on the way, unless it is
\* pushed out of the listing or stands behind a duplicate.
EveryMailIngested ==
  \A m \in Mails : InInbox(m) ~> Stored(m) \/ Pushed(m) \/ Blocked(m)
=============================================================================
