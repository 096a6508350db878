------------------------------- MODULE MockErp -------------------------------
(***************************************************************************)
(* The ERP that stands behind the adapter: invoices fall due, and are      *)
(* credited under idempotency keys.  A POST is a transaction that reads,   *)
(* and then writes what it has worked out from what it read.               *)
(*                                                                         *)
(*   services/mock-erp/recoup_mock_erp/{routes,repo,models}.py,            *)
(*   libs/recoup-erp-adapter/recoup_erp/mock_client.py                     *)
(*                                                                         *)
(* A key stands for one request: how much to credit is worked out by the   *)
(* gateway's calculate_credit_memo when the key is made.  Payments and the *)
(* seeding of a data set are left out.                                     *)
(***************************************************************************)
EXTENDS Reconcile

CONSTANTS DueOrder,    \* the invoices in the order of (due_date, invoice_ref)
          Docs,        \* their documents
          Amount,      \* invoice -> amount_open, to begin with
          Creditable,  \* those somebody asks a credit for
          KindSets,    \* include_kinds, as callers choose them
          Keys,        \* idempotency keys
          Posts        \* requests in flight

Bills == DOMAIN Amount

ASSUME ErpAssumption ==
  /\ Amount \in [Bills -> Nat \ {0}]
  /\ Creditable \subseteq Bills
  /\ \A i \in Creditable : WellFormed(Docs[i])

VARIABLES due,       \* how many of DueOrder are overdue by ingest_overdue_days
          balance,   \* invoices.amount_open
          settled,   \* those whose status is PAID or VOID
          asked,     \* what each key asks for
          memos,     \* keys in table credit_memos
          post,      \* requests in flight
          torn       \* history: invoices written from a balance no longer so

erpVars == <<due, balance, settled, asked, memos, post, torn>>

NoAsk == [amount |-> 0]
NoPost == [phase |-> "idle"]

ErpInit ==
  /\ due = 0 /\ settled = {} /\ memos = {} /\ torn = {}
  /\ balance = Amount
  /\ asked = [k \in Keys |-> NoAsk]
  /\ post = [e \in Posts |-> NoPost]

\* A day passes: the next of them is overdue.
FallsDue ==
  /\ due < Len(DueOrder)
  /\ due' = due + 1
  /\ UNCHANGED <<balance, settled, asked, memos, post, torn>>

\* list_open_invoices: the first of them.
OpenAndDue == SelectSeq(SubSeq(DueOrder, 1, due), LAMBDA i : i \notin settled)
list_invoices(limit) == SubSeq(OpenAndDue, 1, Min({limit, Len(OpenAndDue)}))

\* An agent has a credit worked out and settles on it.
Asks(k, i, kinds) ==
  /\ asked[k] = NoAsk
  /\ LET amount == calculate_credit_memo(Docs[i], balance[i], kinds) IN
       /\ amount > 0
       /\ asked' = [asked EXCEPT ![k] = [amount |-> amount, invoice |-> i]]
  /\ UNCHANGED <<due, balance, settled, memos, post, torn>>

\* Were the open balance not looked at.
AnyAmount(amount, open) == TRUE
Fits(amount, open) == amount <= open

\* POST /credit-memos up to the flush.  A key that is there is answered with its memo.
ReadsInvoice(e, k) ==
  /\ post[e].phase = "idle"
  /\ asked[k] # NoAsk /\ k \notin memos
  /\ LET open == balance[asked[k].invoice] IN
       /\ Fits(asked[k].amount, open)
       /\ post' = [post EXCEPT ![e] = [phase |-> "read", key |-> k, open |-> open]]
  /\ UNCHANGED <<due, balance, settled, asked, memos, torn>>

\* The INSERT, the UPDATE of amount_open and the commit: apply_credit_memo.
Credits(e) ==
  /\ post[e].phase = "read"
  /\ post[e].key \notin memos
  /\ LET k == post[e].key  i == asked[k].invoice  rest == Max({0, post[e].open - asked[k].amount}) IN
       /\ balance' = [balance EXCEPT ![i] = rest]
       /\ settled' = IF rest = 0 THEN settled \cup {i} ELSE settled
       /\ torn' = IF balance[i] # post[e].open THEN torn \cup {i} ELSE torn
       /\ memos' = memos \cup {k}
  /\ post' = [post EXCEPT ![e] = NoPost]
  /\ UNCHANGED <<due, asked>>

\* The key was inserted by another request, or this one dies.
Drops(e) ==
  /\ post[e].phase = "read"
  /\ post' = [post EXCEPT ![e] = NoPost]
  /\ UNCHANGED <<due, balance, settled, asked, memos, torn>>

ErpNext ==
  \/ FallsDue
  \/ \E k \in Keys, i \in Creditable, kinds \in KindSets : Asks(k, i, kinds)
  \/ \E e \in Posts : Credits(e) \/ Drops(e) \/ \E k \in Keys : ReadsInvoice(e, k)

-----------------------------------------------------------------------------
(* POST /payment-plans: the ERP does the sum again.  It changes no invoice.    *)

PlanBooked(open, discount_pct) == RoundHalfEven(open * (100 - discount_pct), 100)
BookedInstallments(total, n) ==
  LET per == RoundHalfEven(total, n)
  IN  [k \in 1 .. n |-> IF k < n THEN per ELSE Remainder(total, n, per)]

-----------------------------------------------------------------------------
(* Properties *)

Credited(i) == SumFunctionOnSet([k \in memos |-> asked[k].amount], {k \in memos : asked[k].invoice = i})

\* Unless two credits of an invoice overlapped, its open amount and its memos
\* add up to what was invoiced: credits worked out before another was issued
\* are refused rather than booked twice, and a key is booked once however
\* often it is sent.
CreditsAddUp ==
  \A i \in Bills \ torn :
    /\ balance[i] + Credited(i) = Amount[i]
    /\ i \in settled <=> balance[i] = 0
=============================================================================
