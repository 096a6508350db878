------------------------------ MODULE MCIntake ------------------------------
(* An instance of Intake for TLC: three invoices and a limit of two to a pass; *)
(* one is credited.  Its documents say that it bills too many of what was      *)
(* ordered, at too high a price, and freight it may not bill.                  *)
EXTENDS Intake, Amounts, TLC

CONSTANTS i1, i2, i3

Order == <<i1, i2, i3>>
Opening == i1 :> 30 @@ i2 :> 12 @@ i3 :> 12

Doc ==
  [lines |-> <<[sku |-> "a", qty |-> 3, price |-> 9, freight |-> FALSE]>>,
   freight |-> 3, tax |-> 0, subtotal |-> 27,
   po |-> [found |-> TRUE, ours |-> TRUE, lines |-> [a |-> [qty |-> 2, price |-> 6]]],
   delivered |-> [a |-> 1],
   contract |-> [found |-> TRUE, prices |-> <<>>, freight_billable |-> FALSE]]
OneDoc == [i \in {i1, i2, i3} |-> Doc]

Chosen == {Kinds}

-----------------------------------------------------------------------------
\* Bound: calculations are asked for before anything else happens, and one at most.
Untouched ==
  /\ due = 0 /\ post = [e \in Posts |-> NoPost] /\ asked = [k \in Keys |-> NoAsk]
  /\ req = [r \in Requests |-> Idle] /\ pass = [r \in Loops |-> Rest]
  /\ claim = [i \in Invoices |-> None]

all == <<intakeVars, quote>>
Step(A) == quote = NoQuote /\ A /\ UNCHANGED quote

MCNext ==
  \/ Step(IntakeNext)
  \/ quote = NoQuote /\ Untouched /\ QuoteNext /\ UNCHANGED intakeVars

MCInit == IntakeInit /\ QuoteInit
MCSpec ==
  /\ MCInit /\ [][MCNext]_all
  /\ \A r \in Loops : WF_all(Step(LoopStep(r)))
=============================================================================
