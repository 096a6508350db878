------------------------------- MODULE Amounts -------------------------------
(***************************************************************************)
(* The calculations agents ask the gateway for: what an invoice of one     *)
(* line should be credited, with or without the purchase order, the        *)
(* delivery and the contract it is held against, and what a payment plan   *)
(* would come to.  They change nothing; the last one asked for is kept so  *)
(* that what it promises can be said.                                      *)
(***************************************************************************)
EXTENDS MockErp

CONSTANTS MaxQty, MaxPrice, MaxOpen, MaxInstallments, MaxPlan, Discounts

ASSUME AmountsAssumption ==
  /\ MaxQty \in Nat /\ MaxPrice \in Nat /\ MaxOpen \in Nat
  /\ MaxInstallments \in Nat /\ MaxPlan \in Nat /\ Discounts \subseteq 0 .. 100

Prices == 1 .. MaxPrice
Line == [sku : {"a"}, qty : 1 .. MaxQty, price : Prices, freight : {FALSE}]
Po ==
  {[found |-> FALSE, ours |-> FALSE, lines |-> <<>>], [found |-> TRUE, ours |-> TRUE, lines |-> <<>>]}
  \cup [found : {TRUE}, ours : {TRUE}, lines : [{"a"} -> [qty : 0 .. MaxQty, price : Prices]]]
Delivery == {<<>>} \cup [{"a"} -> 0 .. MaxQty]
Contract ==
  [found : {TRUE}, prices : {<<>>} \cup [{"a"} -> Prices], freight_billable : BOOLEAN]
  \cup {[found |-> FALSE, prices |-> <<>>, freight_billable |-> TRUE]}

Document(line, po, delivered, contract, freight, tax) ==
  [lines |-> <<line>>, freight |-> freight, tax |-> tax, subtotal |-> line.qty * line.price,
   po |-> po, delivered |-> delivered, contract |-> contract]

VARIABLE quote

NoQuote == [of |-> "nothing"]
QuoteInit == quote = NoQuote

reconcile_lines ==
  \E line \in Line, po \in Po, delivered \in Delivery, contract \in Contract, tax \in {0, 1} :
    quote' = [of |-> "credit", doc |-> Document(line, po, delivered, contract, 2, tax)]

simulate_payment_plan ==
  \E open \in 1 .. MaxPlan, pct \in Discounts, n \in 1 .. MaxInstallments :
    quote' = [of |-> "plan", open |-> open, pct |-> pct, said |-> Installments(PlanTotal(open, pct), n)]

QuoteNext == reconcile_lines \/ simulate_payment_plan
QuoteSpec == QuoteInit /\ [][QuoteNext]_quote

-----------------------------------------------------------------------------
(* Properties *)

\* What the customer owes for the line: the lowest price anybody named, for the
\* smallest quantity anybody ordered or received; nothing for what nobody ordered.
Owed(d, line) ==
  LET quantities ==
        {d.po.lines[s].qty : s \in DOMAIN d.po.lines} \cup {d.delivered[s] : s \in DOMAIN d.delivered}
  IN  IF OffPo(d, line) THEN 0
      ELSE Min({line.price} \cup RefPrice(d, line.sku)) * Min({line.qty} \cup quantities)

\* reconcile takes a line apart by price, by order and by delivery; the parts
\* neither overlap nor leave anything out: together they are what was billed
\* beyond what is owed.  (Reference prices of zero excepted: they count as none.)
\* A credit calculated from some of them is within the open balance, and within
\* what reconciling proposes, which calculating from all of them comes to.
CreditsMatchDocuments ==
  quote.of = "credit" =>
    LET d == quote.doc  line == d.lines[1] IN
    /\ LineCredit(d, Kinds) = line.qty * line.price - Owed(d, line)
    /\ \A open \in 1 .. MaxOpen :
         /\ calculate_credit_memo(d, open, Kinds) = proposed_credit_memo(d, open)
         /\ \A k \in Kinds :
              calculate_credit_memo(d, open, {k}) <= Min({open, proposed_credit_memo(d, open)})

\* The plan a person approves, as the gateway simulated it, and the plan the ERP
\* then works out for itself and books: the installments of each add up to its
\* total, none is negative unless the total is tiny, and the totals and the
\* installments differ by rounding only.
PlansAgree ==
  quote.of = "plan" =>
    LET said == quote.said  n == Len(said)
        told == PlanTotal(quote.open, quote.pct)
        booked == PlanBooked(quote.open, quote.pct)
        falls == BookedInstallments(booked, n)
    IN
    /\ SumFunction(said) = told /\ SumFunction(falls) = booked
    /\ 2 * told >= n * (n - 1) => \A k \in 1 .. n : said[k] >= 0
    /\ booked - told \in {0, 1}
    /\ told = booked => \A k \in 1 .. n - 1 : said[k] - falls[k] \in {0, 1}
=============================================================================
