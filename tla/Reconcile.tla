------------------------------ MODULE Reconcile ------------------------------
(***************************************************************************)
(* The arithmetic of the tool gateway: what an invoice claims beyond its   *)
(* purchase order, its delivery and the customer's contract, and the       *)
(* credit that implies.                                                    *)
(*                                                                         *)
(*   services/tool-gateway/recoup_tool_gateway/tools/{reconcile,           *)
(*   erp_write}.py                                                         *)
(*                                                                         *)
(* Money is in cents, quantities are whole, tax_rate is in ten-thousandths.*)
(* The documents of an invoice, d, are a record:                           *)
(*   lines     line number -> [sku, qty, price, freight]                   *)
(*   freight, tax, subtotal                                                *)
(*   po        [found, ours, lines: sku -> [qty, price]]                   *)
(*   delivered sku -> quantity; empty when there is no proof               *)
(*   contract  [found, prices: sku -> price, freight_billable]             *)
(* and open is its amount_open.                                            *)
(***************************************************************************)
EXTENDS Integers, Sequences, FiniteSets, FiniteSetsExt, Functions

Least(a, b) == IF a <= b THEN a ELSE b

\* Documents as the ERP holds them: finitely many lines, all of it whole numbers,
\* and a subtotal that may be divided by.
WellFormed(d) ==
  /\ IsFiniteSet(DOMAIN d.lines)
  /\ \A n \in DOMAIN d.lines : d.lines[n].qty \in Int /\ d.lines[n].price \in Int
  /\ \A s \in DOMAIN d.po.lines : d.po.lines[s].qty \in Int /\ d.po.lines[s].price \in Int
  /\ \A s \in DOMAIN d.delivered : d.delivered[s] \in Int
  /\ \A s \in DOMAIN d.contract.prices : d.contract.prices[s] \in Int
  /\ d.freight \in Int /\ d.tax \in Int /\ d.subtotal \in Nat

\* n / m, rounded as ROUND_HALF_UP (money) and as ROUND_HALF_EVEN (Decimal's own) do.
RoundHalfUp(n, m) == (2 * n + m) \div (2 * m)
RoundHalfEven(n, m) ==
  LET q == n \div m  twice == 2 * (n % m)
  IN  IF twice > m \/ (twice = m /\ q % 2 = 1) THEN q + 1 ELSE q

TaxRate(d) == IF d.subtotal = 0 THEN 0 ELSE RoundHalfEven(10000 * d.tax, d.subtotal)

\* The price a sku should have: {} when nobody says.
RefPrice(d, sku) ==
  IF sku \in DOMAIN d.po.lines THEN {d.po.lines[sku].price}
  ELSE IF sku \in DOMAIN d.contract.prices THEN {d.contract.prices[sku]}
  ELSE {}

\* "ref_price or line.unit_price": a price of zero counts as none.
PriceForCredit(d, line) == Min({line.price} \cup {p \in RefPrice(d, line.sku) : p # 0})

OnOrder(d, line) == IF line.sku \in DOMAIN d.po.lines THEN d.po.lines[line.sku].qty ELSE line.qty
\* Were what is over the order not set apart from what is short of delivery.
InvoicedQty(d, line) == line.qty
BillableQty(d, line) == Least(line.qty, OnOrder(d, line))

PriceAbove(d, line) ==
  {[kind |-> IF line.sku \in DOMAIN d.po.lines THEN "PRICE_ABOVE_PO" ELSE "PRICE_ABOVE_CONTRACT",
    credit |-> (line.price - p) * line.qty] : p \in {q \in RefPrice(d, line.sku) : line.price > q}}
QtyAbovePo(d, line) ==
  {[kind |-> "QTY_ABOVE_PO", credit |-> over * PriceForCredit(d, line)] :
     over \in {line.qty - OnOrder(d, line)} \cap (Nat \ {0})}
QtyShort(d, line) ==
  {[kind |-> "QTY_SHORT_DELIVERED", credit |-> short * PriceForCredit(d, line)] :
     short \in {BillableQty(d, line) - q : q \in {d.delivered[s] : s \in DOMAIN d.delivered \cap {line.sku}}}
               \cap (Nat \ {0})}

OffPo(d, line) == RefPrice(d, line.sku) = {} /\ d.po.found

LineDiscrepancies(d, line) ==
  IF line.freight THEN {}
  ELSE IF OffPo(d, line) THEN {[kind |-> "LINE_NOT_ON_PO", credit |-> line.qty * line.price]}
  ELSE PriceAbove(d, line) \cup QtyAbovePo(d, line) \cup QtyShort(d, line)

FreightDiscrepancies(d) ==
  IF d.freight > 0 /\ d.contract.found /\ ~d.contract.freight_billable
  THEN {[kind |-> "FREIGHT_NOT_BILLABLE", credit |-> d.freight]} ELSE {}

Kinds == {"PRICE_ABOVE_PO", "PRICE_ABOVE_CONTRACT", "QTY_ABOVE_PO",
          "QTY_SHORT_DELIVERED", "LINE_NOT_ON_PO", "FREIGHT_NOT_BILLABLE"}

CreditOf(found, kinds) == SumFunctionOnSet([x \in found |-> x.credit], {x \in found : x.kind \in kinds})

\* The credit for discrepancies of these kinds, before tax.
LineCredit(d, kinds) ==
  SumFunction([n \in DOMAIN d.lines |-> CreditOf(LineDiscrepancies(d, d.lines[n]), kinds)])
FreightCredit(d, kinds) == CreditOf(FreightDiscrepancies(d), kinds)

\* reconcile(...).proposed_credit_memo
proposed_credit_memo(d, open) ==
  LET total == RoundHalfUp(LineCredit(d, Kinds) * (10000 + TaxRate(d)), 10000)
               + FreightCredit(d, Kinds)
  IN  IF open > 0 THEN Least(total, open) ELSE total

\* calculate_credit_memo(...).credit_memo_amount
calculate_credit_memo(d, open, kinds) ==
  LET line == LineCredit(d, kinds)
  IN  Least(line + RoundHalfUp(line * TaxRate(d), 10000) + FreightCredit(d, kinds), open)

has_po_match(d) == d.po.found /\ d.po.ours
amount_within_reconciled(d, open, amount) == amount <= proposed_credit_memo(d, open) + 100

\* simulate_payment_plan: the installments of an amount
AnotherPart(total, n, per) == per
Remainder(total, n, per) == total - (n - 1) * per
Installments(total, n) ==
  LET per == RoundHalfUp(total, n)
  IN  [k \in 1 .. n |-> IF k < n THEN per ELSE Remainder(total, n, per)]
PlanTotal(open, discount_pct) == open - RoundHalfUp(open * discount_pct, 100)
=============================================================================
