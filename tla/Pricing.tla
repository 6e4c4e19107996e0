------------------------------ MODULE Pricing ------------------------------
(***************************************************************************)
(* What an order costs and what a promotion takes off it:                  *)
(* src/internal/domain/pricing/pricing.go, which is pure.  A line is a     *)
(* record of category, unitPrice, optionsDelta, qty and kitchenUnits.      *)
(***************************************************************************)
EXTENDS Money, Sequences, SequencesExt

LineTotal(l) ==
  LET unit == Add(l.unitPrice, l.optionsDelta) IN
  IF ~unit.ok \/ unit.value < 0 THEN ErrOverflow ELSE Mul(unit.value, l.qty)

\* The running sum, which a line that cannot be priced or an overflow ends.
Subtotal(lines) ==
  FoldLeft(LAMBDA sum, l :
             IF sum.ok /\ LineTotal(l).ok THEN Add(sum.value, LineTotal(l).value)
             ELSE ErrOverflow,
           Ok(0), lines)

Refused ==
  [ok |-> FALSE, subtotal |-> 0, discount |-> 0, serviceCharge |-> 0, tax |-> 0,
   deliveryFee |-> 0, total |-> 0]

Totals(subtotal, discount, serviceCharge, tax, deliveryFee, total) ==
  [ok |-> TRUE, subtotal |-> subtotal, discount |-> discount,
   serviceCharge |-> serviceCharge, tax |-> tax, deliveryFee |-> deliveryFee,
   total |-> total]

\* The tax contained in prices that include it.
IncludedTax(base, bps) ==
  IF bps > 0
    THEN Quotient(Wrap(base * bps + (FullBps + bps) \div 2), FullBps + bps) ELSE 0

\* Compute, once the lines are summed: the discount, the service charge on what is
\* left, the tax on both, the delivery fee.
ComputeFrom(subtotal, asked, fee, cfg) ==
  LET discount == ClampNonNegative(asked)
      deliveryFee == ClampNonNegative(fee)
      discounted == Sub(subtotal, discount)
      serviceCharge == ApplyRate(discounted.value, cfg.serviceChargeBps)
      base == Add(discounted.value, serviceCharge)
      included == Add(base.value, deliveryFee)
      tax == ApplyRate(base.value, cfg.taxBps)
      added == SumOfThree(base.value, tax, deliveryFee) IN
  IF discount > subtotal \/ ~discounted.ok \/ ~base.ok THEN Refused
  ELSE IF cfg.taxInclusive
    THEN IF included.ok
           THEN Totals(subtotal, discount, serviceCharge,
                       IncludedTax(base.value, cfg.taxBps), deliveryFee, included.value)
           ELSE Refused
    ELSE IF added.ok
           THEN Totals(subtotal, discount, serviceCharge, tax, deliveryFee,
                       ClampNonNegative(added.value))
           ELSE Refused

Compute(lines, discount, fee, cfg) ==
  IF Subtotal(lines).ok THEN ComputeFrom(Subtotal(lines).value, discount, fee, cfg)
  ELSE Refused

\* The CHECKs of table orders on what Compute returns (migration 0009).
RowAccepted(t) ==
  /\ t.subtotal >= 0 /\ t.discount >= 0 /\ t.serviceCharge >= 0 /\ t.tax >= 0
  /\ t.deliveryFee >= 0 /\ t.total >= 0
  /\ t.discount <= t.subtotal
  /\ t.total = t.subtotal - t.discount + t.serviceCharge + t.tax + t.deliveryFee

KitchenUnits(lines) == FoldLeft(LAMBDA sum, l : sum + l.kitchenUnits * l.qty, 0, lines)

-----------------------------------------------------------------------------
\* The sums EvaluatePromotion takes are not checked for overflow.
SumOf(lines) == FoldLeft(LAMBDA sum, l : Wrap(sum + LineTotal(l).value), 0, lines)

EligibleLines(p, lines) ==
  SelectSeq(lines, LAMBDA l : p.categories = {} \/ l.category \in p.categories)

\* The first reason a promotion does not apply for.
PromoReason(p, store, lines, now) ==
  IF ~p.isActive THEN "PROMO_INACTIVE"
  ELSE IF now < p.starts THEN "PROMO_NOT_STARTED"
  ELSE IF now >= p.ends THEN "PROMO_EXPIRED"
  ELSE IF store \notin p.stores THEN "PROMO_STORE_NOT_ELIGIBLE"
  ELSE IF p.capTotal > 0 /\ p.used >= p.capTotal THEN "PROMO_CAP_REACHED"
  ELSE IF p.capCustomer > 0 /\ p.usedByCustomer >= p.capCustomer THEN "PROMO_CUSTOMER_CAP"
  ELSE IF \E i \in DOMAIN lines : ~LineTotal(lines[i]).ok THEN "PROMO_NO_ELIGIBLE_ITEMS"
  ELSE IF SumOf(lines) < p.minSpend THEN "PROMO_MIN_SPEND"
  ELSE IF SumOf(EligibleLines(p, lines)) <= 0 THEN "PROMO_NO_ELIGIBLE_ITEMS"
  ELSE "OK"

\* What it takes off the lines it applies to, and never more than they cost.
DiscountOn(p, eligible) ==
  LET granted == IF p.type = "percent" THEN ApplyRate(eligible, p.valueBps)
                 ELSE p.valueAmount
      capped == IF p.maxDiscount > 0 THEN Lesser(granted, p.maxDiscount) ELSE granted IN
  ClampNonNegative(Lesser(capped, eligible))

EvaluatePromotion(p, store, lines, now) ==
  LET reason == PromoReason(p, store, lines, now) IN
  [reason |-> reason,
   discount |-> IF reason = "OK" THEN DiscountOn(p, SumOf(EligibleLines(p, lines))) ELSE 0]
=============================================================================
