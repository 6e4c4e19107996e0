---------------------------- MODULE QuotesProofs ----------------------------
(***************************************************************************)
(* Money and Pricing at every width of integers and for all amounts: what  *)
(* Add and Sub refuse, what a promotion takes off, and which totals the    *)
(* table of orders stores.  Then what Quotes promises, for any number of   *)
(* customers and administrators, any rates, prices and promotions, and a   *)
(* clock without an end.                                                   *)
(***************************************************************************)
EXTENDS Quotes, TLAPS

-----------------------------------------------------------------------------
(* Money and Pricing.                                                      *)

\* What fits is left alone; one more or less than the range comes back at its other
\* end.
LEMMA WrapInside == ASSUME NEW n \in Rupiah PROVE Wrap(n) = n
  BY HalfAssumption DEF Rupiah, Wrap

LEMMA WrapAbove ==
  ASSUME NEW n \in Int, n >= Half, n <= 2 * Half - 1 PROVE Wrap(n) = n - 2 * Half
  BY HalfAssumption DEF Rupiah, Wrap

LEMMA WrapBelow ==
  ASSUME NEW n \in Int, n < -Half, n >= -2 * Half PROVE Wrap(n) = n + 2 * Half
  BY HalfAssumption DEF Rupiah, Wrap

\* Add answers the sum of two amounts when that is an amount, and refuses it
\* otherwise: the comparisons of money.Add after it has wrapped find every overflow.
THEOREM AddIsExact ==
  ASSUME NEW a \in Rupiah, NEW b \in Rupiah
  PROVE  Add(a, b) = IF a + b \in Rupiah THEN Ok(a + b) ELSE ErrOverflow
<1>1. a \in Int /\ b \in Int /\ -Half <= a /\ a < Half /\ -Half <= b /\ b < Half /\ Half \in Int
  BY HalfAssumption DEF Rupiah
<1>2. CASE a + b \in Rupiah
  <2>1. Wrap(a + b) = a + b
    BY <1>2, WrapInside
  <2>2. ~((b > 0 /\ a + b < a) \/ (b < 0 /\ a + b > a))
    BY <1>1
  <2> QED BY <1>2, <2>1, <2>2 DEF Add
<1>3. CASE a + b >= Half
  <2>1. Wrap(a + b) = a + b - 2 * Half
    BY <1>1, <1>3, WrapAbove
  <2>2. b > 0 /\ a + b - 2 * Half < a /\ a + b \notin Rupiah
    BY <1>1, <1>3 DEF Rupiah
  <2> QED BY <2>1, <2>2 DEF Add
<1>4. CASE a + b < -Half
  <2>1. Wrap(a + b) = a + b + 2 * Half
    BY <1>1, <1>4, WrapBelow
  <2>2. b < 0 /\ a + b + 2 * Half > a /\ a + b \notin Rupiah
    BY <1>1, <1>4 DEF Rupiah
  <2> QED BY <2>1, <2>2 DEF Add
<1> QED BY <1>1, <1>2, <1>3, <1>4 DEF Rupiah

\* The same of money.Sub and the difference.
THEOREM SubIsExact ==
  ASSUME NEW a \in Rupiah, NEW b \in Rupiah
  PROVE  Sub(a, b) = IF a - b \in Rupiah THEN Ok(a - b) ELSE ErrOverflow
<1>1. a \in Int /\ b \in Int /\ -Half <= a /\ a < Half /\ -Half <= b /\ b < Half /\ Half \in Int
  BY HalfAssumption DEF Rupiah
<1>2. CASE a - b \in Rupiah
  <2>1. Wrap(a - b) = a - b
    BY <1>2, WrapInside
  <2>2. ~((b < 0 /\ a - b < a) \/ (b > 0 /\ a - b > a))
    BY <1>1
  <2> QED BY <1>2, <2>1, <2>2 DEF Sub
<1>3. CASE a - b >= Half
  <2>1. Wrap(a - b) = a - b - 2 * Half
    BY <1>1, <1>3, WrapAbove
  <2>2. b < 0 /\ a - b - 2 * Half < a /\ a - b \notin Rupiah
    BY <1>1, <1>3 DEF Rupiah
  <2> QED BY <2>1, <2>2 DEF Sub
<1>4. CASE a - b < -Half
  <2>1. Wrap(a - b) = a - b + 2 * Half
    BY <1>1, <1>4, WrapBelow
  <2>2. b > 0 /\ a - b + 2 * Half > a /\ a - b \notin Rupiah
    BY <1>1, <1>4 DEF Rupiah
  <2> QED BY <2>1, <2>2 DEF Sub
<1> QED BY <1>1, <1>2, <1>3, <1>4 DEF Rupiah

-----------------------------------------------------------------------------
\* A rate as the admin API accepts it, and an amount it applies to without wrapping.
Bps == 0 .. FullBps

Applies(n) == n \in Nat /\ n * FullBps + 5000 < Half

\* A rate of no more than all takes no more than all, and nothing below zero.
LEMMA RateIsAPart ==
  ASSUME NEW n, Applies(n), NEW bps \in Bps
  PROVE  ApplyRate(n, bps) \in 0 .. n
<1> DEFINE p == n * bps
<1>1. n \in Nat /\ bps \in Nat /\ Half \in Nat /\ bps <= 10000
  BY HalfAssumption DEF Applies, Bps, FullBps
<1>2. p \in Nat /\ p <= n * 10000
  BY <1>1
<1>3. p + 5000 \in Rupiah /\ p + 5000 >= 0
  BY <1>1, <1>2 DEF Applies, FullBps, Rupiah
<1>4. Wrap(p + 5000) = p + 5000
  BY <1>3, WrapInside
<1>5. Quotient(p + 5000, FullBps) = (p + 5000) \div 10000
  BY <1>3 DEF Quotient, FullBps
<1>6. (p + 5000) \div 10000 \in 0 .. n
  <2> HIDE DEF p
  <2> QED BY <1>1, <1>2
<1>7. Magnitude(n) = n /\ ~(n < 0)
  BY <1>1 DEF Magnitude
<1> HIDE DEF p
<1>8. ApplyRate(n, bps) = IF n = 0 \/ bps = 0 THEN 0 ELSE Quotient(Wrap(p + 5000), FullBps)
  BY <1>7 DEF ApplyRate, p
<1> QED BY <1>1, <1>4, <1>5, <1>6, <1>8

\* A promotion never takes more off than the lines it applies to cost, and never
\* adds anything, whatever its row says (BR-2.5.10): a row with a negative amount or a
\* percentage that wraps is no exception.
THEOREM DiscountWithinLines ==
  ASSUME NEW p, NEW eligible \in Nat,
         p.valueBps \in Int, p.valueAmount \in Int, p.maxDiscount \in Int
  PROVE  DiscountOn(p, eligible) \in 0 .. eligible
<1>1. \A n \in Int : Quotient(Wrap(n), FullBps) \in Int
  BY HalfAssumption DEF Wrap, Quotient, FullBps
<1>2. Magnitude(eligible) * p.valueBps + 5000 \in Int
  BY DEF Magnitude
<1>3. ApplyRate(eligible, p.valueBps) \in Int
  BY <1>1, <1>2 DEF ApplyRate
<1> QED BY <1>3 DEF DiscountOn, ClampNonNegative, Lesser

-----------------------------------------------------------------------------
Rates == [taxBps : Bps, serviceChargeBps : Bps, taxInclusive : BOOLEAN]

\* Whatever cart, discount, delivery fee and rates a store has, with prices that do
\* not include the tax: what Compute prices, the CHECKs of table orders accept.  The
\* one assumption is that twice the subtotal does not come near the width of an
\* amount.
THEOREM ExclusiveIsStorable ==
  ASSUME NEW subtotal, Applies(2 * subtotal), subtotal \in Nat,
         NEW asked \in Rupiah, NEW fee \in Rupiah,
         NEW cfg \in Rates, ~cfg.taxInclusive,
         ComputeFrom(subtotal, asked, fee, cfg).ok
  PROVE  RowAccepted(ComputeFrom(subtotal, asked, fee, cfg))
<1> DEFINE discount == ClampNonNegative(asked)
           delivery == ClampNonNegative(fee)
           left == subtotal - discount
           charge == ApplyRate(left, cfg.serviceChargeBps)
           base == left + charge
           tax == ApplyRate(base, cfg.taxBps)
<1>1. /\ Half \in Nat /\ subtotal \in Nat /\ asked \in Int /\ fee \in Int
      /\ subtotal \in Rupiah /\ 2 * subtotal * 10000 + 5000 < Half
  BY HalfAssumption DEF Applies, Rupiah, FullBps
<1>2. discount \in Nat /\ discount \in Rupiah /\ delivery \in Nat /\ delivery \in Rupiah
  BY <1>1, HalfAssumption DEF ClampNonNegative, Rupiah
<1>3. discount <= subtotal
  BY <1>1, <1>2 DEF ComputeFrom, Refused
<1>4. left \in Nat /\ left <= subtotal /\ left \in Rupiah
  BY <1>1, <1>2, <1>3 DEF Rupiah
<1>5. Sub(subtotal, discount) = Ok(left)
  BY <1>1, <1>2, <1>4, SubIsExact
<1>6. cfg.serviceChargeBps \in Bps /\ cfg.taxBps \in Bps
  BY DEF Rates
<1>7. charge \in 0 .. left
  <2>1. Applies(left)
    BY <1>1, <1>4 DEF Applies, FullBps
  <2> QED BY <2>1, <1>6, RateIsAPart
<1>8. base \in Nat /\ base <= 2 * subtotal /\ base \in Rupiah /\ charge \in Rupiah
  BY <1>1, <1>4, <1>7 DEF Rupiah
<1>9. Add(left, charge) = Ok(base)
  BY <1>4, <1>8, AddIsExact
<1>10. tax \in 0 .. base
  <2>1. Applies(base)
    BY <1>1, <1>8 DEF Applies, FullBps
  <2> QED BY <2>1, <1>6, RateIsAPart
<1>11. tax \in Rupiah /\ base + tax \in Rupiah /\ base + tax \in Nat
  BY <1>1, <1>8, <1>10 DEF Rupiah
<1>12. Add(base, tax) = Ok(base + tax)
  BY <1>8, <1>11, AddIsExact
<1> DEFINE added == Add(base + tax, delivery)
<1>13. SumOfThree(base, tax, delivery) = added
  BY <1>12 DEF SumOfThree, Ok
<1>14. ComputeFrom(subtotal, asked, fee, cfg) =
         IF added.ok THEN Totals(subtotal, discount, charge, tax, delivery,
                                 ClampNonNegative(added.value))
         ELSE Refused
  <2> HIDE DEF added
  <2>1. Sub(subtotal, discount).value = left /\ Sub(subtotal, discount).ok
    BY <1>5 DEF Ok
  <2>2. Add(left, charge).value = base /\ Add(left, charge).ok
    BY <1>9 DEF Ok
  <2>3. ~(discount > subtotal)
    BY <1>1, <1>2, <1>3
  <2> QED BY <2>1, <2>2, <2>3, <1>13 DEF ComputeFrom
<1>15. added.ok
  BY <1>14 DEF Refused
<1>16. added.value = base + tax + delivery /\ added.value \in Nat
  BY <1>2, <1>11, <1>15, AddIsExact DEF Ok, ErrOverflow
<1> HIDE DEF added, discount, delivery
<1>17. ClampNonNegative(added.value) = left + charge + tax + delivery
  BY <1>16 DEF ClampNonNegative
<1>18. /\ charge \in Nat /\ tax \in Nat
  BY <1>4, <1>7, <1>8, <1>10
<1> HIDE DEF charge, tax, base
<1> QED BY <1>1, <1>2, <1>3, <1>14, <1>15, <1>17, <1>18 DEF RowAccepted, Totals

\* And with prices that include it: a cart that is priced with a tax above zero is
\* always one that the table refuses, since that tax is not part of the total
\* (the run of PricedIsStorable shows the order being lost).
THEOREM InclusiveIsRefused ==
  ASSUME NEW subtotal, Applies(2 * subtotal), subtotal \in Nat,
         NEW asked \in Rupiah, NEW fee \in Rupiah,
         NEW cfg \in Rates, cfg.taxInclusive,
         ComputeFrom(subtotal, asked, fee, cfg).ok,
         ComputeFrom(subtotal, asked, fee, cfg).tax # 0
  PROVE  ~RowAccepted(ComputeFrom(subtotal, asked, fee, cfg))
<1> DEFINE discount == ClampNonNegative(asked)
           delivery == ClampNonNegative(fee)
           left == subtotal - discount
           charge == ApplyRate(left, cfg.serviceChargeBps)
           base == left + charge
           included == Add(base, delivery)
           tax == IncludedTax(base, cfg.taxBps)
           t == ComputeFrom(subtotal, asked, fee, cfg)
<1>1. /\ Half \in Nat /\ subtotal \in Nat /\ asked \in Int /\ fee \in Int
      /\ subtotal \in Rupiah /\ 2 * subtotal * 10000 + 5000 < Half
  BY HalfAssumption DEF Applies, Rupiah, FullBps
<1>2. discount \in Nat /\ discount \in Rupiah /\ delivery \in Nat /\ delivery \in Rupiah
  BY <1>1, HalfAssumption DEF ClampNonNegative, Rupiah
<1>3. discount <= subtotal
  BY <1>1, <1>2 DEF ComputeFrom, Refused
<1>4. left \in Nat /\ left <= subtotal /\ left \in Rupiah
  BY <1>1, <1>2, <1>3 DEF Rupiah
<1>5. Sub(subtotal, discount) = Ok(left)
  BY <1>1, <1>2, <1>4, SubIsExact
<1>6. cfg.serviceChargeBps \in Bps /\ cfg.taxBps \in Bps
  BY DEF Rates
<1>7. charge \in 0 .. left
  <2>1. Applies(left)
    BY <1>1, <1>4 DEF Applies, FullBps
  <2> QED BY <2>1, <1>6, RateIsAPart
<1>8. base \in Nat /\ base \in Rupiah /\ charge \in Rupiah
  BY <1>1, <1>4, <1>7 DEF Rupiah
<1>9. Add(left, charge) = Ok(base)
  BY <1>4, <1>8, AddIsExact
<1>10. t = IF included.ok THEN Totals(subtotal, discount, charge, tax, delivery, included.value)
           ELSE Refused
  <2> HIDE DEF included, tax
  <2>1. Sub(subtotal, discount).value = left /\ Sub(subtotal, discount).ok
    BY <1>5 DEF Ok
  <2>2. Add(left, charge).value = base /\ Add(left, charge).ok
    BY <1>9 DEF Ok
  <2>3. ~(discount > subtotal)
    BY <1>1, <1>2, <1>3
  <2> QED BY <2>1, <2>2, <2>3 DEF ComputeFrom, included, tax
<1>11. included.ok
  BY <1>10 DEF Refused
<1>12. included.value = base + delivery
  BY <1>2, <1>8, <1>11, AddIsExact DEF Ok, ErrOverflow
<1>13. tax \in Int
  <2>1. \A n \in Int : Wrap(n) \in Int
    BY HalfAssumption DEF Wrap
  <2> DEFINE b == cfg.taxBps
  <2>2. cfg.taxBps \in Nat
    <3>1. b \in Bps
      BY <1>6
    <3> HIDE DEF b
    <3>2. b \in Nat
      BY <3>1 DEF Bps, FullBps
    <3> QED BY <3>2 DEF b
  <2>3. base * cfg.taxBps + (FullBps + cfg.taxBps) \div 2 \in Int
    BY <1>8, <2>2 DEF FullBps
  <2>4. \A n \in Int, d \in Nat \ {0} : Quotient(n, d) \in Int
    BY DEF Quotient
  <2>5. FullBps + cfg.taxBps \in Nat \ {0}
    BY <2>2 DEF FullBps
  <2> QED BY <2>1, <2>3, <2>4, <2>5 DEF IncludedTax
<1> HIDE DEF included, tax, charge, discount, delivery
<1>14. t.tax = tax /\ tax # 0
  BY <1>10, <1>11 DEF Totals
<1> HIDE DEF t
<1>15. /\ t.subtotal = subtotal /\ t.discount = discount /\ t.serviceCharge = charge
       /\ t.deliveryFee = delivery /\ t.total = base + delivery
  BY <1>10, <1>11, <1>12 DEF Totals
<1>16. t.total # t.subtotal - t.discount + t.serviceCharge + t.tax + t.deliveryFee
  BY <1>1, <1>2, <1>8, <1>13, <1>14, <1>15 DEF Rupiah
<1> QED BY <1>16 DEF RowAccepted, t

-----------------------------------------------------------------------------
(* Quotes.                                                                 *)

Fields == {"step", "began", "quoted", "standing", "item", "price", "rates", "group", "rows",
           "since", "degraded", "totals"}

\* A checkout is a record, a request another.
Shaped ==
  /\ DOMAIN checkouts = Checkouts /\ \A c \in Checkouts : DOMAIN checkouts[c] = Fields
  /\ DOMAIN requests = Requests /\ \A q \in Requests : DOMAIN requests[q] = {"step", "role"}
  /\ now \in Nat

LEMMA InitShaped == Init => Shaped
  BY DEF Init, Shaped, Fields, IdleCheckout

LEMMA StepShaped == Shaped /\ [Next]_vars => Shaped'
<1> USE DEF Shaped, Fields
<1> SUFFICES ASSUME Shaped, [Next]_vars PROVE Shaped'
  OBVIOUS
<1>1. ASSUME NEW c \in Checkouts, Arrive(c) PROVE Shaped'
  BY <1>1 DEF Arrive, IdleCheckout
<1>2. ASSUME NEW c \in Checkouts, ReadMenu(c) PROVE Shaped'
  BY <1>2 DEF ReadMenu
<1>3. ASSUME NEW c \in Checkouts, ReadStore(c) PROVE Shaped'
  BY <1>3 DEF ReadStore, Refuse, IdleCheckout
<1>4. ASSUME NEW c \in Checkouts, TakeFresh(c) \/ TakeLoaded(c) PROVE Shaped'
  BY <1>4 DEF TakeFresh, TakeLoaded, Take
<1>5. ASSUME NEW c \in Checkouts, SelectGroup(c) \/ SelectStores(c) \/ Swap(c) \/ FailReload(c)
      PROVE Shaped'
  BY <1>5 DEF SelectGroup, SelectStores, Swap, FailReload
<1>6. ASSUME NEW c \in Checkouts, Price(c) PROVE Shaped'
  BY <1>6 DEF Price, Refuse, IdleCheckout
<1>7. ASSUME NEW c \in Checkouts, ResolveAgain(c) \/ Commit(c) PROVE Shaped'
  BY <1>7 DEF ResolveAgain, Commit, Step, Refuse, IdleCheckout
<1>8. ASSUME NEW q \in Requests, Administer(q) PROVE Shaped'
  BY <1>8 DEF Administer, SaveItem, SaveCategory, SetStoreOverride, Add86, Lift86,
     SetParameter, SetStoreParameter, DeleteParameter, Invalidate, Done, Written
<1>9. CASE Restart
  BY <1>9 DEF Restart, IdleCheckout
<1>10. CASE Tick
  BY <1>10 DEF Tick
<1>11. CASE UNCHANGED vars
  BY <1>11 DEF vars
<1> QED
  BY <1>1, <1>2, <1>3, <1>4, <1>5, <1>6, <1>7, <1>8, <1>9, <1>10, <1>11 DEF Next, Checkout

-----------------------------------------------------------------------------
(* A dish that is out of stock.                                            *)

\* The 86 of a request is over, for whoever began at this instant.
Over(q, at) == \A e \in eighties : e.by = q => e.ends # Never /\ e.ends <= at

\* Every 86 was made by a request.
EightiesMade ==
  \A e \in eighties :
    /\ DOMAIN e = {"by", "starts", "ends"}
    /\ e.starts \in Int /\ e.ends \in Int /\ e.starts <= now
    /\ e.by \in Requests /\ requests[e.by].step # "IDLE"

\* The 86s a checkout knows of were there when it began; once it has read the menu the
\* second time they are over ...
StandingKnown ==
  \A c \in Checkouts : \A q \in checkouts[c].standing :
    /\ q \in Requests /\ requests[q].step # "IDLE"
    /\ checkouts[c].began \in Nat /\ checkouts[c].began <= now
    /\ \A e \in eighties : e.by = q => e.starts <= checkouts[c].began
    /\ checkouts[c].step = "COMMIT" => Over(q, checkouts[c].began)

\* ... and so they are for an order.
OrdersOver ==
  /\ DOMAIN orders = Checkouts
  /\ \A c \in Checkouts : orders[c].made =>
       /\ orders[c].at \in Nat /\ orders[c].at <= now
       /\ \A q \in orders[c].standing :
            /\ q \in Requests /\ requests[q].step # "IDLE"
            /\ Over(q, orders[c].at)

Inv86 == Shaped /\ EightiesMade /\ StandingKnown /\ OrdersOver

LEMMA InitInv86 == Init => Inv86
  BY InitShaped DEF Init, Inv86, EightiesMade, StandingKnown, OrdersOver, IdleCheckout, NoOrder

\* What is over stays over: an 86 that is lifted is none of them.
LEMMA StaysOver ==
  ASSUME Inv86, NEW q \in Requests, NEW at \in Nat, at <= now, Over(q, at),
         NEW w \in Requests, w # q, Add86(w) \/ Lift86(w)
  PROVE  Over(q, at)'
<1>1. CASE Add86(w)
  BY <1>1 DEF Add86, Over, Done, Free
<1>2. CASE Lift86(w)
  <2> SUFFICES ASSUME NEW f \in eighties', f.by = q PROVE f.ends # Never /\ f.ends <= at
    BY DEF Over
  <2>1. PICK e \in eighties : f = IF e \in Eighties(now) THEN [e EXCEPT !.ends = now] ELSE e
    BY <1>2 DEF Lift86
  <2>2. DOMAIN e = {"by", "starts", "ends"} /\ e.ends \in Int
    BY DEF Inv86, EightiesMade, StandingKnown, OrdersOver
  <2>3. e.by = q
    BY <2>1, <2>2
  <2>4. e.ends # Never /\ e.ends <= at
    BY <2>3 DEF Over
  <2>5. e \notin Eighties(now)
    BY <2>2, <2>4 DEF Eighties, Inv86, EightiesMade, StandingKnown, OrdersOver, Shaped
  <2> QED BY <2>1, <2>4, <2>5
<1> QED BY <1>1, <1>2

\* Of a checkout that goes on: nothing it knows of 86s changes, or it is answered.
Proceeds(c) ==
  /\ UNCHANGED <<now, eighties, requests, orders>>
  /\ \A d \in Checkouts \ {c} : checkouts'[d] = checkouts[d]
  /\ \/ checkouts'[c].standing = {}
     \/ /\ checkouts'[c].standing = checkouts[c].standing
        /\ checkouts'[c].began = checkouts[c].began
        /\ checkouts'[c].step # "COMMIT"

LEMMA MostProceed ==
  ASSUME Shaped, NEW c \in Checkouts,
         \/ ReadMenu(c) \/ ReadStore(c) \/ TakeFresh(c) \/ SelectGroup(c) \/ SelectStores(c)
         \/ Swap(c) \/ FailReload(c) \/ TakeLoaded(c) \/ Price(c)
  PROVE  Proceeds(c)
<1> USE DEF Shaped, Fields, Proceeds, menu
<1>1. CASE ReadMenu(c)
  BY <1>1 DEF ReadMenu
<1>2. CASE ReadStore(c)
  BY <1>2 DEF ReadStore, Refuse, IdleCheckout
<1>3. CASE TakeFresh(c) \/ TakeLoaded(c)
  BY <1>3 DEF TakeFresh, TakeLoaded, Take
<1>4. CASE SelectGroup(c) \/ SelectStores(c) \/ Swap(c) \/ FailReload(c)
  BY <1>4 DEF SelectGroup, SelectStores, Swap, FailReload
<1>5. CASE Price(c)
  <2>1. \/ checkouts' = [checkouts EXCEPT ![c] = IdleCheckout]
        \/ \E totals : checkouts' = [checkouts EXCEPT ![c] =
             [IdleCheckout EXCEPT !.step = "RESOLVE", !.began = checkouts[c].began,
                !.standing = checkouts[c].standing, !.totals = totals]]
    BY <1>5 DEF Price, Refuse
  <2>2. UNCHANGED <<now, menu, tables, cache, buckets, requests, orders, allowed, held>>
    BY <1>5 DEF Price
  <2>3. CASE checkouts' = [checkouts EXCEPT ![c] = IdleCheckout]
    BY <2>2, <2>3 DEF IdleCheckout
  <2>4. ASSUME NEW totals, checkouts' = [checkouts EXCEPT ![c] =
             [IdleCheckout EXCEPT !.step = "RESOLVE", !.began = checkouts[c].began,
                !.standing = checkouts[c].standing, !.totals = totals]]
        PROVE Proceeds(c)
    BY <2>2, <2>4 DEF IdleCheckout
  <2> QED BY <2>1, <2>3, <2>4
<1> QED BY <1>1, <1>2, <1>3, <1>4, <1>5

LEMMA StepInv86 == Inv86 /\ [Next]_vars => Inv86'
<1> SUFFICES ASSUME Inv86, [Next]_vars PROVE Inv86'
  OBVIOUS
<1>0. Shaped /\ Shaped'
  BY StepShaped DEF Inv86, EightiesMade, StandingKnown, OrdersOver
<1>1. ASSUME NEW c \in Checkouts, Arrive(c) PROVE Inv86'
  <2>1. UNCHANGED <<now, eighties, requests, orders>>
    BY <1>1 DEF Arrive, menu
  <2>2. CASE checkouts' = checkouts
    BY <1>0, <2>1, <2>2 DEF Inv86, EightiesMade, StandingKnown, OrdersOver, Over
  <2>3. CASE checkouts' # checkouts
    <3>1. checkouts' = [checkouts EXCEPT
            ![c] = [IdleCheckout EXCEPT !.step = "MENU", !.began = now,
                      !.standing = {e.by : e \in Eighties(now)}]]
      BY <1>1, <2>3 DEF Arrive
    <3>2. /\ checkouts'[c].step = "MENU" /\ checkouts'[c].began = now
          /\ checkouts'[c].standing = {e.by : e \in Eighties(now)}
      BY <1>0, <3>1 DEF Shaped, IdleCheckout
    <3>3. \A d \in Checkouts \ {c} : checkouts'[d] = checkouts[d]
      BY <1>0, <3>1 DEF Shaped
    <3> QED BY <1>0, <2>1, <3>2, <3>3 DEF Inv86, EightiesMade, StandingKnown, OrdersOver, Over, Eighties, Shaped
  <2> QED BY <2>2, <2>3
<1>2. ASSUME NEW c \in Checkouts, Proceeds(c) PROVE Inv86'
  BY <1>0, <1>2 DEF Inv86, EightiesMade, StandingKnown, OrdersOver, Over, Proceeds
<1>3. ASSUME NEW c \in Checkouts, ResolveAgain(c) PROVE Inv86'
  <2>1. UNCHANGED <<now, eighties, requests, orders>>
    BY <1>3 DEF ResolveAgain, menu
  <2>2. \A d \in Checkouts \ {c} : checkouts'[d] = checkouts[d]
    BY <1>0, <1>3 DEF ResolveAgain, Step, Refuse, Shaped
  <2>3. CASE Resolve(Query(item, checkouts[c].began), checkouts[c].began) = "AVAILABLE"
    <3>1. /\ checkouts'[c].standing = checkouts[c].standing
          /\ checkouts'[c].began = checkouts[c].began
      BY <1>0, <1>3, <2>3 DEF ResolveAgain, Step, Shaped, Fields
    <3>2. \A e \in Eighties(checkouts[c].began) : ~Active(e, checkouts[c].began)
      BY <2>3 DEF Resolve, Query
    <3>3. \A q \in checkouts[c].standing : Over(q, checkouts[c].began)
      BY <3>2 DEF Over, Eighties, Active, Inv86, EightiesMade, StandingKnown, OrdersOver
    <3> QED BY <1>0, <2>1, <2>2, <3>1, <3>3 DEF Inv86, EightiesMade, StandingKnown, OrdersOver, Over
  <2>4. CASE Resolve(Query(item, checkouts[c].began), checkouts[c].began) # "AVAILABLE"
    <3>1. checkouts'[c].standing = {}
      BY <1>0, <1>3, <2>4 DEF ResolveAgain, Refuse, IdleCheckout, Shaped
    <3> QED BY <1>0, <2>1, <2>2, <3>1 DEF Inv86, EightiesMade, StandingKnown, OrdersOver, Over
  <2> QED BY <2>3, <2>4
<1>4. ASSUME NEW c \in Checkouts, Commit(c) PROVE Inv86'
  <2>1. UNCHANGED <<now, eighties, requests>> /\ checkouts[c].step = "COMMIT"
    BY <1>4 DEF Commit, menu, At
  <2>2. \A d \in Checkouts \ {c} : checkouts'[d] = checkouts[d]
    BY <1>0, <1>4 DEF Commit, Refuse, Shaped
  <2>3. checkouts'[c].standing = {}
    BY <1>0, <1>4 DEF Commit, Refuse, IdleCheckout, Shaped
  <2>4. CASE orders' = orders
    BY <1>0, <2>1, <2>2, <2>3, <2>4 DEF Inv86, EightiesMade, StandingKnown, OrdersOver, Over
  <2>5. CASE orders' # orders
    <3>1. orders' = [orders EXCEPT ![c] =
            [made |-> TRUE, at |-> now, standing |-> checkouts[c].standing]]
      BY <1>4, <2>5 DEF Commit
    <3>2. DOMAIN orders = Checkouts
      BY DEF Inv86, EightiesMade, StandingKnown, OrdersOver
    <3>3. \A q \in checkouts[c].standing : Over(q, now)
      BY <1>0, <2>1 DEF Inv86, EightiesMade, StandingKnown, OrdersOver, Over, Shaped
    <3>4. /\ orders'[c].at = now /\ orders'[c].standing = checkouts[c].standing
          /\ \A d \in Checkouts \ {c} : orders'[d] = orders[d]
          /\ DOMAIN orders' = Checkouts
      BY <3>1, <3>2
    <3> QED BY <1>0, <2>1, <2>2, <2>3, <3>3, <3>4 DEF Inv86, EightiesMade, StandingKnown, OrdersOver, Over, Shaped
  <2> QED BY <2>4, <2>5
<1>5. ASSUME NEW w \in Requests, Add86(w) PROVE Inv86'
  <2>1. UNCHANGED <<now, checkouts, orders>>
    BY <1>5 DEF Add86
  <2>2. PICK until \in {Never, now + 1} :
          eighties' = eighties \cup {[by |-> w, starts |-> now, ends |-> until]}
    BY <1>5 DEF Add86
  <2>3. /\ requests[w].step = "IDLE" /\ requests'[w].step = "DONE"
        /\ \A q \in Requests \ {w} : requests'[q] = requests[q]
    BY <1>0, <1>5 DEF Add86, Free, Done, Shaped
  <2>4. until \in Int
    BY <1>0 DEF Never, Shaped
  <2>5. \A q \in Requests : \A at : requests[q].step # "IDLE" /\ Over(q, at) => Over(q, at)'
    BY <2>2, <2>3 DEF Over
  <2>6. \A e \in eighties' : e \in eighties \/ (e.by = w /\ e.starts = now)
    BY <2>2
  <2>7. \A q \in Requests : requests[q].step # "IDLE" => requests'[q].step # "IDLE"
    BY <2>3
  <2>8. \A c \in Checkouts : \A q \in checkouts[c].standing : q # w
    BY <2>3 DEF Inv86, EightiesMade, StandingKnown, OrdersOver
  <2>9. \A c \in Checkouts : orders[c].made => \A q \in orders[c].standing : q # w
    BY <2>3 DEF Inv86, EightiesMade, StandingKnown, OrdersOver
  <2>10. StandingKnown'
    BY <2>1, <2>5, <2>6, <2>7, <2>8 DEF Inv86, StandingKnown
  <2>11. OrdersOver'
    BY <2>1, <2>5, <2>7 DEF Inv86, OrdersOver
  <2>12. EightiesMade'
    BY <1>0, <2>1, <2>2, <2>3, <2>4 DEF Inv86, EightiesMade, Shaped
  <2> QED BY <1>0, <2>10, <2>11, <2>12 DEF Inv86
<1>6. ASSUME NEW w \in Requests, Lift86(w) PROVE Inv86'
  <2>1. UNCHANGED <<now, checkouts, orders>>
    BY <1>6 DEF Lift86
  <2>2. \A q \in Requests : requests[q].step # "IDLE" => requests'[q].step # "IDLE"
    BY <1>0, <1>6 DEF Lift86, Done, Shaped
  <2>3. \A f \in eighties' : \E e \in eighties :
          f = IF e \in Eighties(now) THEN [e EXCEPT !.ends = now] ELSE e
    BY <1>6 DEF Lift86
  <2>4. \A f \in eighties' : /\ DOMAIN f = {"by", "starts", "ends"}
                            /\ \E e \in eighties : f.by = e.by /\ f.starts = e.starts
                            /\ f.ends \in Int
    BY <1>0, <2>3 DEF Inv86, EightiesMade, StandingKnown, OrdersOver, Shaped
  <2>5. \A q \in Requests, at \in Nat :
          requests[q].step # "IDLE" /\ at <= now /\ Over(q, at) => Over(q, at)'
    BY <1>0, <1>6, StaysOver, <2>1, <2>2 DEF Lift86, Free
  <2> QED BY <1>0, <2>1, <2>2, <2>4, <2>5 DEF Inv86, EightiesMade, StandingKnown, OrdersOver
<1>7. ASSUME NEW w \in Requests,
             \/ SaveItem(w) \/ SaveCategory(w) \/ SetStoreOverride(w) \/ SetParameter(w)
             \/ SetStoreParameter(w) \/ DeleteParameter(w) \/ Invalidate(w)
      PROVE Inv86'
  <2>1. UNCHANGED <<now, eighties, checkouts, orders>>
    BY <1>7 DEF SaveItem, SaveCategory, SetStoreOverride, SetParameter, SetStoreParameter,
       DeleteParameter, Invalidate, menu
  <2>2. \E role : Done(w, role) \/ Written(w, role)
    BY <1>7 DEF SaveItem, SaveCategory, SetStoreOverride, SetParameter, SetStoreParameter,
       DeleteParameter, Invalidate
  <2>3. \A q \in Requests : requests[q].step # "IDLE" => requests'[q].step # "IDLE"
    BY <1>0, <2>2 DEF Done, Written, Shaped
  <2> QED BY <1>0, <2>1, <2>3 DEF Inv86, EightiesMade, StandingKnown, OrdersOver, Over
<1>8. CASE Restart
  <2>1. UNCHANGED <<now, eighties, orders>>
    BY <1>8 DEF Restart, menu
  <2>2. \A q \in Requests : requests[q].step # "IDLE" => requests'[q].step # "IDLE"
    BY <1>0, <1>8 DEF Restart, Free, Shaped
  <2>3. \A c \in Checkouts :
          checkouts'[c] = checkouts[c] \/ checkouts'[c].standing = {}
    BY <1>8 DEF Restart, IdleCheckout
  <2> QED BY <1>0, <2>1, <2>2, <2>3 DEF Inv86, EightiesMade, StandingKnown, OrdersOver, Over
<1>9. CASE Tick
  <2>1. UNCHANGED <<eighties, checkouts, requests, orders>> /\ now' = now + 1
    BY <1>9 DEF Tick, menu
  <2> QED BY <1>0, <2>1 DEF Inv86, EightiesMade, StandingKnown, OrdersOver, Over, Shaped
<1>10. CASE UNCHANGED vars
  BY <1>0, <1>10 DEF Inv86, EightiesMade, StandingKnown, OrdersOver, Over, vars, menu
<1> QED
  BY <1>0, <1>1, <1>2, <1>3, <1>4, <1>5, <1>6, <1>7, <1>8, <1>9, <1>10, MostProceed
     DEF Next, Checkout, Administer

\* A dish that was out of stock when the checkout began is never ordered, unless the 86
\* was lifted or ran out meanwhile: the second reading of the menu, as of the instant
\* the checkout began, is what keeps it so.
THEOREM OutOfStockIsNotSold == Spec => []NoDishAfter86
<1>1. Inv86 => NoDishAfter86
  BY DEF Inv86, OrdersOver, Over, NoDishAfter86
<1> QED BY <1>1, InitInv86, StepInv86, PTL DEF Spec

-----------------------------------------------------------------------------
(* The limiter.                                                            *)

Limited == Burst \in Int /\ Window \in Int /\ Burst > 0 /\ Window > 0

LEMMA LimitedIs == Limited <=> ~Unlimited
  BY RuleAssumption DEF Limited, Unlimited

\* A bucket that was seen by now, with no more in it than fits.
Sound(b) ==
  /\ b \in Bucket
  /\ b.tokens >= 0 /\ b.tokens <= Full
  /\ b = NoBucket \/ (0 <= b.lastSeen /\ b.lastSeen <= now)

\* From one tick to the next a bucket gains no more than the refill of one.
LEMMA RefillIsSlow ==
  ASSUME Limited, now \in Nat, NEW b, Sound(b)
  PROVE  /\ Refilled(b, now) \in Int /\ Refilled(b, now) >= 0 /\ Refilled(b, now) <= Full
         /\ Refilled(b, now + 1) \in Nat /\ Refilled(b, now + 1) <= Full
         /\ Refilled(b, now + 1) <= Refilled(b, now) + Burst
<1> DEFINE F == Full
           gone == now - b.lastSeen
           gain == gone * Burst
<1>1. F \in Int /\ F >= 0
  BY DEF Limited, Full
<1>2. CASE b = NoBucket
  BY <1>1, <1>2 DEF Refilled, Limited
<1>3. CASE b # NoBucket
  <2>1. b.tokens \in Int /\ b.lastSeen \in Int /\ b.tokens >= 0 /\ b.tokens <= F
        /\ b.lastSeen <= now
    BY <1>3 DEF Sound, Bucket
  <2>2. gain \in Int /\ gain >= 0 /\ (gone + 1) * Burst = gain + Burst
    BY <2>1 DEF Limited
  <2>3. now + 1 - b.lastSeen = gone + 1 /\ ~(now + 1 <= b.lastSeen)
    BY <2>1
  <2>4. gone = 0 => gain = 0
    BY <2>1 DEF Limited
  <2>5. now <= b.lastSeen => gone = 0
    BY <2>1
  <2>6. Refilled(b, now) = IF b.tokens + gain > F THEN F ELSE b.tokens + gain
    BY <1>1, <1>3, <2>1, <2>4, <2>5 DEF Refilled
  <2>7. Refilled(b, now + 1) = IF b.tokens + (gain + Burst) > F THEN F
                               ELSE b.tokens + (gain + Burst)
    BY <1>1, <1>3, <2>1, <2>2, <2>3 DEF Refilled
  <2> HIDE DEF gain, F
  <2>8. F = Full
    BY DEF F
  <2> QED BY <1>1, <2>1, <2>2, <2>6, <2>7, <2>8 DEF Limited
<1> QED BY <1>2, <1>3

\* What Allow leaves of a bucket, where it gives a token and where it does not.
LEMMA AllowSpends ==
  ASSUME Limited, now \in Nat, NEW b, Sound(b)
  PROVE  LET left == IF Allows(b, now) THEN Refilled(b, now) - Window ELSE Refilled(b, now) IN
         /\ Allow(b, now) = [tokens |-> left, lastSeen |-> now]
         /\ Sound(Allow(b, now))
         /\ Refilled(Allow(b, now), now) = left
<1> DEFINE left == IF Allows(b, now) THEN Refilled(b, now) - Window ELSE Refilled(b, now)
<1>1. Seen(b, now) = now
  BY DEF Seen, Sound, Bucket
<1>2. ~Unlimited
  BY LimitedIs
<1>3. Allow(b, now) = [tokens |-> left, lastSeen |-> now]
  BY <1>1, <1>2 DEF Allow, Allows
<1>4. left \in Int /\ left >= 0 /\ left <= Full
  BY <1>2, RefillIsSlow DEF Allows, Limited, Full
<1>5. Allow(b, now) # NoBucket
  BY <1>3 DEF NoBucket
<1> HIDE DEF left
<1>6. Refilled(Allow(b, now), now) = left
  BY <1>3, <1>5 DEF Refilled
<1>7. Sound(Allow(b, now))
  BY <1>3, <1>4 DEF Sound, Bucket
<1> QED BY <1>3, <1>6, <1>7 DEF left

Instants == 0 .. MaxNow

LimiterTyped ==
  /\ now \in Instants
  /\ \A k \in BucketKeys : Sound(buckets[k])
  /\ allowed \in [BucketKeys -> [Instants -> Nat]]

\* What is counted at the latest instant is what is counted for those to come.
CountedOn == \A k \in BucketKeys, t \in Instants : t >= now => allowed[k][t] = allowed[k][now]

\* What a bucket let in since an instant, and what it holds, is no more than it can
\* have held then and has gained since.
Accounted ==
  \A k \in BucketKeys, a \in 0 .. now :
    LetIn(k, a, now) * Window + Refilled(buckets[k], now) <= Full + (now - a) * Burst

\* The bound, up to the latest instant.
BoundedSoFar ==
  \A k \in BucketKeys, a, b \in 0 .. now :
    a <= b => (LetIn(k, a, b) - Burst) * Window <= (b - a) * Burst

InvLimiter == Limited => LimiterTyped /\ CountedOn /\ Accounted /\ BoundedSoFar

LEMMA LetInTyped ==
  ASSUME LimiterTyped, NEW k \in BucketKeys, NEW a \in Instants, NEW b \in Instants
  PROVE  LetIn(k, a, b) \in Int
<1> MaxNow \in Nat
  BY QuotesAssumption
<1>1. \A t \in Instants : allowed[k][t] \in Nat
  BY DEF LimiterTyped
<1>2. a # 0 => a - 1 \in Instants
  BY DEF Instants
<1> QED BY <1>1, <1>2 DEF LetIn

\* What the accounts say bounds what was let in.
LEMMA AccountsBound ==
  ASSUME Limited, NEW n \in Int, NEW r \in Nat, NEW d \in Int,
         n * Window + r <= Full + d * Burst
  PROVE  (n - Burst) * Window <= d * Burst
<1>1. n * Window \in Int /\ Burst * Window \in Int /\ d * Burst \in Int
  BY DEF Limited
<1>2. n * Window <= Burst * Window + d * Burst
  BY <1>1 DEF Full
<1>3. (n - Burst) * Window = n * Window - Burst * Window
  BY DEF Limited
<1> QED BY <1>1, <1>2, <1>3

LEMMA LimiterBounds == InvLimiter => BurstBounded
<1> SUFFICES ASSUME InvLimiter, Limited,
                    NEW k \in BucketKeys, NEW a \in 0 .. MaxNow, NEW b \in 0 .. MaxNow, a <= b
             PROVE  (LetIn(k, a, b) - Burst) * Window <= (b - a) * Burst
  BY LimitedIs DEF BurstBounded
<1>1. now \in Nat /\ now <= MaxNow /\ MaxNow \in Nat /\ Burst \in Nat /\ Window \in Nat
  BY QuotesAssumption DEF InvLimiter, LimiterTyped, Instants, Limited
<1>2. CASE b <= now
  BY <1>1, <1>2 DEF InvLimiter, BoundedSoFar
<1>3. CASE b > now /\ a <= now
  <2>1. LetIn(k, a, b) = LetIn(k, a, now)
    BY <1>1, <1>3 DEF LetIn, InvLimiter, CountedOn, Instants
  <2>4. LetIn(k, a, now) \in Int
    BY <1>1, <1>3, LetInTyped DEF InvLimiter, Instants
  <2>6. Refilled(buckets[k], now) \in Nat
    BY <1>1, RefillIsSlow DEF InvLimiter, LimiterTyped
  <2>7. LetIn(k, a, now) * Window + Refilled(buckets[k], now) <= Full + (now - a) * Burst
    BY <1>1, <1>3 DEF InvLimiter, Accounted
  <2>2. (LetIn(k, a, now) - Burst) * Window <= (now - a) * Burst
    <3> DEFINE n == LetIn(k, a, now)
               r == Refilled(buckets[k], now)
               d == now - a
    <3>1. d \in Int
      BY <1>1, <1>3
    <3> HIDE DEF n, r, d
    <3>2. n \in Int /\ r \in Nat /\ n * Window + r <= Full + d * Burst
      BY <2>4, <2>6, <2>7 DEF n, r, d
    <3>3. (n - Burst) * Window <= d * Burst
      BY <3>1, <3>2, AccountsBound
    <3> QED BY <3>3 DEF n, d
  <2>3. (now - a) * Burst <= (b - a) * Burst
    BY <1>1, <1>3
  <2>5. (LetIn(k, a, now) - Burst) * Window \in Int /\ (now - a) * Burst \in Int
        /\ (b - a) * Burst \in Int
    BY <1>1, <2>4
  <2> QED BY <2>1, <2>2, <2>3, <2>5
<1>4. CASE a > now
  <2>1. LetIn(k, a, b) = 0
    <3>1. allowed[k][b] = allowed[k][now] /\ allowed[k][a - 1] = allowed[k][now]
      BY <1>1, <1>4 DEF InvLimiter, CountedOn, Instants
    <3>2. allowed[k][now] \in Nat
      BY DEF InvLimiter, LimiterTyped
    <3> QED BY <1>1, <1>4, <3>1, <3>2 DEF LetIn
  <2>2. (0 - Burst) * Window <= 0 /\ (b - a) * Burst >= 0
    BY <1>1
  <2>3. (0 - Burst) * Window \in Int /\ (b - a) * Burst \in Int
    BY <1>1
  <2> QED BY <2>1, <2>2, <2>3
<1> QED BY <1>1, <1>2, <1>3, <1>4

\* A limiter that has just been started.
Started == now \in Instants /\ buckets = [k \in BucketKeys |-> NoBucket] /\ allowed = Nobody

LEMMA FreshLimiter == Started => InvLimiter
<1> SUFFICES ASSUME Limited, Started PROVE InvLimiter
  BY DEF InvLimiter
<1> USE DEF Started
<1>1. now \in Nat /\ MaxNow \in Nat /\ Burst \in Nat /\ Window \in Nat
  BY QuotesAssumption DEF Instants, Limited
<1>2. allowed \in [BucketKeys -> [Instants -> Nat]]
  BY DEF Nobody, Instants
<1>3. \A k \in BucketKeys, t \in Instants : allowed[k][t] = 0
  BY DEF Nobody, Instants
<1>4. Full \in Nat
  BY <1>1 DEF Full
<1>5. \A k \in BucketKeys : Sound(buckets[k]) /\ Refilled(buckets[k], now) = Full
  BY <1>4 DEF Sound, Bucket, NoBucket, Refilled
<1>6. \A k \in BucketKeys, a, b \in Instants : LetIn(k, a, b) = 0
  BY <1>1, <1>3 DEF LetIn, Instants
<1>7. \A a, b \in 0 .. now : a \in Instants /\ b \in Instants /\ (a <= b => (b - a) * Burst >= 0)
  BY <1>1 DEF Instants
<1>8. (0 - Burst) * Window <= 0 /\ 0 * Window = 0
  BY <1>1
<1>9. (0 - Burst) * Window \in Int /\ \A a, b \in 0 .. now : (b - a) * Burst \in Int
  BY <1>1
<1>10. Accounted
  BY <1>1, <1>4, <1>5, <1>6, <1>7, <1>8, <1>9 DEF Accounted
<1>11. BoundedSoFar
  BY <1>1, <1>6, <1>7, <1>8, <1>9 DEF BoundedSoFar
<1> QED BY <1>1, <1>2, <1>3, <1>5, <1>10, <1>11 DEF InvLimiter, LimiterTyped, CountedOn

\* A caller: each bucket that is asked and gives is counted once and loses one token.
LEMMA ArriveAccounted ==
  ASSUME InvLimiter, Limited, NEW c \in Checkouts, Arrive(c)
  PROVE  InvLimiter'
<1> DEFINE asked == IF Allows(buckets[c], now) THEN {c, Address} ELSE {c}
           gives == {k \in asked : Allows(buckets[k], now)}
<1>1. /\ now' = now
      /\ buckets' = [k \in BucketKeys |-> IF k \in asked THEN Allow(buckets[k], now)
                                          ELSE buckets[k]]
      /\ allowed' = [k \in BucketKeys |->
           IF k \in gives THEN [t \in 0 .. MaxNow |-> allowed[k][t] + IF t >= now THEN 1 ELSE 0]
           ELSE allowed[k]]
  BY DEF Arrive, CountIn
<1> HIDE DEF asked, gives
<1>2. /\ now \in Nat /\ MaxNow \in Nat /\ now <= MaxNow /\ Burst \in Nat /\ Window \in Nat
      /\ LimiterTyped /\ CountedOn /\ Accounted /\ BoundedSoFar
  BY QuotesAssumption DEF InvLimiter, LimiterTyped, Instants, Limited
<1>3. \A k \in BucketKeys : Sound(buckets[k])
  BY <1>2 DEF LimiterTyped
<1>4. ASSUME NEW k \in BucketKeys
      PROVE  /\ Sound(buckets'[k])
             /\ k \notin gives => Refilled(buckets'[k], now) = Refilled(buckets[k], now)
             /\ k \in gives => Refilled(buckets'[k], now) = Refilled(buckets[k], now) - Window
  BY <1>1, <1>2, <1>3, AllowSpends DEF gives
<1>5. LimiterTyped'
  <2>1. allowed' \in [BucketKeys -> [Instants -> Nat]]
    BY <1>1, <1>2 DEF LimiterTyped, Instants
  <2>2. \A k \in BucketKeys : Sound(buckets[k])'
    BY <1>1, <1>4 DEF Sound
  <2> QED BY <1>1, <1>2, <2>1, <2>2 DEF LimiterTyped
<1>6. ASSUME NEW k \in BucketKeys, NEW t \in Instants
      PROVE  allowed'[k][t] = allowed[k][t] + IF k \in gives /\ t >= now THEN 1 ELSE 0
  <2>1. allowed[k][t] \in Nat
    BY <1>2 DEF LimiterTyped
  <2> QED BY <1>1, <2>1 DEF Instants
<1>7. CountedOn'
  BY <1>1, <1>2, <1>6 DEF CountedOn, Instants
<1>8. ASSUME NEW k \in BucketKeys, NEW a \in 0 .. now, NEW b \in 0 .. now
      PROVE  LetIn(k, a, b)' = LetIn(k, a, b) + IF k \in gives /\ b = now THEN 1 ELSE 0
  <2>1. allowed[k][b] \in Nat /\ (a # 0 => allowed[k][a - 1] \in Nat)
    BY <1>2 DEF LimiterTyped, Instants
  <2>2. allowed'[k][b] = allowed[k][b] + IF k \in gives /\ b = now THEN 1 ELSE 0
    BY <1>2, <1>6 DEF Instants
  <2>3. a # 0 => allowed'[k][a - 1] = allowed[k][a - 1]
    BY <1>2, <1>6, <2>1 DEF Instants
  <2> QED BY <2>1, <2>2, <2>3 DEF LetIn
<1>9. ASSUME NEW k \in BucketKeys, NEW a \in 0 .. now, NEW b \in {now}
      PROVE  /\ LetIn(k, a, b)' \in Int /\ Refilled(buckets'[k], now) \in Nat
             /\ LetIn(k, a, b)' * Window + Refilled(buckets'[k], now) <= Full + (b - a) * Burst
  <2> DEFINE n == LetIn(k, a, b)
             r == Refilled(buckets[k], now)
  <2>1. a \in Instants /\ b \in Instants /\ b \in 0 .. now
    BY <1>2 DEF Instants
  <2>2. n \in Int
    BY <1>2, <2>1, LetInTyped
  <2>3. r \in Int
    BY <1>2, <1>3, RefillIsSlow
  <2>4. Refilled(buckets'[k], now) \in Nat
    BY <1>1, <1>2, <1>4, RefillIsSlow
  <2>5. n * Window + r <= Full + (now - a) * Burst
    BY <1>2 DEF Accounted
  <2>6. LetIn(k, a, b)' = n + IF k \in gives THEN 1 ELSE 0
    BY <1>8, <2>1
  <2> HIDE DEF n, r
  <2>7. (n + 1) * Window = n * Window + Window
    BY <1>2, <2>2
  <2>8. CASE k \in gives
    BY <1>2, <1>4, <2>2, <2>3, <2>4, <2>5, <2>6, <2>7, <2>8 DEF r
  <2>9. CASE k \notin gives
    BY <1>2, <1>4, <2>2, <2>3, <2>4, <2>5, <2>6, <2>9 DEF r
  <2> QED BY <2>8, <2>9
<1>11. Accounted'
  BY <1>1, <1>9 DEF Accounted, LetIn
<1>10. BoundedSoFar'
  <2> SUFFICES ASSUME NEW k \in BucketKeys, NEW a \in 0 .. now, NEW b \in 0 .. now, a <= b
               PROVE  (LetIn(k, a, b)' - Burst) * Window <= (b - a) * Burst
    BY <1>1 DEF BoundedSoFar
  <2>1. CASE b = now
    <3> DEFINE n == LetIn(k, a, b)'
               r == Refilled(buckets'[k], now)
               d == b - a
    <3>1. d \in Int
      BY <1>2
    <3> HIDE DEF n, r, d
    <3>2. n \in Int /\ r \in Nat /\ n * Window + r <= Full + d * Burst
      BY <1>9, <2>1 DEF n, r, d
    <3>3. (n - Burst) * Window <= d * Burst
      BY <3>1, <3>2, AccountsBound
    <3> QED BY <3>3 DEF n, d
  <2>2. CASE b # now
    <3>1. LetIn(k, a, b)' = LetIn(k, a, b)
      BY <1>2, <1>8, <2>2, LetInTyped DEF Instants
    <3> QED BY <1>2, <3>1 DEF BoundedSoFar
  <2> QED BY <2>1, <2>2
<1> QED BY <1>5, <1>7, <1>10, <1>11 DEF InvLimiter

\* A tick: every bucket gains at most the refill of one.
LEMMA TickAccounted ==
  ASSUME InvLimiter, Limited, Tick
  PROVE  InvLimiter'
<1>1. now' = now + 1 /\ now < MaxNow /\ UNCHANGED <<buckets, allowed>>
  BY DEF Tick
<1>2. /\ now \in Nat /\ MaxNow \in Nat /\ now <= MaxNow /\ Burst \in Nat /\ Window \in Nat
      /\ LimiterTyped /\ CountedOn /\ Accounted /\ BoundedSoFar
  BY QuotesAssumption DEF InvLimiter, LimiterTyped, Instants, Limited
<1>3. LimiterTyped'
  BY <1>1, <1>2 DEF LimiterTyped, Instants, Sound, Bucket
<1>4. CountedOn'
  BY <1>1, <1>2 DEF CountedOn, Instants
<1>5. ASSUME NEW k \in BucketKeys, NEW a \in 0 .. now + 1
      PROVE  /\ LetIn(k, a, now + 1) \in Int /\ Refilled(buckets[k], now + 1) \in Nat
             /\ LetIn(k, a, now + 1) * Window + Refilled(buckets[k], now + 1)
                  <= Full + (now + 1 - a) * Burst
  <2> DEFINE r == Refilled(buckets[k], now)
             s == Refilled(buckets[k], now + 1)
  <2>1. a \in Instants /\ now \in Instants /\ now + 1 \in Instants
    BY <1>1, <1>2 DEF Instants
  <2>2. r \in Int /\ s <= r + Burst
    BY <1>2, RefillIsSlow DEF LimiterTyped
  <2>3. s \in Nat /\ s <= Full
    BY <1>2, RefillIsSlow DEF LimiterTyped
  <2>4. LetIn(k, a, now + 1) \in Int
    BY <1>2, <2>1, LetInTyped
  <2> HIDE DEF r, s
  <2>5. CASE a <= now
    <3> DEFINE n == LetIn(k, a, now)
    <3>1. LetIn(k, a, now + 1) = n
      BY <1>2, <2>1, <2>5 DEF LetIn, CountedOn, Instants
    <3>2. n * Window + r <= Full + (now - a) * Burst
      BY <1>2, <2>5 DEF Accounted, r
    <3>3. n \in Int
      BY <2>4, <3>1
    <3> HIDE DEF n
    <3>4. (now + 1 - a) * Burst = (now - a) * Burst + Burst
      BY <1>2
    <3>5. n * Window \in Int /\ (now - a) * Burst \in Int /\ Full \in Int
      BY <1>2, <3>3 DEF Full
    <3>6. n * Window + s <= Full + (now + 1 - a) * Burst
      BY <1>2, <2>2, <2>3, <3>2, <3>4, <3>5
    <3> QED BY <2>3, <2>4, <3>1, <3>6 DEF s
  <2>6. CASE a = now + 1
    <3>1. allowed[k][now + 1] \in Nat /\ allowed[k][now] \in Nat
      BY <1>2, <2>1 DEF LimiterTyped
    <3>2. allowed[k][now + 1] = allowed[k][now]
      BY <1>2, <2>1 DEF CountedOn
    <3>3. LetIn(k, a, now + 1) = 0
      BY <1>2, <2>6, <3>1, <3>2 DEF LetIn
    <3>4. 0 * Window = 0 /\ (now + 1 - a) * Burst = 0 /\ Full \in Int
      BY <1>2, <2>6 DEF Full
    <3> QED BY <2>3, <3>3, <3>4 DEF s
  <2> QED BY <1>2, <2>5, <2>6
<1>8. ASSUME NEW k \in BucketKeys, NEW a, NEW b
      PROVE  LetIn(k, a, b)' = LetIn(k, a, b)
  BY <1>1 DEF LetIn
<1>9. ASSUME NEW k \in BucketKeys, NEW b \in {now + 1}, NEW a \in 0 .. b
      PROVE  LetIn(k, a, b)' * Window + Refilled(buckets'[k], b) <= Full + (b - a) * Burst
  <2>1. b = now + 1 /\ b - a = now + 1 - a
    BY <1>2
  <2>2. LetIn(k, a, b)' = LetIn(k, a, now + 1)
    BY <1>8, <2>1
  <2>3. Refilled(buckets'[k], b) = Refilled(buckets[k], now + 1)
    BY <1>1, <2>1
  <2> QED BY <1>2, <1>5, <2>1, <2>2, <2>3
<1>6. Accounted'
  BY <1>1, <1>9 DEF Accounted, LetIn
<1>7. BoundedSoFar'
  <2> SUFFICES ASSUME NEW k \in BucketKeys, NEW a \in 0 .. now + 1, NEW b \in 0 .. now + 1, a <= b
               PROVE  (LetIn(k, a, b) - Burst) * Window <= (b - a) * Burst
    BY <1>1, <1>8 DEF BoundedSoFar
  <2>1. CASE b = now + 1
    <3> DEFINE n == LetIn(k, a, now + 1)
               r == Refilled(buckets[k], now + 1)
               d == now + 1 - a
    <3>1. d \in Int
      BY <1>2
    <3>2. n \in Int /\ r \in Nat /\ n * Window + r <= Full + d * Burst
      BY <1>5
    <3> HIDE DEF n, r, d
    <3>3. (n - Burst) * Window <= d * Burst
      BY <3>1, <3>2, AccountsBound
    <3>4. LetIn(k, a, b) = n
      BY <2>1 DEF n
    <3>5. b - a = d
      BY <1>2, <2>1 DEF d
    <3> QED BY <3>3, <3>4, <3>5
  <2>2. CASE b # now + 1
    BY <1>2, <2>2 DEF BoundedSoFar
  <2> QED BY <2>1, <2>2
<1> QED BY <1>3, <1>4, <1>6, <1>7 DEF InvLimiter

LEMMA StepLimiter == InvLimiter /\ [Next]_vars => InvLimiter'
<1>1. InvLimiter /\ UNCHANGED <<now, buckets, allowed>> => InvLimiter'
  BY DEF InvLimiter, LimiterTyped, CountedOn, Accounted, BoundedSoFar, Sound, LetIn
<1>2. InvLimiter /\ Limited /\ Restart => Started'
  BY DEF InvLimiter, LimiterTyped, Restart, Started, Nobody
<1>3. InvLimiter /\ Limited /\ Restart => InvLimiter'
  BY <1>2, FreshLimiter, PTL
<1>4. ~Limited => InvLimiter'
  BY DEF InvLimiter, Limited
<1>5. UNCHANGED vars => UNCHANGED <<now, buckets, allowed>>
  BY DEF vars
<1>6. ASSUME NEW c \in Checkouts, Checkout(c), ~Arrive(c) PROVE UNCHANGED <<now, buckets, allowed>>
  BY <1>6 DEF Checkout, ReadMenu, ReadStore, TakeFresh, SelectGroup, SelectStores, Swap,
     FailReload, TakeLoaded, Price, ResolveAgain, Commit
<1>7. ASSUME NEW q \in Requests, Administer(q) PROVE UNCHANGED <<now, buckets, allowed>>
  BY <1>7 DEF Administer, SaveItem, SaveCategory, SetStoreOverride, Add86, Lift86,
     SetParameter, SetStoreParameter, DeleteParameter, Invalidate
<1> QED
  BY <1>1, <1>3, <1>4, <1>5, <1>6, <1>7, ArriveAccounted, TickAccounted DEF Next

LEMMA InitLimiter == Init => InvLimiter
<1>1. Init => Started
  BY QuotesAssumption DEF Init, Started, Instants
<1> QED BY <1>1, FreshLimiter

\* While the process lives no bucket lets in more than its burst and what refills
\* meanwhile, over whatever stretch of time, however the calls are spread and however
\* many share it.
THEOREM BurstIsBounded == Spec => []BurstBounded
  BY InitLimiter, StepLimiter, LimiterBounds, PTL DEF Spec

\* Sweep forgets nothing: as long as its limit is no shorter than the time in which a
\* bucket fills (an hour against minutes), a bucket it drops would have been full.
THEOREM SweepForgetsNothing ==
  ASSUME Limited, BucketTTL >= Window, now \in Nat, NEW b, Sound(b),
         NEW later \in Nat, later >= now
  PROVE  Refilled(Sweep(b, now), later) = Refilled(b, later)
<1>1. CASE b = NoBucket \/ ~(b.lastSeen < now - BucketTTL)
  BY <1>1 DEF Sweep
<1>2. CASE b # NoBucket /\ b.lastSeen < now - BucketTTL
  <2> DEFINE gone == later - b.lastSeen
  <2>1. b.tokens \in Int /\ b.tokens >= 0 /\ b.tokens <= Full /\ b.lastSeen \in Int
    BY DEF Sound, Bucket
  <2>2. gone \in Int /\ gone >= Window /\ ~(later <= b.lastSeen)
    BY <1>2, <2>1, RuleAssumption DEF Limited
  <2>3. gone * Burst >= Full /\ gone * Burst \in Int /\ Full \in Int
    BY <2>2 DEF Full, Limited
  <2>4. Refilled(b, later) = Full
    BY <1>2, <2>1, <2>2, <2>3 DEF Refilled
  <2>5. Refilled(Sweep(b, now), later) = Full
    BY <1>2 DEF Sweep, Refilled
  <2> QED BY <2>4, <2>5
<1> QED BY <1>1, <1>2
-----------------------------------------------------------------------------
(* The rates.                                                              *)

\* The text t of the key k was in force at the instant at or later.
InForce(k, t, at) == Raw(sys, stores, k) = t \/ held[k][t] >= at

TablesTyped ==
  /\ sys \in Table /\ stores \in Table
  /\ held \in [Keys -> [Texts -> Int]]
  /\ \A k \in Keys, t \in Texts : held[k][t] <= now

\* What a key is where the store has no row.
OfGroup(group, k) == IF group[k] # Absent THEN group[k] ELSE Fallbacks[k]

\* A cache is as old as it says and a reload's time older, invalidated or not.
CacheKnown ==
  /\ DOMAIN cache = {"group", "stores", "loaded"}
  /\ cache.group \in Table /\ cache.stores \in Table
  /\ cache.loaded \in Int /\ cache.loaded <= now
  /\ \A k \in Keys, at \in {0, cache.loaded - ReloadTime} :
       InForce(k, Raw(cache.group, cache.stores, k), at)

\* What a reload has read was in force since it began.  A store's row is never deleted: where
\* there is none now, the group's was the one in force.
GroupKnown(c) ==
  checkouts[c].step = "GROUP" =>
    \A k \in Keys : stores[k] = Absent =>
      InForce(k, OfGroup(checkouts[c].group, k), checkouts[c].since)

RowsKnown(c) ==
  checkouts[c].step = "ROWS" =>
    /\ checkouts[c].rows \in Table
    /\ \A k \in Keys :
         InForce(k, Raw(checkouts[c].group, checkouts[c].rows, k), checkouts[c].since)

\* After a reload the cache is no older than that one, whoever swaps another in.
LoadedKnown(c) ==
  checkouts[c].step = "LOADED" /\ ~checkouts[c].degraded =>
    \A k \in Keys : InForce(k, Raw(cache.group, cache.stores, k), checkouts[c].since - ReloadTime)

ReloadTimed(c) ==
  /\ checkouts[c].since \in Nat /\ checkouts[c].since <= now
  /\ Loading(c) => now <= checkouts[c].since + ReloadTime /\ checkouts[c].group \in Table

Rate == [text : Texts, at : Nat]

RatesKnown(c) ==
  LET rates == checkouts[c].rates IN
  /\ rates \in Seq(Rate)
  /\ Len(rates) <= Len(RateKeys) /\ (checkouts[c].step # "PRICE" => Len(rates) < Len(RateKeys))
  /\ \A i \in DOMAIN rates :
       /\ rates[i].at <= now
       /\ \/ checkouts[c].degraded
          \/ InForce(RateKeys[i], rates[i].text, rates[i].at - TTL - ReloadTime + 1)

\* The five of them.
CheckoutKnown(c) ==
  ReloadTimed(c) /\ GroupKnown(c) /\ RowsKnown(c) /\ LoadedKnown(c) /\ RatesKnown(c)

InvRates == Shaped /\ TablesTyped /\ CacheKnown /\ \A c \in Checkouts : CheckoutKnown(c)

LEMMA RateKeysTyped == Len(RateKeys) = 3 /\ \A i \in 1 .. 3 : RateKeys[i] \in Keys
  BY QuotesAssumption DEF RateKeys

LEMMA RawTyped ==
  ASSUME NEW group \in Table, NEW rows \in Table, NEW k \in Keys
  PROVE  Raw(group, rows, k) \in Texts /\ OfGroup(group, k) \in Texts
BY ParametersAssumption DEF Table, Raw, OfGroup

\* What is in force at an instant stays so after a write: a text that is replaced is
\* remembered as in force until now.
LEMMA WriteRemembers ==
  ASSUME TablesTyped, now \in Nat, now' = now,
         NEW group \in Table, NEW rows \in Table, Replace(group, rows)
  PROVE  /\ TablesTyped'
         /\ \A k \in Keys, t \in Texts, at \in Int :
              at <= now /\ InForce(k, t, at) => InForce(k, t, at)'
<1>1. sys' = group /\ stores' = rows
  BY DEF Replace
<1>2. ASSUME NEW k \in Keys
      PROVE  /\ held'[k] \in [Texts -> Int]
             /\ \A t \in Texts :
                  \/ held'[k][t] = held[k][t] /\ t # Raw(sys, stores, k)
                  \/ held'[k][t] = held[k][t] /\ Raw(group, rows, k) = Raw(sys, stores, k)
                  \/ held'[k][t] = now
  <2>1. held'[k] = IF Raw(group, rows, k) = Raw(sys, stores, k) THEN held[k]
                   ELSE [held[k] EXCEPT ![Raw(sys, stores, k)] = now]
    BY DEF Replace
  <2>2. held[k] \in [Texts -> Int] /\ now \in Int
    BY DEF TablesTyped
  <2>3. CASE Raw(group, rows, k) = Raw(sys, stores, k)
    BY <2>1, <2>2, <2>3
  <2>4. CASE Raw(group, rows, k) # Raw(sys, stores, k)
    <3> DEFINE old == Raw(sys, stores, k)
    <3>1. held'[k] = [held[k] EXCEPT ![old] = now]
      BY <2>1, <2>4
    <3> HIDE DEF old
    <3>2. held'[k] \in [Texts -> Int]
      BY <2>2, <3>1
    <3>3. \A t \in Texts : held'[k][t] = IF t = old THEN now ELSE held[k][t]
      BY <2>2, <3>1
    <3> QED BY <3>2, <3>3 DEF old
  <2> QED BY <2>3, <2>4
<1>3. held' \in [Keys -> [Texts -> Int]]
  <2>1. DOMAIN held' = Keys /\ held' = [k \in Keys |-> held'[k]]
    BY DEF Replace
  <2> QED BY <1>2, <2>1
<1>4. \A k \in Keys, t \in Texts : held'[k][t] <= now
  BY <1>2 DEF TablesTyped
<1>5. TablesTyped'
  BY <1>1, <1>3, <1>4 DEF TablesTyped
<1>6. \A k \in Keys, t \in Texts, at \in Int :
        at <= now /\ InForce(k, t, at) => InForce(k, t, at)'
  <2> SUFFICES ASSUME NEW k \in Keys, NEW t \in Texts, NEW at \in Int, at <= now,
                      InForce(k, t, at)
               PROVE  Raw(group, rows, k) = t \/ held'[k][t] >= at
    BY <1>1 DEF InForce
  <2>1. held[k][t] \in Int /\ held[k][t] <= now
    BY DEF TablesTyped
  <2> QED BY <1>2, <2>1 DEF InForce
<1> QED BY <1>5, <1>6

\* A checkout goes on, and the tables and the cache stand.
LEMMA OneGoesOn ==
  ASSUME InvRates, Shaped', UNCHANGED <<now, sys, stores, held, cache>>, NEW c \in Checkouts,
         \A d \in Checkouts \ {c} : checkouts'[d] = checkouts[d],
         CheckoutKnown(c)'
  PROVE  InvRates'
<1>1. TablesTyped' /\ CacheKnown'
  BY DEF InvRates, TablesTyped, CacheKnown, InForce
<1>2. ASSUME NEW d \in Checkouts \ {c} PROVE CheckoutKnown(d)'
  <2>1. CheckoutKnown(d)
    BY DEF InvRates
  <2> QED BY <2>1, <1>2 DEF CheckoutKnown, ReloadTimed, GroupKnown, RowsKnown, LoadedKnown,
             RatesKnown, InForce, Loading
<1> QED BY <1>1, <1>2 DEF InvRates

\* Away from a reload nothing is asked of it but its rates.
LEMMA PlainStep ==
  ASSUME InvRates, Shaped', UNCHANGED <<now, sys, stores, held, cache>>, NEW c \in Checkouts,
         \A d \in Checkouts \ {c} : checkouts'[d] = checkouts[d],
         checkouts'[c].step \notin {"GROUP", "ROWS", "LOADED", "PRICE"},
         \/ checkouts'[c].since = 0 /\ checkouts'[c].rates = <<>>
         \/ /\ checkouts'[c].since = checkouts[c].since
            /\ checkouts'[c].rates = checkouts[c].rates
            /\ checkouts'[c].degraded = checkouts[c].degraded
            /\ checkouts[c].step # "PRICE"
  PROVE  InvRates'
<1>1. CheckoutKnown(c) /\ now \in Nat
  BY DEF InvRates, Shaped
<1>2. ReloadTimed(c)' /\ GroupKnown(c)' /\ RowsKnown(c)' /\ LoadedKnown(c)'
  BY <1>1 DEF CheckoutKnown, ReloadTimed, GroupKnown, RowsKnown, LoadedKnown, Loading
<1>3. RatesKnown(c)'
  <2>1. CASE checkouts'[c].rates = <<>>
    <3>1. <<>> \in Seq(Rate) /\ Len(<<>>) = 0 /\ DOMAIN <<>> = {}
      OBVIOUS
    <3> QED BY <2>1, <3>1, RateKeysTyped DEF RatesKnown
  <2>2. CASE /\ checkouts'[c].rates = checkouts[c].rates
             /\ checkouts'[c].degraded = checkouts[c].degraded
             /\ checkouts[c].step # "PRICE"
    <3>1. RatesKnown(c)
      BY <1>1 DEF CheckoutKnown
    <3>2. \A k, t, at : InForce(k, t, at)' <=> InForce(k, t, at)
      BY DEF InForce
    <3>3. RatesKnown(c)' <=> RatesKnown(c)
      BY <2>2, <3>2 DEF RatesKnown, InForce
    <3> QED BY <3>1, <3>3
  <2> QED BY <2>1, <2>2
<1> QED BY <1>2, <1>3, OneGoesOn DEF CheckoutKnown

LEMMA PlainRates ==
  ASSUME InvRates, Shaped', NEW c \in Checkouts,
         Arrive(c) \/ ReadMenu(c) \/ ReadStore(c) \/ Price(c) \/ ResolveAgain(c) \/ Commit(c)
  PROVE  InvRates'
<1> USE DEF Shaped, Fields
<1>1. Shaped
  BY DEF InvRates
<1>2. UNCHANGED <<now, sys, stores, held, cache>>
  BY DEF Arrive, ReadMenu, ReadStore, Price, ResolveAgain, Commit, tables
<1>3. CASE checkouts' = checkouts /\ Arrive(c)
  BY <1>1, <1>2, <1>3, PlainStep DEF Arrive, At
<1>4. ASSUME \A d \in Checkouts \ {c} : checkouts'[d] = checkouts[d],
             checkouts'[c].step \in {"IDLE", "MENU", "RESOLVE", "DONE"},
             checkouts'[c].since = 0, checkouts'[c].rates = <<>>
      PROVE  InvRates'
  BY <1>2, <1>4, PlainStep
<1>5. ASSUME Refuse(c) PROVE InvRates'
  BY <1>1, <1>4, <1>5 DEF Refuse, IdleCheckout
<1>6. CASE Arrive(c)
  <2>1. \/ checkouts' = checkouts
        \/ checkouts' = [checkouts EXCEPT
              ![c] = [IdleCheckout EXCEPT !.step = "MENU", !.began = now,
                        !.standing = {e.by : e \in Eighties(now)}]]
    BY <1>6 DEF Arrive
  <2>2. CASE checkouts' = [checkouts EXCEPT
              ![c] = [IdleCheckout EXCEPT !.step = "MENU", !.began = now,
                        !.standing = {e.by : e \in Eighties(now)}]]
    <3>1. /\ checkouts'[c].step = "MENU" /\ checkouts'[c].since = 0
          /\ checkouts'[c].rates = <<>>
          /\ \A d \in Checkouts \ {c} : checkouts'[d] = checkouts[d]
      BY <1>1, <2>2 DEF IdleCheckout
    <3> QED BY <1>4, <3>1
  <2> QED BY <1>3, <1>6, <2>1, <2>2
<1>7. CASE ReadMenu(c)
  BY <1>1, <1>2, <1>7, PlainStep DEF ReadMenu, At
<1>8. CASE ReadStore(c)
  BY <1>1, <1>2, <1>5, <1>8, PlainStep DEF ReadStore, At
<1>9. CASE Price(c)
  <2>1. \/ Refuse(c)
        \/ \E totals : checkouts' = [checkouts EXCEPT ![c] =
             [IdleCheckout EXCEPT !.step = "RESOLVE", !.began = checkouts[c].began,
                !.standing = checkouts[c].standing, !.totals = totals]]
    BY <1>9 DEF Price
  <2>2. ASSUME NEW totals, checkouts' = [checkouts EXCEPT ![c] =
             [IdleCheckout EXCEPT !.step = "RESOLVE", !.began = checkouts[c].began,
                !.standing = checkouts[c].standing, !.totals = totals]]
        PROVE InvRates'
    <3>1. /\ checkouts'[c].step = "RESOLVE" /\ checkouts'[c].since = 0
          /\ checkouts'[c].rates = <<>>
          /\ \A d \in Checkouts \ {c} : checkouts'[d] = checkouts[d]
      BY <1>1, <2>2 DEF IdleCheckout
    <3> QED BY <1>4, <3>1
  <2> QED BY <1>5, <2>1, <2>2
<1>10. CASE ResolveAgain(c)
  BY <1>1, <1>2, <1>5, <1>10, PlainStep DEF ResolveAgain, At, Step
<1>11. CASE Commit(c)
  BY <1>1, <1>4, <1>5, <1>11 DEF Commit, IdleCheckout
<1> QED BY <1>6, <1>7, <1>8, <1>9, <1>10, <1>11

\* A rate is taken: from a cache no older than its life, or after a reload.
LEMMA TakeRates ==
  ASSUME InvRates, Shaped', NEW c \in Checkouts, TakeFresh(c) \/ TakeLoaded(c)
  PROVE  InvRates'
<1> DEFINE key == NextKey(c)
           text == Raw(cache.group, cache.stores, key)
           rates == checkouts[c].rates
           next == checkouts'[c]
<1>1. /\ Shaped /\ CheckoutKnown(c) /\ CacheKnown /\ TablesTyped /\ now \in Nat
      /\ TTL \in Nat \ {0} /\ ReloadTime \in Nat
  BY ParametersAssumption, QuotesAssumption DEF InvRates, Shaped
<1>2. /\ UNCHANGED <<now, sys, stores, held, cache>>
      /\ checkouts[c].step \in {"RATES", "LOADED"}
  BY DEF TakeFresh, TakeLoaded, At, tables
<1>3. PICK asked \in {now, checkouts[c].since} :
        /\ Take(c, text, asked)
        /\ \/ asked = now /\ Fresh(cache, now)
           \/ asked = checkouts[c].since /\ checkouts[c].step = "LOADED"
  BY DEF TakeFresh, TakeLoaded, At
<1>4. rates \in Seq(Rate) /\ Len(rates) < 3 /\ Len(rates) \in Nat
  BY <1>1, <1>2, RateKeysTyped DEF CheckoutKnown, RatesKnown
<1>5. key \in Keys /\ key = RateKeys[Len(rates) + 1] /\ text \in Texts
  <2>1. key \in Keys /\ key = RateKeys[Len(rates) + 1]
    BY <1>4, RateKeysTyped DEF NextKey
  <2> QED BY <1>1, <2>1, RawTyped DEF CacheKnown
<1>6. asked \in Nat /\ asked <= now
  BY <1>1 DEF CheckoutKnown, ReloadTimed
<1>7. checkouts[c].degraded \/ InForce(key, text, asked - TTL - ReloadTime + 1)
  <2>1. CASE asked = now /\ Fresh(cache, now)
    <3>1. cache.loaded \in Int /\ cache.loaded - ReloadTime >= asked - TTL - ReloadTime + 1
      BY <1>1, <2>1 DEF CacheKnown, Fresh
    <3>2. InForce(key, text, cache.loaded - ReloadTime)
      BY <1>1, <1>5 DEF CacheKnown
    <3>3. held[key][text] \in Int
      BY <1>1, <1>5 DEF TablesTyped
    <3> QED BY <1>1, <1>6, <3>1, <3>2, <3>3 DEF InForce
  <2>2. CASE asked = checkouts[c].since /\ checkouts[c].step = "LOADED"
    <3>1. checkouts[c].degraded \/ InForce(key, text, asked - ReloadTime)
      BY <1>1, <1>5, <2>2 DEF CheckoutKnown, LoadedKnown
    <3>3. held[key][text] \in Int
      BY <1>1, <1>5 DEF TablesTyped
    <3> QED BY <1>1, <1>6, <3>1, <3>3 DEF InForce
  <2> QED BY <1>3, <2>1, <2>2
<1> DEFINE taken == [text |-> text, at |-> asked]
<1>8. /\ next.rates = Append(rates, taken) /\ next.since = 0
      /\ next.step = IF Len(rates) + 1 = 3 THEN "PRICE" ELSE "RATES"
      /\ next.degraded = checkouts[c].degraded
      /\ \A d \in Checkouts \ {c} : checkouts'[d] = checkouts[d]
  BY <1>1, <1>3, RateKeysTyped DEF Take, Shaped, Fields
<1>9. taken \in Rate
  BY <1>5, <1>6 DEF Rate
<1>10. taken.text = text /\ taken.at = asked
  OBVIOUS
<1> HIDE DEF taken, rates, key, text, next
<1>11. /\ Append(rates, taken) \in Seq(Rate) /\ Len(Append(rates, taken)) = Len(rates) + 1
       /\ \A i \in DOMAIN Append(rates, taken) :
            \/ i \in DOMAIN rates /\ Append(rates, taken)[i] = rates[i]
            \/ i = Len(rates) + 1 /\ Append(rates, taken)[i] = taken
  BY <1>4, <1>9
<1>12. RatesKnown(c)'
  <2>1. \A i \in DOMAIN rates :
          /\ rates[i].at <= now
          /\ \/ checkouts[c].degraded
             \/ InForce(RateKeys[i], rates[i].text, rates[i].at - TTL - ReloadTime + 1)
    BY <1>1 DEF CheckoutKnown, RatesKnown, rates
  <2>2. \A i \in DOMAIN Append(rates, taken) :
          /\ Append(rates, taken)[i].at <= now
          /\ \/ checkouts[c].degraded
             \/ InForce(RateKeys[i], Append(rates, taken)[i].text,
                        Append(rates, taken)[i].at - TTL - ReloadTime + 1)
    BY <1>5, <1>6, <1>7, <1>10, <1>11, <2>1
  <2> QED BY <1>2, <1>4, <1>8, <1>11, <2>2, RateKeysTyped DEF RatesKnown, InForce, next
<1>13. ReloadTimed(c)' /\ GroupKnown(c)' /\ RowsKnown(c)' /\ LoadedKnown(c)'
  BY <1>1, <1>2, <1>8 DEF ReloadTimed, GroupKnown, RowsKnown, LoadedKnown, Loading, next
<1> QED BY <1>2, <1>8, <1>12, <1>13, OneGoesOn DEF CheckoutKnown

\* A reload reads the group's rows, then the stores', and either puts them in the cache
\* or gives up.
LEMMA ReloadRates ==
  ASSUME InvRates, Shaped', NEW c \in Checkouts,
         SelectGroup(c) \/ SelectStores(c) \/ FailReload(c)
  PROVE  InvRates'
<1> DEFINE own == checkouts[c]
           next == checkouts'[c]
<1>1. /\ Shaped /\ CheckoutKnown(c) /\ TablesTyped /\ now \in Nat /\ ReloadTime \in Nat
  BY QuotesAssumption DEF InvRates, Shaped
<1>2. UNCHANGED <<now, sys, stores, held, cache>>
  BY DEF SelectGroup, SelectStores, FailReload, tables
<1>3. /\ \A d \in Checkouts \ {c} : checkouts'[d] = checkouts[d]
      /\ next.rates = own.rates /\ next.step # "PRICE" /\ own.step # "PRICE"
      /\ own.degraded => next.degraded
      /\ SelectGroup(c) => /\ next.step = "GROUP" /\ next.group = sys /\ next.since = now
                           /\ next.degraded = own.degraded
      /\ SelectStores(c) => /\ own.step = "GROUP" /\ next.step = "ROWS" /\ next.rows = stores
                            /\ next.group = own.group /\ next.since = own.since
                            /\ next.degraded = own.degraded
      /\ FailReload(c) => /\ next.step = "LOADED" /\ next.since = own.since /\ next.degraded = TRUE
  BY <1>1 DEF SelectGroup, SelectStores, FailReload, At, Loading, Shaped, Fields
<1>4. RatesKnown(c)'
  <2>1. RatesKnown(c)
    BY <1>1 DEF CheckoutKnown
  <2>2. \A k, t, at : InForce(k, t, at)' <=> InForce(k, t, at)
    BY <1>2 DEF InForce
  <2> QED BY <1>2, <1>3, <2>1, <2>2 DEF RatesKnown, InForce
<1>5. CASE SelectGroup(c)
  <2>1. \A k \in Keys : stores[k] = Absent => InForce(k, OfGroup(sys, k), now)
    BY DEF InForce, Raw, OfGroup
  <2>2. GroupKnown(c)'
    BY <1>2, <1>3, <1>5, <2>1 DEF GroupKnown, InForce
  <2>3. ReloadTimed(c)' /\ RowsKnown(c)' /\ LoadedKnown(c)'
    BY <1>1, <1>2, <1>3, <1>5 DEF ReloadTimed, RowsKnown, LoadedKnown, Loading, TablesTyped
  <2> QED BY <1>2, <1>3, <1>4, <2>2, <2>3, OneGoesOn DEF CheckoutKnown
<1>6. CASE SelectStores(c)
  <2>1. ReloadTimed(c) /\ GroupKnown(c) /\ Loading(c)
    BY <1>1, <1>3, <1>6 DEF CheckoutKnown, Loading
  <2>2. own.group \in Table /\ own.since \in Nat
    BY <2>1 DEF ReloadTimed
  <2>3. \A k \in Keys : InForce(k, Raw(own.group, stores, k), own.since)
    <3> SUFFICES ASSUME NEW k \in Keys PROVE InForce(k, Raw(own.group, stores, k), own.since)
      OBVIOUS
    <3>1. CASE stores[k] = Absent
      BY <1>3, <1>6, <2>1, <3>1 DEF GroupKnown, Raw, OfGroup
    <3>2. CASE stores[k] # Absent
      BY <3>2 DEF InForce, Raw
    <3> QED BY <3>1, <3>2
  <2>4. RowsKnown(c)'
    BY <1>1, <1>2, <1>3, <1>6, <2>3 DEF RowsKnown, InForce, TablesTyped
  <2>5. ReloadTimed(c)' /\ GroupKnown(c)' /\ LoadedKnown(c)'
    BY <1>2, <1>3, <1>6, <2>1 DEF ReloadTimed, GroupKnown, LoadedKnown, Loading
  <2> QED BY <1>2, <1>3, <1>4, <2>4, <2>5, OneGoesOn DEF CheckoutKnown
<1>7. CASE FailReload(c)
  <2>1. ReloadTimed(c)
    BY <1>1 DEF CheckoutKnown
  <2>2. ReloadTimed(c)' /\ GroupKnown(c)' /\ RowsKnown(c)' /\ LoadedKnown(c)'
    BY <1>2, <1>3, <1>7, <2>1 DEF ReloadTimed, GroupKnown, RowsKnown, LoadedKnown, Loading
  <2> QED BY <1>2, <1>3, <1>4, <2>2, OneGoesOn DEF CheckoutKnown
<1> QED BY <1>5, <1>6, <1>7

\* A swap puts in what is no older than any reload that has ended, whoever began first.
LEMMA SwapRates ==
  ASSUME InvRates, Shaped', NEW c \in Checkouts, Swap(c)
  PROVE  InvRates'
<1> DEFINE own == checkouts[c]
           next == checkouts'[c]
<1>1. /\ Shaped /\ CheckoutKnown(c) /\ TablesTyped /\ CacheKnown
      /\ now \in Nat /\ ReloadTime \in Nat
  BY QuotesAssumption DEF InvRates, Shaped
<1>2. UNCHANGED <<now, sys, stores, held>> /\ cache' = Loaded(own.group, own.rows, now)
  BY DEF Swap, tables
<1>3. /\ \A d \in Checkouts \ {c} : checkouts'[d] = checkouts[d]
      /\ own.step = "ROWS" /\ next.step = "LOADED" /\ next.rates = own.rates
      /\ next.since = own.since /\ next.degraded = own.degraded
  BY <1>1 DEF Swap, At, Shaped, Fields
<1>4. /\ own.since \in Nat /\ own.since <= now /\ now <= own.since + ReloadTime
      /\ own.group \in Table /\ own.rows \in Table
      /\ \A k \in Keys : InForce(k, Raw(own.group, own.rows, k), own.since)
  BY <1>1, <1>3 DEF CheckoutKnown, ReloadTimed, RowsKnown, Loading
<1>5. \A k, t, at : InForce(k, t, at)' <=> InForce(k, t, at)
  BY <1>2 DEF InForce
<1>6. ASSUME NEW k \in Keys, NEW at \in Int, at <= own.since
      PROVE  InForce(k, Raw(own.group, own.rows, k), at)
  <2>1. Raw(own.group, own.rows, k) \in Texts
    BY <1>4, RawTyped
  <2>2. held[k][Raw(own.group, own.rows, k)] \in Int
    BY <1>1, <2>1 DEF TablesTyped
  <2>3. InForce(k, Raw(own.group, own.rows, k), own.since)
    BY <1>4
  <2> QED BY <1>4, <1>6, <2>2, <2>3 DEF InForce
<1>7. TablesTyped'
  BY <1>1, <1>2 DEF TablesTyped
<1>8. CacheKnown'
  <2>1. /\ DOMAIN cache' = {"group", "stores", "loaded"}
        /\ cache'.group = own.group /\ cache'.stores = own.rows /\ cache'.loaded = now
    BY <1>2 DEF Loaded
  <2>2. now - ReloadTime \in Int /\ now - ReloadTime <= own.since /\ 0 <= own.since
    BY <1>1, <1>4
  <2>3. \A k \in Keys, at \in {0, now - ReloadTime} :
          InForce(k, Raw(own.group, own.rows, k), at)
    BY <1>6, <2>2
  <2> QED BY <1>1, <1>2, <1>4, <2>1, <2>3 DEF CacheKnown, InForce
<1>9. ASSUME NEW d \in Checkouts PROVE LoadedKnown(d)'
  <2>1. checkouts'[d].since \in Nat /\ checkouts'[d].since <= now
    <3>1. ReloadTimed(d)
      BY DEF InvRates, CheckoutKnown
    <3> QED BY <1>3, <3>1 DEF ReloadTimed
  <2>2. checkouts'[d].since - ReloadTime \in Int /\ checkouts'[d].since - ReloadTime <= own.since
    BY <1>1, <1>4, <2>1
  <2>3. \A k \in Keys : InForce(k, Raw(own.group, own.rows, k), checkouts'[d].since - ReloadTime)
    BY <1>6, <2>2
  <2> QED BY <1>2, <2>3 DEF LoadedKnown, InForce, Loaded
<1>10. ASSUME NEW d \in Checkouts
       PROVE  ReloadTimed(d)' /\ GroupKnown(d)' /\ RowsKnown(d)' /\ RatesKnown(d)'
  <2>1. ReloadTimed(d) /\ GroupKnown(d) /\ RowsKnown(d) /\ RatesKnown(d)
    BY DEF InvRates, CheckoutKnown
  <2>2. CASE d # c
    BY <1>2, <1>3, <1>5, <2>1, <2>2 DEF ReloadTimed, GroupKnown, RowsKnown, RatesKnown, Loading,
       InForce
  <2>3. CASE d = c
    BY <1>2, <1>3, <1>5, <2>1, <2>3 DEF ReloadTimed, GroupKnown, RowsKnown, RatesKnown, Loading,
       InForce
  <2> QED BY <2>2, <2>3
<1> QED BY <1>7, <1>8, <1>9, <1>10 DEF InvRates, CheckoutKnown

\* What a write leaves in force is what was: the checkouts and the cache know the same.
LEMMA WriteRates ==
  ASSUME InvRates, Shaped', NEW q \in Requests,
         SetParameter(q) \/ SetStoreParameter(q) \/ DeleteParameter(q)
  PROVE  InvRates'
<1>1. /\ Shaped /\ TablesTyped /\ CacheKnown /\ now \in Nat
      /\ TTL \in Nat \ {0} /\ ReloadTime \in Nat
  BY ParametersAssumption, QuotesAssumption DEF InvRates, Shaped
<1>2. UNCHANGED <<now, cache, checkouts>>
  BY DEF SetParameter, SetStoreParameter, DeleteParameter
<1>3. PICK group \in Table, rows \in Table :
        /\ Replace(group, rows)
        /\ \A k \in Keys : rows[k] = Absent => stores[k] = Absent
  <2>1. /\ sys \in Table /\ stores \in Table
        /\ \A w \in SysInputs \cup StoreInputs : w[1] \in Keys /\ w[2] \in Texts
    BY <1>1, QuotesAssumption DEF TablesTyped
  <2>2. \A k \in Keys, t \in Texts \cup {Absent} : [sys EXCEPT ![k] = t] \in Table
    BY <2>1 DEF Table
  <2>3. \A k \in Keys, t \in Texts :
          /\ [stores EXCEPT ![k] = t] \in Table
          /\ \A j \in Keys : [stores EXCEPT ![k] = t][j] = Absent => stores[j] = Absent
    BY <2>1, ParametersAssumption DEF Table
  <2>4. CASE SetParameter(q)
    BY <2>1, <2>2, <2>4 DEF SetParameter
  <2>5. CASE SetStoreParameter(q)
    <3>1. PICK w \in StoreInputs : Replace(sys, [stores EXCEPT ![w[1]] = w[2]])
      BY <2>5 DEF SetStoreParameter
    <3>2. /\ [stores EXCEPT ![w[1]] = w[2]] \in Table
          /\ \A j \in Keys : [stores EXCEPT ![w[1]] = w[2]][j] = Absent => stores[j] = Absent
      BY <2>1, <2>3
    <3> QED BY <2>1, <3>1, <3>2
  <2>6. CASE DeleteParameter(q)
    BY <2>1, <2>2, <2>6 DEF DeleteParameter
  <2> QED BY <2>4, <2>5, <2>6
<1>4. /\ TablesTyped' /\ stores' = rows
      /\ \A k \in Keys, t \in Texts, at \in Int :
           at <= now /\ InForce(k, t, at) => InForce(k, t, at)'
  BY <1>1, <1>2, <1>3, WriteRemembers DEF Replace
<1>5. \A k \in Keys : Raw(cache.group, cache.stores, k) \in Texts
  BY <1>1, RawTyped DEF CacheKnown
<1>6. CacheKnown'
  <2>1. 0 <= now /\ cache.loaded - ReloadTime <= now /\ cache.loaded - ReloadTime \in Int
    BY <1>1 DEF CacheKnown
  <2>2. \A k \in Keys, at \in {0, cache.loaded - ReloadTime} :
          InForce(k, Raw(cache.group, cache.stores, k), at)'
    BY <1>1, <1>2, <1>4, <1>5, <2>1 DEF CacheKnown, InForce
  <2> QED BY <1>1, <1>2, <2>2 DEF CacheKnown, InForce
<1>7. ASSUME NEW c \in Checkouts PROVE CheckoutKnown(c)'
  <2> DEFINE own == checkouts[c]
  <2>1. ReloadTimed(c) /\ GroupKnown(c) /\ RowsKnown(c) /\ LoadedKnown(c) /\ RatesKnown(c)
    BY DEF InvRates, CheckoutKnown
  <2>2. ReloadTimed(c)' /\ own.since \in Nat /\ own.since <= now
    BY <1>2, <2>1 DEF ReloadTimed, Loading
  <2>3. GroupKnown(c)'
    <3> SUFFICES ASSUME own.step = "GROUP", NEW k \in Keys, rows[k] = Absent
                 PROVE  InForce(k, OfGroup(own.group, k), own.since)'
      BY <1>2, <1>4 DEF GroupKnown, InForce
    <3>1. own.group \in Table
      BY <2>1 DEF ReloadTimed, Loading
    <3>2. InForce(k, OfGroup(own.group, k), own.since) /\ OfGroup(own.group, k) \in Texts
      BY <1>3, <2>1, <3>1, RawTyped DEF GroupKnown, TablesTyped, ReloadTimed
    <3>3. OfGroup(own.group, k) \in Texts /\ own.since \in Int
      BY <2>2, <3>2
    <3> QED BY <1>2, <1>4, <2>2, <3>2, <3>3 DEF InForce
  <2>4. RowsKnown(c)'
    <3> SUFFICES ASSUME own.step = "ROWS"
                 PROVE  /\ own.rows \in Table
                        /\ \A k \in Keys : InForce(k, Raw(own.group, own.rows, k), own.since)'
      BY <1>2 DEF RowsKnown, InForce
    <3>1. own.group \in Table /\ own.rows \in Table
      BY <2>1 DEF ReloadTimed, RowsKnown, Loading
    <3>2. \A k \in Keys : /\ InForce(k, Raw(own.group, own.rows, k), own.since)
                           /\ Raw(own.group, own.rows, k) \in Texts
      BY <2>1, <3>1, RawTyped DEF RowsKnown
    <3> QED BY <1>2, <1>4, <2>2, <3>1, <3>2 DEF InForce
  <2>5. LoadedKnown(c)'
    <3>1. own.since - ReloadTime \in Int /\ own.since - ReloadTime <= now
      BY <1>1, <2>2
    <3> QED BY <1>2, <1>4, <1>5, <2>1, <3>1 DEF LoadedKnown, InForce
  <2>6. RatesKnown(c)'
    <3> DEFINE rates == own.rates
    <3>1. /\ rates \in Seq(Rate) /\ Len(rates) <= 3 /\ Len(rates) \in Nat
          /\ \A i \in DOMAIN rates : rates[i] \in Rate
      BY <2>1, RateKeysTyped DEF RatesKnown
    <3>2. ASSUME NEW i \in DOMAIN rates,
                 InForce(RateKeys[i], rates[i].text, rates[i].at - TTL - ReloadTime + 1)
          PROVE  InForce(RateKeys[i], rates[i].text, rates[i].at - TTL - ReloadTime + 1)'
      <4>1. RateKeys[i] \in Keys
        BY <3>1, RateKeysTyped
      <4>2. rates[i].text \in Texts /\ rates[i].at \in Nat /\ rates[i].at <= now
        BY <2>1, <3>1 DEF Rate, RatesKnown
      <4>3. rates[i].at - TTL - ReloadTime + 1 \in Int
            /\ rates[i].at - TTL - ReloadTime + 1 <= now
        BY <1>1, <4>2
      <4> HIDE DEF rates
      <4> QED BY <1>2, <1>4, <3>2, <4>1, <4>2, <4>3 DEF InForce, rates
    <3> QED BY <1>2, <2>1, <3>2 DEF RatesKnown, InForce
  <2> QED BY <2>2, <2>3, <2>4, <2>5, <2>6 DEF CheckoutKnown
<1> QED BY <1>4, <1>6, <1>7 DEF InvRates

\* An invalidated cache claims less of what it holds.
LEMMA InvalidateRates ==
  ASSUME InvRates, Shaped', NEW q \in Requests, Invalidate(q)
  PROVE  InvRates'
<1>1. /\ Shaped /\ TablesTyped /\ CacheKnown /\ now \in Nat
      /\ TTL \in Nat \ {0} /\ ReloadTime \in Nat
  BY ParametersAssumption, QuotesAssumption DEF InvRates, Shaped
<1>2. UNCHANGED <<now, sys, stores, held, checkouts>> /\ cache' = [cache EXCEPT !.loaded = -TTL]
  BY DEF Invalidate, Invalidated, tables
<1>3. /\ DOMAIN cache' = DOMAIN cache /\ cache'.group = cache.group
      /\ cache'.stores = cache.stores /\ cache'.loaded = -TTL
  BY <1>1, <1>2 DEF CacheKnown
<1>4. TablesTyped'
  BY <1>1, <1>2 DEF TablesTyped
<1>5. CacheKnown'
  <2>1. \A k \in Keys : InForce(k, Raw(cache.group, cache.stores, k), -TTL - ReloadTime)
    <3> SUFFICES ASSUME NEW k \in Keys
                 PROVE  InForce(k, Raw(cache.group, cache.stores, k), -TTL - ReloadTime)
      OBVIOUS
    <3>1. held[k][Raw(cache.group, cache.stores, k)] \in Int
      BY <1>1, RawTyped DEF CacheKnown, TablesTyped
    <3>2. InForce(k, Raw(cache.group, cache.stores, k), 0)
      BY <1>1 DEF CacheKnown
    <3> QED BY <1>1, <3>1, <3>2 DEF InForce
  <2> QED BY <1>1, <1>2, <1>3, <2>1 DEF CacheKnown, InForce
<1>6. ASSUME NEW c \in Checkouts PROVE CheckoutKnown(c)'
  <2>1. CheckoutKnown(c)
    BY DEF InvRates
  <2> QED BY <1>2, <1>3, <2>1 DEF CheckoutKnown, ReloadTimed, GroupKnown, RowsKnown,
             LoadedKnown, RatesKnown, InForce, Loading
<1> QED BY <1>4, <1>5, <1>6 DEF InvRates

\* A cache as the tables are, and no checkout that knows anything.
Restarted ==
  /\ Shaped /\ TablesTyped /\ cache = Loaded(sys, stores, now)
  /\ \A c \in Checkouts :
       /\ checkouts[c].step \notin {"GROUP", "ROWS", "LOADED", "PRICE"}
       /\ checkouts[c].since \in Nat /\ checkouts[c].since <= now /\ RatesKnown(c)

LEMMA RestartedRates == Restarted => InvRates
<1> SUFFICES ASSUME Restarted PROVE InvRates
  OBVIOUS
<1>1. CacheKnown
  <2>1. \A at : \A k \in Keys : InForce(k, Raw(sys, stores, k), at)
    BY DEF InForce
  <2> QED BY <2>1 DEF CacheKnown, Restarted, Loaded, Shaped, TablesTyped
<1>2. \A c \in Checkouts : CheckoutKnown(c)
  BY DEF Restarted, CheckoutKnown, ReloadTimed, GroupKnown, RowsKnown, LoadedKnown, Loading
<1> QED BY <1>1, <1>2 DEF InvRates, Restarted

LEMMA NoRates == ASSUME NEW c, checkouts[c].rates = <<>> PROVE RatesKnown(c)
<1>1. <<>> \in Seq(Rate) /\ Len(<<>>) = 0 /\ DOMAIN <<>> = {}
  OBVIOUS
<1> QED BY <1>1, RateKeysTyped DEF RatesKnown

LEMMA InitRates == Init => InvRates
<1> SUFFICES ASSUME Init PROVE Restarted
  BY RestartedRates
<1>1. TablesTyped
  <2>1. [k \in Keys |-> Absent] \in Table
    BY DEF Table
  <2> QED BY <2>1, QuotesAssumption DEF Init, TablesTyped
<1>2. Shaped /\ cache = Loaded(sys, stores, now)
  BY InitShaped DEF Init
<1>3. ASSUME NEW c \in Checkouts
      PROVE  checkouts[c].step = "IDLE" /\ checkouts[c].since = 0 /\ checkouts[c].rates = <<>>
  BY DEF Init, IdleCheckout
<1> QED BY <1>1, <1>2, <1>3, NoRates DEF Restarted, Shaped

LEMMA RestartRates == ASSUME InvRates, Shaped', Restart PROVE InvRates'
<1>1. /\ UNCHANGED <<now, sys, stores, held>> /\ cache' = Loaded(sys, stores, now)
  BY DEF Restart, tables
<1>2. ASSUME NEW c \in Checkouts
      PROVE  /\ checkouts'[c].step \notin {"GROUP", "ROWS", "LOADED", "PRICE"}
             /\ checkouts'[c].since \in Nat /\ checkouts'[c].since <= now /\ RatesKnown(c)'
  <2>1. CheckoutKnown(c) /\ now \in Nat
    BY DEF InvRates, Shaped
  <2>2. CASE At(c, "DONE")
    <3>1. checkouts'[c] = checkouts[c]
      BY <2>2 DEF Restart
    <3> QED BY <1>1, <2>1, <2>2, <3>1 DEF CheckoutKnown, ReloadTimed, RatesKnown, InForce, At
  <2>3. CASE ~At(c, "DONE")
    <3>1. checkouts'[c] = IdleCheckout
      BY <2>3 DEF Restart
    <3>2. /\ checkouts'[c].step = "IDLE" /\ checkouts'[c].since = 0
          /\ checkouts'[c].rates = <<>>
      BY <3>1 DEF IdleCheckout
    <3>3. (checkouts[c].rates = <<>> => RatesKnown(c))'
      BY NoRates, PTL
    <3> QED BY <2>1, <3>2, <3>3
  <2> QED BY <2>2, <2>3
<1>3. TablesTyped'
  BY <1>1 DEF InvRates, TablesTyped
<1>4. Restarted'
  BY <1>1, <1>2, <1>3 DEF Restarted
<1>5. (Restarted => InvRates)'
  BY RestartedRates, PTL
<1> QED BY <1>4, <1>5

\* Time passes, within a reload's.
LEMMA TickRates == ASSUME InvRates, Shaped', Tick PROVE InvRates'
<1>1. /\ UNCHANGED <<sys, stores, held, cache, checkouts>> /\ now' = now + 1 /\ now \in Nat
      /\ \A c \in Checkouts : Loading(c) => now < checkouts[c].since + ReloadTime
      /\ ReloadTime \in Nat
  BY QuotesAssumption DEF Tick, tables, InvRates, Shaped
<1>2. \A k, t, at : InForce(k, t, at)' <=> InForce(k, t, at)
  BY <1>1 DEF InForce
<1>3. TablesTyped' /\ CacheKnown'
  BY <1>1 DEF InvRates, TablesTyped, CacheKnown, InForce
<1>4. ASSUME NEW c \in Checkouts PROVE CheckoutKnown(c)'
  <2>1. ReloadTimed(c) /\ GroupKnown(c) /\ RowsKnown(c) /\ LoadedKnown(c) /\ RatesKnown(c)
    BY DEF InvRates, CheckoutKnown
  <2>2. ReloadTimed(c)'
    BY <1>1, <2>1 DEF ReloadTimed, Loading
  <2>3. GroupKnown(c)' /\ RowsKnown(c)' /\ LoadedKnown(c)'
    BY <1>1, <2>1 DEF GroupKnown, RowsKnown, LoadedKnown, InForce
  <2>4. RatesKnown(c)'
    <3>1. \A i \in DOMAIN checkouts[c].rates : checkouts[c].rates[i] \in Rate
      BY <2>1 DEF RatesKnown
    <3>2. \A i \in DOMAIN checkouts[c].rates : checkouts[c].rates[i].at \in Nat
      BY <3>1 DEF Rate
    <3> QED BY <1>1, <1>2, <2>1, <3>2 DEF RatesKnown, InForce
  <2> QED BY <2>2, <2>3, <2>4 DEF CheckoutKnown
<1> QED BY <1>3, <1>4 DEF InvRates

LEMMA StepRates == InvRates /\ [Next]_vars => InvRates'
<1> SUFFICES ASSUME InvRates, [Next]_vars PROVE InvRates'
  OBVIOUS
<1>1. Shaped'
  BY StepShaped DEF InvRates
<1>2. CASE UNCHANGED <<now, sys, stores, held, cache, checkouts>>
  <2>1. TablesTyped' /\ CacheKnown'
    BY <1>2 DEF InvRates, TablesTyped, CacheKnown, InForce
  <2>2. ASSUME NEW c \in Checkouts PROVE CheckoutKnown(c)'
    <3>1. CheckoutKnown(c)
      BY DEF InvRates
    <3> QED BY <1>2, <3>1 DEF CheckoutKnown, ReloadTimed, GroupKnown, RowsKnown, LoadedKnown,
               RatesKnown, InForce, Loading
  <2> QED BY <1>1, <2>1, <2>2 DEF InvRates
<1>3. ASSUME NEW c \in Checkouts, Checkout(c) PROVE InvRates'
  BY <1>1, <1>3, PlainRates, TakeRates, ReloadRates, SwapRates DEF Checkout
<1>4. ASSUME NEW q \in Requests,
             SaveItem(q) \/ SaveCategory(q) \/ SetStoreOverride(q) \/ Add86(q) \/ Lift86(q)
      PROVE  UNCHANGED <<now, sys, stores, held, cache, checkouts>>
  BY <1>4 DEF SaveItem, SaveCategory, SetStoreOverride, Add86, Lift86, tables
<1>5. ASSUME NEW q \in Requests, Administer(q) PROVE InvRates'
  BY <1>1, <1>2, <1>4, <1>5, WriteRates, InvalidateRates DEF Administer
<1>6. CASE UNCHANGED vars
  BY <1>2, <1>6 DEF vars, tables
<1> QED BY <1>1, <1>3, <1>5, <1>6, RestartRates, TickRates DEF Next

\* A rate that prices an order was in force within the cache's life and the time of a
\* reload before it was asked for, unless that reload failed: however many customers
\* reload at once, in whatever order they swap what they read, and whatever an
\* administrator writes and invalidates between a reload's two SELECTs and its swap.
THEOREM RatesAreRecent == Spec => []RatesWereInForce
<1>1. InvRates => RatesWereInForce
  <2> SUFFICES ASSUME InvRates, NEW c \in Checkouts, NEW i \in DOMAIN checkouts[c].rates,
                      ~checkouts[c].degraded,
                      Raw(sys, stores, RateKeys[i]) # checkouts[c].rates[i].text
               PROVE  held[RateKeys[i]][checkouts[c].rates[i].text]
                        > checkouts[c].rates[i].at - TTL - ReloadTime
    BY DEF RatesWereInForce
  <2> DEFINE rates == checkouts[c].rates
  <2>1. RatesKnown(c) /\ TablesTyped /\ TTL \in Nat /\ ReloadTime \in Nat
    BY ParametersAssumption, QuotesAssumption DEF InvRates, CheckoutKnown
  <2>2. rates \in Seq(Rate) /\ Len(rates) <= 3 /\ i \in 1 .. 3
    BY <2>1, RateKeysTyped DEF RatesKnown
  <2>3. RateKeys[i] \in Keys /\ rates[i].text \in Texts /\ rates[i].at \in Nat
    <3>1. rates[i] \in Rate
      BY <2>2
    <3> QED BY <2>2, <3>1, RateKeysTyped DEF Rate
  <2>4. held[RateKeys[i]][rates[i].text] \in Int
    BY <2>1, <2>3 DEF TablesTyped
  <2>5. held[RateKeys[i]][rates[i].text] >= rates[i].at - TTL - ReloadTime + 1
    BY <2>1 DEF RatesKnown, InForce
  <2> QED BY <2>1, <2>3, <2>4, <2>5
<1> QED BY <1>1, InitRates, StepRates, PTL DEF Spec
=============================================================================
