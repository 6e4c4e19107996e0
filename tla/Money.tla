------------------------------- MODULE Money -------------------------------
(***************************************************************************)
(* Whole-rupiah arithmetic: src/internal/domain/money/money.go.  An amount *)
(* is an int64, and what Go computes on it wraps: Half is 2^63.  An        *)
(* operation that may refuse answers a record of ok and value.             *)
(***************************************************************************)
EXTENDS Integers

CONSTANT Half

ASSUME HalfAssumption == Half \in Nat /\ Half > 0

Rupiah == -Half .. Half - 1

Wrap(n) == ((n + Half) % (2 * Half)) - Half

Ok(n) == [ok |-> TRUE, value |-> n]

ErrOverflow == [ok |-> FALSE, value |-> 0]

Add(a, b) ==
  LET sum == Wrap(a + b) IN
  IF (b > 0 /\ sum < a) \/ (b < 0 /\ sum > a) THEN ErrOverflow ELSE Ok(sum)

Sub(a, b) ==
  LET diff == Wrap(a - b) IN
  IF (b < 0 /\ diff < a) \/ (b > 0 /\ diff > a) THEN ErrOverflow ELSE Ok(diff)

\* Go's division by a positive number truncates.
Quotient(n, d) == IF n >= 0 THEN n \div d ELSE -((-n) \div d)

\* Of a quantity that is not negative.
Mul(a, qty) ==
  LET product == Wrap(a * qty) IN
  IF qty = 0 \/ a = 0 THEN Ok(0)
  ELSE IF Quotient(product, qty) # a THEN ErrOverflow ELSE Ok(product)

FullBps == 10000

Magnitude(n) == IF n < 0 THEN -n ELSE n

\* Half-up, away from zero on either side.  The product is not checked.
ApplyRate(amount, bps) ==
  LET result == Quotient(Wrap(Magnitude(amount) * bps + 5000), FullBps) IN
  IF amount = 0 \/ bps = 0 THEN 0 ELSE IF amount < 0 THEN -result ELSE result

\* Sum, of the three amounts Compute adds.
SumOfThree(a, b, c) == IF Add(a, b).ok THEN Add(Add(a, b).value, c) ELSE ErrOverflow

ClampNonNegative(a) == IF a < 0 THEN 0 ELSE a

Lesser(a, b) == IF a < b THEN a ELSE b
=============================================================================
