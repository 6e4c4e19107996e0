------------------------------ MODULE MCQuotes ------------------------------
(***************************************************************************)
(* An instance of Quotes for TLC, and the arithmetic of Money over every   *)
(* amount of six bits against its definition without a width.              *)
(***************************************************************************)
EXTENDS Quotes, TLC

MCTexts == {"1000", "500", "0", "true", "false", "ten"}

MCFallbacks == "pricing.tax_bps" :> "1000" @@ "pricing.service_charge_bps" :> "0"
                 @@ "pricing.tax_inclusive" :> "false"

MCIntOf == "1000" :> 1000 @@ "500" :> 500 @@ "0" :> 0

MCBoolOf == "true" :> TRUE @@ "false" :> FALSE @@ "0" :> FALSE

MCSysInputs == {<<"pricing.tax_bps", "500">>}

MCStoreInputs == {<<"pricing.tax_bps", "ten">>}

MCInclusive == {<<"pricing.tax_inclusive", "true">>}

MCPromo ==
  [isActive |-> TRUE, starts |-> 0, ends |-> 2, stores |-> {Store}, capTotal |-> 0,
   used |-> 0, capCustomer |-> 0, usedByCustomer |-> 0, minSpend |-> 40,
   categories |-> {Category}, type |-> "percent", valueBps |-> 1000, valueAmount |-> 0,
   maxDiscount |-> 3]

MCOptions ==
  {[id |-> "size", selection |-> "single", isRequired |-> TRUE, minSelect |-> 0,
    maxSelect |-> 1,
    choices |-> {[id |-> "large", priceDelta |-> 5, kitchenUnits |-> 1, isAvailable |-> TRUE],
                 [id |-> "small", priceDelta |-> 0, kitchenUnits |-> 0, isAvailable |-> TRUE]}]}

\* A bound on a run's length: one customer who goes all the way while two edits are
\* made, or two who read a rate each while one is, or more who come and do not read.
Made == Cardinality({q \in Requests : requests[q].step # "IDLE"})

Rates(c) ==
  IF checkouts[c].step \in {"RESOLVE", "COMMIT", "DONE"} THEN 3 ELSE Len(checkouts[c].rates)

MCBudget ==
  LET arrived == allowed[Address][MaxNow] IN
  /\ (\E c \in Checkouts : checkouts[c].degraded) => arrived <= 1 /\ Made <= 1
  /\ arrived > 1 => Made <= 1 /\ \A c \in Checkouts : Rates(c) <= 1
  /\ arrived > 2 => Made = 0 /\ \A c \in Checkouts : Rates(c) = 0

MCSymmetry == Permutations(Requests) \cup Permutations(Checkouts)

Six == INSTANCE Money WITH Half <- 32

\* Add, Sub and Mul refuse what does not fit, and nothing else.
ASSUME OverflowIsRefused ==
  \A a, b \in Six!Rupiah :
    /\ Six!Add(a, b) = IF a + b \in Six!Rupiah THEN Six!Ok(a + b) ELSE Six!ErrOverflow
    /\ Six!Sub(a, b) = IF a - b \in Six!Rupiah THEN Six!Ok(a - b) ELSE Six!ErrOverflow
    /\ b >= 0 => Six!Mul(a, b) = IF a * b \in Six!Rupiah THEN Six!Ok(a * b)
                                 ELSE Six!ErrOverflow
=============================================================================
