----------------------------- MODULE MCOrdering -----------------------------
(***************************************************************************)
(* Instances of Ordering for TLC: three orders of one customer for one     *)
(* slot, of 1, 2 and 3 kitchen units, the first two with the promotion.    *)
(***************************************************************************)
EXTENDS OrderingSafety, TLC

CONSTANTS s1, s2, o1, o2, o3, alice, lunch, store, soto, ruuma10

MCStoreOf == lunch :> store

MCCart ==
  [o \in Orders |->
     [customer |-> alice,
      slot |-> lunch,
      units |-> CASE o = o1 -> 1 [] o = o2 -> 2 [] OTHER -> 3,
      qty |-> [r \in StockRows |-> 1],
      promo |-> IF o = o3 THEN NoPromo ELSE ruuma10]]

MCCapacities == {[orders |-> 2, units |-> 3]}
MCServed == {[orders |-> 2, units |-> 3], [orders |-> 2, units |-> 4]}
MCTight == {[orders |-> 1, units |-> 3], [orders |-> 2, units |-> 2],
            [orders |-> 2, units |-> 3]}
MCNarrow == {[orders |-> 1, units |-> 2], [orders |-> 2, units |-> 3]}

\* How long the history of each order may grow.
MCLongFirst == [o \in Orders |-> IF o = o1 THEN 8 ELSE 2]
MC3 == [o \in Orders |-> 3]
MC7 == [o \in Orders |-> 7]

MCTotals == {2}

MCCap == ruuma10 :> 2
MCPerCustomer == ruuma10 :> 1
MCNoLimit == ruuma10 :> 0

Symmetry == Permutations(Sessions)
=============================================================================
