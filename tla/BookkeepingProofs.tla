------------------------ MODULE BookkeepingProofs ------------------------
(***************************************************************************)
(* The counters of Ordering against the orders they count.  With any       *)
(* number of connections no counter exceeds what the orders account for.   *)
(* While requests take turns the counters are exact, the slots implement   *)
(* SlotLedger, every history reconstructs its order, payment and order     *)
(* agree, and the caps of a customer hold.                                 *)
(***************************************************************************)
EXTENDS OrderingProofs, WellFoundedInduction

-----------------------------------------------------------------------------
(* Sums over finite sets, as MapThenSumSet computes them.                  *)

Pick(s) == CHOOSE x \in s : TRUE

\* f is the sum of w over each subset of T, by the recursion of MapThenSumSet.
SumsTo(w, T, f) ==
  f = [s \in SUBSET T |-> IF s = {} THEN 0 ELSE w[Pick(s)] + f[s \ {Pick(s)}]]

LEMMA NatSetInduction ==
  ASSUME NEW S, 0 \in S, \A n \in Nat : n \in S => n + 1 \in S
  PROVE  Nat \subseteq S
<1>1. SUFFICES ASSUME Nat \ S # {} PROVE FALSE
  OBVIOUS
<1>2. IsWellFoundedOn(OpToRel(<,Nat), Nat)
  BY NatLessThanWellFounded
<1>3. PICK x \in Nat \ S : \A y \in Nat \ S : ~ (<<y, x>> \in OpToRel(<,Nat))
  BY <1>1, <1>2, WFMin
<1>4. \A y \in Nat \ S : ~ (y < x)
  BY <1>3 DEF OpToRel
<1>5. x # 0
  OBVIOUS
<1>6. x - 1 \in Nat /\ x - 1 < x
  BY <1>5
<1>7. x - 1 \in S
  BY <1>4, <1>6
<1> QED BY <1>6, <1>7

LEMMA PickIn == ASSUME NEW s, s # {} PROVE Pick(s) \in s
  BY DEF Pick

\* Taking an element out of a finite set.
LEMMA Smaller ==
  ASSUME NEW T, IsFiniteSet(T), NEW s \in SUBSET T, NEW x \in s
  PROVE  /\ IsFiniteSet(s) /\ Cardinality(s) \in Nat /\ Cardinality(s) # 0
         /\ s \ {x} \in SUBSET T
         /\ Cardinality(s \ {x}) = Cardinality(s) - 1
<1>1. IsFiniteSet(s) /\ Cardinality(s) \in Nat
  BY FS_Subset, FS_CardinalityType
<1>2. Cardinality(s) # 0
  BY <1>1, FS_EmptySet
<1>3. Cardinality(s \ {x}) = Cardinality(s) - 1
  BY <1>1, FS_RemoveElement
<1> QED BY <1>1, <1>2, <1>3

LEMMA SumExists ==
  ASSUME NEW T, IsFiniteSet(T), NEW w
  PROVE  \E f : SumsTo(w, T, f)
<1> DEFINE Sized(n) == {s \in SUBSET T : Cardinality(s) <= n}
           Upto(n, f) ==
             f = [s \in Sized(n) |-> IF s = {} THEN 0 ELSE w[Pick(s)] + f[s \ {Pick(s)}]]
           G == {n \in Nat : \E f : Upto(n, f)}
<1>1. \A s \in SUBSET T : Cardinality(s) \in Nat
  BY FS_Subset, FS_CardinalityType
<1>2. 0 \in G
  <2> DEFINE f == [s \in Sized(0) |-> 0]
  <2>1. \A s \in Sized(0) : s = {}
    <3> SUFFICES ASSUME NEW s \in Sized(0), s # {} PROVE FALSE
      OBVIOUS
    <3>1. Cardinality(s) # 0
      BY PickIn, Smaller
    <3> QED BY <1>1, <3>1
  <2>2. Upto(0, f)
    BY <2>1
  <2> QED BY <2>2
<1>3. ASSUME NEW n \in Nat, n \in G PROVE n + 1 \in G
  <2>1. PICK f : Upto(n, f)
    BY <1>3
  <2> DEFINE Term(h, s) == IF s = {} THEN 0 ELSE w[Pick(s)] + h[s \ {Pick(s)}]
             g == [s \in Sized(n + 1) |-> Term(f, s)]
  <2>2. \A s \in Sized(n) : s \in Sized(n + 1) /\ g[s] = f[s]
    <3> SUFFICES ASSUME NEW s \in Sized(n) PROVE s \in Sized(n + 1) /\ g[s] = f[s]
      OBVIOUS
    <3>1. s \in Sized(n + 1)
      BY <1>1
    <3>2. f[s] = Term(f, s)
      BY <2>1
    <3> QED BY <3>1, <3>2
  <2>3. \A s \in Sized(n + 1) : s # {} => s \ {Pick(s)} \in Sized(n)
    <3> SUFFICES ASSUME NEW s \in Sized(n + 1), s # {} PROVE s \ {Pick(s)} \in Sized(n)
      OBVIOUS
    <3>1. Cardinality(s \ {Pick(s)}) = Cardinality(s) - 1 /\ s \ {Pick(s)} \in SUBSET T
      BY PickIn, Smaller
    <3> QED BY <1>1, <3>1
  <2>4. \A s \in Sized(n + 1) : Term(g, s) = Term(f, s)
    BY <2>2, <2>3
  <2>5. Upto(n + 1, g)
    BY <2>4
  <2>6. \E h : Upto(n + 1, h)
    <3> HIDE DEF g, Upto
    <3> QED BY <2>5
  <2> HIDE DEF g, Upto
  <2> QED BY <2>6
<1>4. Cardinality(T) \in Nat /\ Cardinality(T) \in G
  <2> HIDE DEF G
  <2>1. Nat \subseteq G
    BY <1>2, <1>3, NatSetInduction
  <2> QED BY <1>1, <2>1
<1>5. PICK f : Upto(Cardinality(T), f)
  BY <1>4
<1>6. Sized(Cardinality(T)) = SUBSET T
  <2>1. \A s \in SUBSET T : Cardinality(s) <= Cardinality(T)
    BY FS_Subset
  <2> QED BY <2>1
<1>7. SumsTo(w, T, f)
  BY <1>5, <1>6 DEF SumsTo
<1> QED BY <1>7

LEMMA SumUnique ==
  ASSUME NEW T, IsFiniteSet(T), NEW w, NEW v, NEW S \in SUBSET T, \A x \in S : v[x] = w[x],
         NEW f, NEW g, SumsTo(w, T, f), SumsTo(v, S, g)
  PROVE  \A s \in SUBSET S : f[s] = g[s]
<1> DEFINE G == {n \in Nat : \A s \in SUBSET S : Cardinality(s) = n => f[s] = g[s]}
<1>1. \A s \in SUBSET S : s \in SUBSET T /\ Cardinality(s) \in Nat
  BY FS_Subset, FS_CardinalityType
<1>2. 0 \in G
  <2> SUFFICES ASSUME NEW s \in SUBSET S, Cardinality(s) = 0 PROVE f[s] = g[s]
    OBVIOUS
  <2>1. s = {}
    BY <1>1, PickIn, Smaller
  <2> QED BY <1>1, <2>1 DEF SumsTo
<1>3. ASSUME NEW n \in Nat, n \in G PROVE n + 1 \in G
  <2> SUFFICES ASSUME NEW s \in SUBSET S, Cardinality(s) = n + 1 PROVE f[s] = g[s]
    OBVIOUS
  <2>1. s # {}
    BY FS_EmptySet
  <2>2. Pick(s) \in s
    BY <2>1, PickIn
  <2>3. Cardinality(s \ {Pick(s)}) = n /\ s \ {Pick(s)} \in SUBSET S
    <3>1. s \in SUBSET T
      OBVIOUS
    <3>2. Cardinality(s \ {Pick(s)}) = Cardinality(s) - 1
      BY <2>2, <3>1, Smaller
    <3> QED BY <3>2
  <2>4. f[s \ {Pick(s)}] = g[s \ {Pick(s)}]
    BY <1>3, <2>3
  <2>5. f[s] = w[Pick(s)] + f[s \ {Pick(s)}]
    BY <1>1, <2>1 DEF SumsTo
  <2>6. g[s] = v[Pick(s)] + g[s \ {Pick(s)}]
    BY <2>1 DEF SumsTo
  <2> QED BY <2>2, <2>4, <2>5, <2>6
<1>4. Nat \subseteq G
  <2> HIDE DEF G
  <2> QED BY <1>2, <1>3, NatSetInduction
<1> QED BY <1>1, <1>4

LEMMA SumAny ==
  ASSUME NEW T, IsFiniteSet(T), NEW w, \A x \in T : w[x] \in Nat, NEW f, SumsTo(w, T, f)
  PROVE  \A s \in SUBSET T : f[s] \in Nat /\ \A x \in s : f[s] = w[x] + f[s \ {x}]
<1> DEFINE Good(s) == f[s] \in Nat /\ \A x \in s : f[s] = w[x] + f[s \ {x}]
           G == {n \in Nat : \A s \in SUBSET T : Cardinality(s) <= n => Good(s)}
<1>1. \A s \in SUBSET T : IsFiniteSet(s) /\ Cardinality(s) \in Nat
  BY FS_Subset, FS_CardinalityType
<1>2. 0 \in G
  <2> SUFFICES ASSUME NEW s \in SUBSET T, Cardinality(s) <= 0 PROVE Good(s)
    OBVIOUS
  <2>1. s = {}
    <3>1. s # {} => Cardinality(s) # 0
      BY PickIn, Smaller
    <3> QED BY <1>1, <3>1
  <2>2. f[{}] = 0
    BY DEF SumsTo
  <2> QED BY <2>1, <2>2
<1>3. ASSUME NEW n \in Nat, n \in G PROVE n + 1 \in G
  <2>0. Good({})
    <3>1. f[{}] = 0
      BY DEF SumsTo
    <3> QED BY <3>1
  <2> SUFFICES ASSUME NEW s \in SUBSET T, Cardinality(s) <= n + 1, s # {} PROVE Good(s)
    <3> HIDE DEF Good
    <3> QED BY <2>0
  <2> DEFINE y == Pick(s)
  <2>1. y \in s /\ y \in T
    BY PickIn
  <2>2. \A x \in s : Cardinality(s \ {x}) <= n /\ s \ {x} \in SUBSET T
    BY <1>1, Smaller
  <2>3. \A x \in s : Good(s \ {x})
    BY <1>3, <2>2
  <2>4. f[s] = w[y] + f[s \ {y}]
    BY DEF SumsTo
  <2> HIDE DEF y
  <2>5. f[s] \in Nat
    BY <2>1, <2>3, <2>4
  <2>6. ASSUME NEW x \in s, x # y PROVE f[s] = w[x] + f[s \ {x}]
    <3>1. f[s \ {y}] = w[x] + f[(s \ {y}) \ {x}]
      BY <2>1, <2>3, <2>6
    <3>2. f[s \ {x}] = w[y] + f[(s \ {x}) \ {y}]
      BY <2>1, <2>3, <2>6
    <3>3. (s \ {x}) \ {y} = (s \ {y}) \ {x}
      OBVIOUS
    <3>4. (s \ {x}) \ {y} \in SUBSET T /\ Cardinality((s \ {x}) \ {y}) <= n
      <4>1. Cardinality((s \ {x}) \ {y}) = Cardinality(s \ {x}) - 1
        BY <2>1, <2>2, <2>6, Smaller
      <4> QED BY <1>1, <2>2, <4>1
    <3>5. f[(s \ {x}) \ {y}] \in Nat /\ w[x] \in Nat /\ w[y] \in Nat
      BY <1>3, <2>1, <3>4
    <3>6. f[s] = w[y] + (w[x] + f[(s \ {x}) \ {y}])
      BY <2>4, <3>1, <3>3
    <3>7. \A a, b, c \in Nat : a + (b + c) = b + (a + c)
      OBVIOUS
    <3>8. w[y] + (w[x] + f[(s \ {x}) \ {y}]) = w[x] + (w[y] + f[(s \ {x}) \ {y}])
      BY <3>5, <3>7
    <3> QED BY <3>2, <3>6, <3>8
  <2> QED BY <2>4, <2>5, <2>6
<1>4. Nat \subseteq G
  <2> HIDE DEF G
  <2> QED BY <1>2, <1>3, NatSetInduction
<1>5. \A s \in SUBSET T : Good(s)
  <2> SUFFICES ASSUME NEW s \in SUBSET T PROVE Good(s)
    OBVIOUS
  <2>1. Cardinality(s) \in G
    BY <1>1, <1>4
  <2> HIDE DEF Good
  <2> QED BY <1>1, <2>1
<1> QED BY <1>5

Weigh(w, T) == CHOOSE f : SumsTo(w, T, f)

LEMMA WeighSums ==
  ASSUME NEW T, IsFiniteSet(T), NEW w
  PROVE  SumsTo(w, T, Weigh(w, T))
<1>1. \E f : SumsTo(w, T, f)
  BY SumExists
<1> QED BY <1>1 DEF Weigh

\* Of nothing, of a set, of one element more or less.
LEMMA WeighEmpty ==
  ASSUME NEW T, IsFiniteSet(T), NEW w
  PROVE  Weigh(w, T)[{}] = 0
<1> DEFINE f == Weigh(w, T)
<1>1. SumsTo(w, T, f)
  BY WeighSums
<1> HIDE DEF f
<1>2. f[{}] = 0
  BY <1>1 DEF SumsTo
<1> QED BY <1>2 DEF f

LEMMA WeighNat ==
  ASSUME NEW T, IsFiniteSet(T), NEW w, \A x \in T : w[x] \in Nat, NEW s \in SUBSET T
  PROVE  Weigh(w, T)[s] \in Nat
BY WeighSums, SumAny

LEMMA WeighLess ==
  ASSUME NEW T, IsFiniteSet(T), NEW w, \A x \in T : w[x] \in Nat,
         NEW s \in SUBSET T, NEW x \in s
  PROVE  Weigh(w, T)[s \ {x}] = Weigh(w, T)[s] - w[x]
<1>1. Weigh(w, T)[s] = w[x] + Weigh(w, T)[s \ {x}]
  BY WeighSums, SumAny
<1>2. s \ {x} \in SUBSET T
  OBVIOUS
<1>3. Weigh(w, T)[s] \in Nat /\ Weigh(w, T)[s \ {x}] \in Nat /\ w[x] \in Nat
  BY <1>2, WeighNat
<1> QED BY <1>1, <1>3

LEMMA WeighMore ==
  ASSUME NEW T, IsFiniteSet(T), NEW w, \A x \in T : w[x] \in Nat,
         NEW s \in SUBSET T, NEW x \in T \ s
  PROVE  Weigh(w, T)[s \cup {x}] = Weigh(w, T)[s] + w[x]
<1>1. s \cup {x} \in SUBSET T /\ x \in s \cup {x} /\ (s \cup {x}) \ {x} = s
  OBVIOUS
<1>2. Weigh(w, T)[s] = Weigh(w, T)[s \cup {x}] - w[x]
  BY <1>1, WeighLess
<1>3. Weigh(w, T)[s \cup {x}] \in Nat /\ w[x] \in Nat
  BY <1>1, WeighNat
<1> QED BY <1>2, <1>3

UnitsTaken == [o \in Orders |-> Cart[o].units]

PortionsTaken(r) == [o \in Orders |-> Cart[o].qty[r]]

LEMMA UnitsOfWeighs ==
  ASSUME NEW S \in SUBSET Orders
  PROVE  UnitsOf(S) = Weigh(UnitsTaken, Orders)[S]
<1> DEFINE Body(f) == [s \in SUBSET S |-> IF s = {} THEN 0
                         ELSE Cart[CHOOSE x \in s : TRUE].units + f[s \ {CHOOSE x \in s : TRUE}]]
           g == CHOOSE f : f = Body(f)
<1>1. \A f : SumsTo(UnitsTaken, S, f) <=> f = Body(f)
  <2> SUFFICES ASSUME NEW f
               PROVE  [s \in SUBSET S |-> IF s = {} THEN 0 ELSE UnitsTaken[Pick(s)] + f[s \ {Pick(s)}]]
                       = Body(f)
    BY DEF SumsTo
  <2>1. \A s \in SUBSET S : s # {} => UnitsTaken[Pick(s)] = Cart[CHOOSE x \in s : TRUE].units
    BY PickIn DEF UnitsTaken, Pick
  <2> QED BY <2>1 DEF Pick
<1>2. IsFiniteSet(S)
  BY FiniteAssumption, FS_Subset
<1>3. \E f : f = Body(f)
  <2>1. \E f : SumsTo(UnitsTaken, S, f)
    BY <1>2, SumExists
  <2> HIDE DEF Body
  <2> QED BY <1>1, <2>1
<1>4. UnitsOf(S) = g[S]
  BY DEF UnitsOf, Sums!MapThenSumSet, Sums!MapThenFoldSet
<1> HIDE DEF Body
<1>5. SumsTo(UnitsTaken, S, g)
  <2>1. g = Body(g)
    BY <1>3
  <2> HIDE DEF g
  <2> QED BY <1>1, <2>1
<1>6. g[S] = Weigh(UnitsTaken, Orders)[S]
  <2>1. \A x \in Orders : UnitsTaken[x] \in Nat
    BY CartAssumption DEF CartType, UnitsTaken
  <2>2. SumsTo(UnitsTaken, Orders, Weigh(UnitsTaken, Orders))
    BY <2>1, FiniteAssumption, WeighSums
  <2> HIDE DEF g
  <2> QED BY <1>5, <2>2, FiniteAssumption, SumUnique
<1> QED BY <1>4, <1>6

LEMMA PortionsWeigh ==
  ASSUME NEW r \in StockRows, NEW S \in SUBSET Orders
  PROVE  Sums!MapThenSumSet(LAMBDA o : Cart[o].qty[r], S) = Weigh(PortionsTaken(r), Orders)[S]
<1> DEFINE Body(f) == [s \in SUBSET S |-> IF s = {} THEN 0
                         ELSE Cart[CHOOSE x \in s : TRUE].qty[r] + f[s \ {CHOOSE x \in s : TRUE}]]
           g == CHOOSE f : f = Body(f)
<1>1. \A f : SumsTo(PortionsTaken(r), S, f) <=> f = Body(f)
  <2> SUFFICES ASSUME NEW f
               PROVE  [s \in SUBSET S |-> IF s = {} THEN 0 ELSE PortionsTaken(r)[Pick(s)] + f[s \ {Pick(s)}]]
                       = Body(f)
    BY DEF SumsTo
  <2>1. \A s \in SUBSET S : s # {} => PortionsTaken(r)[Pick(s)] = Cart[CHOOSE x \in s : TRUE].qty[r]
    BY PickIn DEF PortionsTaken, Pick
  <2> QED BY <2>1 DEF Pick
<1>2. IsFiniteSet(S)
  BY FiniteAssumption, FS_Subset
<1>3. \E f : f = Body(f)
  <2>1. \E f : SumsTo(PortionsTaken(r), S, f)
    BY <1>2, SumExists
  <2> HIDE DEF Body
  <2> QED BY <1>1, <2>1
<1>4. Sums!MapThenSumSet(LAMBDA o : Cart[o].qty[r], S) = g[S]
  BY DEF Sums!MapThenSumSet, Sums!MapThenFoldSet
<1> HIDE DEF Body
<1>5. SumsTo(PortionsTaken(r), S, g)
  <2>1. g = Body(g)
    BY <1>3
  <2> HIDE DEF g
  <2> QED BY <1>1, <2>1
<1>6. g[S] = Weigh(PortionsTaken(r), Orders)[S]
  <2>1. \A x \in Orders : PortionsTaken(r)[x] \in Nat
    BY CartAssumption DEF CartType, PortionsTaken
  <2>2. SumsTo(PortionsTaken(r), Orders, Weigh(PortionsTaken(r), Orders))
    BY <2>1, FiniteAssumption, WeighSums
  <2> HIDE DEF g
  <2> QED BY <1>5, <2>2, FiniteAssumption, SumUnique
<1> QED BY <1>4, <1>6

LEMMA LedgerCounts == ASSUME NEW S PROVE Ledger!Cardinality(S) = Cardinality(S)
  BY DEF Cardinality, Ledger!Cardinality

LEMMA LedgerUnits ==
  ASSUME NEW S \in SUBSET Orders, NEW m
  PROVE  Ledger!Within(S, m) <=> Cardinality(S) <= m.orders /\ Weigh(UnitsTaken, Orders)[S] <= m.units
<1> DEFINE Body(f) == [s \in SUBSET S |-> IF s = {} THEN 0
                         ELSE [o \in Orders |-> Cart[o].units][CHOOSE x \in s : TRUE]
                                + f[s \ {CHOOSE x \in s : TRUE}]]
           g == CHOOSE f : f = Body(f)
<1>1. SumsTo(UnitsTaken, S, g)
  <2>1. \A f : SumsTo(UnitsTaken, S, f) <=> f = Body(f)
    BY DEF SumsTo, UnitsTaken, Pick
  <2>2. IsFiniteSet(S)
    BY FiniteAssumption, FS_Subset
  <2>3. \E f : f = Body(f)
    <3>1. \E f : SumsTo(UnitsTaken, S, f)
      BY <2>2, SumExists
    <3> HIDE DEF Body
    <3> QED BY <2>1, <3>1
  <2>4. g = Body(g)
    BY <2>3
  <2> HIDE DEF g
  <2> QED BY <2>1, <2>4
<1>2. Ledger!Within(S, m) <=> Cardinality(S) <= m.orders /\ g[S] <= m.units
  BY LedgerCounts DEF Ledger!Within, Ledger!Sums!MapThenSumSet, Ledger!Sums!MapThenFoldSet
<1>3. g[S] = Weigh(UnitsTaken, Orders)[S]
  <2>1. SumsTo(UnitsTaken, Orders, Weigh(UnitsTaken, Orders))
    BY FiniteAssumption, WeighSums
  <2> HIDE DEF g
  <2> QED BY <1>1, <2>1, FiniteAssumption, SumUnique
<1> QED BY <1>2, <1>3

-----------------------------------------------------------------------------
(* What a commit writes, field by field.                                   *)

\* An order that is not there has an empty row and no history, and a slot that
\* is not there counts nothing.
Blank ==
  /\ \A o \in Orders : ~Exists(o) => orders[o] = NoRow /\ events[o] = <<>>
  /\ \A k \in Slots : ~slots[k].present =>
       slots[k].orders = 0 /\ slots[k].units = 0 /\ slots[k].maxOrders = 0

\* The commits that move no counter.
Plain(s) == WriteMove(s) \/ AttachProof(s) \/ Verify(s) \/ Reject(s) \/ Refund(s)

Known == TypeOK /\ StableKnowledge /\ Blank

LEMMA CommitKinds ==
  ASSUME NEW s, Commit(s) PROVE Create(s) \/ WriteCancel(s) \/ Plain(s)
BY DEF Commit, Plain

\* Every commit writes one order, its payment and its history.
LEMMA OneOrderWritten ==
  ASSUME Known, NEW s \in Sessions, Commit(s)
  PROVE  LET o == session[s].order IN
         /\ o \in Orders /\ orders[o] \in Order /\ payments[o] \in Payment
         /\ session[s].at # "IDLE" /\ session[s] \in Work
         /\ session' = [session EXCEPT ![s] = Idle]
         /\ \A p \in Orders \ {o} : /\ orders'[p] = orders[p]
                                    /\ payments'[p] = payments[p]
                                    /\ events'[p] = events[p]
         /\ orders'[o].status # "NONE"
         /\ ~Create(s) => Exists(o)
<1> DEFINE o == session[s].order
<1> USE DEF Known
<1>1. /\ o \in Orders /\ session[s].at # "IDLE" /\ session' = [session EXCEPT ![s] = Idle]
      /\ \A p \in Orders \ {o} : orders'[p] = orders[p]
      /\ orders'[o].status \in Status
      /\ ~Create(s) => Exists(o)
  BY CommitEffect
<1>2. session[s] \in Work /\ orders[o] \in Order /\ payments[o] \in Payment
  BY <1>1, BusyTyped
<1>3. orders'[o].status # "NONE"
  <2>1. "NONE" \notin Status
    BY DEF Status
  <2> QED BY <1>1, <2>1
<1>4. \A p \in Orders \ {o} : payments'[p] = payments[p]
  <2>1. payments \in [Orders -> Payment]
    BY DEF TypeOK
  <2>2. payments' = payments \/ \E row : payments' = [payments EXCEPT ![o] = row]
    BY DEF Commit, Create, WriteMove, WriteCancel, AttachProof, Verify, Reject, Refund
  <2> QED BY <2>1, <2>2
<1>5. \A p \in Orders \ {o} : events'[p] = events[p]
  <2>1. events \in [Orders -> Seq(Event)]
    BY DEF TypeOK
  <2>2. \E e : events' = [events EXCEPT ![o] = @ \o e]
    BY DEF Commit, Create, WriteMove, WriteCancel, AttachProof, Verify, Reject, Refund, Record
  <2> QED BY <2>1, <2>2
<1> QED BY <1>1, <1>2, <1>3, <1>4, <1>5

\* A checkout fills an empty row and reserves what the order takes.
LEMMA CreateWrites ==
  ASSUME Known, NEW s \in Sessions, Create(s)
  PROVE  LET o == session[s].order
             k == Cart[o].slot
             p == Cart[o].promo IN
         /\ session[s].at = "COUNTED"
         /\ o \in Orders /\ k \in Slots /\ Cart[o].units \in Nat
         /\ ~Exists(o) /\ orders[o] = NoRow /\ events[o] = <<>>
         /\ orders'[o].status = "PENDING_PAYMENT" /\ orders'[o].released = FALSE
         /\ orders'[o].redemption = IF p = NoPromo THEN "NONE" ELSE "HELD"
         /\ payments'[o] = NewPayment
         /\ events'[o] = <<[from |-> "NONE", to |-> "PENDING_PAYMENT", by |-> "customer"]>>
         /\ Fits(k, Cart[o].units)
         /\ slots' = Reserve(k, Cart[o].units)
         /\ used' = CountUse(p, 1)
         /\ stock' = [r \in StockRows |->
                       IF stock[r].counted
                         THEN [stock[r] EXCEPT !.used = @ + Cart[o].qty[r]] ELSE stock[r]]
<1> DEFINE o == session[s].order
           k == Cart[o].slot
           p == Cart[o].promo
           e == [from |-> "NONE", to |-> "PENDING_PAYMENT", by |-> "customer"]
<1> USE DEF Known
<1>1. session[s].at = "COUNTED"
  BY DEF Create
<1>2. o \in Orders /\ k \in Slots /\ Cart[o].units \in Nat
  BY <1>1, BusyTyped
<1>3. ~Exists(o) /\ orders[o] = NoRow /\ events[o] = <<>>
  BY <1>1, <1>2 DEF StableKnowledge, Knows, Blank
<1>4. /\ orders'[o].status = "PENDING_PAYMENT" /\ orders'[o].released = FALSE
      /\ orders'[o].redemption = IF p = NoPromo THEN "NONE" ELSE "HELD"
  <2>1. PICK c \in Codes :
          orders' = [orders EXCEPT ![o] =
                       [status |-> "PENDING_PAYMENT", code |-> c, released |-> FALSE,
                        redemption |-> IF p = NoPromo THEN "NONE" ELSE "HELD"]]
    BY DEF Create
  <2>2. orders'[o] = [status |-> "PENDING_PAYMENT", code |-> c, released |-> FALSE,
                      redemption |-> IF p = NoPromo THEN "NONE" ELSE "HELD"]
    BY <1>2, <2>1 DEF TypeOK
  <2> QED BY <2>2
<1>5. payments'[o] = NewPayment
  BY <1>2 DEF Create, TypeOK
<1>6. events'[o] = <<e>>
  <2>1. events' = [events EXCEPT ![o] = @ \o <<e>>] /\ events \in [Orders -> Seq(Event)]
    BY DEF Create, Record, TypeOK
  <2>2. events'[o] = <<>> \o <<e>>
    BY <1>2, <1>3, <2>1
  <2> QED BY <2>2
<1>7. /\ Fits(k, Cart[o].units) /\ slots' = Reserve(k, Cart[o].units) /\ used' = CountUse(p, 1)
      /\ stock' = [r \in StockRows |->
                     IF stock[r].counted
                       THEN [stock[r] EXCEPT !.used = @ + Cart[o].qty[r]] ELSE stock[r]]
  BY DEF Create
<1> QED BY <1>1, <1>2, <1>3, <1>4, <1>5, <1>6, <1>7

\* One event more at the end of a history.
LEMMA OneMoreEvent ==
  ASSUME Known, NEW o \in Orders, NEW e \in Event, Record(o, <<e>>)
  PROVE  events'[o] = Append(events[o], e)
<1>1. events \in [Orders -> Seq(Event)] /\ events' = [events EXCEPT ![o] = @ \o <<e>>]
  BY DEF Known, TypeOK, Record
<1>2. events'[o] = events[o] \o <<e>> /\ events[o] \in Seq(Event)
  BY <1>1
<1> QED BY <1>2

LEMMA EventTyped ==
  ASSUME NEW w \in Work, NEW to \in Status, NEW by \in {"customer", "staff", "system"}
  PROVE  [from |-> w.status, to |-> to, by |-> by] \in Event
BY DEF Work, Event

\* A cancellation that releases gives back what the order took.
LEMMA CancelWrites ==
  ASSUME Known, NEW s \in Sessions, WriteCancel(s)
  PROVE  LET w == session[s]
             o == w.order
             k == Cart[o].slot IN
         /\ w.at = "MOVING" /\ w.to = "CANCELLED" /\ ~w.released
         /\ o \in Orders /\ k \in Slots /\ Cart[o].units \in Nat /\ Exists(o)
         /\ orders'[o].status = "CANCELLED" /\ orders'[o].released = TRUE
         /\ orders'[o].redemption = Returned(orders[o].redemption)
         /\ payments' = payments
         /\ [from |-> w.status, to |-> w.to, by |-> w.by] \in Event
         /\ events'[o] = Append(events[o], [from |-> w.status, to |-> w.to, by |-> w.by])
         /\ slots' = Release(k, Cart[o].units)
         /\ used' = CountUse(Cart[o].promo, -1)
         /\ stock' = stock
<1> DEFINE w == session[s]
           o == w.order
           k == Cart[o].slot
           e == [from |-> w.status, to |-> w.to, by |-> w.by]
<1> USE DEF Known
<1>1. w.at = "MOVING" /\ w.to = "CANCELLED" /\ ~w.released
  BY DEF WriteCancel, Releases
<1>2. o \in Orders /\ k \in Slots /\ Cart[o].units \in Nat /\ w \in Work /\ Exists(o)
  BY <1>1, BusyTyped DEF StableKnowledge, Knows
<1>3. /\ orders'[o].status = "CANCELLED" /\ orders'[o].released = TRUE
      /\ orders'[o].redemption = Returned(orders[o].redemption)
  <2>1. orders'[o] = [status |-> w.to, code |-> orders[o].code, released |-> TRUE,
                      redemption |-> Returned(orders[o].redemption)]
    BY <1>2 DEF WriteCancel, TypeOK
  <2> QED BY <1>1, <2>1
<1>4. e \in Event
  <2>1. w.by \in {"customer", "staff", "system"}
    BY <1>2 DEF Work
  <2>2. w.to \in Status
    BY <1>1 DEF Status
  <2> QED BY <1>2, <2>1, <2>2, EventTyped
<1>5. events'[o] = Append(events[o], e)
  BY <1>2, <1>4, OneMoreEvent DEF WriteCancel
<1>6. /\ payments' = payments /\ slots' = Release(k, Cart[o].units)
      /\ used' = CountUse(Cart[o].promo, -1) /\ stock' = stock
  BY DEF WriteCancel
<1> QED BY <1>1, <1>2, <1>3, <1>4, <1>5, <1>6

\* The other commits write a state, leave release and redemption, and no counter.
LEMMA PlainWrites ==
  ASSUME Known, NEW s \in Sessions, Plain(s)
  PROVE  LET o == session[s].order IN
         /\ o \in Orders /\ Exists(o) /\ orders'[o].status # "NONE"
         /\ \A p \in Orders : /\ orders'[p].released = orders[p].released
                              /\ orders'[p].redemption = orders[p].redemption
                              /\ Exists(p)' <=> Exists(p)
         /\ UNCHANGED <<slots, stock, used>>
<1> DEFINE o == session[s].order
<1>1. Commit(s) /\ ~Create(s)
  BY DEF Plain, Commit, WriteMove, AttachProof, Verify, Reject, Refund, Create
<1>2. /\ o \in Orders /\ orders[o] \in Order /\ Exists(o) /\ orders'[o].status # "NONE"
      /\ \A p \in Orders \ {o} : orders'[p] = orders[p]
  BY <1>1, OneOrderWritten
<1>3. UNCHANGED <<slots, stock, used>> /\ \E to : orders' = [orders EXCEPT ![o].status = to]
  BY DEF Plain, WriteMove, AttachProof, Verify, Reject, Refund
<1>4. orders'[o].released = orders[o].released /\ orders'[o].redemption = orders[o].redemption
  BY <1>2, <1>3 DEF Known, TypeOK, Order
<1>5. \A p \in Orders \ {o} : Exists(p)' <=> Exists(p)
  BY <1>2 DEF Exists
<1>6. \A p \in Orders : /\ orders'[p].released = orders[p].released
                        /\ orders'[p].redemption = orders[p].redemption
                        /\ Exists(p)' <=> Exists(p)
  <2> SUFFICES ASSUME NEW p \in Orders
               PROVE  /\ orders'[p].released = orders[p].released
                      /\ orders'[p].redemption = orders[p].redemption
                      /\ Exists(p)' <=> Exists(p)
    OBVIOUS
  <2>1. CASE p = o
    BY <1>2, <1>4, <2>1 DEF Exists
  <2>2. CASE p # o
    BY <1>2, <1>5, <2>2
  <2> QED BY <2>1, <2>2
<1> QED BY <1>2, <1>3, <1>6

-----------------------------------------------------------------------------
(* The steps that are no commit.                                           *)

\* They move no order, no payment and no use; a slot row keeps its counters, or
\* appears with none.
LEMMA Quiet ==
  ASSUME Known, [Next]_vars, \A s \in Sessions : ~Commit(s)
  PROVE  /\ UNCHANGED <<orders, payments, events, used>>
         /\ \A k \in Slots :
              \/ slots'[k] = slots[k]
              \/ /\ slots[k].present /\ slots'[k].present
                 /\ slots'[k].orders = slots[k].orders /\ slots'[k].units = slots[k].units
              \/ /\ ~slots[k].present /\ slots'[k].present
                 /\ slots'[k].orders = 0 /\ slots'[k].units = 0
         /\ \A r \in StockRows : stock'[r].used = stock[r].used
<1> DEFINE Still(k) ==
             \/ slots'[k] = slots[k]
             \/ /\ slots[k].present /\ slots'[k].present
                /\ slots'[k].orders = slots[k].orders /\ slots'[k].units = slots[k].units
             \/ /\ ~slots[k].present /\ slots'[k].present
                /\ slots'[k].orders = 0 /\ slots'[k].units = 0
           Goal == /\ UNCHANGED <<orders, payments, events, used>>
                   /\ \A k \in Slots : Still(k)
                   /\ \A r \in StockRows : stock'[r].used = stock[r].used
<1>0. /\ slots \in [Slots -> Slot] /\ stock \in [StockRows -> Stock]
  BY DEF Known, TypeOK
<1>1. CASE \E s \in Sessions, o \in Orders : Request(s, o)
  BY <1>1 DEF Request, Quote, CheckCancel, StaffRead, ReadForProof, LoadPayment, Begin, tables
<1>2. CASE \E s \in Sessions : Proceed(s) \/ Abort(s)
  BY <1>2 DEF Proceed, Abort, CountUnpaid, CustomerRead, LoadOrder, Continue, tables
<1>3. ASSUME NEW j \in Slots, Materialise(j) PROVE Goal
  <2>1. PICK m \in Capacities :
          slots' = [slots EXCEPT ![j] = [AbsentSlot EXCEPT !.present = TRUE,
                      !.maxOrders = m.orders, !.maxUnits = m.units]]
    BY <1>3 DEF Materialise
  <2>2. \A k \in Slots \ {j} : slots'[k] = slots[k]
    BY <1>0, <2>1
  <2>3. slots'[j] = [AbsentSlot EXCEPT !.present = TRUE, !.maxOrders = m.orders,
                                       !.maxUnits = m.units]
    BY <1>0, <2>1
  <2>4. slots'[j].present /\ slots'[j].orders = 0 /\ slots'[j].units = 0
    BY <2>3 DEF AbsentSlot
  <2>5. ~slots[j].present /\ UNCHANGED <<stock, used, orders, payments, events>>
    BY <1>3 DEF Materialise
  <2> QED BY <2>2, <2>4, <2>5
<1>4. ASSUME NEW j \in Slots, SetCapacity(j) PROVE Goal
  <2>1. PICK m \in Capacities :
          slots' = [slots EXCEPT ![j].maxOrders = m.orders, ![j].maxUnits = m.units]
    BY <1>4 DEF SetCapacity
  <2>2. \A k \in Slots \ {j} : slots'[k] = slots[k]
    BY <1>0, <2>1
  <2>3. slots'[j] = [slots[j] EXCEPT !.maxOrders = m.orders, !.maxUnits = m.units]
    BY <1>0, <2>1
  <2>4. /\ slots'[j].present = slots[j].present
        /\ slots'[j].orders = slots[j].orders /\ slots'[j].units = slots[j].units
    BY <1>0, <2>3 DEF Slot
  <2>5. slots[j].present /\ UNCHANGED <<stock, used, orders, payments, events>>
    BY <1>4 DEF SetCapacity
  <2> QED BY <2>2, <2>4, <2>5
<1>5. ASSUME NEW j \in Slots, SetLocked(j) PROVE Goal
  <2>1. PICK locked \in BOOLEAN : slots' = [slots EXCEPT ![j].locked = locked]
    BY <1>5 DEF SetLocked
  <2>2. \A k \in Slots \ {j} : slots'[k] = slots[k]
    BY <1>0, <2>1
  <2>3. slots'[j] = [slots[j] EXCEPT !.locked = locked]
    BY <1>0, <2>1
  <2>4. /\ slots'[j].present = slots[j].present
        /\ slots'[j].orders = slots[j].orders /\ slots'[j].units = slots[j].units
    BY <1>0, <2>3 DEF Slot
  <2>5. slots[j].present /\ UNCHANGED <<stock, used, orders, payments, events>>
    BY <1>5 DEF SetLocked
  <2> QED BY <2>2, <2>4, <2>5
<1>6. ASSUME NEW r \in StockRows, SetDailyStock(r) PROVE Goal
  <2>1. \E t : stock' = [stock EXCEPT ![r].counted = TRUE, ![r].total = t]
    BY <1>6 DEF SetDailyStock
  <2>2. stock'[r].used = stock[r].used
    BY <1>0, <2>1 DEF Stock
  <2>3. \A q \in StockRows \ {r} : stock'[q] = stock[q]
    BY <1>0, <2>1
  <2>4. UNCHANGED <<slots, used, orders, payments, events>>
    BY <1>6 DEF SetDailyStock
  <2> QED BY <2>2, <2>3, <2>4
<1>7. CASE UNCHANGED vars
  BY <1>7 DEF vars
<1> QED
  BY <1>1, <1>2, <1>3, <1>4, <1>5, <1>6, <1>7 DEF Next, Manage

\* Reserving and releasing leave a row where it is.
LEMMA RowStays ==
  ASSUME TypeOK, NEW k \in Slots, NEW n, NEW j \in Slots
  PROVE  Reserve(k, n)[j].present = slots[j].present /\ Release(k, n)[j].present = slots[j].present
<1>1. slots \in [Slots -> Slot]
  BY DEF TypeOK
<1> QED BY <1>1 DEF Reserve, Release, Slot

\* Whoever takes a place takes it in a slot that is there.
LEMMA StepBlank ==
  ASSUME Known, [Next]_vars
  PROVE  Blank'
<1>1. ASSUME NEW s \in Sessions, Commit(s) PROVE Blank'
  <2>1. PICK o \in Orders : o = session[s].order
    BY <1>1, OneOrderWritten
  <2>2. /\ \A p \in Orders \ {o} : orders'[p] = orders[p] /\ events'[p] = events[p]
        /\ orders'[o].status # "NONE"
    BY <1>1, <2>1, OneOrderWritten
  <2>3. \A p \in Orders : ~Exists(p)' => orders'[p] = NoRow /\ events'[p] = <<>>
    BY <2>2 DEF Known, Blank, Exists
  <2> DEFINE Empty(k) == ~slots'[k].present =>
               slots'[k].orders = 0 /\ slots'[k].units = 0 /\ slots'[k].maxOrders = 0
  <2>4. CASE Create(s)
    <3> DEFINE k == Cart[o].slot
               n == Cart[o].units
    <3>1. k \in Slots /\ n \in Nat /\ Fits(k, n) /\ slots' = Reserve(k, n)
      BY <2>1, <2>4, CreateWrites
    <3>2. slots[k].present
      <4>1. slots[k].orders \in Nat /\ slots[k].orders + 1 <= slots[k].maxOrders
        BY <3>1 DEF Fits, Known, TypeOK, Slot
      <4> QED BY <3>1, <4>1 DEF Known, Blank
    <3>3. ASSUME NEW j \in Slots PROVE Empty(j)
      <4>1. j # k => slots'[j] = slots[j]
        BY <3>1, CounterValues DEF Known
      <4>2. slots'[j].present = slots[j].present
        BY <3>1, RowStays DEF Known
      <4> QED BY <3>2, <4>1, <4>2 DEF Known, Blank
    <3> QED BY <2>3, <3>3 DEF Blank
  <2>5. CASE WriteCancel(s)
    <3> DEFINE k == Cart[o].slot
               n == Cart[o].units
    <3>1. k \in Slots /\ n \in Nat /\ slots' = Release(k, n)
      BY <2>1, <2>5, CancelWrites
    <3>2. ASSUME NEW j \in Slots PROVE Empty(j)
      <4>1. j # k => slots'[j] = slots[j]
        BY <3>1, CounterValues DEF Known
      <4>2. slots'[j].present = slots[j].present /\ slots'[j].maxOrders = slots[j].maxOrders
        BY <3>1, RowStays, CounterValues DEF Known
      <4>3. /\ slots'[k].orders = Floor(slots[k].orders - 1)
            /\ slots'[k].units = Floor(slots[k].units - n)
        BY <3>1, CounterValues DEF Known
      <4>4. Floor(0 - 1) = 0 /\ Floor(0 - n) = 0
        BY <3>1 DEF Floor
      <4>5. \A i \in Slots : ~slots[i].present =>
              slots[i].orders = 0 /\ slots[i].units = 0 /\ slots[i].maxOrders = 0
        BY DEF Known, Blank
      <4>6. CASE j = k
        <5> HIDE DEF k, n
        <5> QED BY <4>2, <4>3, <4>4, <4>5, <4>6
      <4>7. CASE j # k
        BY <4>1, <4>5, <4>7
      <4> QED BY <4>6, <4>7
    <3> QED BY <2>3, <3>2 DEF Blank
  <2>6. CASE Plain(s)
    <3>1. slots' = slots
      BY <2>6, PlainWrites
    <3> QED BY <2>3, <3>1 DEF Blank, Known
  <2> QED BY <1>1, <2>4, <2>5, <2>6, CommitKinds
<1>2. CASE \A s \in Sessions : ~Commit(s)
  BY <1>2, Quiet DEF Known, Blank, Exists
<1> QED BY <1>1, <1>2

-----------------------------------------------------------------------------
(* No counter exceeds what the orders account for.                         *)

HeldOn(p) == {o \in Orders : Cart[o].promo = p /\ orders[o].redemption = "HELD"}

LEMMA SetsOfOrders ==
  ASSUME NEW S \in SUBSET Orders
  PROVE  /\ IsFiniteSet(S) /\ Cardinality(S) \in Nat
         /\ \A o \in Orders \ S : Cardinality(S \cup {o}) = Cardinality(S) + 1
         /\ \A o \in S : Cardinality(S \ {o}) = Cardinality(S) - 1
         /\ \A R \in SUBSET S : Cardinality(R) <= Cardinality(S)
         /\ S = {} => Cardinality(S) = 0
<1>1. IsFiniteSet(S)
  BY FiniteAssumption, FS_Subset
<1> QED BY <1>1, FS_CardinalityType, FS_AddElement, FS_RemoveElement, FS_Subset, FS_EmptySet

LEMMA UnitsAreNat ==
  /\ \A o \in Orders : UnitsTaken[o] = Cart[o].units /\ UnitsTaken[o] \in Nat
  /\ \A r \in StockRows : \A o \in Orders :
       PortionsTaken(r)[o] = Cart[o].qty[r] /\ PortionsTaken(r)[o] \in Nat
BY CartAssumption DEF UnitsTaken, PortionsTaken, CartType

\* The units of a set of orders, and of one order more or less.
LEMMA UnitsSum ==
  ASSUME NEW S \in SUBSET Orders
  PROVE  /\ UnitsOf(S) \in Nat
         /\ \A o \in Orders \ S : UnitsOf(S \cup {o}) = UnitsOf(S) + Cart[o].units
         /\ \A o \in S : UnitsOf(S \ {o}) = UnitsOf(S) - Cart[o].units
         /\ S = {} => UnitsOf(S) = 0
<1>1. UnitsOf(S) = Weigh(UnitsTaken, Orders)[S]
  BY UnitsOfWeighs
<1>2. UnitsOf(S) \in Nat
  BY <1>1, UnitsAreNat, FiniteAssumption, WeighNat
<1>3. ASSUME NEW o \in Orders \ S PROVE UnitsOf(S \cup {o}) = UnitsOf(S) + Cart[o].units
  <2>1. Weigh(UnitsTaken, Orders)[S \cup {o}] = Weigh(UnitsTaken, Orders)[S] + UnitsTaken[o]
    BY UnitsAreNat, FiniteAssumption, WeighMore
  <2>2. UnitsOf(S \cup {o}) = Weigh(UnitsTaken, Orders)[S \cup {o}]
    BY UnitsOfWeighs
  <2> QED BY <1>1, <2>1, <2>2, UnitsAreNat
<1>4. ASSUME NEW o \in S PROVE UnitsOf(S \ {o}) = UnitsOf(S) - Cart[o].units
  <2>1. Weigh(UnitsTaken, Orders)[S \ {o}] = Weigh(UnitsTaken, Orders)[S] - UnitsTaken[o]
    BY UnitsAreNat, FiniteAssumption, WeighLess
  <2>2. UnitsOf(S \ {o}) = Weigh(UnitsTaken, Orders)[S \ {o}]
    BY UnitsOfWeighs
  <2> QED BY <1>1, <2>1, <2>2, UnitsAreNat
<1>5. S = {} => UnitsOf(S) = 0
  BY <1>1, FiniteAssumption, WeighEmpty
<1> QED BY <1>2, <1>3, <1>4, <1>5

PortionsOf(r, S) == Sums!MapThenSumSet(LAMBDA o : Cart[o].qty[r], S)

LEMMA PortionsSum ==
  ASSUME NEW r \in StockRows, NEW S \in SUBSET Orders
  PROVE  /\ PortionsOf(r, S) \in Nat
         /\ \A o \in Orders \ S : PortionsOf(r, S \cup {o}) = PortionsOf(r, S) + Cart[o].qty[r]
         /\ S = {} => PortionsOf(r, S) = 0
<1> DEFINE f == Weigh(PortionsTaken(r), Orders)
<1>1. \A R \in SUBSET Orders : PortionsOf(r, R) = f[R]
  BY PortionsWeigh DEF PortionsOf
<1>2. PortionsOf(r, S) \in Nat
  BY <1>1, UnitsAreNat, FiniteAssumption, WeighNat
<1>3. ASSUME NEW o \in Orders \ S
      PROVE  PortionsOf(r, S \cup {o}) = PortionsOf(r, S) + Cart[o].qty[r]
  <2>1. f[S \cup {o}] = f[S] + PortionsTaken(r)[o]
    BY UnitsAreNat, FiniteAssumption, WeighMore
  <2> HIDE DEF f
  <2> QED BY <1>1, <2>1, UnitsAreNat
<1>4. S = {} => PortionsOf(r, S) = 0
  BY <1>1, FiniteAssumption, WeighEmpty
<1> QED BY <1>2, <1>3, <1>4

\* A commit adds an order to the holders of its slot, or takes it out, or
\* neither.
LEMMA HoldersMove ==
  ASSUME Known, NEW s \in Sessions, NEW o, o = session[s].order, NEW k \in Slots
  PROVE  /\ Create(s) => /\ o \in Orders \ Holding(k)
                         /\ Holding(k)' = IF Cart[o].slot = k THEN Holding(k) \cup {o}
                                                              ELSE Holding(k)
         /\ WriteCancel(s) => /\ o \in Orders
                              /\ Holding(k)' = IF Cart[o].slot = k THEN Holding(k) \ {o}
                                                                   ELSE Holding(k)
         /\ Plain(s) => Holding(k)' = Holding(k)
<1>1. CASE Create(s)
  <2>1. Commit(s)
    BY <1>1 DEF Commit
  <2>2. /\ o \in Orders /\ ~Exists(o) /\ orders'[o].released = FALSE
        /\ orders'[o].status = "PENDING_PAYMENT"
    BY <1>1, CreateWrites
  <2>3. \A p \in Orders \ {o} : orders'[p] = orders[p]
    BY <2>1, OneOrderWritten
  <2>4. o \notin Holding(k)
    BY <2>2 DEF Holding
  <2>5. Holding(k)' = IF Cart[o].slot = k THEN Holding(k) \cup {o} ELSE Holding(k)
    BY <2>2, <2>3 DEF Holding, Exists
  <2>6. ~WriteCancel(s) /\ ~Plain(s)
    BY <1>1 DEF Create, WriteCancel, Plain, WriteMove, AttachProof, Verify, Reject, Refund
  <2> QED BY <2>2, <2>4, <2>5, <2>6
<1>2. CASE WriteCancel(s)
  <2>1. Commit(s)
    BY <1>2 DEF Commit
  <2>2. o \in Orders /\ orders'[o].released = TRUE
    BY <1>2, CancelWrites
  <2>3. \A p \in Orders \ {o} : orders'[p] = orders[p]
    BY <2>1, OneOrderWritten
  <2>4. Holding(k)' = IF Cart[o].slot = k THEN Holding(k) \ {o} ELSE Holding(k)
    BY <2>2, <2>3 DEF Holding, Exists
  <2>5. ~Create(s) /\ ~Plain(s)
    BY <1>2 DEF Create, WriteCancel, Plain, WriteMove, AttachProof, Verify, Reject, Refund
  <2> QED BY <2>2, <2>4, <2>5
<1>3. CASE Plain(s)
  <2>1. \A p \in Orders : /\ orders'[p].released = orders[p].released
                          /\ Exists(p)' <=> Exists(p)
    BY <1>3, PlainWrites
  <2>2. Holding(k)' = Holding(k)
    BY <2>1 DEF Holding
  <2>3. ~Create(s) /\ ~WriteCancel(s)
    BY <1>3 DEF Create, WriteCancel, Plain, WriteMove, AttachProof, Verify, Reject, Refund
  <2> QED BY <2>2, <2>3
<1> QED BY <1>1, <1>2, <1>3

\* The same of the uses of a promotion.
LEMMA UsesMove ==
  ASSUME Known, NEW s \in Sessions, NEW o, o = session[s].order, NEW p \in Promos
  PROVE  /\ Create(s) => /\ o \in Orders \ HeldOn(p)
                         /\ HeldOn(p)' = IF Cart[o].promo = p THEN HeldOn(p) \cup {o}
                                                              ELSE HeldOn(p)
         /\ WriteCancel(s) => o \in Orders /\ HeldOn(p)' = HeldOn(p) \ {o}
         /\ Plain(s) => HeldOn(p)' = HeldOn(p)
<1>1. CASE Create(s)
  <2>1. Commit(s)
    BY <1>1 DEF Commit
  <2>2. /\ o \in Orders /\ orders[o] = NoRow
        /\ orders'[o].redemption = IF Cart[o].promo = NoPromo THEN "NONE" ELSE "HELD"
    BY <1>1, CreateWrites
  <2>3. \A q \in Orders \ {o} : orders'[q] = orders[q]
    BY <2>1, OneOrderWritten
  <2>4. o \notin HeldOn(p)
    BY <2>2 DEF HeldOn, NoRow
  <2>5. HeldOn(p)' = IF Cart[o].promo = p THEN HeldOn(p) \cup {o} ELSE HeldOn(p)
    BY <2>2, <2>3, NullAssumption DEF HeldOn
  <2>6. ~WriteCancel(s) /\ ~Plain(s)
    BY <1>1 DEF Create, WriteCancel, Plain, WriteMove, AttachProof, Verify, Reject, Refund
  <2> QED BY <2>2, <2>4, <2>5, <2>6
<1>2. CASE WriteCancel(s)
  <2>1. Commit(s)
    BY <1>2 DEF Commit
  <2>2. o \in Orders /\ orders'[o].redemption = Returned(orders[o].redemption)
    BY <1>2, CancelWrites
  <2>3. \A q \in Orders \ {o} : orders'[q] = orders[q]
    BY <2>1, OneOrderWritten
  <2>4. orders'[o].redemption # "HELD"
    BY <2>2 DEF Returned
  <2>5. HeldOn(p)' = HeldOn(p) \ {o}
    BY <2>3, <2>4 DEF HeldOn
  <2>6. ~Create(s) /\ ~Plain(s)
    BY <1>2 DEF Create, WriteCancel, Plain, WriteMove, AttachProof, Verify, Reject, Refund
  <2> QED BY <2>2, <2>5, <2>6
<1>3. CASE Plain(s)
  <2>1. \A q \in Orders : orders'[q].redemption = orders[q].redemption
    BY <1>3, PlainWrites
  <2>2. HeldOn(p)' = HeldOn(p)
    BY <2>1 DEF HeldOn
  <2>3. ~Create(s) /\ ~WriteCancel(s)
    BY <1>3 DEF Create, WriteCancel, Plain, WriteMove, AttachProof, Verify, Reject, Refund
  <2> QED BY <2>2, <2>3
<1> QED BY <1>1, <1>2, <1>3

UnitsHeld == \A k \in Slots : slots[k].units <= UnitsOf(Holding(k))

PortionsHeld == \A r \in StockRows : stock[r].used <= PortionsOf(r, Placed)

PromosHeld == \A p \in Promos : used[p] <= Cardinality(HeldOn(p))

LEMMA UsesHeldParts == UsesAreHeld <=> UnitsHeld /\ PortionsHeld /\ PromosHeld
BY DEF UsesAreHeld, UnitsHeld, PortionsHeld, PromosHeld, PortionsOf, HeldOn

LEMMA HoldingOrders == \A k : Holding(k) \in SUBSET Orders
BY DEF Holding

LEMMA FloorOf ==
  ASSUME NEW a \in Nat, NEW b \in Nat, NEW c \in Nat, a <= b
  PROVE  /\ Floor(a - c) <= b
         /\ b - c \in Nat => Floor(a - c) <= b - c
         /\ Floor(a - c) \in Nat
         /\ a = b /\ b - c \in Nat => Floor(a - c) = b - c
BY DEF Floor

LEMMA FloorKeeps == \A n \in Nat : Floor(n) = n
BY DEF Floor

LEMMA StepUnitsHeld ==
  ASSUME Known, UnitsHeld, [Next]_vars
  PROVE  UnitsHeld'
<1> SUFFICES ASSUME NEW k \in Slots PROVE slots'[k].units <= UnitsOf(Holding(k)')
  BY DEF UnitsHeld
<1>1. /\ slots[k].units \in Nat /\ slots[k].units <= UnitsOf(Holding(k))
      /\ UnitsOf(Holding(k)) \in Nat
  BY HoldingOrders, UnitsSum DEF Known, TypeOK, Slot, UnitsHeld
<1>2. ASSUME NEW s \in Sessions, Commit(s)
      PROVE  slots'[k].units <= UnitsOf(Holding(k)')
  <2>1. PICK o \in Orders : o = session[s].order
    BY <1>2, OneOrderWritten
  <2>2. CASE Create(s)
    <3>1. Cart[o].slot \in Slots /\ Cart[o].units \in Nat /\ slots' = Reserve(Cart[o].slot, Cart[o].units)
      BY <2>1, <2>2, CreateWrites
    <3>2. CASE Cart[o].slot = k
      <4>1. slots'[k].units = slots[k].units + Cart[o].units
        BY <3>1, <3>2, CounterValues DEF Known
      <4>2. Holding(k)' = Holding(k) \cup {o} /\ o \in Orders \ Holding(k)
        BY <2>1, <2>2, <3>2, HoldersMove
      <4>3. UnitsOf(Holding(k)') = UnitsOf(Holding(k)) + Cart[o].units
        BY <4>2, HoldingOrders, UnitsSum
      <4> QED BY <1>1, <3>1, <4>1, <4>3
    <3>3. CASE Cart[o].slot # k
      <4>1. slots'[k] = slots[k]
        BY <3>1, <3>3, CounterValues DEF Known
      <4>2. Holding(k)' = Holding(k)
        BY <2>1, <2>2, <3>3, HoldersMove
      <4> QED BY <1>1, <4>1, <4>2
    <3> QED BY <3>2, <3>3
  <2>3. CASE WriteCancel(s)
    <3>1. Cart[o].slot \in Slots /\ Cart[o].units \in Nat /\ slots' = Release(Cart[o].slot, Cart[o].units)
      BY <2>1, <2>3, CancelWrites
    <3>2. CASE Cart[o].slot = k
      <4>1. slots'[k].units = Floor(slots[k].units - Cart[o].units)
        BY <3>1, <3>2, CounterValues DEF Known
      <4>2. Holding(k)' = Holding(k) \ {o}
        BY <2>1, <2>3, <3>2, HoldersMove
      <4>3. CASE o \in Holding(k)
        <5>1. UnitsOf(Holding(k)') = UnitsOf(Holding(k)) - Cart[o].units
          BY <4>2, <4>3, HoldingOrders, UnitsSum
        <5>2. UnitsOf(Holding(k)') \in Nat
          BY <4>2, HoldingOrders, UnitsSum
        <5>3. Floor(slots[k].units - Cart[o].units) <= UnitsOf(Holding(k)) - Cart[o].units
          BY <1>1, <3>1, <5>1, <5>2, FloorOf
        <5> QED BY <4>1, <5>1, <5>3
      <4>4. CASE o \notin Holding(k)
        <5>1. Holding(k)' = Holding(k)
          BY <4>2, <4>4
        <5>2. Floor(slots[k].units - Cart[o].units) <= UnitsOf(Holding(k))
          BY <1>1, <3>1, FloorOf
        <5> QED BY <4>1, <5>1, <5>2
      <4> QED BY <4>3, <4>4
    <3>3. CASE Cart[o].slot # k
      <4>1. slots'[k] = slots[k]
        BY <3>1, <3>3, CounterValues DEF Known
      <4>2. Holding(k)' = Holding(k)
        BY <2>1, <2>3, <3>3, HoldersMove
      <4> QED BY <1>1, <4>1, <4>2
    <3> QED BY <3>2, <3>3
  <2>4. CASE Plain(s)
    <3>1. slots' = slots /\ Holding(k)' = Holding(k)
      BY <2>1, <2>4, PlainWrites, HoldersMove
    <3> QED BY <1>1, <3>1
  <2> QED BY <1>2, <2>2, <2>3, <2>4, CommitKinds
<1>3. CASE \A s \in Sessions : ~Commit(s)
  <2>1. Holding(k)' = Holding(k)
    BY <1>3, Quiet DEF Holding, Exists
  <2>2. slots'[k].units = slots[k].units \/ slots'[k].units = 0
    BY <1>3, Quiet
  <2> QED BY <1>1, <2>1, <2>2
<1> QED BY <1>2, <1>3

LEMMA StepPortionsHeld ==
  ASSUME Known, PortionsHeld, [Next]_vars
  PROVE  PortionsHeld'
<1> SUFFICES ASSUME NEW r \in StockRows PROVE stock'[r].used <= PortionsOf(r, Placed')
  BY DEF PortionsHeld
<1>1. /\ stock[r] \in Stock /\ stock[r].used \in Nat /\ stock[r].used <= PortionsOf(r, Placed)
      /\ PortionsOf(r, Placed) \in Nat /\ Placed \in SUBSET Orders
  BY PortionsSum DEF Known, TypeOK, Stock, PortionsHeld, Placed
<1>2. ASSUME NEW s \in Sessions, Commit(s)
      PROVE  stock'[r].used <= PortionsOf(r, Placed')
  <2>1. PICK o \in Orders : o = session[s].order
    BY <1>2, OneOrderWritten
  <2>2. /\ \A p \in Orders \ {o} : orders'[p] = orders[p]
        /\ orders'[o].status # "NONE"
        /\ ~Create(s) => Exists(o)
    BY <1>2, <2>1, OneOrderWritten
  <2>3. Placed' = Placed \cup {o}
    BY <2>2 DEF Placed, Exists
  <2>4. CASE Create(s)
    <3>1. /\ ~Exists(o)
          /\ stock' = [q \in StockRows |->
                         IF stock[q].counted
                           THEN [stock[q] EXCEPT !.used = @ + Cart[o].qty[q]] ELSE stock[q]]
      BY <2>1, <2>4, CreateWrites
    <3>2. o \in Orders \ Placed
      BY <3>1 DEF Placed
    <3>3. PortionsOf(r, Placed') = PortionsOf(r, Placed) + Cart[o].qty[r]
      BY <1>1, <2>3, <3>2, PortionsSum
    <3>4. Cart[o].qty[r] \in Nat
      BY CartAssumption DEF CartType
    <3>5. stock'[r].used \in {stock[r].used, stock[r].used + Cart[o].qty[r]}
      BY <1>1, <3>1 DEF Stock
    <3> QED BY <1>1, <3>3, <3>4, <3>5
  <2>5. CASE ~Create(s)
    <3>1. Placed' = Placed
      BY <2>2, <2>3, <2>5 DEF Placed
    <3>2. stock' = stock
      BY <1>2, <2>5 DEF Commit, WriteMove, WriteCancel, AttachProof, Verify, Reject, Refund
    <3> QED BY <1>1, <3>1, <3>2
  <2> QED BY <2>4, <2>5
<1>3. CASE \A s \in Sessions : ~Commit(s)
  <2>1. Placed' = Placed
    BY <1>3, Quiet DEF Placed, Exists
  <2>2. stock'[r].used = stock[r].used
    BY <1>3, Quiet
  <2> QED BY <1>1, <2>1, <2>2
<1> QED BY <1>2, <1>3

LEMMA StepPromosHeld ==
  ASSUME Known, PromosHeld, [Next]_vars
  PROVE  PromosHeld'
<1> SUFFICES ASSUME NEW p \in Promos PROVE used'[p] <= Cardinality(HeldOn(p)')
  BY DEF PromosHeld
<1> DEFINE n == Cardinality(HeldOn(p))
<1>1. /\ used[p] \in Nat /\ n \in Nat /\ used[p] <= n /\ HeldOn(p) \in SUBSET Orders
  <2>1. HeldOn(p) \in SUBSET Orders
    BY DEF HeldOn
  <2> QED BY <2>1, SetsOfOrders DEF Known, TypeOK, PromosHeld
<1>2. ASSUME NEW s \in Sessions, Commit(s)
      PROVE  used'[p] <= Cardinality(HeldOn(p)')
  <2>1. PICK o \in Orders : o = session[s].order
    BY <1>2, OneOrderWritten
  <2>2. CASE Create(s)
    <3>1. used'[p] = IF p = Cart[o].promo THEN Floor(used[p] + 1) ELSE used[p]
      BY <2>1, <2>2, CreateWrites DEF CountUse
    <3>2. /\ o \in Orders \ HeldOn(p)
          /\ HeldOn(p)' = IF Cart[o].promo = p THEN HeldOn(p) \cup {o} ELSE HeldOn(p)
      BY <2>1, <2>2, UsesMove
    <3>3. Cardinality(HeldOn(p)') = IF Cart[o].promo = p THEN n + 1 ELSE n
      BY <1>1, <3>2, SetsOfOrders
    <3>4. Floor(used[p] + 1) = used[p] + 1
      BY <1>1 DEF Floor
    <3> HIDE DEF n
    <3> QED BY <1>1, <3>1, <3>3, <3>4
  <2>3. CASE WriteCancel(s)
    <3>1. used'[p] = IF p = Cart[o].promo THEN Floor(used[p] - 1) ELSE used[p]
      <4>1. used' = CountUse(Cart[o].promo, -1)
        BY <2>1, <2>3, CancelWrites
      <4>2. used[p] + -1 = used[p] - 1
        BY <1>1
      <4> QED BY <4>1, <4>2 DEF CountUse
    <3>2. HeldOn(p)' = HeldOn(p) \ {o}
      BY <2>1, <2>3, UsesMove
    <3>3. CASE o \in HeldOn(p)
      <4>1. Cart[o].promo = p
        BY <3>3 DEF HeldOn
      <4>2. Cardinality(HeldOn(p)') = n - 1 /\ n - 1 \in Nat
        <5>1. HeldOn(p)' \in SUBSET Orders
          BY <1>1, <3>2
        <5> QED BY <1>1, <3>2, <3>3, <5>1, SetsOfOrders
      <4> HIDE DEF n
      <4>3. Floor(used[p] - 1) <= n - 1
        BY <1>1, <4>2, FloorOf
      <4> QED BY <3>1, <4>1, <4>2, <4>3
    <3>4. CASE o \notin HeldOn(p)
      <4>1. HeldOn(p)' = HeldOn(p)
        BY <3>2, <3>4
      <4>2. Floor(used[p] - 1) <= n
        BY <1>1, FloorOf
      <4> QED BY <1>1, <3>1, <4>1, <4>2
    <3> QED BY <3>3, <3>4
  <2>4. CASE Plain(s)
    <3>1. used' = used /\ HeldOn(p)' = HeldOn(p)
      BY <2>1, <2>4, PlainWrites, UsesMove
    <3> QED BY <1>1, <3>1
  <2> QED BY <1>2, <2>2, <2>3, <2>4, CommitKinds
<1>3. CASE \A s \in Sessions : ~Commit(s)
  BY <1>1, <1>3, Quiet DEF HeldOn
<1> QED BY <1>2, <1>3

LEMMA InitBlank == Init => Blank /\ UsesAreHeld
<1> SUFFICES ASSUME Init PROVE Blank /\ UsesAreHeld
  OBVIOUS
<1>1. Blank
  BY DEF Init, Blank, Exists, NoRow, AbsentSlot
<1>2. UnitsHeld
  <2>1. \A k \in Slots : slots[k].units = 0 /\ UnitsOf(Holding(k)) \in Nat
    BY HoldingOrders, UnitsSum DEF Init, AbsentSlot
  <2> QED BY <2>1 DEF UnitsHeld
<1>3. PortionsHeld
  <2>1. \A r \in StockRows : stock[r].used = 0 /\ PortionsOf(r, Placed) \in Nat
    BY PortionsSum DEF Init, Placed
  <2> QED BY <2>1 DEF PortionsHeld
<1>4. PromosHeld
  <2>1. \A p \in Promos : used[p] = 0 /\ Cardinality(HeldOn(p)) \in Nat
    BY SetsOfOrders DEF Init, HeldOn
  <2> QED BY <2>1 DEF PromosHeld
<1> QED BY <1>1, <1>2, <1>3, <1>4, UsesHeldParts

LEMMA StepUses == IInv /\ Blank /\ UsesAreHeld /\ [Next]_vars => Blank' /\ UsesAreHeld'
<1> SUFFICES ASSUME IInv, Blank, UsesAreHeld, [Next]_vars PROVE Blank' /\ UsesAreHeld'
  OBVIOUS
<1>1. Known /\ UnitsHeld /\ PortionsHeld /\ PromosHeld
  BY UsesHeldParts DEF Known, IInv
<1>2. Blank' /\ UnitsHeld' /\ PortionsHeld' /\ PromosHeld'
  BY <1>1, StepBlank, StepUnitsHeld, StepPortionsHeld, StepPromosHeld
<1>3. UsesAreHeld' <=> UnitsHeld' /\ PortionsHeld' /\ PromosHeld'
  BY UsesHeldParts, PTL
<1> QED BY <1>2, <1>3

LEMMA BlankAlways == Spec => [](Known /\ UsesAreHeld)
<1>1. IInv /\ Blank => Known
  BY DEF IInv, Known
<1> QED BY <1>1, InitBlank, StepUses, Invariant, PTL DEF Spec

\* No counter exceeds what the orders account for: kitchen units of a slot, portions
\* of a dish, uses of a promotion.  Whatever transactions race (Create, Transition),
\* nothing is counted that no order took.
THEOREM CountersAreBacked == Spec => []UsesAreHeld
  BY BlankAlways, PTL

-----------------------------------------------------------------------------
(* Requests that take turns.                                               *)

\* No two requests are under way at once.
OneAtATime ==
  \A s, t \in Sessions : session[s] # Idle /\ session[t] # Idle => s = t

\* One connection has no other to take turns with: there the premise of the theorems
\* below is no restriction.
LEMMA OneConnection ==
  ASSUME \A s, t \in Sessions : s = t
  PROVE  Spec => []OneAtATime
<1>1. OneAtATime
  BY DEF OneAtATime
<1> QED BY <1>1, PTL

\* Then what a request has read is what the tables show, up to its writes.
Current(w) ==
  LET o == w.order IN
  /\ w.at \in {"QUOTED", "COUNTED"} => PromoApplies(o)
  /\ w.at = "COUNTED" =>
       MaxUnpaid = 0 \/ Cardinality(OpenOrdersOf(Cart[o].customer)) < MaxUnpaid
  /\ w.at \in {"MOVING", "ATTACHING", "DECIDING"} =>
       w.status = orders[o].status /\ CanTransition(w.status, w.to)
  /\ w.at = "MOVING" => w.released = orders[o].released
  /\ w.at \in {"LOADED", "DECIDING"} =>
       w.payment = payments[o] /\ MayDecide(w.to, payments[o])

UpToDate == \A s \in Sessions : Current(session[s])

LEMMA IdleCurrent == Current(Idle)
BY DEF Current, Idle

LEMMA IdleCurrentNext ==
  ASSUME NEW s, session'[s] = Idle PROVE Current(session[s])'
<1>1. session'[s].at = "IDLE"
  BY DEF Idle
<1> QED BY <1>1 DEF Current

LEMMA SameWork ==
  ASSUME NEW s, NEW w, session'[s] = w, UNCHANGED <<orders, payments, used>>, Current(w)
  PROVE  Current(session[s])'
<1>1. \A o : /\ PromoApplies(o)' <=> PromoApplies(o)
             /\ OpenOrdersOf(Cart[o].customer)' = OpenOrdersOf(Cart[o].customer)
  BY DEF PromoApplies, HeldBy, OpenOrdersOf, Open
<1>2. PromoApplies(session[s].order)' <=> PromoApplies(w.order)
  BY DEF PromoApplies, HeldBy
<1>3. OpenOrdersOf(Cart[session[s].order].customer)' = OpenOrdersOf(Cart[w.order].customer)
  BY DEF OpenOrdersOf, Open
<1> QED BY <1>2, <1>3 DEF Current

\* Whoever begins or goes on is alone.
LEMMA TurnTaken ==
  ASSUME TypeOK, OneAtATime', NEW s \in Sessions, NEW w, w.at # "IDLE",
         session' = [session EXCEPT ![s] = w], UNCHANGED <<orders, payments, used>>, Current(w)
  PROVE  UpToDate'
<1>1. session'[s] = w
  BY DEF TypeOK
<1>2. w # Idle
  BY DEF Idle
<1>3. \A t \in Sessions \ {s} : session'[t] = Idle
  BY <1>1, <1>2 DEF OneAtATime
<1>4. Current(session[s])'
  BY <1>1, SameWork
<1>5. \A t \in Sessions \ {s} : Current(session[t])'
  BY <1>3, IdleCurrentNext
<1> QED BY <1>4, <1>5 DEF UpToDate

\* Whoever ends leaves nobody at work.
LEMMA TurnGiven ==
  ASSUME TypeOK, OneAtATime, NEW s \in Sessions, session[s].at # "IDLE",
         session' = [session EXCEPT ![s] = Idle]
  PROVE  UpToDate'
<1>1. session[s] # Idle
  BY DEF Idle
<1>2. \A t \in Sessions : session'[t] = Idle
  BY <1>1 DEF OneAtATime, TypeOK
<1> QED BY <1>2, IdleCurrentNext DEF UpToDate

LEMMA RequestCurrent ==
  ASSUME TypeOK, OneAtATime', NEW s \in Sessions, NEW o \in Orders, Request(s, o)
  PROVE  UpToDate'
<1>1. UNCHANGED <<orders, payments, used>>
  BY DEF Request, Quote, CheckCancel, StaffRead, ReadForProof, LoadPayment, Begin, tables
<1>2. CASE Quote(s, o)
  <2> DEFINE w == [Idle EXCEPT !.at = "QUOTED", !.order = o, !.by = "customer"]
  <2>1. session' = [session EXCEPT ![s] = w] /\ PromoApplies(o)
    BY <1>2 DEF Quote, Begin
  <2>2. w.at = "QUOTED" /\ w.order = o
    BY DEF Idle
  <2>3. Current(w)
    BY <2>1, <2>2 DEF Current
  <2> HIDE DEF w
  <2> QED BY <1>1, <2>1, <2>2, <2>3, TurnTaken
<1>3. CASE CheckCancel(s, o)
  <2> DEFINE w == [Idle EXCEPT !.at = "CHECKED", !.order = o, !.to = "CANCELLED",
                               !.by = "customer"]
  <2>1. session' = [session EXCEPT ![s] = w]
    BY <1>3 DEF CheckCancel, Begin
  <2>2. w.at = "CHECKED" /\ w.order = o
    BY DEF Idle
  <2>3. Current(w)
    BY <2>1, <2>2 DEF Current
  <2> HIDE DEF w
  <2> QED BY <1>1, <2>1, <2>2, <2>3, TurnTaken
<1>4. CASE StaffRead(s, o)
  <2>1. PICK to \in AdvanceTargets \cup {"CANCELLED"} :
          CanTransition(orders[o].status, to) /\ Begin(s, Move(o, to, "staff"))
    BY <1>4 DEF StaffRead
  <2> DEFINE w == Move(o, to, "staff")
  <2>2. session' = [session EXCEPT ![s] = w]
    BY <2>1 DEF Begin
  <2>3. /\ w.at = "MOVING" /\ w.order = o /\ w.to = to /\ w.by = "staff"
        /\ w.status = orders[o].status /\ w.released = orders[o].released
    BY DEF Move, Idle
  <2>4. Current(w)
    BY <2>1, <2>3 DEF Current
  <2> HIDE DEF w
  <2> QED BY <1>1, <2>2, <2>3, <2>4, TurnTaken
<1>5. CASE ReadForProof(s, o)
  <2> DEFINE w == [Idle EXCEPT !.at = "ATTACHING", !.order = o, !.by = "customer",
                               !.to = "AWAITING_VERIFICATION",
                               !.status = orders[o].status]
  <2>1. session' = [session EXCEPT ![s] = w] /\ orders[o].status = "PENDING_PAYMENT"
    BY <1>5 DEF ReadForProof, Begin
  <2>2. /\ w.at = "ATTACHING" /\ w.order = o /\ w.to = "AWAITING_VERIFICATION"
        /\ w.status = orders[o].status
    BY DEF Idle
  <2>3. CanTransition("PENDING_PAYMENT", "AWAITING_VERIFICATION")
    BY DEF CanTransition, Transitions
  <2>4. Current(w)
    BY <2>1, <2>2, <2>3 DEF Current
  <2> HIDE DEF w
  <2> QED BY <1>1, <2>1, <2>2, <2>4, TurnTaken
<1>6. CASE LoadPayment(s, o)
  <2>1. PICK to : /\ MayDecide(to, payments[o])
                  /\ Begin(s, [Idle EXCEPT !.at = "LOADED", !.order = o, !.to = to,
                                           !.by = "staff", !.payment = payments[o]])
    BY <1>6 DEF LoadPayment
  <2> DEFINE w == [Idle EXCEPT !.at = "LOADED", !.order = o, !.to = to, !.by = "staff",
                               !.payment = payments[o]]
  <2>2. session' = [session EXCEPT ![s] = w]
    BY <2>1 DEF Begin
  <2>3. w.at = "LOADED" /\ w.order = o /\ w.to = to /\ w.payment = payments[o]
    BY DEF Idle
  <2>4. Current(w)
    BY <2>1, <2>3 DEF Current
  <2> HIDE DEF w
  <2> QED BY <1>1, <2>2, <2>3, <2>4, TurnTaken
<1> QED BY <1>2, <1>3, <1>4, <1>5, <1>6 DEF Request

LEMMA ProceedCurrent ==
  ASSUME TypeOK, StableKnowledge, UpToDate, OneAtATime', NEW s \in Sessions, Proceed(s)
  PROVE  UpToDate'
<1>1. /\ session[s].at # "IDLE" /\ UNCHANGED <<orders, payments, used>>
  BY DEF Proceed, CountUnpaid, CustomerRead, LoadOrder, Continue, tables
<1>2. session[s] \in Work /\ Current(session[s])
  BY <1>1, BusyTyped DEF UpToDate
<1>3. CASE CountUnpaid(s)
  <2> DEFINE v == session[s]
             w == [v EXCEPT !.at = "COUNTED"]
  <2>1. /\ session' = [session EXCEPT ![s] = w] /\ v.at = "QUOTED"
        /\ MaxUnpaid = 0 \/ Cardinality(OpenOrdersOf(Cart[v.order].customer)) < MaxUnpaid
    BY <1>3 DEF CountUnpaid, Continue
  <2>2. w.at = "COUNTED" /\ w.order = v.order
    BY <1>2 DEF Work
  <2>3. PromoApplies(v.order)
    BY <1>2, <2>1 DEF Current
  <2>4. Current(w)
    BY <2>1, <2>2, <2>3 DEF Current
  <2> HIDE DEF w, v
  <2> QED BY <1>1, <2>1, <2>2, <2>4, TurnTaken
<1>4. CASE CustomerRead(s)
  <2> DEFINE v == session[s]
             w == Move(v.order, "CANCELLED", "customer")
  <2>1. /\ session' = [session EXCEPT ![s] = w]
        /\ CanTransition(orders[v.order].status, "CANCELLED")
    BY <1>4 DEF CustomerRead, Continue
  <2>2. /\ w.at = "MOVING" /\ w.order = v.order /\ w.to = "CANCELLED"
        /\ w.status = orders[v.order].status /\ w.released = orders[v.order].released
    BY DEF Move, Idle
  <2>3. Current(w)
    BY <2>1, <2>2 DEF Current
  <2> HIDE DEF w, v
  <2> QED BY <1>1, <2>1, <2>2, <2>3, TurnTaken
<1>5. CASE LoadOrder(s)
  <2> DEFINE v == session[s]
             w == [v EXCEPT !.at = "DECIDING", !.status = orders[v.order].status]
  <2>1. /\ session' = [session EXCEPT ![s] = w] /\ v.at = "LOADED"
        /\ CanTransition(orders[v.order].status, v.to)
    BY <1>5 DEF LoadOrder, Continue
  <2>2. /\ w.at = "DECIDING" /\ w.order = v.order /\ w.to = v.to /\ w.payment = v.payment
        /\ w.status = orders[v.order].status
    BY <1>2 DEF Work
  <2>3. v.payment = payments[v.order] /\ MayDecide(v.to, payments[v.order])
    BY <1>2, <2>1 DEF Current
  <2>4. Current(w)
    BY <2>1, <2>2, <2>3 DEF Current
  <2> HIDE DEF w, v
  <2> QED BY <1>1, <2>1, <2>2, <2>4, TurnTaken
<1> QED BY <1>3, <1>4, <1>5 DEF Proceed

LEMMA StepUpToDate ==
  ASSUME Known, UpToDate, OneAtATime, OneAtATime', [Next]_vars
  PROVE  UpToDate'
<1> USE DEF Known
<1>1. CASE \E s \in Sessions, o \in Orders : Request(s, o)
  BY <1>1, RequestCurrent
<1>2. CASE \E s \in Sessions : Proceed(s)
  BY <1>2, ProceedCurrent
<1>3. CASE \E s \in Sessions : Commit(s)
  BY <1>3, OneOrderWritten, TurnGiven
<1>4. ASSUME NEW s \in Sessions, Abort(s) PROVE UpToDate'
  <2>1. session' = [session EXCEPT ![s] = Idle] /\ UNCHANGED <<orders, payments, used>>
    BY <1>4 DEF Abort, Continue, tables
  <2>2. \A t \in Sessions : session'[t] = Idle \/ session'[t] = session[t]
    BY <2>1
  <2>3. \A t \in Sessions : Current(session[t])'
    BY <2>1, <2>2, SameWork, IdleCurrent DEF UpToDate
  <2> QED BY <2>3 DEF UpToDate
<1>5. CASE Manage \/ UNCHANGED vars
  <2>1. UNCHANGED <<orders, payments, used, session>>
    BY <1>5 DEF Manage, Materialise, SetCapacity, SetLocked, SetDailyStock, vars
  <2>2. \A t \in Sessions : Current(session[t])'
    BY <2>1, SameWork DEF UpToDate
  <2> QED BY <2>2 DEF UpToDate
<1> QED BY <1>1, <1>2, <1>3, <1>4, <1>5 DEF Next

-----------------------------------------------------------------------------
(* The history of an order, and its payment.                               *)

\* The history h tells how an order came to state t.
Story(h, t) ==
  /\ t \in Status \ {"DRAFT"}
  /\ h # <<>>
  /\ h[1].from = "NONE"
  /\ \A i \in 2 .. Len(h) : /\ h[i].from = h[i - 1].to
                            /\ CanTransition(h[i].from, h[i].to)
  /\ h[Len(h)].to = t
  /\ \A i, j \in 1 .. Len(h) : h[i].to = "PAID" /\ h[j].to = "PAID" => i = j
  /\ t \in Unpaid => \A i \in 1 .. Len(h) : h[i].to # "PAID"

Stories == \A o \in Orders : Exists(o) => Story(events[o], orders[o].status)

\* Where the transitions lead from.
LEMMA WaysIn ==
  ASSUME NEW t \in Status \ {"DRAFT"}, NEW to, CanTransition(t, to)
  PROVE  /\ to \in Status \ {"DRAFT"}
         /\ to = "PAID" => t \in Unpaid /\ to \notin Unpaid
         /\ to \in Unpaid => t \in Unpaid
         /\ to = "CANCELLED" => t # "REFUNDED" /\ to \notin Unpaid
         /\ to \in AdvanceTargets => t \notin Unpaid \cup {"CANCELLED", "REFUNDED"}
                                      /\ to \notin Unpaid \cup {"CANCELLED", "REFUNDED"}
BY DEF CanTransition, Transitions, Status, AdvanceTargets, Unpaid

LEMMA StoryBegins ==
  ASSUME NEW e, e.from = "NONE", e.to = "PENDING_PAYMENT"
  PROVE  Story(<<e>>, "PENDING_PAYMENT")
<1> DEFINE h == <<e>>
<1>1. Len(h) = 1 /\ h[1] = e /\ h # <<>>
  OBVIOUS
<1> HIDE DEF h
<1>2. 1 .. Len(h) = {1} /\ 2 .. Len(h) = {}
  BY <1>1
<1>3. "PENDING_PAYMENT" \in Status \ {"DRAFT"}
  BY DEF Status
<1>4. Story(h, "PENDING_PAYMENT")
  BY <1>1, <1>2, <1>3 DEF Story
<1> QED BY <1>4 DEF h

\* A legal event from where the history ended carries it on.
LEMMA StoryGoesOn ==
  ASSUME NEW h \in Seq(Event), NEW t, Story(h, t), NEW e \in Event,
         e.from = t, CanTransition(t, e.to)
  PROVE  Story(Append(h, e), e.to)
<1> DEFINE g == Append(h, e)
           n == Len(h)
<1>1. n \in Nat /\ n > 0
  BY DEF Story
<1>2. /\ Len(g) = n + 1 /\ g # <<>>
      /\ g[n + 1] = e
      /\ \A i \in 1 .. n : g[i] = h[i]
  BY <1>1
<1>3. t \in Status \ {"DRAFT"} /\ h[n].to = t /\ h[1].from = "NONE"
  BY DEF Story
<1>4. /\ e.to \in Status \ {"DRAFT"}
      /\ e.to = "PAID" => t \in Unpaid /\ e.to \notin Unpaid
      /\ e.to \in Unpaid => t \in Unpaid
  BY <1>3, WaysIn
<1>5. t \in Unpaid => \A i \in 1 .. n : h[i].to # "PAID"
  BY DEF Story
<1>6. \A i \in 2 .. n : h[i].from = h[i - 1].to /\ CanTransition(h[i].from, h[i].to)
  BY DEF Story
<1>7. \A i, j \in 1 .. n : h[i].to = "PAID" /\ h[j].to = "PAID" => i = j
  BY DEF Story
<1> HIDE DEF g, n
<1>8. \A i \in 1 .. n + 1 : i \in 1 .. n \/ i = n + 1
  BY <1>1
<1>9. g[1].from = "NONE"
  <2>1. 1 \in 1 .. n
    BY <1>1
  <2> QED BY <1>2, <1>3, <2>1
<1>10. \A i \in 2 .. n + 1 : g[i].from = g[i - 1].to /\ CanTransition(g[i].from, g[i].to)
  <2> SUFFICES ASSUME NEW i \in 2 .. n + 1
               PROVE  g[i].from = g[i - 1].to /\ CanTransition(g[i].from, g[i].to)
    OBVIOUS
  <2>1. CASE i = n + 1
    <3>1. g[i] = e /\ i - 1 = n /\ n \in 1 .. n
      BY <1>1, <1>2, <2>1
    <3>2. g[i - 1] = h[n]
      BY <1>2, <3>1
    <3> QED BY <1>3, <3>1, <3>2
  <2>2. CASE i # n + 1
    <3>1. i \in 2 .. n /\ i \in 1 .. n /\ i - 1 \in 1 .. n
      BY <1>1, <2>2
    <3>2. g[i] = h[i] /\ g[i - 1] = h[i - 1]
      BY <1>2, <3>1
    <3> QED BY <1>6, <3>1, <3>2
  <2> QED BY <2>1, <2>2
<1>11. \A i, j \in 1 .. n + 1 : g[i].to = "PAID" /\ g[j].to = "PAID" => i = j
  BY <1>2, <1>4, <1>5, <1>7, <1>8
<1>12. e.to \in Unpaid => \A i \in 1 .. n + 1 : g[i].to # "PAID"
  BY <1>2, <1>4, <1>5, <1>8
<1>13. g[n + 1].to = e.to
  BY <1>2
<1>14. Story(g, e.to)
  BY <1>2, <1>4, <1>9, <1>10, <1>11, <1>12, <1>13 DEF Story
<1> QED BY <1>14 DEF g

\* What a commit other than a checkout or a verification writes to its order's
\* status and history.
LEMMA MovesWrite ==
  ASSUME Known, NEW s \in Sessions, NEW w, w = session[s], NEW o, o = w.order,
         Commit(s), ~Create(s), ~Verify(s)
  PROVE  /\ o \in Orders /\ Exists(o)
         /\ w.at \in {"MOVING", "ATTACHING", "DECIDING"}
         /\ w.to \in Status /\ orders'[o].status = w.to
         /\ w.to = "CANCELLED" => w.at = "MOVING"
         /\ \E by \in {"customer", "staff", "system"} :
              /\ [from |-> w.status, to |-> w.to, by |-> by] \in Event
              /\ events'[o] = Append(events[o], [from |-> w.status, to |-> w.to, by |-> by])
              /\ w.at = "MOVING" => by = w.by
<1> USE DEF Known
<1>1. /\ o \in Orders /\ Exists(o) /\ w \in Work /\ orders[o] \in Order
      /\ orders'[o].status \in Status
  BY OneOrderWritten, CommitEffect
<1>2. w.at \in {"MOVING", "ATTACHING", "DECIDING"}
  BY DEF Commit, WriteMove, WriteCancel, AttachProof, Reject, Refund
<1>3. orders'[o].status = w.to
  <2>1. \/ orders' = [orders EXCEPT ![o].status = w.to]
        \/ orders' = [orders EXCEPT ![o] =
                        [status |-> w.to, code |-> orders[o].code, released |-> TRUE,
                         redemption |-> Returned(orders[o].redemption)]]
    BY DEF Commit, WriteMove, WriteCancel, AttachProof, Reject, Refund
  <2> QED BY <1>1, <2>1 DEF TypeOK, Order
<1>4. w.to = "CANCELLED" => w.at = "MOVING"
  BY DEF Commit, WriteMove, WriteCancel, AttachProof, Reject, Refund, StableKnowledge, Knows
<1>5. \E by \in {"customer", "staff", "system"} :
        /\ Record(o, <<[from |-> w.status, to |-> w.to, by |-> by]>>)
        /\ w.at = "MOVING" => by = w.by
  <2>1. w.by \in {"customer", "staff", "system"}
    BY <1>1 DEF Work
  <2>2. CASE WriteMove(s) \/ WriteCancel(s)
    BY <2>1, <2>2 DEF WriteMove, WriteCancel
  <2>3. CASE AttachProof(s)
    BY <2>3 DEF AttachProof
  <2>4. CASE Reject(s) \/ Refund(s)
    BY <2>4 DEF Reject, Refund
  <2> QED BY <2>2, <2>3, <2>4 DEF Commit
<1>6. PICK by \in {"customer", "staff", "system"} :
        /\ Record(o, <<[from |-> w.status, to |-> w.to, by |-> by]>>)
        /\ w.at = "MOVING" => by = w.by
  BY <1>5
<1>7. [from |-> w.status, to |-> w.to, by |-> by] \in Event
  BY <1>1, <1>3, EventTyped
<1>8. events'[o] = Append(events[o], [from |-> w.status, to |-> w.to, by |-> by])
  BY <1>1, <1>6, <1>7, OneMoreEvent
<1> QED BY <1>1, <1>2, <1>3, <1>4, <1>6, <1>7, <1>8

\* A verification appends two events.
LEMMA VerifyWrites ==
  ASSUME Known, NEW s \in Sessions, NEW w, w = session[s], NEW o, o = w.order, Verify(s)
  PROVE  LET a == [from |-> w.status, to |-> "PAID", by |-> "staff"]
             b == [from |-> "PAID", to |-> "ACCEPTED", by |-> "system"] IN
         /\ o \in Orders /\ w.at = "DECIDING" /\ w.to = "PAID"
         /\ orders'[o].status = "ACCEPTED"
         /\ a \in Event /\ b \in Event
         /\ events'[o] = Append(Append(events[o], a), b)
<1> DEFINE a == [from |-> w.status, to |-> "PAID", by |-> "staff"]
           b == [from |-> "PAID", to |-> "ACCEPTED", by |-> "system"]
<1>1. w.at = "DECIDING" /\ w.to = "PAID" /\ Commit(s)
  BY DEF Verify, Commit
<1>2. o \in Orders /\ w \in Work /\ orders[o] \in Order
  BY <1>1, OneOrderWritten
<1>3. orders'[o].status = "ACCEPTED"
  BY <1>2 DEF Verify, Known, TypeOK, Order
<1>4. a \in Event /\ b \in Event
  <2>1. a \in Event
    BY <1>2, EventTyped DEF Status
  <2>2. b \in Event
    BY DEF Event, Status
  <2> QED BY <2>1, <2>2
<1>5. events'[o] = Append(Append(events[o], a), b)
  <2>1. events' = [events EXCEPT ![o] = @ \o <<a, b>>] /\ events \in [Orders -> Seq(Event)]
    BY DEF Verify, Record, Known, TypeOK
  <2>2. events'[o] = events[o] \o <<a, b>> /\ events[o] \in Seq(Event)
    BY <1>2, <2>1
  <2> HIDE DEF a, b
  <2>3. \A h \in Seq(Event) : h \o <<a, b>> = Append(Append(h, a), b)
    BY <1>4
  <2> QED BY <2>2, <2>3
<1> QED BY <1>1, <1>2, <1>3, <1>4, <1>5

LEMMA StepStories ==
  ASSUME Known, UpToDate, Stories, [Next]_vars
  PROVE  Stories'
<1>1. ASSUME NEW s \in Sessions, Commit(s) PROVE Stories'
  <2>1. PICK w : w = session[s]
    OBVIOUS
  <2>2. PICK o \in Orders : o = w.order
    BY <1>1, <2>1, OneOrderWritten
  <2>3. /\ \A p \in Orders \ {o} : orders'[p] = orders[p] /\ events'[p] = events[p]
        /\ w.at # "IDLE"
    BY <1>1, <2>1, <2>2, OneOrderWritten
  <2>4. Current(w)
    BY <2>1 DEF UpToDate
  <2>5. events[o] \in Seq(Event)
    BY DEF Known, TypeOK
  <2>6. Story(events'[o], orders'[o].status)
    <3>1. CASE Create(s)
      <4> DEFINE e == [from |-> "NONE", to |-> "PENDING_PAYMENT", by |-> "customer"]
      <4>1. events'[o] = <<e>> /\ orders'[o].status = "PENDING_PAYMENT"
        BY <2>1, <2>2, <3>1, CreateWrites
      <4> QED BY <4>1, StoryBegins
    <3>2. CASE Verify(s)
      <4> DEFINE a == [from |-> w.status, to |-> "PAID", by |-> "staff"]
                 b == [from |-> "PAID", to |-> "ACCEPTED", by |-> "system"]
      <4>1. /\ w.at = "DECIDING" /\ w.to = "PAID" /\ orders'[o].status = "ACCEPTED"
            /\ a \in Event /\ b \in Event
            /\ events'[o] = Append(Append(events[o], a), b)
        BY <2>1, <2>2, <3>2, VerifyWrites
      <4>2. w.status = orders[o].status /\ CanTransition(w.status, "PAID")
        BY <2>2, <2>4, <4>1 DEF Current
      <4>3. Exists(o)
        <5>1. ~Create(s)
          BY <3>2 DEF Create, Verify
        <5> QED BY <1>1, <2>1, <2>2, <5>1, OneOrderWritten
      <4>4. Story(events[o], w.status)
        BY <4>2, <4>3 DEF Stories
      <4>5. a.from = w.status /\ a.to = "PAID" /\ b.from = "PAID" /\ b.to = "ACCEPTED"
        OBVIOUS
      <4> HIDE DEF a, b
      <4>6. Story(Append(events[o], a), "PAID")
        BY <2>5, <4>1, <4>2, <4>4, <4>5, StoryGoesOn
      <4>7. Append(events[o], a) \in Seq(Event)
        BY <2>5, <4>1
      <4>8. CanTransition("PAID", "ACCEPTED")
        BY DEF CanTransition, Transitions
      <4>9. Story(Append(Append(events[o], a), b), "ACCEPTED")
        BY <4>1, <4>5, <4>6, <4>7, <4>8, StoryGoesOn
      <4> QED BY <4>1, <4>9
    <3>3. CASE ~Create(s) /\ ~Verify(s)
      <4>1. /\ Exists(o) /\ w.at \in {"MOVING", "ATTACHING", "DECIDING"}
            /\ orders'[o].status = w.to
            /\ w.to = "CANCELLED" => w.at = "MOVING"
        BY <1>1, <2>1, <2>2, <3>3, MovesWrite
      <4>2. PICK by \in {"customer", "staff", "system"} :
              /\ [from |-> w.status, to |-> w.to, by |-> by] \in Event
              /\ events'[o] = Append(events[o], [from |-> w.status, to |-> w.to, by |-> by])
              /\ w.at = "MOVING" => by = w.by
        BY <1>1, <2>1, <2>2, <3>3, MovesWrite
      <4> DEFINE e == [from |-> w.status, to |-> w.to, by |-> by]
      <4>3. /\ w.status = orders[o].status /\ CanTransition(w.status, w.to)
        BY <2>2, <2>4, <4>1 DEF Current
      <4>4. Story(events[o], w.status)
        BY <4>1, <4>3 DEF Stories
      <4>5. e \in Event /\ e.from = w.status /\ e.to = w.to /\ e.by = by
        BY <4>2
      <4>6. events'[o] = Append(events[o], e)
        BY <4>2
      <4> HIDE DEF e
      <4>7. Story(Append(events[o], e), e.to)
        BY <2>5, <4>3, <4>4, <4>5, StoryGoesOn
      <4> QED BY <4>1, <4>5, <4>6, <4>7
    <3> QED BY <3>1, <3>2, <3>3
  <2> SUFFICES ASSUME NEW p \in Orders, orders'[p].status # "NONE"
               PROVE  Story(events'[p], orders'[p].status)
    BY DEF Stories, Exists
  <2>7. CASE p = o
    BY <2>6, <2>7
  <2>8. CASE p # o
    BY <2>3, <2>8 DEF Stories, Exists
  <2> QED BY <2>7, <2>8
<1>2. CASE \A s \in Sessions : ~Commit(s)
  <2>1. orders' = orders /\ events' = events
    BY <1>2, Quiet
  <2> QED BY <2>1 DEF Stories, Exists
<1> QED BY <1>1, <1>2

\* The payment row p fits an order in state t.
Suits(p, t) ==
  /\ t = "PENDING_PAYMENT" => p.status \in {"PENDING", "REJECTED"}
  /\ t = "AWAITING_VERIFICATION" => p.status = "SUBMITTED"
  /\ t \notin Unpaid \cup {"CANCELLED", "REFUNDED"} => p.status = "VERIFIED"
  /\ t = "REFUNDED" <=> p.status = "REFUNDED"

Agreed(p) == p.status = "VERIFIED" /\ p.declared # "EXACT" => p.mismatch

PaymentsFit ==
  \A o \in Orders : /\ Exists(o) => Suits(payments[o], orders[o].status)
                    /\ Agreed(payments[o])

LEMMA StepPayments ==
  ASSUME Known, UpToDate, Stories, PaymentsFit, [Next]_vars
  PROVE  PaymentsFit'
<1>1. ASSUME NEW s \in Sessions, Commit(s) PROVE PaymentsFit'
  <2>1. PICK w : w = session[s]
    OBVIOUS
  <2>2. PICK o \in Orders : o = w.order
    BY <1>1, <2>1, OneOrderWritten
  <2>3. /\ \A p \in Orders \ {o} : orders'[p] = orders[p] /\ payments'[p] = payments[p]
        /\ payments[o] \in Payment /\ orders[o] \in Order
        /\ ~Create(s) => Exists(o)
    BY <1>1, <2>1, <2>2, OneOrderWritten
  <2>4. Current(w)
    BY <2>1 DEF UpToDate
  <2>5. /\ payments \in [Orders -> Payment]
        /\ Exists(o) => /\ Suits(payments[o], orders[o].status)
                        /\ orders[o].status \in Status \ {"DRAFT"}
        /\ Agreed(payments[o])
    BY DEF Known, TypeOK, PaymentsFit, Stories, Story
  <2>6. Suits(payments'[o], orders'[o].status) /\ Agreed(payments'[o])
    <3>1. CASE Create(s)
      <4>1. payments'[o] = NewPayment /\ orders'[o].status = "PENDING_PAYMENT"
        BY <2>1, <2>2, <3>1, CreateWrites
      <4> QED BY <4>1 DEF NewPayment, Suits, Agreed, Unpaid
    <3>2. CASE Verify(s)
      <4>1. /\ w.at = "DECIDING" /\ w.to = "PAID" /\ orders'[o].status = "ACCEPTED"
        BY <2>1, <2>2, <3>2, VerifyWrites
      <4>2. w.payment = payments[o] /\ MayDecide("PAID", payments[o])
        BY <2>2, <2>4, <4>1 DEF Current
      <4>3. /\ payments'[o].status = "VERIFIED"
            /\ payments'[o].declared = payments[o].declared
            /\ payments'[o].mismatch = (payments[o].mismatch \/ NeedsAcceptance(payments[o]))
        <5>1. payments' = [payments EXCEPT ![o].status = "VERIFIED",
                                           ![o].mismatch = @ \/ NeedsAcceptance(w.payment)]
          BY <2>1, <2>2, <3>2 DEF Verify
        <5> QED BY <2>3, <2>5, <4>2, <5>1 DEF Payment
      <4>4. payments[o].declared \in Declared \ {"NONE"}
        BY <2>3, <4>2 DEF MayDecide, MayVerify, HasProof, Payment
      <4>5. Suits(payments'[o], "ACCEPTED")
        BY <4>3 DEF Suits
      <4>6. Agreed(payments'[o])
        BY <4>3, <4>4 DEF Agreed, NeedsAcceptance, Declared
      <4> QED BY <4>1, <4>5, <4>6
    <3>3. CASE AttachProof(s)
      <4>1. PICK declared \in Amounts :
              payments' = [payments EXCEPT ![o].status = "SUBMITTED", ![o].declared = declared]
        BY <2>1, <2>2, <3>3 DEF AttachProof
      <4>2. payments'[o].status = "SUBMITTED"
        BY <2>3, <2>5, <4>1 DEF Payment
      <4>3. orders'[o].status = "AWAITING_VERIFICATION"
        <5>1. ~Create(s) /\ ~Verify(s)
          BY <3>3 DEF AttachProof, Create, Verify
        <5>2. w.to = "AWAITING_VERIFICATION"
          BY <2>1, <3>3 DEF AttachProof, Known, StableKnowledge, Knows
        <5> QED BY <1>1, <2>1, <2>2, <5>1, <5>2, MovesWrite
      <4> QED BY <4>2, <4>3 DEF Suits, Agreed, Unpaid
    <3>4. CASE Reject(s)
      <4>1. payments'[o].status = "REJECTED"
        BY <2>1, <2>2, <2>3, <2>5, <3>4 DEF Reject, Payment
      <4>2. orders'[o].status = "PENDING_PAYMENT"
        <5>1. ~Create(s) /\ ~Verify(s) /\ w.to = "PENDING_PAYMENT"
          BY <2>1, <3>4 DEF Reject, Create, Verify
        <5> QED BY <1>1, <2>1, <2>2, <5>1, MovesWrite
      <4> QED BY <4>1, <4>2 DEF Suits, Agreed, Unpaid
    <3>5. CASE Refund(s)
      <4>1. payments'[o].status = "REFUNDED"
        BY <2>1, <2>2, <2>3, <2>5, <3>5 DEF Refund, Payment
      <4>2. orders'[o].status = "REFUNDED"
        <5>1. ~Create(s) /\ ~Verify(s) /\ w.to = "REFUNDED"
          BY <2>1, <3>5 DEF Refund, Create, Verify
        <5> QED BY <1>1, <2>1, <2>2, <5>1, MovesWrite
      <4> QED BY <4>1, <4>2 DEF Suits, Agreed, Unpaid
    <3>6. CASE WriteMove(s) \/ WriteCancel(s)
      <4>1. payments' = payments /\ w.at = "MOVING" /\ ~Create(s) /\ ~Verify(s)
        BY <2>1, <3>6 DEF WriteMove, WriteCancel, Create, Verify
      <4>2. orders'[o].status = w.to /\ Exists(o)
        BY <1>1, <2>1, <2>2, <4>1, MovesWrite
      <4>3. w.to \in AdvanceTargets \cup {"CANCELLED"}
        BY <2>1, <4>1 DEF Known, StableKnowledge, Knows
      <4>4. CanTransition(orders[o].status, w.to)
        BY <2>2, <2>4, <4>1 DEF Current
      <4>5. CASE w.to = "CANCELLED"
        <5>1. orders[o].status # "REFUNDED"
          BY <2>5, <4>2, <4>4, <4>5, WaysIn
        <5>2. payments[o].status # "REFUNDED"
          BY <2>5, <4>2, <5>1 DEF Suits
        <5> QED BY <2>5, <4>1, <4>2, <4>5, <5>2 DEF Suits, Unpaid
      <4>6. CASE w.to \in AdvanceTargets
        <5>1. /\ orders[o].status \notin Unpaid \cup {"CANCELLED", "REFUNDED"}
              /\ w.to \notin Unpaid \cup {"CANCELLED", "REFUNDED"}
          BY <2>5, <4>2, <4>4, <4>6, WaysIn
        <5>2. payments[o].status = "VERIFIED"
          BY <2>5, <4>2, <5>1 DEF Suits
        <5> QED BY <2>5, <4>1, <4>2, <5>1, <5>2 DEF Suits, Unpaid
      <4> QED BY <4>3, <4>5, <4>6
    <3> QED BY <1>1, <3>1, <3>2, <3>3, <3>4, <3>5, <3>6 DEF Commit
  <2> SUFFICES ASSUME NEW p \in Orders
               PROVE  /\ orders'[p].status # "NONE" => Suits(payments'[p], orders'[p].status)
                      /\ Agreed(payments'[p])
    BY DEF PaymentsFit, Exists
  <2>7. CASE p = o
    BY <2>6, <2>7
  <2>8. CASE p # o
    BY <2>3, <2>8 DEF PaymentsFit, Exists
  <2> QED BY <2>7, <2>8
<1>2. CASE \A s \in Sessions : ~Commit(s)
  <2>1. orders' = orders /\ payments' = payments
    BY <1>2, Quiet
  <2> QED BY <2>1 DEF PaymentsFit, Exists
<1> QED BY <1>1, <1>2

-----------------------------------------------------------------------------
(* The exact counts.                                                       *)

\* The order a cancellation releases still holds its place.
LEMMA ReleaserHolds ==
  ASSUME Known, UpToDate, NEW s \in Sessions, NEW o, o = session[s].order, WriteCancel(s)
  PROVE  o \in Holding(Cart[o].slot) /\ Exists(o) /\ ~orders[o].released
<1>1. /\ session[s].at = "MOVING" /\ ~session[s].released
      /\ o \in Orders /\ Exists(o)
  BY CancelWrites
<1>2. session[s].released = orders[o].released
  BY <1>1 DEF UpToDate, Current
<1> QED BY <1>1, <1>2 DEF Holding

\* An order that holds its place holds its use of the promotion.
Redeemed ==
  \A o \in Orders : Exists(o) /\ Cart[o].promo # NoPromo /\ ~orders[o].released
                      => orders[o].redemption = "HELD"

LEMMA StepRedeemed ==
  ASSUME Known, Redeemed, [Next]_vars
  PROVE  Redeemed'
<1>1. ASSUME NEW s \in Sessions, Commit(s) PROVE Redeemed'
  <2>1. PICK o \in Orders : o = session[s].order
    BY <1>1, OneOrderWritten
  <2>2. \A p \in Orders \ {o} : orders'[p] = orders[p]
    BY <1>1, <2>1, OneOrderWritten
  <2>3. CASE Create(s)
    <3>1. orders'[o].redemption = IF Cart[o].promo = NoPromo THEN "NONE" ELSE "HELD"
      BY <2>1, <2>3, CreateWrites
    <3> QED BY <2>2, <3>1 DEF Redeemed, Exists
  <2>4. CASE WriteCancel(s)
    <3>1. orders'[o].released = TRUE
      BY <2>1, <2>4, CancelWrites
    <3> QED BY <2>2, <3>1 DEF Redeemed, Exists
  <2>5. CASE Plain(s)
    <3>1. \A p \in Orders : /\ orders'[p].released = orders[p].released
                            /\ orders'[p].redemption = orders[p].redemption
                            /\ Exists(p)' <=> Exists(p)
      BY <2>5, PlainWrites
    <3> QED BY <3>1 DEF Redeemed
  <2> QED BY <1>1, <2>3, <2>4, <2>5, CommitKinds
<1>2. CASE \A s \in Sessions : ~Commit(s)
  <2>1. orders' = orders
    BY <1>2, Quiet
  <2> QED BY <2>1 DEF Redeemed, Exists
<1> QED BY <1>1, <1>2

LEMMA StepCapacity ==
  ASSUME Known, UpToDate, CapacityConserved, [Next]_vars
  PROVE  CapacityConserved'
<1> SUFFICES ASSUME NEW k \in Slots
             PROVE  /\ slots'[k].orders = Cardinality(Holding(k)')
                    /\ slots'[k].units = UnitsOf(Holding(k)')
  BY DEF CapacityConserved
<1> DEFINE n == Cardinality(Holding(k))
           u == UnitsOf(Holding(k))
<1>1. /\ slots[k].orders = n /\ n \in Nat
      /\ slots[k].units = u /\ u \in Nat
  BY HoldingOrders, SetsOfOrders, UnitsSum DEF CapacityConserved
<1>2. ASSUME NEW s \in Sessions, Commit(s)
      PROVE  /\ slots'[k].orders = Cardinality(Holding(k)')
             /\ slots'[k].units = UnitsOf(Holding(k)')
  <2>1. PICK o \in Orders : o = session[s].order
    BY <1>2, OneOrderWritten
  <2>2. CASE Create(s)
    <3>1. Cart[o].slot \in Slots /\ Cart[o].units \in Nat /\ slots' = Reserve(Cart[o].slot, Cart[o].units)
      BY <2>1, <2>2, CreateWrites
    <3>2. CASE Cart[o].slot = k
      <4>1. /\ slots'[k].orders = slots[k].orders + 1
            /\ slots'[k].units = slots[k].units + Cart[o].units
        BY <3>1, <3>2, CounterValues DEF Known
      <4>2. Holding(k)' = Holding(k) \cup {o} /\ o \in Orders \ Holding(k)
        BY <2>1, <2>2, <3>2, HoldersMove
      <4>3. Cardinality(Holding(k)') = n + 1
        BY <4>2, HoldingOrders, SetsOfOrders
      <4>4. UnitsOf(Holding(k)') = u + Cart[o].units
        BY <4>2, HoldingOrders, UnitsSum
      <4> HIDE DEF n, u
      <4> QED BY <1>1, <4>1, <4>3, <4>4
    <3>3. CASE Cart[o].slot # k
      <4>1. slots'[k] = slots[k]
        BY <3>1, <3>3, CounterValues DEF Known
      <4>2. Holding(k)' = Holding(k)
        BY <2>1, <2>2, <3>3, HoldersMove
      <4> QED BY <1>1, <4>1, <4>2
    <3> QED BY <3>2, <3>3
  <2>3. CASE WriteCancel(s)
    <3>1. Cart[o].slot \in Slots /\ Cart[o].units \in Nat /\ slots' = Release(Cart[o].slot, Cart[o].units)
      BY <2>1, <2>3, CancelWrites
    <3>2. CASE Cart[o].slot = k
      <4>1. /\ slots'[k].orders = Floor(slots[k].orders - 1)
            /\ slots'[k].units = Floor(slots[k].units - Cart[o].units)
        BY <3>1, <3>2, CounterValues DEF Known
      <4>2. Holding(k)' = Holding(k) \ {o}
        BY <2>1, <2>3, <3>2, HoldersMove
      <4>3. o \in Holding(k)
        BY <2>1, <2>3, <3>2, ReleaserHolds
      <4>4. Holding(k)' \in SUBSET Orders
        BY <4>2, HoldingOrders
      <4>5. Cardinality(Holding(k)') = n - 1 /\ Cardinality(Holding(k)') \in Nat
        BY <4>2, <4>3, <4>4, HoldingOrders, SetsOfOrders
      <4>6. UnitsOf(Holding(k)') = u - Cart[o].units /\ UnitsOf(Holding(k)') \in Nat
        BY <4>2, <4>3, <4>4, HoldingOrders, UnitsSum
      <4> HIDE DEF n, u
      <4>7. Floor(n - 1) = n - 1
        <5>1. n - 1 \in Nat
          BY <4>5
        <5> QED BY <5>1, FloorKeeps
      <4>8. Floor(u - Cart[o].units) = u - Cart[o].units
        <5>1. u - Cart[o].units \in Nat
          BY <4>6
        <5> QED BY <5>1, FloorKeeps
      <4> QED BY <1>1, <4>1, <4>5, <4>6, <4>7, <4>8
    <3>3. CASE Cart[o].slot # k
      <4>1. slots'[k] = slots[k]
        BY <3>1, <3>3, CounterValues DEF Known
      <4>2. Holding(k)' = Holding(k)
        BY <2>1, <2>3, <3>3, HoldersMove
      <4> QED BY <1>1, <4>1, <4>2
    <3> QED BY <3>2, <3>3
  <2>4. CASE Plain(s)
    <3>1. slots' = slots /\ Holding(k)' = Holding(k)
      BY <2>1, <2>4, PlainWrites, HoldersMove
    <3> QED BY <1>1, <3>1
  <2> QED BY <1>2, <2>2, <2>3, <2>4, CommitKinds
<1>3. CASE \A s \in Sessions : ~Commit(s)
  <2>1. Holding(k)' = Holding(k)
    BY <1>3, Quiet DEF Holding, Exists
  <2>2. slots'[k].orders = slots[k].orders /\ slots'[k].units = slots[k].units
    BY <1>3, Quiet DEF Known, Blank
  <2> QED BY <1>1, <2>1, <2>2
<1> QED BY <1>2, <1>3

LEMMA StepPromoConserved ==
  ASSUME Known, UpToDate, Redeemed, PromoConserved, [Next]_vars
  PROVE  PromoConserved'
<1> SUFFICES ASSUME NEW p \in Promos PROVE used'[p] = Cardinality(HeldOn(p)')
  BY DEF PromoConserved, HeldOn
<1> DEFINE n == Cardinality(HeldOn(p))
<1>1. used[p] = n /\ n \in Nat /\ HeldOn(p) \in SUBSET Orders
  <2>1. HeldOn(p) \in SUBSET Orders
    BY DEF HeldOn
  <2> QED BY <2>1, SetsOfOrders DEF PromoConserved, HeldOn
<1>2. ASSUME NEW s \in Sessions, Commit(s)
      PROVE  used'[p] = Cardinality(HeldOn(p)')
  <2>1. PICK o \in Orders : o = session[s].order
    BY <1>2, OneOrderWritten
  <2>2. CASE Create(s)
    <3>1. used'[p] = IF p = Cart[o].promo THEN Floor(used[p] + 1) ELSE used[p]
      BY <2>1, <2>2, CreateWrites DEF CountUse
    <3>2. /\ o \in Orders \ HeldOn(p)
          /\ HeldOn(p)' = IF Cart[o].promo = p THEN HeldOn(p) \cup {o} ELSE HeldOn(p)
      BY <2>1, <2>2, UsesMove
    <3>3. Cardinality(HeldOn(p)') = IF Cart[o].promo = p THEN n + 1 ELSE n
      BY <1>1, <3>2, SetsOfOrders
    <3>4. Floor(used[p] + 1) = used[p] + 1
      BY <1>1 DEF Floor
    <3> HIDE DEF n
    <3> QED BY <1>1, <3>1, <3>3, <3>4
  <2>3. CASE WriteCancel(s)
    <3>1. used'[p] = IF p = Cart[o].promo THEN Floor(used[p] - 1) ELSE used[p]
      <4>1. used' = CountUse(Cart[o].promo, -1)
        BY <2>1, <2>3, CancelWrites
      <4>2. used[p] + -1 = used[p] - 1
        BY <1>1
      <4> QED BY <4>1, <4>2 DEF CountUse
    <3>2. HeldOn(p)' = HeldOn(p) \ {o}
      BY <2>1, <2>3, UsesMove
    <3>3. Exists(o) /\ ~orders[o].released
      BY <2>1, <2>3, ReleaserHolds
    <3>4. CASE Cart[o].promo = p
      <4>1. o \in HeldOn(p)
        BY <3>3, <3>4, NullAssumption DEF Redeemed, HeldOn
      <4>2. Cardinality(HeldOn(p)') = n - 1 /\ Cardinality(HeldOn(p)') \in Nat
        <5>1. HeldOn(p)' \in SUBSET Orders
          BY <1>1, <3>2
        <5> QED BY <1>1, <3>2, <4>1, <5>1, SetsOfOrders
      <4> HIDE DEF n
      <4>3. n - 1 \in Nat
        BY <4>2
      <4>4. Floor(n - 1) = n - 1
        BY <4>3, FloorKeeps
      <4> QED BY <1>1, <3>1, <3>4, <4>2, <4>4
    <3>5. CASE Cart[o].promo # p
      <4>1. HeldOn(p)' = HeldOn(p)
        BY <3>2, <3>5 DEF HeldOn
      <4> QED BY <1>1, <3>1, <3>5, <4>1
    <3> QED BY <3>4, <3>5
  <2>4. CASE Plain(s)
    <3>1. used' = used /\ HeldOn(p)' = HeldOn(p)
      BY <2>1, <2>4, PlainWrites, UsesMove
    <3> QED BY <1>1, <3>1
  <2> QED BY <1>2, <2>2, <2>3, <2>4, CommitKinds
<1>3. CASE \A s \in Sessions : ~Commit(s)
  BY <1>1, <1>3, Quiet DEF HeldOn
<1> QED BY <1>2, <1>3

LEMMA StepCustomerCap ==
  ASSUME Known, UpToDate, PromoCustomerCap, [Next]_vars
  PROVE  PromoCustomerCap'
<1> SUFFICES ASSUME NEW p \in Promos, NEW c \in Customers, PromoPerCustomer[p] # 0
             PROVE  Cardinality(HeldBy(c, p)') <= PromoPerCustomer[p]
  BY DEF PromoCustomerCap
<1>1. /\ Cardinality(HeldBy(c, p)) <= PromoPerCustomer[p] /\ PromoPerCustomer[p] \in Nat
      /\ HeldBy(c, p) \in SUBSET Orders /\ HeldBy(c, p)' \in SUBSET Orders
      /\ Cardinality(HeldBy(c, p)) \in Nat /\ Cardinality(HeldBy(c, p)') \in Nat
  <2>1. HeldBy(c, p) \in SUBSET Orders /\ HeldBy(c, p)' \in SUBSET Orders
    BY DEF HeldBy
  <2>2. Cardinality(HeldBy(c, p)) \in Nat
    BY <2>1, SetsOfOrders
  <2>3. Cardinality(HeldBy(c, p)') \in Nat
    BY <2>1, SetsOfOrders
  <2> QED BY <2>1, <2>2, <2>3, LimitAssumption DEF PromoCustomerCap
<1>2. ASSUME HeldBy(c, p)' \subseteq HeldBy(c, p)
      PROVE  Cardinality(HeldBy(c, p)') <= PromoPerCustomer[p]
  <2>1. Cardinality(HeldBy(c, p)') <= Cardinality(HeldBy(c, p))
    BY <1>1, <1>2, SetsOfOrders
  <2> QED BY <1>1, <2>1
<1>3. ASSUME NEW s \in Sessions, Commit(s)
      PROVE  Cardinality(HeldBy(c, p)') <= PromoPerCustomer[p]
  <2>1. PICK o \in Orders : o = session[s].order
    BY <1>3, OneOrderWritten
  <2>2. \A q \in Orders \ {o} : orders'[q] = orders[q]
    BY <1>3, <2>1, OneOrderWritten
  <2>3. CASE Create(s) /\ Cart[o].customer = c /\ Cart[o].promo = p
    <3>1. /\ session[s].at = "COUNTED" /\ orders[o] = NoRow
          /\ orders'[o].redemption = "HELD"
      BY <2>1, <2>3, CreateWrites, NullAssumption
    <3>2. Cardinality(HeldBy(c, p)) < PromoPerCustomer[p]
      <4>1. PromoApplies(o)
        BY <2>1, <3>1 DEF UpToDate, Current
      <4> QED BY <2>3, <4>1, NullAssumption DEF PromoApplies
    <3>3. o \notin HeldBy(c, p)
      BY <3>1 DEF HeldBy, NoRow
    <3>4. HeldBy(c, p)' = HeldBy(c, p) \cup {o}
      BY <2>2, <2>3, <3>1 DEF HeldBy
    <3>5. Cardinality(HeldBy(c, p)') = Cardinality(HeldBy(c, p)) + 1
      BY <1>1, <3>3, <3>4, SetsOfOrders
    <3> QED BY <1>1, <3>2, <3>5
  <2>4. CASE Create(s) /\ ~(Cart[o].customer = c /\ Cart[o].promo = p)
    <3>1. HeldBy(c, p)' \subseteq HeldBy(c, p)
      BY <2>2, <2>4 DEF HeldBy
    <3> QED BY <1>2, <3>1
  <2>5. CASE WriteCancel(s)
    <3>1. orders'[o].redemption = Returned(orders[o].redemption)
      BY <2>1, <2>5, CancelWrites
    <3>2. HeldBy(c, p)' \subseteq HeldBy(c, p)
      BY <2>2, <3>1 DEF HeldBy, Returned
    <3> QED BY <1>2, <3>2
  <2>6. CASE Plain(s)
    <3>1. \A q \in Orders : orders'[q].redemption = orders[q].redemption
      BY <2>6, PlainWrites
    <3>2. HeldBy(c, p)' \subseteq HeldBy(c, p)
      BY <3>1 DEF HeldBy
    <3> QED BY <1>2, <3>2
  <2> QED BY <1>3, <2>3, <2>4, <2>5, <2>6, CommitKinds
<1>4. CASE \A s \in Sessions : ~Commit(s)
  <2>1. HeldBy(c, p)' \subseteq HeldBy(c, p)
    BY <1>4, Quiet DEF HeldBy
  <2> QED BY <1>2, <2>1
<1> QED BY <1>3, <1>4

LEMMA StepUnpaidCap ==
  ASSUME Known, UpToDate, Stories, UnpaidWithinCap, [Next]_vars
  PROVE  UnpaidWithinCap'
<1> SUFFICES ASSUME NEW c \in Customers, MaxUnpaid # 0
             PROVE  Cardinality(OpenOrdersOf(c)') <= MaxUnpaid
  BY DEF UnpaidWithinCap
<1>1. /\ Cardinality(OpenOrdersOf(c)) <= MaxUnpaid /\ MaxUnpaid \in Nat
      /\ OpenOrdersOf(c) \in SUBSET Orders /\ OpenOrdersOf(c)' \in SUBSET Orders
      /\ Cardinality(OpenOrdersOf(c)) \in Nat /\ Cardinality(OpenOrdersOf(c)') \in Nat
  <2>1. OpenOrdersOf(c) \in SUBSET Orders /\ OpenOrdersOf(c)' \in SUBSET Orders
    BY DEF OpenOrdersOf
  <2>2. Cardinality(OpenOrdersOf(c)) \in Nat
    BY <2>1, SetsOfOrders
  <2>3. Cardinality(OpenOrdersOf(c)') \in Nat
    BY <2>1, SetsOfOrders
  <2> QED BY <2>1, <2>2, <2>3, LimitAssumption DEF UnpaidWithinCap
<1>2. ASSUME OpenOrdersOf(c)' \subseteq OpenOrdersOf(c)
      PROVE  Cardinality(OpenOrdersOf(c)') <= MaxUnpaid
  <2>1. Cardinality(OpenOrdersOf(c)') <= Cardinality(OpenOrdersOf(c))
    BY <1>1, <1>2, SetsOfOrders
  <2> QED BY <1>1, <2>1
<1>3. ASSUME NEW s \in Sessions, Commit(s)
      PROVE  Cardinality(OpenOrdersOf(c)') <= MaxUnpaid
  <2>1. PICK w : w = session[s]
    OBVIOUS
  <2>2. PICK o \in Orders : o = w.order
    BY <1>3, <2>1, OneOrderWritten
  <2>3. \A q \in Orders \ {o} : orders'[q] = orders[q]
    BY <1>3, <2>1, <2>2, OneOrderWritten
  <2>4. CASE Create(s) /\ Cart[o].customer = c
    <3>1. w.at = "COUNTED" /\ orders[o] = NoRow
      BY <2>1, <2>2, <2>4, CreateWrites
    <3>2. Cardinality(OpenOrdersOf(c)) < MaxUnpaid
      BY <2>1, <2>2, <2>4, <3>1 DEF UpToDate, Current
    <3>3. OpenOrdersOf(c)' \subseteq OpenOrdersOf(c) \cup {o}
      BY <2>3 DEF OpenOrdersOf, Open
    <3>4. o \notin OpenOrdersOf(c)
      BY <3>1 DEF OpenOrdersOf, Open, NoRow, Unpaid
    <3>5. Cardinality(OpenOrdersOf(c)') <= Cardinality(OpenOrdersOf(c)) + 1
      <4>1. OpenOrdersOf(c) \cup {o} \in SUBSET Orders
        BY <1>1
      <4>2. Cardinality(OpenOrdersOf(c)') <= Cardinality(OpenOrdersOf(c) \cup {o})
        BY <3>3, <4>1, SetsOfOrders
      <4>3. Cardinality(OpenOrdersOf(c) \cup {o}) = Cardinality(OpenOrdersOf(c)) + 1
        BY <1>1, <3>4, SetsOfOrders
      <4> QED BY <4>2, <4>3
    <3> QED BY <1>1, <3>2, <3>5
  <2>5. CASE Cart[o].customer # c
    <3>1. OpenOrdersOf(c)' \subseteq OpenOrdersOf(c)
      BY <2>3, <2>5 DEF OpenOrdersOf, Open
    <3> QED BY <1>2, <3>1
  <2>6. CASE ~Create(s)
    <3>1. orders'[o].status \in Unpaid => Open(o)
      <4>1. CASE Verify(s)
        <5>1. orders'[o].status = "ACCEPTED"
          BY <2>1, <2>2, <4>1, VerifyWrites
        <5> QED BY <5>1 DEF Unpaid
      <4>2. CASE ~Verify(s)
        <5>1. /\ Exists(o) /\ w.at \in {"MOVING", "ATTACHING", "DECIDING"}
              /\ orders'[o].status = w.to
          BY <1>3, <2>1, <2>2, <2>6, <4>2, MovesWrite
        <5>2. CanTransition(orders[o].status, w.to)
          BY <2>1, <2>2, <5>1 DEF UpToDate, Current
        <5>3. orders[o].status \in Status \ {"DRAFT"}
          BY <5>1 DEF Stories, Story
        <5> QED BY <5>1, <5>2, <5>3, WaysIn DEF Open
      <4> QED BY <4>1, <4>2
    <3>2. OpenOrdersOf(c)' \subseteq OpenOrdersOf(c)
      BY <2>3, <3>1 DEF OpenOrdersOf, Open
    <3> QED BY <1>2, <3>2
  <2> QED BY <2>4, <2>5, <2>6
<1>4. CASE \A s \in Sessions : ~Commit(s)
  <2>1. OpenOrdersOf(c)' \subseteq OpenOrdersOf(c)
    BY <1>4, Quiet DEF OpenOrdersOf, Open
  <2> QED BY <1>2, <2>1
<1> QED BY <1>3, <1>4

-----------------------------------------------------------------------------
(* The inductive invariant of requests that take turns.                    *)

TurnInv == /\ UpToDate
           /\ Stories
           /\ PaymentsFit
           /\ Redeemed
           /\ CapacityConserved
           /\ PromoConserved
           /\ PromoCustomerCap
           /\ UnpaidWithinCap

LEMMA InitTurns == Init => TurnInv
<1> SUFFICES ASSUME Init PROVE TurnInv
  OBVIOUS
<1>1. /\ \A o \in Orders : orders[o] = NoRow /\ payments[o] = NewPayment /\ ~Exists(o)
      /\ \A k \in Slots : slots[k] = AbsentSlot
      /\ \A p \in Promos : used[p] = 0
      /\ \A s \in Sessions : session[s] = Idle
  BY DEF Init, Exists, NoRow
<1>2. UpToDate
  BY <1>1, IdleCurrent DEF UpToDate
<1>3. Stories /\ Redeemed
  BY <1>1 DEF Stories, Redeemed
<1>4. PaymentsFit
  BY <1>1 DEF PaymentsFit, Agreed, NewPayment
<1>5. CapacityConserved
  <2>1. \A k \in Slots : Holding(k) = {}
    BY <1>1 DEF Holding
  <2>2. Cardinality({}) = 0 /\ UnitsOf({}) = 0
    BY SetsOfOrders, UnitsSum
  <2> QED BY <1>1, <2>1, <2>2 DEF CapacityConserved, AbsentSlot
<1>6. PromoConserved
  <2>1. \A p \in Promos : HeldOn(p) = {}
    BY <1>1 DEF HeldOn, NoRow
  <2>2. Cardinality({}) = 0
    BY SetsOfOrders
  <2> QED BY <1>1, <2>1, <2>2 DEF PromoConserved, HeldOn
<1>7. PromoCustomerCap
  <2>1. \A p \in Promos, c \in Customers : HeldBy(c, p) = {}
    BY <1>1 DEF HeldBy, NoRow
  <2>2. Cardinality({}) = 0 /\ \A p \in Promos : PromoPerCustomer[p] \in Nat
    BY SetsOfOrders, LimitAssumption
  <2>3. \A n \in Nat : 0 <= n
    OBVIOUS
  <2> QED BY <2>1, <2>2, <2>3 DEF PromoCustomerCap
<1>8. UnpaidWithinCap
  <2>1. \A c \in Customers : OpenOrdersOf(c) = {}
    BY <1>1 DEF OpenOrdersOf, Open, NoRow, Unpaid
  <2>2. Cardinality({}) = 0 /\ MaxUnpaid \in Nat
    BY SetsOfOrders, LimitAssumption
  <2>3. \A n \in Nat : 0 <= n
    OBVIOUS
  <2> QED BY <2>1, <2>2, <2>3 DEF UnpaidWithinCap
<1> QED BY <1>2, <1>3, <1>4, <1>5, <1>6, <1>7, <1>8 DEF TurnInv

LEMMA StepTurns == Known /\ TurnInv /\ OneAtATime /\ OneAtATime' /\ [Next]_vars => TurnInv'
<1> SUFFICES ASSUME Known, TurnInv, OneAtATime, OneAtATime', [Next]_vars PROVE TurnInv'
  OBVIOUS
<1>1. /\ UpToDate /\ Stories /\ PaymentsFit /\ Redeemed
      /\ CapacityConserved /\ PromoConserved /\ PromoCustomerCap /\ UnpaidWithinCap
  BY DEF TurnInv
<1>2. UpToDate' /\ Stories' /\ PaymentsFit' /\ Redeemed'
  BY <1>1, StepUpToDate, StepStories, StepPayments, StepRedeemed
<1>3. CapacityConserved' /\ PromoConserved' /\ PromoCustomerCap' /\ UnpaidWithinCap'
  BY <1>1, StepCapacity, StepPromoConserved, StepCustomerCap, StepUnpaidCap
<1> QED BY <1>2, <1>3 DEF TurnInv

LEMMA TurnsKeep == Spec /\ []OneAtATime => [](Known /\ TurnInv)
BY BlankAlways, InitTurns, StepTurns, PTL DEF Spec

\* A slot's two counters are exactly what the orders holding it take, as long as
\* requests take turns (SlotRepo.Reserve and Release).
THEOREM CapacityIsExact == Spec /\ []OneAtATime => []CapacityConserved
<1>1. TurnInv => CapacityConserved
  BY DEF TurnInv
<1> QED BY <1>1, TurnsKeep, PTL

\* Then the holders of a slot fit its limits: what two racing cancellations break.
THEOREM HoldersFit == Spec /\ []OneAtATime => []SlotsWithinLimits
<1>1. CapacityConserved /\ NeverOversold => SlotsWithinLimits
  BY DEF CapacityConserved, NeverOversold, SlotsWithinLimits
<1> QED BY <1>1, CapacityIsExact, LimitsHold, PTL

\* A promotion's counter is the number of its unreleased redemptions.
THEOREM PromoIsExact == Spec /\ []OneAtATime => []PromoConserved
<1>1. TurnInv => PromoConserved
  BY DEF TurnInv
<1> QED BY <1>1, TurnsKeep, PTL

\* No customer holds more uses of a promotion than EvaluatePromotion allows one
\* customer.
THEOREM CustomerCapHolds == Spec /\ []OneAtATime => []PromoCustomerCap
<1>1. TurnInv => PromoCustomerCap
  BY DEF TurnInv
<1> QED BY <1>1, TurnsKeep, PTL

\* No customer has more orders waiting for money than OrderRepo.Create counts up to.
THEOREM UnpaidCapHolds == Spec /\ []OneAtATime => []UnpaidWithinCap
<1>1. TurnInv => UnpaidWithinCap
  BY DEF TurnInv
<1> QED BY <1>1, TurnsKeep, PTL

\* order_events reconstructs every order: legal transitions, each from where the one
\* before ended, the last one to the present state.
THEOREM HistoryReconstructs == Spec /\ []OneAtATime => []HistoryFaithful
<1>1. TurnInv => HistoryFaithful
  BY DEF TurnInv, Stories, Story, HistoryFaithful, Placed
<1> QED BY <1>1, TurnsKeep, PTL

\* No order's history records two payments.
THEOREM PaidOnceOnly == Spec /\ []OneAtATime => []PaidOnce
<1>1. Known /\ TurnInv => PaidOnce
  <2> SUFFICES ASSUME Known, TurnInv, NEW o \in Orders
               PROVE  Cardinality({i \in 1 .. Len(events[o]) : events[o][i].to = "PAID"}) <= 1
    BY DEF PaidOnce
  <2> DEFINE P == {i \in 1 .. Len(events[o]) : events[o][i].to = "PAID"}
  <2>1. \A i, j \in P : i = j
    <3>1. CASE Exists(o)
      BY <3>1 DEF TurnInv, Stories, Story
    <3>2. CASE ~Exists(o)
      <4>1. events[o] = <<>>
        BY <3>2 DEF Known, Blank
      <4>2. P = {}
        BY <4>1
      <4> QED BY <4>2
    <3> QED BY <3>1, <3>2
  <2> HIDE DEF P
  <2>2. CASE P = {}
    <3>1. Cardinality(P) = 0
      BY <2>2, FS_EmptySet
    <3> QED BY <3>1 DEF P
  <2>3. CASE P # {}
    <3>1. PICK i : P = {i}
      BY <2>1, <2>3
    <3>2. Cardinality(P) = 1
      BY <3>1, FS_Singleton
    <3> QED BY <3>2 DEF P
  <2> QED BY <2>2, <2>3
<1> QED BY <1>1, TurnsKeep, PTL

\* The payment row and the order row tell the same story.
THEOREM PaymentFitsOrder == Spec /\ []OneAtATime => []PaymentMatchesOrder
<1>1. TurnInv => PaymentMatchesOrder
  BY DEF TurnInv, PaymentsFit, Suits, PaymentMatchesOrder, Placed, Unpaid, VisibleToKitchen
<1> QED BY <1>1, TurnsKeep, PTL

\* A payment verified for another amount than was due says so.
THEOREM MismatchIsRecorded == Spec /\ []OneAtATime => []MismatchOnRecord
<1>1. TurnInv => MismatchOnRecord
  BY DEF TurnInv, PaymentsFit, Agreed, MismatchOnRecord
<1> QED BY <1>1, TurnsKeep, PTL

-----------------------------------------------------------------------------
(* The slots implement SlotLedger.                                         *)

Limits == [k \in Slots |-> [orders |-> slots[k].maxOrders, units |-> slots[k].maxUnits]]

Bookings == [k \in Slots |-> Holding(k)]

Given == {o \in Orders : orders[o].released}

\* The ledger's actions, in terms of the tables.
LEMMA LedgerActions ==
  /\ \A o \in Orders : Ledger!Book(o) <=>
       LET k == Cart[o].slot IN
       /\ o \notin Bookings[k] \cup Given
       /\ Ledger!Within(Bookings[k] \cup {o}, Limits[k])
       /\ Bookings' = [Bookings EXCEPT ![k] = @ \cup {o}]
       /\ Limits' = Limits /\ Given' = Given
  /\ \A o \in Orders : Ledger!Leave(o) <=>
       LET k == Cart[o].slot IN
       /\ o \in Bookings[k]
       /\ Bookings' = [Bookings EXCEPT ![k] = @ \ {o}]
       /\ Given' = Given \cup {o}
       /\ Limits' = Limits
  /\ \A k \in Slots : Ledger!Resize(k) <=>
       /\ Limits'[k] \in [orders : Nat, units : Nat]
       /\ Limits' = [Limits EXCEPT ![k] = Limits'[k]]
       /\ Ledger!Within(Bookings[k], Limits'[k])
       /\ Bookings' = Bookings /\ Given' = Given
  /\ Ledger!ledger' = Ledger!ledger <=>
       Limits' = Limits /\ Bookings' = Bookings /\ Given' = Given
<1>1. \A o \in Orders : [p \in Orders |-> Cart[p].slot][o] = Cart[o].slot
  OBVIOUS
<1> QED
  BY <1>1 DEF Ledger!Book, Ledger!Leave, Ledger!Resize, Ledger!ledger, Limits, Bookings, Given

\* What the ledger asks of a set of bookings, read off the slot's counters.
LEMMA WithinCounters ==
  ASSUME CapacityConserved, NEW k \in Slots, NEW m
  PROVE  /\ Ledger!Within(Holding(k), m) <=> slots[k].orders <= m.orders /\ slots[k].units <= m.units
         /\ \A o \in Orders \ Holding(k) :
              Ledger!Within(Holding(k) \cup {o}, m) <=>
                slots[k].orders + 1 <= m.orders /\ slots[k].units + Cart[o].units <= m.units
<1>1. slots[k].orders = Cardinality(Holding(k)) /\ slots[k].units = UnitsOf(Holding(k))
  BY DEF CapacityConserved
<1>2. \A S \in SUBSET Orders :
        Ledger!Within(S, m) <=> Cardinality(S) <= m.orders /\ UnitsOf(S) <= m.units
  BY LedgerUnits, UnitsOfWeighs
<1>3. Holding(k) \in SUBSET Orders
  BY HoldingOrders
<1>4. ASSUME NEW o \in Orders \ Holding(k)
      PROVE  /\ Cardinality(Holding(k) \cup {o}) = Cardinality(Holding(k)) + 1
             /\ UnitsOf(Holding(k) \cup {o}) = UnitsOf(Holding(k)) + Cart[o].units
             /\ Holding(k) \cup {o} \in SUBSET Orders
  BY <1>3, <1>4, SetsOfOrders, UnitsSum
<1> QED BY <1>1, <1>2, <1>3, <1>4

\* A commit books an order, lets one go, or leaves the ledger alone.
LEMMA CommitLedger ==
  ASSUME Known, TurnInv, NEW s \in Sessions, Commit(s)
  PROVE  Ledger!LNext \/ UNCHANGED Ledger!ledger
<1>1. CapacityConserved /\ UpToDate
  BY DEF TurnInv
<1>2. PICK o \in Orders : o = session[s].order
  BY OneOrderWritten
<1>3. \A p \in Orders \ {o} : orders'[p] = orders[p]
  BY <1>2, OneOrderWritten
<1>4. \A k \in Slots : Bookings[k] = Holding(k)
  BY DEF Bookings
<1>5. CASE Create(s)
  <2> DEFINE k == Cart[o].slot
             n == Cart[o].units
  <2>1. /\ k \in Slots /\ n \in Nat /\ orders[o] = NoRow /\ orders'[o].released = FALSE
        /\ Fits(k, n) /\ slots' = Reserve(k, n)
    BY <1>2, <1>5, CreateWrites
  <2>2. o \in Orders \ Holding(k)
    BY <1>2, <1>5, <2>1, HoldersMove
  <2>3. \A j \in Slots : Holding(j)' = IF k = j THEN Holding(j) \cup {o} ELSE Holding(j)
    BY <1>2, <1>5, HoldersMove
  <2>4. o \notin Given /\ Given' = Given
    BY <1>3, <2>1 DEF Given, NoRow
  <2>5. Limits' = Limits
    <3>1. \A j \in Slots : slots'[j].maxOrders = slots[j].maxOrders
                           /\ slots'[j].maxUnits = slots[j].maxUnits
      BY <2>1, CounterValues DEF Known
    <3> QED BY <3>1 DEF Limits
  <2>6. Ledger!Within(Holding(k) \cup {o}, Limits[k])
    <3>1. Limits[k].orders = slots[k].maxOrders /\ Limits[k].units = slots[k].maxUnits
      BY <2>1 DEF Limits
    <3>2. slots[k].orders + 1 <= Limits[k].orders /\ slots[k].units + n <= Limits[k].units
      BY <2>1, <3>1 DEF Fits
    <3> QED BY <1>1, <2>1, <2>2, <3>2, WithinCounters
  <2>7. Bookings' = [Bookings EXCEPT ![k] = @ \cup {o}]
    BY <2>1, <2>3 DEF Bookings
  <2> HIDE DEF n
  <2>8. Ledger!Book(o)
    BY <1>4, <2>1, <2>2, <2>4, <2>5, <2>6, <2>7, LedgerActions
  <2> QED BY <2>8 DEF Ledger!LNext
<1>6. CASE WriteCancel(s)
  <2> DEFINE k == Cart[o].slot
             n == Cart[o].units
  <2>1. k \in Slots /\ n \in Nat /\ orders'[o].released = TRUE /\ slots' = Release(k, n)
    BY <1>2, <1>6, CancelWrites
  <2>2. o \in Holding(k)
    BY <1>1, <1>2, <1>6, ReleaserHolds
  <2>3. \A j \in Slots : Holding(j)' = IF k = j THEN Holding(j) \ {o} ELSE Holding(j)
    BY <1>2, <1>6, HoldersMove
  <2>4. Given' = Given \cup {o}
    BY <1>3, <2>1 DEF Given
  <2>5. Limits' = Limits
    <3>1. \A j \in Slots : slots'[j].maxOrders = slots[j].maxOrders
                           /\ slots'[j].maxUnits = slots[j].maxUnits
      BY <2>1, CounterValues DEF Known
    <3> QED BY <3>1 DEF Limits
  <2>6. Bookings' = [Bookings EXCEPT ![k] = @ \ {o}]
    BY <2>1, <2>3 DEF Bookings
  <2> HIDE DEF n
  <2>7. Ledger!Leave(o)
    BY <1>4, <2>1, <2>2, <2>4, <2>5, <2>6, LedgerActions
  <2> QED BY <2>7 DEF Ledger!LNext
<1>7. CASE Plain(s)
  <2>1. /\ slots' = slots
        /\ \A p \in Orders : orders'[p].released = orders[p].released
    BY <1>7, PlainWrites
  <2>2. \A k \in Slots : Holding(k)' = Holding(k)
    BY <1>2, <1>7, HoldersMove
  <2>3. Limits' = Limits /\ Bookings' = Bookings /\ Given' = Given
    BY <2>1, <2>2 DEF Limits, Bookings, Given
  <2> QED BY <2>3, LedgerActions
<1> QED BY <1>5, <1>6, <1>7, CommitKinds

\* New limits for one slot are a resize when its counters are within them.
LEMMA ResizeLedger ==
  ASSUME Known, TurnInv, NEW k \in Slots, NEW m \in Capacities,
         slots[k].orders <= m.orders, slots[k].units <= m.units,
         slots'[k].maxOrders = m.orders, slots'[k].maxUnits = m.units,
         \A j \in Slots \ {k} : slots'[j] = slots[j],
         orders' = orders
  PROVE  Ledger!LNext
<1>1. m \in [orders : Nat, units : Nat]
  BY LimitAssumption
<1>2. Limits'[k] = [orders |-> m.orders, units |-> m.units]
  BY DEF Limits
<1>3. Limits'[k] \in [orders : Nat, units : Nat]
  BY <1>1, <1>2
<1>4. Limits' = [Limits EXCEPT ![k] = Limits'[k]]
  BY DEF Limits
<1>5. Ledger!Within(Holding(k), Limits'[k])
  <2>1. Limits'[k].orders = m.orders /\ Limits'[k].units = m.units
    BY <1>2
  <2>2. PICK l : l = Limits'[k]
    OBVIOUS
  <2>3. CapacityConserved
    BY DEF TurnInv
  <2>4. Ledger!Within(Holding(k), l)
    BY <2>1, <2>2, <2>3, WithinCounters
  <2> QED BY <2>2, <2>4
<1>6. Bookings' = Bookings /\ Given' = Given /\ Bookings[k] = Holding(k)
  BY DEF Bookings, Given, Holding, Exists
<1>7. Ledger!Resize(k)
  BY <1>3, <1>4, <1>5, <1>6, LedgerActions
<1> QED BY <1>7 DEF Ledger!LNext

LEMMA LedgerStands ==
  ASSUME UNCHANGED orders,
         \A k \in Slots : slots'[k].maxOrders = slots[k].maxOrders
                          /\ slots'[k].maxUnits = slots[k].maxUnits
  PROVE  UNCHANGED Ledger!ledger
<1>1. Limits' = Limits /\ Bookings' = Bookings /\ Given' = Given
  BY DEF Limits, Bookings, Given, Holding, Exists
<1> QED BY <1>1, LedgerActions

LEMMA StepLedger ==
  ASSUME Known, TurnInv, [Next]_vars
  PROVE  Ledger!LNext \/ UNCHANGED Ledger!ledger
<1>0. slots \in [Slots -> Slot]
  BY DEF Known, TypeOK
<1>1. CASE \E s \in Sessions : Commit(s)
  BY <1>1, CommitLedger
<1>2. ASSUME NEW k \in Slots, Materialise(k) PROVE Ledger!LNext
  <2>1. PICK m \in Capacities :
          slots' = [slots EXCEPT ![k] = [AbsentSlot EXCEPT !.present = TRUE,
                      !.maxOrders = m.orders, !.maxUnits = m.units]]
    BY <1>2 DEF Materialise
  <2>2. slots'[k] = [AbsentSlot EXCEPT !.present = TRUE, !.maxOrders = m.orders,
                                       !.maxUnits = m.units]
    BY <1>0, <2>1
  <2>3. slots'[k].maxOrders = m.orders /\ slots'[k].maxUnits = m.units
    BY <2>2 DEF AbsentSlot
  <2>4. \A j \in Slots \ {k} : slots'[j] = slots[j]
    BY <1>0, <2>1
  <2>5. slots[k].orders = 0 /\ slots[k].units = 0 /\ orders' = orders
    BY <1>2 DEF Materialise, Known, Blank
  <2>6. slots[k].orders <= m.orders /\ slots[k].units <= m.units
    <3>1. m.orders \in Nat /\ m.units \in Nat
      BY LimitAssumption
    <3> QED BY <2>5, <3>1
  <2> QED BY <2>3, <2>4, <2>5, <2>6, ResizeLedger
<1>3. ASSUME NEW k \in Slots, SetCapacity(k) PROVE Ledger!LNext
  <2>1. PICK m \in Capacities :
          /\ slots[k].orders <= m.orders /\ slots[k].units <= m.units
          /\ slots' = [slots EXCEPT ![k].maxOrders = m.orders, ![k].maxUnits = m.units]
    BY <1>3 DEF SetCapacity
  <2>2. slots'[k] = [slots[k] EXCEPT !.maxOrders = m.orders, !.maxUnits = m.units]
    BY <1>0, <2>1
  <2>3. slots'[k].maxOrders = m.orders /\ slots'[k].maxUnits = m.units
    BY <1>0, <2>2 DEF Slot
  <2>4. \A j \in Slots \ {k} : slots'[j] = slots[j]
    BY <1>0, <2>1
  <2>5. orders' = orders
    BY <1>3 DEF SetCapacity
  <2> QED BY <2>1, <2>3, <2>4, <2>5, ResizeLedger
<1>4. ASSUME NEW k \in Slots, SetLocked(k) PROVE UNCHANGED Ledger!ledger
  <2>1. PICK locked \in BOOLEAN : slots' = [slots EXCEPT ![k].locked = locked]
    BY <1>4 DEF SetLocked
  <2>2. \A j \in Slots : /\ slots'[j].maxOrders = slots[j].maxOrders
                         /\ slots'[j].maxUnits = slots[j].maxUnits
    BY <1>0, <2>1 DEF Slot
  <2>3. orders' = orders
    BY <1>4 DEF SetLocked
  <2> QED BY <2>2, <2>3, LedgerStands
<1>5. CASE \/ \E s \in Sessions, o \in Orders : Request(s, o)
           \/ \E s \in Sessions : Proceed(s) \/ Abort(s)
           \/ \E r \in StockRows : SetDailyStock(r)
           \/ UNCHANGED vars
  <2>1. slots' = slots /\ orders' = orders
    BY <1>5 DEF Request, Quote, CheckCancel, StaffRead, ReadForProof, LoadPayment, Begin,
                Proceed, Abort, CountUnpaid, CustomerRead, LoadOrder, Continue, tables,
                SetDailyStock, vars
  <2> QED BY <2>1, LedgerStands
<1> QED BY <1>1, <1>2, <1>3, <1>4, <1>5 DEF Next, Manage

LEMMA InitLedger == Init => Ledger!LInit
<1> SUFFICES ASSUME Init PROVE Ledger!LInit
  OBVIOUS
<1>1. \A k \in Slots : slots[k].maxOrders = 0 /\ slots[k].maxUnits = 0
  BY DEF Init, AbsentSlot
<1>2. \A k \in Slots : Holding(k) = {}
  BY DEF Init, NoRow, Holding, Exists
<1>3. {o \in Orders : orders[o].released} = {}
  BY DEF Init, NoRow
<1> QED BY <1>1, <1>2, <1>3 DEF Ledger!LInit

\* As long as requests take turns, the slot rows implement the ledger of bookings: an
\* order is booked once and only where there is room on both axes, leaves once, and a
\* manager's limit never undercuts what is booked (Reserve, Release, SetCapacity).
THEOREM SlotsImplementLedger == Spec /\ []OneAtATime => SlotsAreALedger
<1>1. Known /\ TurnInv /\ [Next]_vars => [Ledger!LNext]_(Ledger!ledger)
  BY StepLedger
<1> QED BY <1>1, InitLedger, TurnsKeep, PTL DEF Spec, SlotsAreALedger, Ledger!LSpec
=============================================================================
