------------------------ MODULE NotificationsProofs ------------------------
(***************************************************************************)
(* For any messages, any finite set of workers and any limits: attempts    *)
(* are bounded, deliveries are accounted for, and what is settled stays    *)
(* settled.                                                                *)
(***************************************************************************)
EXTENDS Notifications, TLAPS, FiniteSetTheorems

USE DEF Before, Never, Pending, InTable

-----------------------------------------------------------------------------
(* Types.                                                                  *)

LEMMA InitTyped == Init => TypeOK
BY DEF Init, TypeOK, Note

LEMMA BecomeTyped ==
  ASSUME TypeOK, NEW n \in Messages, NEW from, NEW to \in Before \cup Never \cup InTable,
         Become(n, from, to)
  PROVE  TypeOK'
BY DEF TypeOK, Note, Become

LEMMA StepTyped == TypeOK /\ [Next]_vars => TypeOK'
<1> SUFFICES ASSUME TypeOK, [Next]_vars PROVE TypeOK'
  OBVIOUS
<1>1. ASSUME NEW n \in Messages, Tell(n) PROVE TypeOK'
  BY <1>1, BecomeTyped DEF Tell, Owe, Queue, QueueFails, Audit, AuditFails, StoreUnread, Cut
<1>2. ASSUME NEW n \in Messages, Elapse(n) PROVE TypeOK'
  BY <1>2 DEF TypeOK, Note, Elapse
<1>3. ASSUME NEW w \in Workers, Fetch(w) PROVE TypeOK'
  BY <1>3 DEF TypeOK, Fetch
<1>4. ASSUME NEW w \in Workers, NEW n \in Messages, Send(w, n) PROVE TypeOK'
  BY <1>4 DEF TypeOK, Send
<1>5. ASSUME NEW w \in Workers, NEW n \in Messages, Mark(w, n) PROVE TypeOK'
  <2>1. outcome[w] \in {"sent", "failed"} /\ note[n] \in Note
    BY <1>5 DEF Mark, TypeOK
  <2>2. \A b \in BOOLEAN :
          [status |-> outcome[w], attempts |-> note[n].attempts + 1, waiting |-> b] \in Note
    BY <2>1 DEF Note
  <2>3. (IF outcome[w] = "failed" THEN TRUE ELSE note[n].waiting) \in BOOLEAN
    BY <2>1 DEF Note
  <2> QED
    BY <1>5, <2>2, <2>3 DEF TypeOK, Mark, PassOn
<1>6. ASSUME NEW w \in Workers, NEW n \in Messages, Unmarked(w, n) PROVE TypeOK'
  BY <1>6 DEF TypeOK, Unmarked, PassOn
<1>7. ASSUME NEW w \in Workers, Crash(w) PROVE TypeOK'
  BY <1>7 DEF TypeOK, Crash
<1>8. CASE UNCHANGED vars
  BY <1>8 DEF TypeOK, vars
<1> QED
  BY <1>1, <1>2, <1>3, <1>4, <1>5, <1>6, <1>7, <1>8 DEF Next, Dispatch, Handle

-----------------------------------------------------------------------------
(* Counting workers.                                                       *)

LEMMA WorkersCounted ==
  \A W \in SUBSET Workers : /\ IsFiniteSet(W)
                            /\ Cardinality(W) \in Nat
                            /\ Cardinality(W) <= Cardinality(Workers)
BY WorkerAssumption, FS_Subset, FS_CardinalityType

LEMMA WorkersFewer ==
  ASSUME NEW V \in SUBSET Workers, NEW W \in SUBSET V
  PROVE  Cardinality(W) <= Cardinality(V)
BY WorkersCounted, FS_Subset

LEMMA WorkerLeaves ==
  ASSUME NEW V \in SUBSET Workers, NEW w \in V
  PROVE  Cardinality(V \ {w}) = Cardinality(V) - 1
BY WorkersCounted, FS_RemoveElement

LEMMA WorkerJoins ==
  ASSUME NEW V \in SUBSET Workers, NEW w \in Workers \ V
  PROVE  Cardinality(V \cup {w}) = Cardinality(V) + 1
BY WorkersCounted, FS_AddElement

\* While nobody fetches or passes on, the same workers hold and know a message.
LEMMA SameHands ==
  ASSUME UNCHANGED batch, NEW n
  PROVE  /\ InHand(n)' = InHand(n)
         /\ UNCHANGED outcome => Unwritten(n)' = Unwritten(n)
BY DEF InHand, Unwritten, At

\* A worker that writes or loses its outcome lets go of that message only.
LEMMA PassedOn ==
  ASSUME TypeOK, NEW w \in Workers, NEW n \in Messages, At(w, n), outcome[w] # "NONE",
         PassOn(w, n), NEW m \in Messages
  PROVE  /\ InHand(m)' = IF m = n THEN InHand(m) \ {w} ELSE InHand(m)
         /\ Unwritten(m)' = Unwritten(m) \ {w}
         /\ w \in Unwritten(m) <=> m = n
         /\ w \in InHand(n)
<1> USE MessageAssumption DEF TypeOK, PassOn
<1>1. At(w, m) <=> m = n
  BY DEF At
<1>2. \A v \in Workers \ {w} : batch'[v] = batch[v] /\ outcome'[v] = outcome[v]
  OBVIOUS
<1>3. batch'[w] = batch[w] \ {n} /\ outcome'[w] = "NONE"
  OBVIOUS
<1>4. InHand(m)' = IF m = n THEN InHand(m) \ {w} ELSE InHand(m)
  BY <1>2, <1>3 DEF InHand
<1>5. Unwritten(m)' = Unwritten(m) \ {w}
  BY <1>2, <1>3 DEF Unwritten, At
<1> QED
  BY <1>1, <1>4, <1>5 DEF Unwritten, InHand, At

\* Before the worker comes in, nothing is counted.
LEMMA TellCounts ==
  ASSUME TypeOK, NEW n \in Messages, Tell(n) \/ Elapse(n), NEW m \in Messages
  PROVE  /\ note'[m].attempts = note[m].attempts
         /\ UNCHANGED <<batch, outcome, delivered, losses>>
BY DEF TypeOK, Note, Tell, Elapse, Owe, Queue, QueueFails, Audit, AuditFails,
       StoreUnread, Cut, Become

-----------------------------------------------------------------------------
(* Attempts.                                                               *)

LEMMA FetchBounded ==
  ASSUME TypeOK, AttemptsBounded, NEW w \in Workers, Fetch(w)
  PROVE  AttemptsBounded'
<1> SUFFICES ASSUME NEW m \in Messages
             PROVE  note[m].attempts + Cardinality(InHand(m)')
                      <= MaxAttempts - 1 + Cardinality(Workers)
  BY DEF Fetch, AttemptsBounded
<1> USE NumberAssumption
<1>1. note[m].attempts \in Nat /\ InHand(m) \in SUBSET Workers /\ InHand(m)' \in SUBSET Workers
  BY DEF TypeOK, Note, InHand
<1>2. CASE m \in batch'[w]
  <2>1. note[m].attempts < MaxAttempts
    BY <1>2 DEF Fetch, Due, Eligible, TypeOK
  <2> QED
    BY <1>1, <2>1, WorkersCounted
<1>3. CASE m \notin batch'[w]
  <2>1. InHand(m)' = InHand(m)
    BY <1>3 DEF Fetch, InHand, TypeOK
  <2> QED
    BY <2>1 DEF AttemptsBounded
<1> QED
  BY <1>2, <1>3

LEMMA StepBounded == TypeOK /\ AttemptsBounded /\ [Next]_vars => AttemptsBounded'
<1> SUFFICES ASSUME TypeOK, AttemptsBounded, [Next]_vars PROVE AttemptsBounded'
  OBVIOUS
<1> USE NumberAssumption
<1>1. \A m \in Messages :
        /\ note[m].attempts \in Nat
        /\ InHand(m) \in SUBSET Workers
        /\ Cardinality(InHand(m)) \in Nat
        /\ note[m].attempts + Cardinality(InHand(m)) <= MaxAttempts - 1 + Cardinality(Workers)
  BY WorkersCounted DEF TypeOK, Note, InHand, AttemptsBounded
<1>2. Cardinality(Workers) \in Nat
  BY WorkersCounted
<1>3. ASSUME NEW n \in Messages, Tell(n) \/ Elapse(n) PROVE AttemptsBounded'
  BY <1>3, TellCounts, SameHands DEF AttemptsBounded
<1>4. ASSUME NEW w \in Workers, Fetch(w) PROVE AttemptsBounded'
  BY <1>4, FetchBounded
<1>5. ASSUME NEW w \in Workers, NEW n \in Messages, Send(w, n) PROVE AttemptsBounded'
  BY <1>5, SameHands DEF Send, AttemptsBounded
<1>6. ASSUME NEW w \in Workers, NEW n \in Messages, Mark(w, n) PROVE AttemptsBounded'
  <2> SUFFICES ASSUME NEW m \in Messages
               PROVE  note'[m].attempts + Cardinality(InHand(m)')
                        <= MaxAttempts - 1 + Cardinality(Workers)
    BY DEF AttemptsBounded
  <2>1. CASE m = n
    <3>1. note'[m].attempts = note[m].attempts + 1
      BY <1>6, <2>1 DEF Mark, TypeOK
    <3>2. w \in InHand(m) /\ InHand(m)' = InHand(m) \ {w}
      BY <1>6, <2>1, PassedOn DEF Mark
    <3>3. Cardinality(InHand(m)') = Cardinality(InHand(m)) - 1
      BY <1>1, <3>2, WorkerLeaves
    <3> QED
      BY <1>1, <1>2, <3>1, <3>3
  <2>2. CASE m # n
    <3>1. note'[m].attempts = note[m].attempts
      BY <1>6, <2>2 DEF Mark, TypeOK
    <3>2. InHand(m)' = InHand(m)
      BY <1>6, <2>2, PassedOn DEF Mark
    <3> QED
      BY <1>1, <3>1, <3>2
  <2> QED
    BY <2>1, <2>2
<1>7. ASSUME NEW w \in Workers, (\E n \in Messages : Unmarked(w, n)) \/ Crash(w)
      PROVE  AttemptsBounded'
  <2> SUFFICES ASSUME NEW m \in Messages
               PROVE  note[m].attempts + Cardinality(InHand(m)')
                        <= MaxAttempts - 1 + Cardinality(Workers)
    BY <1>7 DEF AttemptsBounded, Unmarked, Crash
  <2>1. InHand(m)' \in SUBSET InHand(m)
    BY <1>7 DEF Unmarked, Crash, PassOn, InHand, TypeOK
  <2>2. Cardinality(InHand(m)') <= Cardinality(InHand(m)) /\ Cardinality(InHand(m)') \in Nat
    BY <1>1, <2>1, WorkersFewer, WorkersCounted
  <2> QED
    BY <1>1, <1>2, <2>2
<1>8. CASE UNCHANGED vars
  BY <1>8, SameHands DEF vars, AttemptsBounded
<1> QED
  BY <1>3, <1>4, <1>5, <1>6, <1>7, <1>8 DEF Next, Dispatch, Handle

-----------------------------------------------------------------------------
(* Deliveries.                                                             *)

LEMMA SendAccounted ==
  ASSUME TypeOK, DeliveriesAccounted, NEW w \in Workers, NEW n \in Messages, Send(w, n)
  PROVE  DeliveriesAccounted'
<1> SUFFICES ASSUME NEW m \in Messages
             PROVE  delivered'[m] <= note[m].attempts + losses + Cardinality(Unwritten(m)')
  BY DEF Send, DeliveriesAccounted
<1> USE MessageAssumption
<1>1. /\ note[m].attempts \in Nat /\ losses \in Nat /\ delivered[m] \in Nat
      /\ delivered[m] <= note[m].attempts + losses + Cardinality(Unwritten(m))
      /\ Unwritten(m) \in SUBSET Workers /\ Cardinality(Unwritten(m)) \in Nat
  BY WorkersCounted DEF TypeOK, Note, Unwritten, DeliveriesAccounted
<1>2. /\ \A v \in Workers \ {w} : outcome'[v] = outcome[v]
      /\ outcome'[w] # "NONE" /\ outcome[w] = "NONE" /\ UNCHANGED batch
  BY DEF Send, TypeOK
<1>3. CASE m = n
  <2>1. w \notin Unwritten(m) /\ Unwritten(m)' = Unwritten(m) \cup {w}
    BY <1>2, <1>3 DEF Send, Unwritten, At
  <2>2. Cardinality(Unwritten(m)') = Cardinality(Unwritten(m)) + 1
    BY <1>1, <2>1, WorkerJoins
  <2>3. delivered'[m] <= delivered[m] + 1 /\ delivered'[m] \in Nat
    BY <1>1, <1>3 DEF Send, TypeOK
  <2> QED
    BY <1>1, <2>2, <2>3
<1>4. CASE m # n
  <2>1. ~At(w, m)
    BY <1>4 DEF Send, At, TypeOK
  <2>2. Unwritten(m)' = Unwritten(m)
    BY <1>2, <2>1 DEF Unwritten, At
  <2>3. delivered'[m] = delivered[m]
    BY <1>4 DEF Send, TypeOK
  <2> QED
    BY <1>1, <2>2, <2>3
<1> QED
  BY <1>3, <1>4

LEMMA PassAccounted ==
  ASSUME TypeOK, DeliveriesAccounted, NEW w \in Workers, NEW n \in Messages,
         Mark(w, n) \/ Unmarked(w, n)
  PROVE  DeliveriesAccounted'
<1> SUFFICES ASSUME NEW m \in Messages
             PROVE  delivered[m] <= note'[m].attempts + losses' + Cardinality(Unwritten(m)')
  BY DEF Mark, Unmarked, DeliveriesAccounted
<1>1. /\ note[m].attempts \in Nat /\ losses \in Nat /\ delivered[m] \in Nat
      /\ delivered[m] <= note[m].attempts + losses + Cardinality(Unwritten(m))
      /\ Unwritten(m) \in SUBSET Workers /\ Cardinality(Unwritten(m)) \in Nat
  BY WorkersCounted DEF TypeOK, Note, Unwritten, DeliveriesAccounted
<1>2. Unwritten(m)' = Unwritten(m) \ {w} /\ (w \in Unwritten(m) <=> m = n)
  BY PassedOn DEF Mark, Unmarked
<1>3. CASE m = n
  <2>1. Cardinality(Unwritten(m)') = Cardinality(Unwritten(m)) - 1
    BY <1>1, <1>2, <1>3, WorkerLeaves
  <2>2. CASE Mark(w, n)
    <3>1. note'[m].attempts = note[m].attempts + 1 /\ losses' = losses
      BY <1>3, <2>2 DEF Mark, TypeOK
    <3> QED
      BY <1>1, <2>1, <3>1
  <2>3. CASE Unmarked(w, n)
    <3>1. note'[m].attempts = note[m].attempts /\ losses' = losses + 1
      BY <2>3 DEF Unmarked
    <3> QED
      BY <1>1, <2>1, <3>1
  <2> QED
    BY <2>2, <2>3
<1>4. CASE m # n
  <2>1. Unwritten(m)' = Unwritten(m)
    BY <1>2, <1>4
  <2>2. /\ note'[m].attempts = note[m].attempts
        /\ losses' = losses \/ losses' = losses + 1
    BY <1>4 DEF Mark, Unmarked, TypeOK
  <2> QED
    BY <1>1, <2>1, <2>2
<1> QED
  BY <1>3, <1>4

LEMMA CrashAccounted ==
  ASSUME TypeOK, DeliveriesAccounted, NEW w \in Workers, Crash(w)
  PROVE  DeliveriesAccounted'
<1> SUFFICES ASSUME NEW m \in Messages
             PROVE  delivered[m] <= note[m].attempts + (losses + 1) + Cardinality(Unwritten(m)')
  BY DEF Crash, DeliveriesAccounted
<1>1. /\ note[m].attempts \in Nat /\ losses \in Nat /\ delivered[m] \in Nat
      /\ delivered[m] <= note[m].attempts + losses + Cardinality(Unwritten(m))
      /\ Unwritten(m) \in SUBSET Workers /\ Cardinality(Unwritten(m)) \in Nat
  BY WorkersCounted DEF TypeOK, Note, Unwritten, DeliveriesAccounted
<1>2. Unwritten(m)' = Unwritten(m) \ {w}
  BY DEF Crash, Unwritten, At, TypeOK
<1>3. CASE w \in Unwritten(m)
  BY <1>1, <1>2, <1>3, WorkerLeaves
<1>4. CASE w \notin Unwritten(m)
  <2>1. Unwritten(m)' = Unwritten(m)
    BY <1>2, <1>4
  <2> QED
    BY <1>1, <2>1
<1> QED
  BY <1>3, <1>4

LEMMA FetchAccounted ==
  ASSUME TypeOK, DeliveriesAccounted, NEW w \in Workers, Fetch(w)
  PROVE  DeliveriesAccounted'
<1> SUFFICES ASSUME NEW m \in Messages
             PROVE  delivered[m] <= note[m].attempts + losses + Cardinality(Unwritten(m)')
  BY DEF Fetch, DeliveriesAccounted
<1>1. /\ note[m].attempts \in Nat /\ losses \in Nat /\ delivered[m] \in Nat
      /\ delivered[m] <= note[m].attempts + losses + Cardinality(Unwritten(m))
      /\ Cardinality(Unwritten(m)) \in Nat
  BY WorkersCounted DEF TypeOK, Note, Unwritten, DeliveriesAccounted
<1>2. Unwritten(m) \in SUBSET Unwritten(m)' /\ Unwritten(m)' \in SUBSET Workers
  BY DEF Fetch, Unwritten, At, TypeOK
<1>3. Cardinality(Unwritten(m)) <= Cardinality(Unwritten(m)') /\ Cardinality(Unwritten(m)') \in Nat
  BY <1>2, WorkersFewer, WorkersCounted
<1> QED
  BY <1>1, <1>3

LEMMA StepAccounted ==
  TypeOK /\ DeliveriesAccounted /\ [Next]_vars => DeliveriesAccounted'
<1> SUFFICES ASSUME TypeOK, DeliveriesAccounted, [Next]_vars PROVE DeliveriesAccounted'
  OBVIOUS
<1>1. ASSUME NEW n \in Messages, Tell(n) \/ Elapse(n) PROVE DeliveriesAccounted'
  BY <1>1, TellCounts, SameHands DEF DeliveriesAccounted
<1>2. CASE UNCHANGED vars
  BY <1>2, SameHands DEF vars, DeliveriesAccounted
<1> QED
  BY <1>1, <1>2, SendAccounted, PassAccounted, CrashAccounted, FetchAccounted
     DEF Next, Dispatch, Handle

-----------------------------------------------------------------------------
(* What is settled.                                                        *)

LEMMA StepSettled ==
  ASSUME TypeOK, [Next]_vars, NEW m \in Messages, Settled(m)
  PROVE  /\ Settled(m)'
         /\ note'[m].status = note[m].status
         /\ note'[m].attempts = note[m].attempts
         /\ delivered'[m] = delivered[m]
<1> USE NumberAssumption DEF Settled, TypeOK
<1>1. /\ note[m].status \in InTable
      /\ note[m].status = "sent" \/ note[m].attempts >= MaxAttempts
      /\ \A v \in Workers : m \notin batch[v]
      /\ note[m].attempts \in Nat
  BY DEF InHand, Note
<1>2. CASE /\ note'[m].status = note[m].status
           /\ note'[m].attempts = note[m].attempts
           /\ delivered'[m] = delivered[m]
           /\ \A v \in Workers : m \notin batch'[v]
  BY <1>1, <1>2 DEF InHand
<1>3. ASSUME NEW n \in Messages, Tell(n) PROVE n # m /\ note'[m] = note[m] /\ UNCHANGED <<batch, delivered>>
  BY <1>1, <1>3 DEF Tell, Owe, Queue, QueueFails, Audit, AuditFails, StoreUnread, Cut, Become
<1>4. ASSUME NEW n \in Messages, Elapse(n)
      PROVE  /\ note'[m].status = note[m].status
             /\ note'[m].attempts = note[m].attempts
             /\ UNCHANGED <<batch, delivered>>
  BY <1>4 DEF Elapse, Note
<1>5. ASSUME NEW w \in Workers, Fetch(w)
      PROVE  /\ UNCHANGED <<note, delivered>>
             /\ \A v \in Workers : m \notin batch'[v]
  <2>1. m \notin Eligible
    BY <1>1 DEF Eligible
  <2> QED
    BY <1>1, <1>5, <2>1 DEF Fetch, Due
<1>6. ASSUME NEW w \in Workers, NEW n \in Messages, Send(w, n) \/ Mark(w, n) \/ Unmarked(w, n)
      PROVE  /\ note'[m] = note[m] /\ delivered'[m] = delivered[m]
             /\ \A v \in Workers : m \notin batch'[v]
  <2>1. n # m
    BY <1>1, <1>6 DEF Send, Mark, Unmarked, At
  <2> QED
    BY <1>1, <1>6, <2>1 DEF Send, Mark, Unmarked, PassOn
<1>7. ASSUME NEW w \in Workers, Crash(w)
      PROVE  /\ UNCHANGED <<note, delivered>>
             /\ \A v \in Workers : m \notin batch'[v]
  BY <1>1, <1>7 DEF Crash
<1>8. CASE UNCHANGED vars
  BY <1>1, <1>2, <1>8 DEF vars
<1> QED
  BY <1>1, <1>2, <1>3, <1>4, <1>5, <1>6, <1>7, <1>8 DEF Next, Dispatch, Handle

-----------------------------------------------------------------------------
(* The theorems.                                                           *)

LEMMA InitCounts == Init => AttemptsBounded /\ DeliveriesAccounted
<1> SUFFICES ASSUME Init PROVE AttemptsBounded /\ DeliveriesAccounted
  OBVIOUS
<1>1. \A n \in Messages : InHand(n) = {} /\ Unwritten(n) = {}
  BY DEF Init, InHand, Unwritten, At
<1>2. /\ \A n \in Messages : Cardinality(InHand(n)) = 0 /\ Cardinality(Unwritten(n)) = 0
      /\ Cardinality(Workers) \in Nat
  BY <1>1, FS_EmptySet, WorkersCounted
<1>3. \A n \in Messages : note[n].attempts = 0 /\ delivered[n] = 0
  BY DEF Init
<1>4. AttemptsBounded
  BY <1>2, <1>3, NumberAssumption DEF AttemptsBounded
<1>5. DeliveriesAccounted
  BY <1>2, <1>3 DEF Init, DeliveriesAccounted
<1> QED
  BY <1>4, <1>5

\* Every row and every batch keeps its type.
THEOREM Typed == Spec => []TypeOK
BY InitTyped, StepTyped, PTL DEF Spec

\* However many workers run, a message is attempted no more often than
\* MaxAttempts, and once more for each worker but one (NotifyRepo.Due).
THEOREM AttemptsAreBounded == Spec => []AttemptsBounded
BY Typed, InitCounts, StepBounded, PTL DEF Spec

\* However workers race and die, a customer gets a message no more often than
\* the table and the losses account for (Service.Dispatch).
THEOREM DeliveriesAreAccounted == Spec => []DeliveriesAccounted
BY Typed, InitCounts, StepAccounted, PTL DEF Spec

\* A message that is sent or given up, and in nobody's hand, is left alone for
\* ever (NotifyRepo.Due, MarkSent, MarkFailed).
THEOREM SettledStays == Spec => SettledIsFinal
<1>1. TypeOK /\ [Next]_vars =>
        [\A n \in Messages :
           Settled(n) => /\ Settled(n)'
                         /\ note'[n].status = note[n].status
                         /\ note'[n].attempts = note[n].attempts
                         /\ delivered'[n] = delivered[n]]_vars
  BY StepSettled
<1> QED
  BY <1>1, Typed, PTL DEF Spec, SettledIsFinal
=============================================================================
