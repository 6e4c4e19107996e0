------------------------- MODULE IdempotencyProofs -------------------------
(***************************************************************************)
(* For any requests, keys and bodies: a key is held by one request at a    *)
(* time, an executed request's key is kept until it is swept, a key's      *)
(* request takes effect at most once, and what clients are answered        *)
(* implements OnceOnly.                                                    *)
(***************************************************************************)
EXTENDS Idempotency, TLAPS

States == {"NEW", "ABSENT"} \cup Running \cup Ended

\* What the place of a request says of its effect and its answer.
Progress ==
  \A q \in Requests :
    /\ at[q] \in {"NEW", "ABSENT", "RUNNING"} => q \notin took
    /\ at[q] = "SUCCEEDED" => q \in took \ forgotten
    /\ at[q] # "ANSWERED" => answer[q] = NoRequest

\* A stored response is that of a request which took effect, carried the row's
\* key and body, and has not been swept.
StoredTookEffect ==
  \A k \in Keys :
    LET r == keys[k].response IN
    r # NoRequest => /\ Present(k)
                     /\ r \in took \ forgotten
                     /\ KeyOf[r] = k
                     /\ BodyOf[r] = BodyOf[keys[k].by]

\* The inductive invariant.  OneRunner and KeyIsKept carry AtMostOnce: who is
\* about to take effect holds the row, so nobody else's effect is remembered.
IInv == /\ TypeOK
        /\ Progress
        /\ OneRunner
        /\ KeyIsKept
        /\ AtMostOnce
        /\ StoredTookEffect

USE DEF Running, Ended, States, NoRow, NewRow

-----------------------------------------------------------------------------
(* The initial state and the steps that touch no table.                    *)

LEMMA InitInv == Init => IInv
<1> SUFFICES ASSUME Init PROVE IInv
  OBVIOUS
<1>1. TypeOK
  BY DEF Init, TypeOK, Row
<1>2. Progress /\ OneRunner /\ KeyIsKept /\ AtMostOnce
  BY DEF Init, Progress, OneRunner, KeyIsKept, AtMostOnce
<1>3. StoredTookEffect
  BY DEF Init, StoredTookEffect
<1> QED
  BY <1>1, <1>2, <1>3 DEF IInv

\* A request that goes on or ends without a statement that changes the tables,
\* and without an answer other requests are told of.
LEMMA QuietStep ==
  ASSUME IInv, NEW q \in Requests, NEW there \in States,
         Goto(q, there), UNCHANGED <<keys, answer, took, forgotten>>,
         there \in Running => at[q] \in Running,
         there \in {"NEW", "ABSENT", "RUNNING"} => q \notin took,
         there = "SUCCEEDED" => at[q] = "SUCCEEDED",
         there = "ANSWERED" \/ at[q] # "ANSWERED",
         q \in took => there = "LOST" \/ ~Prompt(q) \/ at[q] = "FAILED"
  PROVE  IInv'
<1> USE KeyAssumption DEF IInv, TypeOK, Goto
<1>1. \A r \in Requests : at'[r] = IF r = q THEN there ELSE at[r]
  OBVIOUS
<1>2. TypeOK'
  BY DEF Row
<1>3. Progress'
  BY <1>1 DEF Progress
<1>4. OneRunner'
  BY <1>1 DEF OneRunner
<1>5. KeyIsKept'
  BY <1>1 DEF KeyIsKept, Present, Prompt
<1>6. AtMostOnce'
  BY DEF AtMostOnce, Prompt
<1>7. StoredTookEffect'
  BY DEF StoredTookEffect, Present
<1> QED
  BY <1>2, <1>3, <1>4, <1>5, <1>6, <1>7

LEMMA QuietActions ==
  ASSUME IInv, NEW q \in Requests,
         \/ FindNothing(q) \/ Conflict(q) \/ Beaten(q)
         \/ Refuse(q) \/ Unabandoned(q) \/ Lose(q)
  PROVE  IInv'
<1>1. at[q] \in {"NEW", "ABSENT", "RUNNING"} => q \notin took
  BY DEF IInv, Progress
<1>2. CASE FindNothing(q)
  BY <1>1, <1>2, QuietStep DEF FindNothing
<1>3. CASE Conflict(q)
  BY <1>1, <1>3, QuietStep DEF Conflict
<1>4. CASE Beaten(q)
  BY <1>1, <1>4, QuietStep DEF Beaten
<1>5. CASE Refuse(q)
  BY <1>1, <1>5, QuietStep DEF Refuse
<1>6. CASE Unabandoned(q)
  BY <1>6, QuietStep DEF Unabandoned
<1>7. CASE Lose(q)
  BY <1>7, QuietStep DEF Lose
<1> QED
  BY <1>2, <1>3, <1>4, <1>5, <1>6, <1>7

-----------------------------------------------------------------------------
(* The steps on the tables.                                                *)

\* Whoever runs holds the row: no effect of the key is remembered but its own.
LEMMA RunnerAlone ==
  ASSUME IInv, NEW q \in Requests, at[q] \in Running
  PROVE  \A r \in took \ forgotten : Prompt(r) /\ KeyOf[r] = KeyOf[q] => r = q
BY DEF IInv, TypeOK, KeyIsKept

LEMMA ReplayKeeps ==
  ASSUME IInv, NEW q \in Requests, Replay(q)
  PROVE  IInv'
<1> USE KeyAssumption DEF IInv, TypeOK, Goto, AnswerWith, Replay
<1>1. \A r \in Requests : at'[r] = IF r = q THEN "ANSWERED" ELSE at[r]
  OBVIOUS
<1>2. \A r \in Requests \ {q} : answer'[r] = answer[r]
  OBVIOUS
<1>3. TypeOK'
  BY DEF Row
<1>4. Progress'
  BY <1>1, <1>2 DEF Progress
<1>5. OneRunner'
  BY <1>1 DEF OneRunner
<1>6. KeyIsKept'
  BY <1>1 DEF KeyIsKept, Present, Prompt
<1>7. AtMostOnce' /\ StoredTookEffect'
  BY DEF AtMostOnce, Prompt, StoredTookEffect, Present
<1> QED
  BY <1>3, <1>4, <1>5, <1>6, <1>7

LEMMA UnrecordedKeeps ==
  ASSUME IInv, NEW q \in Requests, Unrecorded(q)
  PROVE  IInv'
<1> USE KeyAssumption DEF IInv, TypeOK, Goto, AnswerWith, Unrecorded
<1>1. \A r \in Requests : at'[r] = IF r = q THEN "ANSWERED" ELSE at[r]
  OBVIOUS
<1>2. \A r \in Requests \ {q} : answer'[r] = answer[r]
  OBVIOUS
<1>3. TypeOK'
  BY DEF Row
<1>4. Progress'
  BY <1>1, <1>2 DEF Progress
<1>5. OneRunner'
  BY <1>1 DEF OneRunner
<1>6. KeyIsKept'
  BY <1>1 DEF KeyIsKept, Present, Prompt
<1>7. AtMostOnce' /\ StoredTookEffect'
  BY DEF AtMostOnce, Prompt, StoredTookEffect, Present
<1> QED
  BY <1>3, <1>4, <1>5, <1>6, <1>7

LEMMA ClaimKeeps ==
  ASSUME IInv, NEW q \in Requests, Claim(q)
  PROVE  IInv'
<1> USE KeyAssumption DEF IInv, TypeOK, Goto, Claim
<1>1. \A r \in Requests : at'[r] = IF r = q THEN "RUNNING" ELSE at[r]
  OBVIOUS
<1>2. KeyOf[q] \in Keys /\ keys'[KeyOf[q]] = NewRow(q)
  OBVIOUS
<1>3. \A k \in Keys \ {KeyOf[q]} : keys'[k] = keys[k]
  OBVIOUS
<1>4. \A r \in Requests : KeyOf[r] = KeyOf[q] => at[r] \notin Running
  BY DEF OneRunner, Present
<1>5. TypeOK'
  BY DEF Row
<1>6. Progress'
  BY <1>1 DEF Progress
<1>7. OneRunner'
  BY <1>1, <1>2, <1>3, <1>4 DEF OneRunner
<1>8. \A r \in took \ forgotten : Prompt(r) => KeyOf[r] # KeyOf[q]
  BY DEF KeyIsKept
<1>9. KeyIsKept'
  BY <1>1, <1>3, <1>8 DEF KeyIsKept, Present, Prompt
<1>10. AtMostOnce'
  BY DEF AtMostOnce, Prompt
<1>11. StoredTookEffect'
  BY <1>2, <1>3 DEF StoredTookEffect, Present
<1> QED
  BY <1>5, <1>6, <1>7, <1>9, <1>10, <1>11

LEMMA HandlerKeeps ==
  ASSUME IInv, NEW q \in Requests, Succeed(q) \/ FailLate(q)
  PROVE  IInv'
<1> USE KeyAssumption DEF IInv, TypeOK, Goto
<1>1. /\ at[q] = "RUNNING" /\ took' = took \cup {q}
      /\ UNCHANGED <<keys, answer, forgotten>>
  BY DEF Succeed, FailLate
<1>2. PICK there \in {"SUCCEEDED", "FAILED"} :
        /\ \A r \in Requests : at'[r] = IF r = q THEN there ELSE at[r]
        /\ at' = [at EXCEPT ![q] = there]
        /\ there = "FAILED" => ~Prompt(q)
  BY DEF Succeed, FailLate, Prompt
<1>3. q \notin took /\ q \notin forgotten
  BY <1>1 DEF Progress
<1>4. TypeOK'
  BY <1>1, <1>2
<1>5. Progress'
  BY <1>1, <1>2, <1>3 DEF Progress
<1>6. OneRunner'
  BY <1>1, <1>2 DEF OneRunner
<1>7. \A r \in took \ forgotten : Prompt(r) => KeyOf[r] # KeyOf[q]
  BY <1>1, <1>3, RunnerAlone
<1>8. KeyIsKept'
  <2>1. Present(KeyOf[q]) /\ \A r \in Requests \ {q} : KeyOf[r] = KeyOf[q] => at[r] \notin Running
    BY <1>1 DEF OneRunner, Present
  <2> QED
    BY <1>1, <1>2, <1>7, <2>1 DEF KeyIsKept, Present, Prompt
<1>9. AtMostOnce'
  BY <1>1, <1>7 DEF AtMostOnce, Prompt
<1>10. StoredTookEffect'
  BY <1>1 DEF StoredTookEffect, Present
<1> QED
  BY <1>4, <1>5, <1>6, <1>8, <1>9, <1>10

LEMMA CompleteKeeps ==
  ASSUME IInv, NEW q \in Requests, Complete(q)
  PROVE  IInv'
<1> USE KeyAssumption DEF IInv, TypeOK, Goto, AnswerWith
<1>1. /\ at[q] = "SUCCEEDED"
      /\ answer' = [answer EXCEPT ![q] = q]
      /\ UNCHANGED <<took, forgotten>>
      /\ \A r \in Requests : at'[r] = IF r = q THEN "ANSWERED" ELSE at[r]
  BY DEF Complete
<1>2. /\ KeyOf[q] \in Keys /\ q \in took \ forgotten
      /\ keys[KeyOf[q]].by = q /\ ~keys[KeyOf[q]].old
  BY <1>1 DEF OneRunner, Progress
<1>3. keys' = [keys EXCEPT ![KeyOf[q]].response = q]
  BY <1>2 DEF Complete, Present
<1>4. /\ keys' \in [Keys -> Row]
      /\ keys'[KeyOf[q]].by = q /\ keys'[KeyOf[q]].response = q
      /\ \A k \in Keys \ {KeyOf[q]} : keys'[k] = keys[k]
  BY <1>2, <1>3 DEF Row
<1>5. TypeOK'
  BY <1>4 DEF Complete
<1>6. Progress'
  BY <1>1 DEF Progress
<1>7. \A r \in Requests \ {q} : KeyOf[r] = KeyOf[q] => at[r] \notin Running
  BY <1>1 DEF OneRunner
<1>8. OneRunner'
  BY <1>1, <1>4, <1>7 DEF OneRunner
<1>9. KeyIsKept'
  BY <1>1, <1>4 DEF KeyIsKept, Present, Prompt
<1>10. AtMostOnce'
  BY <1>1 DEF AtMostOnce, Prompt
<1>11. StoredTookEffect'
  BY <1>1, <1>2, <1>4 DEF StoredTookEffect, Present
<1> QED
  BY <1>5, <1>6, <1>8, <1>9, <1>10, <1>11

LEMMA AbandonKeeps ==
  ASSUME IInv, NEW q \in Requests, Abandon(q)
  PROVE  IInv'
<1> USE KeyAssumption DEF IInv, TypeOK, Goto
<1>1. /\ at[q] = "FAILED"
      /\ UNCHANGED <<answer, took, forgotten>>
      /\ \A r \in Requests : at'[r] = IF r = q THEN "REFUSED" ELSE at[r]
  BY DEF Abandon
<1>2. KeyOf[q] \in Keys /\ keys[KeyOf[q]].response = NoRequest
  BY <1>1 DEF OneRunner
<1>3. keys' = [keys EXCEPT ![KeyOf[q]] = NoRow]
  BY <1>2 DEF Abandon
<1>4. TypeOK'
  <2>1. NoRow \in Row
    BY DEF Row
  <2> QED
    BY <1>3, <2>1 DEF Abandon
<1>5. Progress'
  BY <1>1 DEF Progress
<1>6. \A r \in Requests \ {q} : KeyOf[r] = KeyOf[q] => at[r] \notin Running
  BY <1>1 DEF OneRunner
<1>7. OneRunner'
  BY <1>1, <1>3, <1>6 DEF OneRunner
<1>8. \A r \in took \ forgotten : Prompt(r) => KeyOf[r] # KeyOf[q]
  <2>1. q \in took \ forgotten => ~Prompt(q)
    BY <1>1 DEF KeyIsKept
  <2> QED
    BY <1>1, <2>1, RunnerAlone DEF Prompt
<1>9. KeyIsKept'
  BY <1>1, <1>3, <1>8 DEF KeyIsKept, Present, Prompt
<1>10. AtMostOnce'
  BY <1>1 DEF AtMostOnce, Prompt
<1>11. StoredTookEffect'
  BY <1>1, <1>3 DEF StoredTookEffect, Present
<1> QED
  BY <1>4, <1>5, <1>7, <1>9, <1>10, <1>11

LEMMA AgeKeeps ==
  ASSUME IInv, NEW k \in Keys, Age(k)
  PROVE  IInv'
<1> USE KeyAssumption DEF IInv, TypeOK
<1>1. /\ \A j \in Keys : /\ keys'[j].by = keys[j].by
                         /\ keys'[j].response = keys[j].response
      /\ \A j \in Keys \ {k} : keys'[j] = keys[j]
      /\ UNCHANGED <<at, answer, took, forgotten>>
  BY DEF Age, Row
<1>2. TypeOK'
  BY DEF Age, Row
<1>3. OneRunner'
  BY <1>1 DEF Age, OneRunner
<1>4. Progress' /\ AtMostOnce'
  BY <1>1 DEF Progress, AtMostOnce, Prompt
<1>5. KeyIsKept'
  BY <1>1 DEF KeyIsKept, Present, Prompt
<1>6. StoredTookEffect'
  BY <1>1 DEF StoredTookEffect, Present
<1> QED
  BY <1>2, <1>3, <1>4, <1>5, <1>6

LEMMA SweepKeeps ==
  ASSUME IInv, Sweep
  PROVE  IInv'
<1> USE KeyAssumption DEF IInv, TypeOK
<1>1. /\ \A k \in Keys : keys'[k] = IF keys[k].old THEN NoRow ELSE keys[k]
      /\ UNCHANGED <<at, answer, took>>
  BY DEF Sweep, Expired
<1>2. \A q \in took : q \notin forgotten' <=> q \notin forgotten /\ ~keys[KeyOf[q]].old
  BY DEF Sweep, Expired
<1>3. \A q \in Requests : at[q] \in Running => ~keys[KeyOf[q]].old
  BY DEF OneRunner
<1>4. TypeOK'
  BY DEF Sweep, Row
<1>5. Progress'
  BY <1>1, <1>2, <1>3 DEF Progress
<1>6. OneRunner'
  BY <1>1, <1>3 DEF OneRunner
<1>7. KeyIsKept'
  BY <1>1, <1>2 DEF KeyIsKept, Present, Prompt
<1>8. AtMostOnce'
  BY <1>1, <1>2 DEF AtMostOnce, Prompt
<1>9. StoredTookEffect'
  BY <1>1, <1>2 DEF StoredTookEffect, Present
<1> QED
  BY <1>4, <1>5, <1>6, <1>7, <1>8, <1>9

LEMMA StepInv == IInv /\ [Next]_vars => IInv'
<1> SUFFICES ASSUME IInv, [Next]_vars PROVE IInv'
  OBVIOUS
<1>1. ASSUME NEW q \in Requests, Serve(q) \/ Lose(q) PROVE IInv'
  BY <1>1, QuietActions, ReplayKeeps, UnrecordedKeeps, ClaimKeeps, HandlerKeeps,
     CompleteKeeps, AbandonKeeps DEF Serve, Begin, Handle, End
<1>2. ASSUME NEW k \in Keys, Age(k) PROVE IInv'
  BY <1>2, AgeKeeps
<1>3. CASE Sweep
  BY <1>3, SweepKeeps
<1>4. CASE UNCHANGED vars
  BY <1>4 DEF vars, IInv, TypeOK, Progress, OneRunner, KeyIsKept, AtMostOnce,
              StoredTookEffect, Present, Prompt
<1> QED
  BY <1>1, <1>2, <1>3, <1>4 DEF Next

LEMMA Invariant == Spec => []IInv
BY InitInv, StepInv, PTL DEF Spec

-----------------------------------------------------------------------------
(* The theorems.                                                           *)

\* At most one request of a key is between its claim and its last statement,
\* and the row is its own (IdempotencyRepo.Begin).
THEOREM OneRunnerAlways == Spec => []OneRunner
BY Invariant, PTL DEF IInv

\* An executed request's key stays claimed or answered until the worker sweeps
\* it, whatever was lost (IdempotencyRepo.Abandon, Complete, Sweep).
THEOREM KeysAreKept == Spec => []KeyIsKept
BY Invariant, PTL DEF IInv

\* No two requests of a key take effect while the key is remembered.
THEOREM ExecutedOnce == Spec => []AtMostOnce
BY Invariant, PTL DEF IInv

-----------------------------------------------------------------------------
(* What is stored stays.                                                   *)

\* A request that ends in its own row finds no response there (OneRunner), and a row
\* that holds one is present, so nobody claims its key (StoredTookEffect).
LEMMA StepStored ==
  ASSUME IInv, Next, NEW k \in Keys, keys[k].response # NoRequest
  PROVE  \/ keys'[k].response = keys[k].response
         \/ keys[k].old /\ ~Present(k)'
<1> USE KeyAssumption DEF IInv, TypeOK
<1>1. Present(k)
  BY DEF StoredTookEffect
<1>2. ASSUME NEW q \in Requests, at[q] \in Running PROVE KeyOf[q] # k
  BY <1>2 DEF OneRunner
<1>3. ASSUME NEW q \in Requests, Claim(q) PROVE keys'[k] = keys[k]
  BY <1>1, <1>3 DEF Claim
<1>4. ASSUME NEW q \in Requests, Complete(q) \/ Abandon(q) PROVE keys'[k] = keys[k]
  BY <1>2, <1>4 DEF Complete, Abandon
<1>5. ASSUME NEW j \in Keys, Age(j) PROVE keys'[k].response = keys[k].response
  BY <1>5 DEF Age, Row
<1>6. CASE Sweep
  BY <1>6 DEF Sweep, Expired, Present
<1>7. ASSUME NEW q \in Requests,
             \/ FindNothing(q) \/ Replay(q) \/ Conflict(q) \/ Beaten(q) \/ Succeed(q)
             \/ Refuse(q) \/ FailLate(q) \/ Unrecorded(q) \/ Unabandoned(q) \/ Lose(q)
      PROVE  keys' = keys
  BY <1>7 DEF FindNothing, Replay, Conflict, Beaten, Succeed, Refuse, FailLate,
              Unrecorded, Unabandoned, Lose
<1> QED
  BY <1>3, <1>4, <1>5, <1>6, <1>7 DEF Next, Serve, Begin, Handle, End

\* What a client was told stays what every later retry is told: no request of the key,
\* however late, overwrites or abandons a stored response, which goes only when the
\* worker sweeps it, old (IdempotencyRepo.Complete, Abandon, Sweep).
THEOREM StoredStays == Spec => StoredIsFinal
<1>1. IInv /\ [Next]_vars =>
        [\A k \in Keys : keys[k].response # NoRequest =>
           \/ keys'[k].response = keys[k].response
           \/ keys[k].old /\ ~Present(k)']_vars
  BY StepStored
<1> QED
  BY Invariant, <1>1, PTL DEF Spec, StoredIsFinal

-----------------------------------------------------------------------------
(* What clients are told implements OnceOnly.                              *)

Prompts == {q \in Requests : Prompt(q)}

LEMMA InitMapped == Init => Once!OInit
<1> SUFFICES ASSUME Init PROVE Once!OInit
  OBVIOUS
<1> QED
  BY DEF Init, Once!OInit

\* The mapped variables stand still when nothing takes effect, nothing is swept
\* and nobody is told anything.
LEMMA Stutter ==
  ASSUME UNCHANGED <<took, forgotten, answer>>
  PROVE  UNCHANGED Once!once
BY DEF Once!once

LEMMA AnswerMapped ==
  ASSUME IInv, NEW q \in Requests, NEW r \in took \ forgotten,
         KeyOf[r] = KeyOf[q], BodyOf[r] = BodyOf[q], at[q] # "ANSWERED",
         AnswerWith(q, r), UNCHANGED <<took, forgotten>>
  PROVE  [Once!ONext]_(Once!once)
<1> USE DEF IInv, TypeOK
<1>1. answer[q] = NoRequest
  BY DEF Progress
<1>2. CASE Prompt(q)
  <2>1. r \in Prompts /\ q \in Prompts
    BY <1>2 DEF Prompt, Prompts
  <2>2. Once!Reply(q, r)
    BY <1>1, <2>1, <1>2 DEF Once!Reply, Once!Remembered, AnswerWith, Prompts
  <2> QED
    BY <2>1, <2>2 DEF Once!ONext, Prompts
<1>3. CASE ~Prompt(q)
  BY <1>3 DEF Once!once, AnswerWith
<1> QED
  BY <1>2, <1>3

LEMMA HandlerMapped ==
  ASSUME IInv, NEW q \in Requests, Succeed(q) \/ FailLate(q)
  PROVE  [Once!ONext]_(Once!once)
<1> USE DEF IInv, TypeOK
<1>1. /\ at[q] = "RUNNING" /\ took' = took \cup {q} /\ UNCHANGED <<answer, forgotten>>
  BY DEF Succeed, FailLate
<1>2. CASE Prompt(q)
  <2>1. q \notin took
    BY <1>1 DEF Progress
  <2>2. \A r \in took \ forgotten : Prompt(r) => KeyOf[r] # KeyOf[q]
    BY <1>1, <2>1, RunnerAlone
  <2>3. {r \in took' : Prompt(r)} = {r \in took : Prompt(r)} \cup {q}
    BY <1>1, <1>2
  <2>4. Once!Execute(q)
    BY <1>1, <2>1, <2>2, <2>3 DEF Once!Execute, Once!Remembered, Prompt
  <2> QED
    BY <1>2, <2>4 DEF Once!ONext
<1>3. CASE ~Prompt(q)
  BY <1>1, <1>3 DEF Once!once, Prompt
<1> QED
  BY <1>2, <1>3

LEMMA SweepMapped ==
  ASSUME IInv, Sweep
  PROVE  [Once!ONext]_(Once!once)
<1> DEFINE Q == {q \in took : Prompt(q) /\ KeyOf[q] \in Expired}
<1> USE DEF IInv, TypeOK
<1>1. /\ forgotten' = forgotten \cup {q \in took : KeyOf[q] \in Expired}
      /\ UNCHANGED <<answer, took>>
  BY DEF Sweep
<1>2. {q \in forgotten' : Prompt(q)} = {q \in forgotten : Prompt(q)} \cup Q
  BY <1>1 DEF Prompt
<1>3. Once!Expire(Q)
  BY <1>1, <1>2 DEF Once!Expire, Prompt
<1>4. Q \in SUBSET {q \in Requests : Prompt(q)}
  OBVIOUS
<1> QED
  BY <1>3, <1>4 DEF Once!ONext

LEMMA StepMapped == IInv /\ [Next]_vars => [Once!ONext]_(Once!once)
<1> SUFFICES ASSUME IInv, [Next]_vars PROVE [Once!ONext]_(Once!once)
  OBVIOUS
<1>1. ASSUME NEW q \in Requests, Replay(q) PROVE [Once!ONext]_(Once!once)
  <2>1. LET r == keys[KeyOf[q]].response IN
        r \in took \ forgotten /\ KeyOf[r] = KeyOf[q] /\ BodyOf[r] = BodyOf[q]
    BY <1>1, KeyAssumption DEF Replay, SameBody, IInv, StoredTookEffect
  <2> QED
    BY <1>1, <2>1, AnswerMapped DEF Replay
<1>2. ASSUME NEW q \in Requests, Complete(q) \/ Unrecorded(q)
      PROVE  [Once!ONext]_(Once!once)
  <2>1. q \in took \ forgotten /\ at[q] # "ANSWERED"
    BY <1>2 DEF Complete, Unrecorded, IInv, Progress
  <2> QED
    BY <1>2, <2>1, AnswerMapped DEF Complete, Unrecorded
<1>3. ASSUME NEW q \in Requests, Succeed(q) \/ FailLate(q)
      PROVE  [Once!ONext]_(Once!once)
  BY <1>3, HandlerMapped
<1>4. CASE Sweep
  BY <1>4, SweepMapped
<1>5. ASSUME NEW q \in Requests,
             \/ FindNothing(q) \/ Conflict(q) \/ Claim(q) \/ Beaten(q)
             \/ Refuse(q) \/ Abandon(q) \/ Unabandoned(q) \/ Lose(q)
      PROVE  UNCHANGED Once!once
  BY <1>5, Stutter DEF FindNothing, Conflict, Claim, Beaten, Refuse, Abandon,
                       Unabandoned, Lose
<1>6. ASSUME NEW k \in Keys, Age(k) PROVE UNCHANGED Once!once
  BY <1>6, Stutter DEF Age
<1>7. CASE UNCHANGED vars
  BY <1>7, Stutter DEF vars
<1> QED
  BY <1>1, <1>2, <1>3, <1>4, <1>5, <1>6, <1>7 DEF Next, Serve, Begin, Handle, End

\* Whatever races, fails or is lost, each client is answered with the response
\* of its key's one execution and for the body it sent: the middleware and its
\* table implement OnceOnly.
THEOREM Refinement == Spec => ImplementsOnceOnly
<1>1. IInv /\ [Next]_vars => [Once!ONext]_(Once!once)
  BY StepMapped
<1> QED
  BY InitMapped, Invariant, <1>1, PTL DEF Spec, ImplementsOnceOnly, Once!OSpec
=============================================================================
