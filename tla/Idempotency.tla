---------------------------- MODULE Idempotency ----------------------------
(***************************************************************************)
(* The Idempotency-Key middleware around a mutating endpoint, and its      *)
(* table idempotency_keys: a request claims its key with an INSERT, runs   *)
(* its handler, then stores the response or gives the key back; the worker *)
(* sweeps keys older than 48 hours.                                        *)
(*                                                                         *)
(* Each statement on the table is a transaction of its own, and the        *)
(* handler commits in between.  After any of them the request may be lost: *)
(* the process dies, or the handler panics (nothing here is deferred).     *)
(* Any statement may fail; those of a client that has hung up do, because  *)
(* they run under the request's context.                                   *)
(***************************************************************************)
EXTENDS FiniteSets

CONSTANTS
  Requests,     \* HTTP requests; a retry is a request of its own
  NoRequest,
  Keys,         \* (key, subject, endpoint), the table's unique index
  Bodies,
  KeyOf,        \* KeyOf[q]: the key a request carries
  BodyOf,       \* BodyOf[q]: its body, of which the table keeps the hash
  LateKeys      \* those of endpoints that can answer an error after their
                \* effects are committed: the services of payments.reject,
                \* payments.refund and ops.status return audit.Write's error

ASSUME KeyAssumption == /\ KeyOf \in [Requests -> Keys]
                        /\ BodyOf \in [Requests -> Bodies]
                        /\ LateKeys \subseteq Keys
                        /\ NoRequest \notin Requests

VARIABLES
  keys,        \* table idempotency_keys
  at,          \* where each request stands
  answer,      \* the request whose response each was answered with
  took,        \* the requests whose handler committed its effects
  forgotten    \* those of them whose key the worker swept

vars == <<keys, at, answer, took, forgotten>>

\* A row is named by the request that inserted it (its id and request_hash) and
\* holds the response some request stored.  by = NoRequest: there is no row.
Row == [by : Requests \cup {NoRequest}, response : Requests \cup {NoRequest},
        old : BOOLEAN]

NewRow(q) == [by |-> q, response |-> NoRequest, old |-> FALSE]

NoRow == NewRow(NoRequest)

\* Answered with a success, answered with an error, never answered.
Ended == {"ANSWERED", "REFUSED", "LOST"}

\* Holds the key: between the INSERT and the last statement.
Running == {"RUNNING", "SUCCEEDED", "FAILED"}

Init == /\ keys = [k \in Keys |-> NoRow]
        /\ at = [q \in Requests |-> "NEW"]
        /\ answer = [q \in Requests |-> NoRequest]
        /\ took = {}
        /\ forgotten = {}

Present(k) == keys[k].by # NoRequest

Goto(q, there) == at' = [at EXCEPT ![q] = there]

AnswerWith(q, r) == answer' = [answer EXCEPT ![q] = r]

-----------------------------------------------------------------------------
(* IdempotencyRepo.Begin.                                                  *)

\* Mutant: the request hash is not compared.
AnyBody(q) == Present(KeyOf[q])

SameBody(q) == BodyOf[keys[KeyOf[q]].by] = BodyOf[q]

\* Begin's SELECT finds no row: go on to the INSERT.
FindNothing(q) ==
  /\ at[q] = "NEW"
  /\ ~Present(KeyOf[q])
  /\ Goto(q, "ABSENT")
  /\ UNCHANGED <<keys, answer, took, forgotten>>

\* It finds a stored response to the same body: the middleware sends it.
Replay(q) ==
  LET row == keys[KeyOf[q]] IN
  /\ at[q] = "NEW"
  /\ Present(KeyOf[q]) /\ SameBody(q) /\ row.response # NoRequest
  /\ Goto(q, "ANSWERED")
  /\ AnswerWith(q, row.response)
  /\ UNCHANGED <<keys, took, forgotten>>

\* It finds another body, or a request still in flight: 409.
Conflict(q) ==
  /\ at[q] = "NEW"
  /\ Present(KeyOf[q])
  /\ ~SameBody(q) \/ keys[KeyOf[q]].response = NoRequest
  /\ Goto(q, "REFUSED")
  /\ UNCHANGED <<keys, answer, took, forgotten>>

\* Mutant: the claim is an upsert, the unique index does not stop it.
ClaimOver(q) ==
  /\ at[q] = "ABSENT"
  /\ keys' = [keys EXCEPT ![KeyOf[q]] = NewRow(q)]
  /\ Goto(q, "RUNNING")
  /\ UNCHANGED <<answer, took, forgotten>>

\* The INSERT claims the key.
Claim(q) ==
  /\ at[q] = "ABSENT"
  /\ ~Present(KeyOf[q])
  /\ keys' = [keys EXCEPT ![KeyOf[q]] = NewRow(q)]
  /\ Goto(q, "RUNNING")
  /\ UNCHANGED <<answer, took, forgotten>>

\* Somebody claimed it since the SELECT: the unique index refuses, 409.
Beaten(q) ==
  /\ at[q] = "ABSENT"
  /\ Present(KeyOf[q])
  /\ Goto(q, "REFUSED")
  /\ UNCHANGED <<keys, answer, took, forgotten>>

-----------------------------------------------------------------------------
(* The handler, c.Next().                                                  *)

Succeed(q) ==
  /\ at[q] = "RUNNING"
  /\ took' = took \cup {q}
  /\ Goto(q, "SUCCEEDED")
  /\ UNCHANGED <<keys, answer, forgotten>>

Refuse(q) ==
  /\ at[q] = "RUNNING"
  /\ Goto(q, "FAILED")
  /\ UNCHANGED <<keys, answer, took, forgotten>>

\* Effects committed, and an error answered.
FailLate(q) ==
  /\ at[q] = "RUNNING"
  /\ KeyOf[q] \in LateKeys
  /\ took' = took \cup {q}
  /\ Goto(q, "FAILED")
  /\ UNCHANGED <<keys, answer, forgotten>>

-----------------------------------------------------------------------------
(* After the handler.                                                      *)

\* IdempotencyRepo.Complete updates the key's row, whoever inserted it.
Complete(q) ==
  /\ at[q] = "SUCCEEDED"
  /\ keys' = IF Present(KeyOf[q]) THEN [keys EXCEPT ![KeyOf[q]].response = q] ELSE keys
  /\ Goto(q, "ANSWERED")
  /\ AnswerWith(q, q)
  /\ UNCHANGED <<took, forgotten>>

\* Its failure is logged and the client still answered.
Unrecorded(q) ==
  /\ at[q] = "SUCCEEDED"
  /\ Goto(q, "ANSWERED")
  /\ AnswerWith(q, q)
  /\ UNCHANGED <<keys, took, forgotten>>

\* IdempotencyRepo.Abandon deletes the key's row unless it holds a response.
Abandon(q) ==
  /\ at[q] = "FAILED"
  /\ keys' = IF keys[KeyOf[q]].response = NoRequest
             THEN [keys EXCEPT ![KeyOf[q]] = NoRow] ELSE keys
  /\ Goto(q, "REFUSED")
  /\ UNCHANGED <<answer, took, forgotten>>

\* Its failure is ignored.
Unabandoned(q) ==
  /\ at[q] = "FAILED"
  /\ Goto(q, "REFUSED")
  /\ UNCHANGED <<keys, answer, took, forgotten>>

\* Mutant: whoever is lost gives the key back, also after its handler committed.
LoseAndFree(q) ==
  /\ at[q] \notin Ended
  /\ Goto(q, "LOST")
  /\ keys' = IF at[q] \in Running THEN [keys EXCEPT ![KeyOf[q]] = NoRow] ELSE keys
  /\ UNCHANGED <<answer, took, forgotten>>

Lose(q) ==
  /\ at[q] \notin Ended
  /\ Goto(q, "LOST")
  /\ UNCHANGED <<keys, answer, took, forgotten>>

-----------------------------------------------------------------------------
(* Time and the worker.                                                    *)

\* A row passes 48 hours.  A request lasts seconds, so its own row is young.
Age(k) ==
  /\ Present(k) /\ ~keys[k].old
  /\ \A q \in Requests : KeyOf[q] = k => at[q] \notin Running
  /\ keys' = [keys EXCEPT ![k].old = TRUE]
  /\ UNCHANGED <<at, answer, took, forgotten>>

\* Mutant: only answered keys are swept.
ExpiredAnswered == {k \in Keys : keys[k].old /\ keys[k].response # NoRequest}

Expired == {k \in Keys : keys[k].old}

\* IdempotencyRepo.Sweep, in the worker's process.
Sweep ==
  /\ Expired # {}
  /\ keys' = [k \in Keys |-> IF k \in Expired THEN NoRow ELSE keys[k]]
  /\ forgotten' = forgotten \cup {q \in took : KeyOf[q] \in Expired}
  /\ UNCHANGED <<at, answer, took>>

-----------------------------------------------------------------------------
Begin(q) == FindNothing(q) \/ Replay(q) \/ Conflict(q) \/ Claim(q) \/ Beaten(q)

Handle(q) == Succeed(q) \/ Refuse(q) \/ FailLate(q)

End(q) == Complete(q) \/ Unrecorded(q) \/ Abandon(q) \/ Unabandoned(q)

Serve(q) == Begin(q) \/ Handle(q) \/ End(q)

Next == \/ \E q \in Requests : Serve(q) \/ Lose(q)
        \/ \E k \in Keys : Age(k)
        \/ Sweep

Spec == Init /\ [][Next]_vars

\* A request that was begun is served or lost, time passes, and the worker's
\* hourly ticker fires for as long as it is restarted (Restart=always).
Fairness == /\ \A q \in Requests : WF_vars(Serve(q))
            /\ \A k \in Keys : WF_vars(Age(k))
            /\ WF_vars(Sweep)

FairSpec == Spec /\ Fairness

-----------------------------------------------------------------------------
(* What it promises.                                                       *)

TypeOK == /\ keys \in [Keys -> Row]
          /\ at \in [Requests -> {"NEW", "ABSENT"} \cup Running \cup Ended]
          /\ answer \in [Requests -> Requests \cup {NoRequest}]
          /\ took \subseteq Requests
          /\ forgotten \subseteq took

\* Of the requests that carry a key at most one runs its handler at a time, and
\* the row is its own and waits for its response, whatever was lost, retried or
\* swept (support.go:229-240).
OneRunner ==
  \A q \in Requests :
    at[q] \in Running =>
      /\ keys[KeyOf[q]].by = q
      /\ keys[KeyOf[q]].response = NoRequest
      /\ ~keys[KeyOf[q]].old
      /\ \A r \in Requests \ {q} : KeyOf[r] = KeyOf[q] => at[r] \notin Running

Prompt(q) == KeyOf[q] \notin LateKeys

\* What keeps a second execution away: an executed request's row is there until
\* it is swept, whatever became of the request, and nobody else of the key runs.
KeyIsKept ==
  \A q \in took \ forgotten :
    Prompt(q) =>
      /\ Present(KeyOf[q])
      /\ at[q] \in {"SUCCEEDED", "ANSWERED", "LOST"}
      /\ \A r \in Requests \ {q} : KeyOf[r] = KeyOf[q] => at[r] \notin Running

\* A key's request takes effect at most once until the key is swept: no retry,
\* no race and no crash between commit and response executes an order twice
\* (docs/04 section 1).  Endpoints that answer an error after their commit give
\* the key back and are left to their own guards.
AtMostOnce ==
  \A q, r \in took \ forgotten : Prompt(q) /\ KeyOf[q] = KeyOf[r] => q = r

\* Every answer is the response of the one execution: what clients are told
\* implements OnceOnly (docs/04 section 1, "returns the original response").
Once ==
  INSTANCE OnceOnly WITH
    Requests <- {q \in Requests : Prompt(q)},
    executed <- {q \in took : Prompt(q)},
    expired <- {q \in forgotten : Prompt(q)},
    reply <- [q \in {r \in Requests : Prompt(r)} |-> answer[q]]

ImplementsOnceOnly == Once!OSpec

\* A stored response is never overwritten nor abandoned by a later request of
\* the key; only the worker, and only when it is old, removes it.
StoredIsFinal ==
  [][\A k \in Keys : keys[k].response # NoRequest =>
       \/ keys'[k].response = keys[k].response
       \/ keys[k].old /\ ~Present(k)']_vars

\* A key left claimed by a request that is gone is free again some day, so a
\* crash never refuses a customer's key for ever.
KeysAreFreed ==
  \A k \in Keys :
    (Present(k) /\ \A q \in Requests : KeyOf[q] = k => at[q] \notin Running)
      ~> ~Present(k)

\* Said of the program, and not so: "A failed request abandons its key so the
\* caller may retry" (http/idempotency.go:17-18).
FailedFreesItsKey ==
  \A k \in Keys : Present(k) /\ keys[k].response = NoRequest => at[keys[k].by] # "REFUSED"
=============================================================================
