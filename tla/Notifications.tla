--------------------------- MODULE Notifications ---------------------------
(***************************************************************************)
(* Telling a customer: the service queues a message after its order        *)
(* transaction has committed, and the worker sends what is due in batches, *)
(* retrying failures a bounded number of times.                            *)
(*                                                                         *)
(* Nothing ties the steps together: the request may die between the commit *)
(* and the INSERT, the worker between the provider's answer and the        *)
(* UPDATE, and the UPDATE's own failure is ignored.  A worker handles the  *)
(* messages of a batch as it fetched them, whatever another does meanwhile.*)
(***************************************************************************)
EXTENDS Integers, FiniteSets

CONSTANTS
  Messages,      \* numbered in the order they are queued (created_at)
  Ready,         \* the order_ready messages, which Advance queues
  Workers,       \* processes that dispatch; docs/14 installs one
  MaxAttempts,   \* 5 in NotifyRepo.Due
  BatchLimit,    \* 25 in the worker
  MaxLosses      \* how often a worker dies or an UPDATE fails, for the counters

ASSUME MessageAssumption == Messages \subseteq Int /\ Ready \subseteq Messages
ASSUME WorkerAssumption == IsFiniteSet(Workers)
ASSUME NumberAssumption == /\ MaxAttempts \in Nat \ {0}
                           /\ BatchLimit \in Nat \ {0}
                           /\ MaxLosses \in Nat

VARIABLES
  note,        \* table notifications, and what became of a message before it
  batch,       \* batch[w]: what a worker fetched and has not dealt with
  outcome,     \* outcome[w]: what the provider answered, not yet written
  delivered,   \* delivered[n]: how often the customer got it
  losses       \* how many outcomes and batches were lost

vars == <<note, batch, outcome, delivered, losses>>

\* Before the table: the event has not happened, the order transaction has
\* committed, Queue has failed.  Never in it: the failure is in the audit log, it
\* is not, the process died.
Before == {"NONE", "OWED", "UNQUEUED"}
Never == {"AUDITED", "UNTOLD", "CUT"}
Pending == {"queued", "failed"}
InTable == Pending \cup {"sent"}

\* waiting: next_attempt_at lies ahead.
Note == [status : Before \cup Never \cup InTable, attempts : Nat, waiting : BOOLEAN]

Init ==
  /\ note = [n \in Messages |-> [status |-> "NONE", attempts |-> 0, waiting |-> FALSE]]
  /\ batch = [w \in Workers |-> {}]
  /\ outcome = [w \in Workers |-> "NONE"]
  /\ delivered = [n \in Messages |-> 0]
  /\ losses = 0

-----------------------------------------------------------------------------
(* The request, after its order transaction.                               *)

Become(n, from, to) ==
  /\ note[n].status = from
  /\ note' = [note EXCEPT ![n].status = to]
  /\ UNCHANGED <<batch, outcome, delivered, losses>>

\* The order is created, its payment verified, or the kitchen has it ready.
Owe(n) == Become(n, "NONE", "OWED")

\* Composer.Queue, then NotifyRepo.Queue: due at once.
Queue(n) ==
  /\ \A m \in Messages : m > n => note[m].status \notin InTable
  /\ Become(n, "OWED", "queued")

\* A read before it, the template or the INSERT fails; notifyFailed follows.
QueueFails(n) == Become(n, "OWED", "UNQUEUED")

Audit(n) == Become(n, "UNQUEUED", "AUDITED")

\* notifyFailed drops audit.Write's error; it ran under the request's context,
\* like what failed before it.
AuditFails(n) == Become(n, "UNQUEUED", "UNTOLD")

\* Advance skips the message when it cannot read the store.
StoreUnread(n) == n \in Ready /\ Become(n, "OWED", "UNTOLD")

Cut(n) == Become(n, "OWED", "CUT") \/ Become(n, "UNQUEUED", "CUT")

-----------------------------------------------------------------------------
(* The worker.                                                             *)

\* Mutant: what has been sent is due again.
EligibleSent ==
  {n \in Messages : /\ note[n].status \in InTable
                    /\ ~note[n].waiting
                    /\ note[n].attempts < MaxAttempts}

\* Mutant: one attempt more.
EligibleOnceMore ==
  {n \in Messages : /\ note[n].status \in Pending
                    /\ ~note[n].waiting
                    /\ note[n].attempts <= MaxAttempts}

\* Mutant: a failed message is never due again.
EligibleQueued ==
  {n \in Messages : /\ note[n].status = "queued"
                    /\ ~note[n].waiting
                    /\ note[n].attempts < MaxAttempts}

Eligible ==
  {n \in Messages : /\ note[n].status \in Pending
                    /\ ~note[n].waiting
                    /\ note[n].attempts < MaxAttempts}

\* The oldest of them, up to the limit.
Due(B) ==
  /\ B \subseteq Eligible
  /\ Cardinality(B) <= BatchLimit
  /\ B = Eligible \/ Cardinality(B) = BatchLimit
  /\ \A n \in B, m \in Eligible \ B : n < m

\* The ticker, when the last batch is dealt with.
Fetch(w) ==
  /\ batch[w] = {}
  /\ \E B \in SUBSET Messages :
       /\ B # {} /\ Due(B)
       /\ batch' = [batch EXCEPT ![w] = B]
  /\ UNCHANGED <<note, outcome, delivered, losses>>

\* The message a worker has come to.
At(w, n) == n \in batch[w] /\ \A m \in batch[w] : n <= m

\* The provider answers, or is not heard of in 15 seconds, when it may or may not
\* have accepted the message.
Send(w, n) ==
  /\ At(w, n)
  /\ outcome[w] = "NONE"
  /\ \E answer \in {"sent", "failed"}, accepted \in BOOLEAN :
       /\ answer = "sent" => accepted
       /\ outcome' = [outcome EXCEPT ![w] = answer]
       /\ delivered' = [delivered EXCEPT ![n] = IF accepted THEN @ + 1 ELSE @]
  /\ UNCHANGED <<note, batch, losses>>

PassOn(w, n) == /\ batch' = [batch EXCEPT ![w] = @ \ {n}]
               /\ outcome' = [outcome EXCEPT ![w] = "NONE"]

\* Mutant: a failure is recorded without counting the attempt.
MarkUncounted(w, n) ==
  /\ At(w, n)
  /\ outcome[w] # "NONE"
  /\ note' = [note EXCEPT ![n] =
                [status |-> outcome[w],
                 attempts |-> IF outcome[w] = "sent" THEN @.attempts + 1 ELSE @.attempts,
                 waiting |-> outcome[w] = "failed"]]
  /\ PassOn(w, n)
  /\ UNCHANGED <<delivered, losses>>

\* MarkSent or MarkFailed: by id, on whatever the row has become; a failure backs
\* off, at least two minutes.
Mark(w, n) ==
  /\ At(w, n)
  /\ outcome[w] # "NONE"
  /\ note' = [note EXCEPT ![n] =
                [status |-> outcome[w],
                 attempts |-> @.attempts + 1,
                 waiting |-> IF outcome[w] = "failed" THEN TRUE ELSE @.waiting]]
  /\ PassOn(w, n)
  /\ UNCHANGED <<delivered, losses>>

\* The UPDATE fails, Dispatch goes on.
Unmarked(w, n) ==
  /\ losses < MaxLosses
  /\ At(w, n)
  /\ outcome[w] # "NONE"
  /\ PassOn(w, n)
  /\ losses' = losses + 1
  /\ UNCHANGED <<note, delivered>>

\* The worker dies or is stopped, and starts again with nothing in hand.
Crash(w) ==
  /\ losses < MaxLosses
  /\ batch[w] # {}
  /\ batch' = [batch EXCEPT ![w] = {}]
  /\ outcome' = [outcome EXCEPT ![w] = "NONE"]
  /\ losses' = losses + 1
  /\ UNCHANGED <<note, delivered>>

\* The back-off is over.
Elapse(n) ==
  /\ note[n].waiting
  /\ note' = [note EXCEPT ![n].waiting = FALSE]
  /\ UNCHANGED <<batch, outcome, delivered, losses>>

-----------------------------------------------------------------------------
Tell(n) == \/ Owe(n) \/ Queue(n) \/ QueueFails(n) \/ Audit(n) \/ AuditFails(n)
           \/ StoreUnread(n) \/ Cut(n)

Handle(w, n) == Send(w, n) \/ Mark(w, n)

Dispatch(w) == Fetch(w) \/ \E n \in Messages : Handle(w, n)

Next == \/ \E n \in Messages : Tell(n) \/ Elapse(n)
        \/ \E w \in Workers : \/ Dispatch(w)
                              \/ \E n \in Messages : Unmarked(w, n)
                              \/ Crash(w)

Spec == Init /\ [][Next]_vars

\* A running worker goes on with its batch and its ticker, systemd starts it
\* again, and time passes.  Nobody has to order anything.
Fairness == /\ \A w \in Workers : WF_vars(Dispatch(w))
            /\ \A n \in Messages : WF_vars(Elapse(n))

FairSpec == Spec /\ Fairness

-----------------------------------------------------------------------------
(* What it promises.                                                       *)

TypeOK == /\ note \in [Messages -> Note]
          /\ batch \in [Workers -> SUBSET Messages]
          /\ outcome \in [Workers -> {"NONE", "sent", "failed"}]
          /\ delivered \in [Messages -> Nat]
          /\ losses \in Nat

\* The workers that hold a message, and those of them that have its outcome.
InHand(n) == {w \in Workers : n \in batch[w]}
Unwritten(n) == {w \in Workers : outcome[w] # "NONE" /\ At(w, n)}

\* Attempts are bounded (BR-2.10.4): by MaxAttempts with the one worker that is
\* installed, and by one more for every other worker that fetched the message
\* before the last attempt was written.
AttemptsBounded ==
  \A n \in Messages :
    note[n].attempts + Cardinality(InHand(n)) <= MaxAttempts - 1 + Cardinality(Workers)

\* A customer gets a message no more often than attempts are on record, but for
\* crashes, failed UPDATEs and outcomes about to be written: no race of two
\* workers sends anything that is not counted (BR-2.10.4, "every notification
\* send is logged").
DeliveriesAccounted ==
  \A n \in Messages :
    delivered[n] <= note[n].attempts + losses + Cardinality(Unwritten(n))

\* Sent, or tried as often as it may be, and in no worker's hand any more.
Settled(n) == /\ note[n].status \in InTable
              /\ note[n].status = "sent" \/ note[n].attempts >= MaxAttempts
              /\ InHand(n) = {}

\* A settled message is never fetched, sent or written again, by however many
\* workers.
SettledIsFinal ==
  [][\A n \in Messages :
       Settled(n) => /\ Settled(n)'
                     /\ note'[n].status = note[n].status
                     /\ note'[n].attempts = note[n].attempts
                     /\ delivered'[n] = delivered[n]]_vars

\* A queued message is settled some day: no batch, back-off, crash or older
\* message that keeps failing holds it up for ever (BR-2.10.4).
EverySettles ==
  \A n \in Messages : note[n].status = "queued" ~> Settled(n)

\* Said of the program, and not so: "Every failure lands in the audit log"
\* (paymentsvc.go:202-204).
FailureIsAudited ==
  \A n \in Messages : note[n].status # "UNTOLD"
=============================================================================
