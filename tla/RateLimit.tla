----------------------------- MODULE RateLimit -----------------------------
(***************************************************************************)
(* The in-memory token buckets: src/internal/platform/ratelimit.  Tokens   *)
(* are counted in parts, Window to a token, so that a bucket refills by    *)
(* Burst parts a tick.  The clock is read just before the lock is taken:   *)
(* the two are one instant here.                                           *)
(***************************************************************************)
EXTENDS Integers

CONSTANTS
  Burst,    \* tokens of a full bucket
  Window,   \* ticks in which an empty one fills
  BucketTTL \* ticks after which Sweep drops an untouched one

ASSUME RuleAssumption == {Burst, Window, BucketTTL} \subseteq Int

Full == Burst * Window

Bucket == [tokens : Int, lastSeen : Int]

\* A key that has no bucket yet, or none any more.
NoBucket == [tokens |-> 0, lastSeen |-> -1]

Unlimited == Burst <= 0 \/ Window <= 0

\* Mutant: a bucket that is left alone fills without end.
RefilledWithoutEnd(b, now) ==
  IF b = NoBucket THEN Full ELSE b.tokens + (now - b.lastSeen) * Burst

\* The tokens a bucket holds at an instant.
Refilled(b, now) ==
  IF b = NoBucket THEN Full
  ELSE IF now <= b.lastSeen THEN b.tokens
  ELSE IF b.tokens + (now - b.lastSeen) * Burst > Full THEN Full
  ELSE b.tokens + (now - b.lastSeen) * Burst

Seen(b, now) == IF b # NoBucket /\ now <= b.lastSeen THEN b.lastSeen ELSE now

Allows(b, now) == Unlimited \/ Refilled(b, now) >= Window

\* Allow, with whatever it answered.
Allow(b, now) ==
  IF Unlimited THEN b
  ELSE [tokens |-> IF Refilled(b, now) >= Window THEN Refilled(b, now) - Window
                   ELSE Refilled(b, now),
        lastSeen |-> Seen(b, now)]

\* Sweep, of one bucket.
Sweep(b, now) == IF b.lastSeen < now - BucketTTL THEN NoBucket ELSE b
=============================================================================
