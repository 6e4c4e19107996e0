------------------------------ MODULE OnceOnly ------------------------------
(***************************************************************************)
(* What an Idempotency-Key promises, said without rows and statements      *)
(* (docs/04 section 1): of the requests that carry one key one is          *)
(* executed, and every other is answered with that one's response, and     *)
(* only if its body is the same, until the key is forgotten.               *)
(***************************************************************************)
CONSTANTS Requests, NoRequest,
          KeyOf,      \* KeyOf[q], the key a request carries
          BodyOf      \* BodyOf[q], what it asks for

VARIABLES
  executed,   \* the requests that took effect
  expired,    \* those of them whose key has been forgotten since
  reply       \* reply[q]: the request whose response q was answered with

once == <<executed, expired, reply>>

Remembered == executed \ expired

OInit == /\ executed = {}
         /\ expired = {}
         /\ reply = [q \in Requests |-> NoRequest]

Execute(q) ==
  /\ q \notin executed
  /\ \A r \in Remembered : KeyOf[r] # KeyOf[q]
  /\ executed' = executed \cup {q}
  /\ UNCHANGED <<expired, reply>>

Reply(q, r) ==
  /\ reply[q] = NoRequest
  /\ r \in Remembered
  /\ KeyOf[r] = KeyOf[q] /\ BodyOf[r] = BodyOf[q]
  /\ reply' = [reply EXCEPT ![q] = r]
  /\ UNCHANGED <<executed, expired>>

\* A key is forgotten whole.
Expire(Q) ==
  /\ \A q \in Q, r \in executed : KeyOf[r] = KeyOf[q] => r \in Q \cup expired
  /\ Q \subseteq executed
  /\ expired' = expired \cup Q
  /\ UNCHANGED <<executed, reply>>

ONext == \/ \E q \in Requests : Execute(q)
         \/ \E q, r \in Requests : Reply(q, r)
         \/ \E Q \in SUBSET Requests : Expire(Q)

OSpec == OInit /\ [][ONext]_once
=============================================================================
