--------------------------- MODULE MCIdempotency ---------------------------
(***************************************************************************)
(* An instance of Idempotency for TLC: a checkout's key carried by three   *)
(* requests, two of them the same and one with another body, and a key of  *)
(* an endpoint that can fail late.                                         *)
(***************************************************************************)
EXTENDS Idempotency, TLC

CONSTANTS q1, q2, q3, r1, checkout, reject, cart, other

MCKeyOf == [q \in Requests |-> IF q = r1 THEN reject ELSE checkout]
MCBodyOf == [q \in Requests |-> IF q = q3 THEN other ELSE cart]
=============================================================================
