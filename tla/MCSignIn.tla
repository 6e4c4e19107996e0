------------------------------ MODULE MCSignIn ------------------------------
(***************************************************************************)
(* Instances of SignIn for TLC: one address and one phone that two rows of *)
(* customers compete for, and two provider accounts of that address, one   *)
(* the provider vouches for and one it does not.                           *)
(***************************************************************************)
EXTENDS SignIn, TLC

CONSTANTS q1, q2, c1, c2, mail, phone, google, other

MCEmailOf == [g \in Profiles |-> mail]

MCSymmetry == Permutations({q1, q2}) \cup Permutations({c1, c2})
=============================================================================
