-------------------------- MODULE MCNotifications --------------------------
(***************************************************************************)
(* An instance of Notifications for TLC: two messages, the second of an    *)
(* order that is ready, and two workers.                                   *)
(***************************************************************************)
EXTENDS Notifications

CONSTANTS w1, w2
=============================================================================
