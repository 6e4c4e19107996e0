----------------------------- MODULE MCSessions -----------------------------
(***************************************************************************)
(* Instances of Sessions for TLC: an administrator and a colleague, who    *)
(* may become either's equal, one store, one customer.                     *)
(***************************************************************************)
EXTENDS Sessions, TLC

CONSTANTS q1, q2, boss, worker, customer, store

Row(role, group) == [role |-> role, group |-> group, active |-> TRUE]

MCFirstStaff == [u \in Staff |-> IF u = boss THEN Row("admin", FALSE) ELSE NoAccount]

MCFirstStores == [u \in Staff |-> {}]

MCStaffInputs == {Row("store_manager", FALSE), Row("kitchen", FALSE)}

MCStoreInputs == {{}, {store}}

\* One route of each scope.
MCRoutes == {r \in Routes :
               r.op \in {"adminUpdateStaff", "adminReplaceHours", "opsTicket", "updateProfile"}}

\* A bound on a run's length: many tokens, of one subject, and no change of staff;
\* or fewer, of several, and some.
MCBudget ==
  /\ Cardinality({t \in Issued : tokens[t].expired}) <= 1
  /\ Cardinality(Issued) > 1 => changes <= 1
  /\ Cardinality(Issued) > 2 =>
       changes = 0 /\ Cardinality({tokens[t].subject : t \in Issued}) = 1

MCSymmetry == Permutations({q1, q2})
=============================================================================
