---------------------------- MODULE PaymentRules ----------------------------
(***************************************************************************)
(* The manual bank-transfer rules of internal/domain/payment/payment.go.   *)
(* A payment row is reduced to what the rules read: its status, the amount *)
(* the customer declared compared with the amount due ("NONE" while no     *)
(* proof has been uploaded), and whether a mismatch was accepted.          *)
(***************************************************************************)

PaymentStatus == {"PENDING", "SUBMITTED", "VERIFIED", "REJECTED", "REFUNDED"}

Declared == {"NONE", "UNDER", "EXACT", "OVER"}

Payment == [status : PaymentStatus, declared : Declared, mismatch : BOOLEAN]

\* The row OrderRepo.Create inserts with the order.
NewPayment == [status |-> "PENDING", declared |-> "NONE", mismatch |-> FALSE]

HasProof(p) == p.declared # "NONE"

\* payment.Verify goes on to a decision: not a replay, and a proof is there.
MayVerify(p) == /\ p.status \notin {"VERIFIED", "PENDING"}
                /\ HasProof(p)

\* Mutant: only an underpayment is questioned.
NeedsAcceptanceUnder(p) == p.declared = "UNDER"

\* The amounts differ, so payment.Verify insists on AcceptMismatch.
NeedsAcceptance(p) == p.declared \in {"UNDER", "OVER"}

MayReject(p) == /\ p.status # "VERIFIED"
                /\ HasProof(p)

MayRefund(p) == p.status = "VERIFIED"
=============================================================================
