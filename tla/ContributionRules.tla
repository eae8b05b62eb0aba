-------------------------- MODULE ContributionRules --------------------------
(***************************************************************************)
(* The arithmetic of a guest's contribution: how required and paid amounts *)
(* determine the remaining amount and the status.  Pure operators, used by *)
(* the payment pipeline and by its proofs.                                 *)
(*                                                                         *)
(* Amounts are natural numbers (the smallest currency unit of the DECIMAL  *)
(* columns).  completedAt is non-null exactly for COMPLETED and WAIVED in  *)
(* every branch of the code, so it is not kept apart from the status.      *)
(***************************************************************************)
EXTENDS Integers

ContributionStatus == {"UNPAID", "PARTIAL", "COMPLETED", "WAIVED"}

Settled == {"COMPLETED", "WAIVED"}

\* Math.max(requiredAmount - paidAmount, 0)
Remaining(required, paid) == IF required > paid THEN required - paid ELSE 0

\* computeStatus: an explicit WAIVED wins; otherwise COMPLETED needs a positive
\* requirement that is covered, PARTIAL a positive payment.
ComputeStatus(required, paid, waived) ==
    LET left == Remaining(required, paid) IN
    [remaining |-> IF waived THEN 0 ELSE left,
     status    |-> CASE waived -> "WAIVED"
                     [] ~waived /\ left = 0 /\ required > 0 -> "COMPLETED"
                     [] ~waived /\ ~(left = 0 /\ required > 0) /\ paid > 0 -> "PARTIAL"
                     [] ~waived /\ ~(left = 0 /\ required > 0) /\ ~(paid > 0) -> "UNPAID"]

\* The row ensureForGuest inserts for a guest who has none: nothing paid, and
\* already COMPLETED when the event asks for no contribution.
FreshRow(target) ==
    [required |-> target, paid |-> 0, remaining |-> target,
     status |-> IF target > 0 THEN "UNPAID" ELSE "COMPLETED"]

\* What the columns of one row promise each other.
Consistent(row) ==
    \/ row.status = "WAIVED" /\ row.remaining = 0
    \/ LET c == ComputeStatus(row.required, row.paid, FALSE) IN
         row.status = c.status /\ row.remaining = c.remaining
    \/ row.required = 0 /\ row.paid = 0 /\ row.remaining = 0 /\ row.status = "COMPLETED"
=============================================================================
