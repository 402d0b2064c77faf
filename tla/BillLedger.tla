----------------------------- MODULE BillLedger -----------------------------
(***************************************************************************)
(* The amounts of a Bill row, and the three ways the code rewrites them:   *)
(* charging an order, applying a payment and voiding an order, with what   *)
(* the first two do to the status of the table's session.                  *)
(*                                                                         *)
(* Each rewrite is a read (`seen`) followed by an UPDATE of some columns   *)
(* with absolute values computed from what was read.  PostgreSQL runs at   *)
(* READ COMMITTED, so the row that is updated (`row`) may no longer be the *)
(* row that was read; the columns an UPDATE does not name keep the values  *)
(* of `row`.  The operators therefore take both.                           *)
(***************************************************************************)
EXTENDS Integers, FiniteSets

\* The statuses the code writes (BillStatus also has VOID, which it never does).
BillStatuses == {"OPEN", "PARTIALLY_PAID", "PAID", "ABANDONED"}

Bills == [subtotal : Int, tip : Int, total : Int, remaining : Int,
          status : BillStatuses]

EmptyBill == [subtotal |-> 0, tip |-> 0, total |-> 0, remaining |-> 0,
              status |-> "OPEN"]

PayableBillStatuses == {"OPEN", "PARTIALLY_PAID"}
PayableOrderStatuses == {"AWAITING_PAYMENT", "PAYMENT_FAILED"}

\* Prices include the tax, so the tax amount is always zero.
ComputeBillTotals(subtotal, tip) == subtotal + tip

\* Plausible regression: the tip is not counted among what was paid.
PaidWithoutTip(bill) == bill.subtotal - bill.remaining

Paid(bill) == bill.total - bill.remaining

\* The status a charge or a void leaves behind.
BalanceStatus(paid, remaining) ==
    IF paid <= 0 THEN "OPEN"
    ELSE IF remaining <= 0 THEN "PAID"
    ELSE "PARTIALLY_PAID"

\* A rewrite of the subtotal: what was paid so far is carried over.
WithSubtotal(row, seen, subtotal) ==
    LET total     == ComputeBillTotals(subtotal, seen.tip)
        remaining == total - Paid(seen)
    IN  [row EXCEPT !.subtotal = subtotal, !.total = total,
                    !.remaining = remaining,
                    !.status = BalanceStatus(Paid(seen), remaining)]

ApplyOrderCharge(row, seen, charge) ==
    WithSubtotal(row, seen, seen.subtotal + charge)

\* What is left to pay once `paid`, of which `tip` is a tip, is applied.
RemainingAfterPayment(seen, paid, tip) ==
    ComputeBillTotals(seen.subtotal, seen.tip + tip) - Paid(seen) - paid

\* applyPaymentToBill throws, and its transaction rolls back, otherwise.
PaymentFits(seen, paid, tip) == RemainingAfterPayment(seen, paid, tip) >= 0

\* The UPDATE of a payment names tip, total, remaining and status, not subtotal.
ApplyPayment(row, seen, paid, tip) ==
    LET remaining == RemainingAfterPayment(seen, paid, tip)
    IN  [row EXCEPT !.tip = seen.tip + tip,
                    !.total = ComputeBillTotals(seen.subtotal, seen.tip + tip),
                    !.remaining = remaining,
                    !.status = IF remaining <= 0 THEN "PAID"
                               ELSE "PARTIALLY_PAID"]

\* Plausible regression: the WHERE status = PAYMENT_COMPLETED is dropped.
ReopenedAlways(status, remaining) == IF remaining > 0 THEN "OPEN" ELSE status

\* Plausible regression: a charge does not reopen the session.
NotReopened(status, remaining) == status

\* A charge that leaves something to pay reopens a session already paid.
SessionAfterCharge(status, remaining) ==
    IF remaining > 0 /\ status = "PAYMENT_COMPLETED" THEN "OPEN" ELSE status

\* A payment that leaves nothing to pay completes an open session.
SessionAfterPayment(status, remaining) ==
    IF remaining <= 0 /\ status = "OPEN" THEN "PAYMENT_COMPLETED" ELSE status

\* The two rows differ in an amount: a rewrite based on one overwrites the other.
AmountsDiffer(seen, row) == [seen EXCEPT !.status = row.status] # row
=============================================================================
