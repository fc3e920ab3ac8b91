------------------------------ MODULE Checkout ------------------------------
(***************************************************************************)
(* Bookings, PaymentIntake and Refunds over the same tables.  They share   *)
(* no code, call each other nowhere, and meet only in the status columns   *)
(* of bookings and payments: each keeps its own table of legal transitions *)
(* or none, and overwrites what the others wrote.                          *)
(*                                                                         *)
(* A payment captured by submitPayment has an id of its own, never one     *)
(* that Stripe gave to an intent.                                          *)
(***************************************************************************)
EXTENDS Refunds, PaymentIntake

CONSTANTS Worker, StateRole, MaxRows

VARIABLES commission, reviewed, calls, reviewing, marking, overlapped

B == INSTANCE Bookings

bookingOnlyVars == <<commission, reviewed, calls, reviewing, marking, overlapped>>

vars == <<status, history, ledger, booking, bookingHistory, paidFor,
          bookingOnlyVars, intakeOnlyVars, refundOnlyVars>>

-----------------------------------------------------------------------------
Init ==
    /\ EmptyPayments
    /\ EmptyBookings
    /\ B!OwnInit
    /\ IntakeOwnInit
    /\ RefundOwnInit

BookingStep ==
    /\ B!Next
    /\ \A p \in Payment : intent[p] # "NONE" => status'[p] = status[p]
    /\ UNCHANGED <<intakeOnlyVars, refundOnlyVars>>

IntakeStep ==
    /\ IntakeNext
    /\ UNCHANGED <<bookingOnlyVars, refundOnlyVars>>

RefundStep ==
    /\ RefundNext
    /\ UNCHANGED <<bookingVars, bookingOnlyVars, intakeOnlyVars>>

Next == BookingStep \/ IntakeStep \/ RefundStep

Spec == Init /\ [][Next]_vars

-----------------------------------------------------------------------------
\* What stands behind a booking's confirmation: a payment that Stripe took, one
\* that a caller claimed for Fawry, or one that submitPayment recorded as
\* captured.  Only of the first the money is known to have been taken.
PaidOrClaimed(b) ==
    \E p \in Payment : /\ paidFor[p] = b
                       /\ \/ TakenByStripe(p)
                          \/ ClaimedForFawry(p)
                          \/ commission[p] # "NONE"

\* Where staff do not move bookings by hand, a booking is confirmed or further
\* only with one of the three behind it, however their steps interleave: an
\* event for one booking, a late submission or a refund confirms no other.
ConfirmedHasPayment ==
    \A b \in Booking : booking[b] \in B!PaidStatus => PaidOrClaimed(b)

\* Both: no booking without its payment and, with one clerk, no refund beyond
\* the room there is, although a redelivered event makes a refunded payment
\* CAPTURED, and so refundable, again: the bound rests on the refund rows, not
\* on the status.
MoneyAccounted == ConfirmedHasPayment /\ RefundsWithinPayment

\* "Idempotent payment and booking mutations": the same event, delivered
\* again, does not undo the refund of a payment.
RefundedStays ==
    [][\A p \in Payment : status[p] = "REFUNDED" => status'[p] # "CAPTURED"]_status
=============================================================================
