------------------------------ MODULE Bookings ------------------------------
(***************************************************************************)
(* Every way the API moves a booking, apart from the payment provider's    *)
(* callbacks (PaymentIntake):                                              *)
(*   - BookingsService, for travellers and staff;                          *)
(*   - the customer controller's submit and cancel;                        *)
(*   - the partner controller's approve, reject, confirm and complete;     *)
(*   - BookingStateService.transition, for staff;                          *)
(* and the commission entries and reviews that hang on them.               *)
(*                                                                         *)
(* Each handler reads the booking, checks the status it read, and writes   *)
(* in a later transaction without looking again.  A call in progress is a  *)
(* record with the status it read; its write is one step.  A call whose    *)
(* check fails changes nothing and is not a step.                          *)
(***************************************************************************)
EXTENDS BookingTable

CONSTANTS
    Worker,         \* the calls that can be in progress at one time
    StateRole,      \* roles in which staff use the booking state service
    MaxRows         \* bound: history rows per booking

ASSUME StateRoleAssumption == StateRole \subseteq StaffRole /\ MaxRows \in Nat

VARIABLES
    commission,     \* status of the commission entry of a payment, or "NONE"
    reviewed,       \* bookings with a review (unique per booking)
    calls,          \* booking calls past their check
    reviewing,      \* review calls past their check
    marking,        \* commission calls past their check
    overlapped      \* whether two of these calls were ever in progress at once

bookingOnlyVars == <<commission, reviewed, calls, reviewing, marking, overlapped>>
bookingsVars == <<status, history, ledger, booking, bookingHistory, paidFor,
                  commission, reviewed, calls, reviewing, marking, overlapped>>

\* The kinds of write: of the booking alone, with a history row, with a
\* payment and its commission, with the commissions of a completed booking.
Write == {"update", "record", "pay", "complete"}

Call == [by : Worker, write : Write, booking : Booking, from : BookingStatus,
         to : BookingStatus, actor : StaffRole \cup {"PARTNER", "NOBODY"}]

PaymentsOf(b) == {p \in Payment : paidFor[p] = b}

\* Whether calls overlap once one more begins.
Overlap == overlapped \/ calls # {} \/ reviewing # {} \/ marking # {}

Free(w) == /\ \A c \in calls : c.by # w
           /\ \A c \in reviewing : c.by # w
           /\ \A c \in marking : c.by # w

-----------------------------------------------------------------------------
OwnInit ==
    /\ commission = [p \in Payment |-> "NONE"]
    /\ reviewed = {}
    /\ calls = {}
    /\ reviewing = {}
    /\ marking = {}
    /\ overlapped = FALSE

\* No payment, no booking.
Init == OwnInit /\ EmptyPayments /\ EmptyBookings

\* create: the row starts as DRAFT.
Create(b) ==
    /\ booking[b] = "ABSENT"
    /\ booking' = [booking EXCEPT ![b] = "DRAFT"]
    /\ UNCHANGED <<paymentVars, bookingHistory, paidFor, bookingOnlyVars>>

\* A handler has read booking b and its check has passed.
Begin(w, write, b, to, actor) ==
    /\ Free(w)
    /\ calls' = calls \cup {[by |-> w, write |-> write, booking |-> b,
                             from |-> booking[b], to |-> to, actor |-> actor]}
    /\ overlapped' = Overlap
    /\ UNCHANGED <<paymentVars, bookingVars, commission, reviewed, reviewing,
                   marking>>

-----------------------------------------------------------------------------
\* BookingsService, and the customer controller's submit and cancel.
Submit(w, b) ==
    /\ booking[b] = "DRAFT"
    /\ Begin(w, "update", b, "PENDING_APPROVAL", "NOBODY")

Approve(w, b) ==
    /\ "PAYMENT_PENDING" \in ServiceTransitions(booking[b])
    /\ Begin(w, "update", b, "PAYMENT_PENDING", "NOBODY")

Reject(w, b) ==
    /\ "REJECTED" \in ServiceTransitions(booking[b])
    /\ Begin(w, "update", b, "REJECTED", "NOBODY")

\* Mutant: the status is not checked.
BugPayAnyTime(w, b) ==
    /\ booking[b] # "ABSENT"
    /\ Begin(w, "pay", b, "CONFIRMING", "NOBODY")

SubmitPayment(w, b) ==
    /\ "CONFIRMING" \in ServiceTransitions(booking[b])
    /\ Begin(w, "pay", b, "CONFIRMING", "NOBODY")

Confirm(w, b) ==
    /\ "CONFIRMED" \in ServiceTransitions(booking[b])
    /\ Begin(w, "update", b, "CONFIRMED", "NOBODY")

Complete(w, b) ==
    /\ "COMPLETED" \in ServiceTransitions(booking[b])
    /\ Begin(w, "complete", b, "COMPLETED", "NOBODY")

CancelTarget(b) ==
    IF booking[b] = "CONFIRMED" THEN "CANCEL_REQUESTED" ELSE "CANCELLED"

Cancel(w, b) ==
    /\ CancelTarget(b) \in ServiceTransitions(booking[b])
    /\ Begin(w, "update", b, CancelTarget(b), "NOBODY")

CustomerCancel(w, b) ==
    /\ booking[b] \in {"DRAFT", "PENDING_APPROVAL"}
    /\ Begin(w, "update", b, "CANCELLED", "NOBODY")

\* Mutant: the partner confirms without waiting for the payment.
BugConfirmUnpaid ==
    {<<"PENDING_APPROVAL", "PAYMENT_PENDING">>, <<"PENDING_APPROVAL", "REJECTED">>,
     <<"PAYMENT_PENDING", "CONFIRMED">>, <<"CONFIRMED", "COMPLETED">>}

\* The four partner handlers: the status each expects and the one it writes.
PartnerStep ==
    {<<"PENDING_APPROVAL", "PAYMENT_PENDING">>, <<"PENDING_APPROVAL", "REJECTED">>,
     <<"CONFIRMING", "CONFIRMED">>, <<"CONFIRMED", "COMPLETED">>}

PartnerMove(w, b, to) ==
    /\ <<booking[b], to>> \in PartnerStep
    /\ Begin(w, "record", b, to, "PARTNER")

\* Mutant: the role guard is left out.
BugAnyRole(w, b, role, to) ==
    /\ booking[b] # to
    /\ to \in StateTransitions(booking[b])
    /\ Begin(w, "record", b, to, role)

\* BookingStateService.transition, for a member of staff in role `role`.
StateMove(w, b, role, to) ==
    /\ booking[b] # to
    /\ to \in StateTransitions(booking[b])
    /\ role \in TransitionRoles(booking[b], to)
    /\ Begin(w, "record", b, to, role)

-----------------------------------------------------------------------------
\* The write of a call that only updates the booking.
UpdateBooking(c) ==
    /\ c.write = "update"
    /\ booking' = [booking EXCEPT ![c.booking] = c.to]
    /\ calls' = calls \ {c}
    /\ UNCHANGED <<paymentVars, bookingHistory, paidFor, commission, reviewed,
                   reviewing, marking, overlapped>>

\* The write of a partner or staff call: the booking and a history row.
RecordBooking(c) ==
    /\ c.write = "record"
    /\ Len(bookingHistory[c.booking]) < MaxRows
    /\ booking' = [booking EXCEPT ![c.booking] = c.to]
    /\ bookingHistory' = [bookingHistory EXCEPT
           ![c.booking] = Append(@, [from |-> c.from, to |-> c.to,
                                     actor |-> c.actor])]
    /\ calls' = calls \ {c}
    /\ UNCHANGED <<paymentVars, paidFor, commission, reviewed, reviewing, marking, overlapped>>

\* Mutant: the booking moves on although the payment row is not written.
BugPayLater(c) ==
    /\ c.write = "pay"
    /\ booking' = [booking EXCEPT ![c.booking] = c.to]
    /\ calls' = calls \ {c}
    /\ UNCHANGED <<paymentVars, bookingHistory, paidFor, commission, reviewed,
                   reviewing, marking, overlapped>>

\* submitPayment's transaction: a captured payment, the booking, and a pending
\* commission entry.  Neither the payment's history nor its ledger is written.
PayBooking(c) ==
    /\ c.write = "pay"
    /\ \E p \in Payment :
          /\ status[p] = "ABSENT"
          /\ status' = [status EXCEPT ![p] = "CAPTURED"]
          /\ paidFor' = [paidFor EXCEPT ![p] = c.booking]
          /\ commission' = [commission EXCEPT ![p] = "PENDING"]
    /\ booking' = [booking EXCEPT ![c.booking] = c.to]
    /\ calls' = calls \ {c}
    /\ UNCHANGED <<history, ledger, bookingHistory, reviewed, reviewing, marking, overlapped>>

\* Mutant: every commission of the booking becomes eligible, paid ones too.
BugAllEligible(c) ==
    /\ c.write = "complete"
    /\ booking' = [booking EXCEPT ![c.booking] = c.to]
    /\ commission' = [p \in Payment |->
           IF paidFor[p] = c.booking THEN "ELIGIBLE" ELSE commission[p]]
    /\ calls' = calls \ {c}
    /\ UNCHANGED <<paymentVars, bookingHistory, paidFor, reviewed, reviewing,
                   marking, overlapped>>

\* complete's transaction: the booking and its pending commissions.
CompleteBooking(c) ==
    /\ c.write = "complete"
    /\ booking' = [booking EXCEPT ![c.booking] = c.to]
    /\ commission' = [p \in Payment |->
           IF paidFor[p] = c.booking /\ commission[p] = "PENDING"
           THEN "ELIGIBLE" ELSE commission[p]]
    /\ calls' = calls \ {c}
    /\ UNCHANGED <<paymentVars, bookingHistory, paidFor, reviewed, reviewing,
                   marking, overlapped>>

-----------------------------------------------------------------------------
\* Mutant: a review is accepted once the booking is confirmed.
BugReviewEarly(w, b) ==
    /\ Free(w)
    /\ booking[b] \in {"CONFIRMED", "COMPLETED"}
    /\ b \notin reviewed
    /\ reviewing' = reviewing \cup {[by |-> w, booking |-> b]}
    /\ overlapped' = Overlap
    /\ UNCHANGED <<paymentVars, bookingVars, commission, reviewed, calls, marking>>

\* addReview: the check, then the insert, which the unique key guards.
ReviewCheck(w, b) ==
    /\ Free(w)
    /\ booking[b] = "COMPLETED"
    /\ b \notin reviewed
    /\ reviewing' = reviewing \cup {[by |-> w, booking |-> b]}
    /\ overlapped' = Overlap
    /\ UNCHANGED <<paymentVars, bookingVars, commission, reviewed, calls, marking>>

ReviewInsert(c) ==
    /\ c.booking \notin reviewed
    /\ reviewed' = reviewed \cup {c.booking}
    /\ reviewing' = reviewing \ {c}
    /\ UNCHANGED <<paymentVars, bookingVars, commission, calls, marking, overlapped>>

\* CommissionsService.markEligible and markPaid: the status the entry must
\* have, then the update.
MarkableFrom(to) == IF to = "ELIGIBLE" THEN {"PENDING"} ELSE {"PENDING", "ELIGIBLE"}

MarkCheck(w, p, to) ==
    /\ Free(w)
    /\ commission[p] \in MarkableFrom(to)
    /\ marking' = marking \cup {[by |-> w, payment |-> p, to |-> to]}
    /\ overlapped' = Overlap
    /\ UNCHANGED <<paymentVars, bookingVars, commission, reviewed, calls, reviewing>>

MarkUpdate(c) ==
    /\ commission' = [commission EXCEPT ![c.payment] = c.to]
    /\ marking' = marking \ {c}
    /\ UNCHANGED <<paymentVars, bookingVars, reviewed, calls, reviewing, overlapped>>

\* A call dies before its write, or its transaction rolls back.
Die ==
    /\ \/ \E c \in calls : calls' = calls \ {c} /\ UNCHANGED <<reviewing, marking>>
       \/ \E c \in reviewing : reviewing' = reviewing \ {c} /\ UNCHANGED <<calls, marking>>
       \/ \E c \in marking : marking' = marking \ {c} /\ UNCHANGED <<calls, reviewing>>
    /\ UNCHANGED <<paymentVars, bookingVars, commission, reviewed, overlapped>>

Next ==
    \/ \E b \in Booking : Create(b)
    \/ \E w \in Worker, b \in Booking :
          \/ Submit(w, b) \/ Approve(w, b) \/ Reject(w, b) \/ SubmitPayment(w, b)
          \/ Confirm(w, b) \/ Complete(w, b) \/ Cancel(w, b)
          \/ CustomerCancel(w, b) \/ ReviewCheck(w, b)
    \/ \E w \in Worker, b \in Booking, to \in BookingStatus :
          \/ PartnerMove(w, b, to)
          \/ \E role \in StateRole : StateMove(w, b, role, to)
    \/ \E c \in calls : \/ UpdateBooking(c) \/ RecordBooking(c)
                        \/ PayBooking(c) \/ CompleteBooking(c)
    \/ \E c \in reviewing : ReviewInsert(c)
    \/ \E w \in Worker, p \in Payment, to \in {"ELIGIBLE", "PAID"} :
          MarkCheck(w, p, to)
    \/ \E c \in marking : MarkUpdate(c)
    \/ Die

Spec == Init /\ [][Next]_bookingsVars

-----------------------------------------------------------------------------
\* Type invariant: the rows, with a commission entry for each payment and for
\* nothing else, and the calls in progress.
TypeOK ==
    /\ \A p \in Payment : /\ status[p] = "ABSENT" <=> paidFor[p] = NoBooking
                          /\ commission[p] = "NONE" <=> paidFor[p] = NoBooking
    /\ booking \in [Booking -> BookingStatus \cup {"ABSENT"}]
    /\ bookingHistory \in [Booking -> Seq(BookingRow)]
    /\ paidFor \in [Payment -> Booking \cup {NoBooking}]
    /\ commission \in [Payment -> {"NONE", "PENDING", "ELIGIBLE", "PAID"}]
    /\ reviewed \subseteq Booking
    /\ calls \subseteq Call
    /\ reviewing \subseteq [by : Worker, booking : Booking]
    /\ marking \subseteq [by : Worker, payment : Payment, to : {"ELIGIBLE", "PAID"}]
    /\ overlapped \in BOOLEAN

\* The statuses a booking has from the payment on.
PaidStatus == {"CONFIRMING", "CONFIRMED", "COMPLETED", "CANCEL_REQUESTED", "DISPUTED"}

\* An administrator let the booking go on without a payment, by hand.
LetPass(b) == \E i \in DOMAIN bookingHistory[b] : bookingHistory[b][i].to = "CONFIRMING"

\* A booking that is being confirmed, confirmed or completed has a captured
\* payment, or the history says that it was let pass without, however the
\* calls of travellers, staff and partners race.
ConfirmedIsPaid ==
    \A b \in Booking : booking[b] \in PaidStatus => PaymentsOf(b) # {} \/ LetPass(b)

\* Every recorded change is an edge of the state machine, made by the partner
\* or in a role the machine admits for it, also when calls race.
RecordedLegally ==
    \A b \in Booking : \A i \in DOMAIN bookingHistory[b] :
        LET row == bookingHistory[b][i]
        IN  /\ row.to \in StateTransitions(row.from)
            /\ row.actor # "PARTNER" => row.actor \in TransitionRoles(row.from, row.to)

\* No booking is paid twice.
ChargedOnce == \A b \in Booking : \A p, q \in PaymentsOf(b) : p = q

\* Until calls overlap, a booking is paid once at most, and never before it
\* was approved nor after it was rejected.
PaidOnce ==
    ~overlapped =>
        /\ ChargedOnce
        /\ \A b \in Booking : PaymentsOf(b) # {} =>
               booking[b] \notin {"DRAFT", "PENDING_APPROVAL", "PAYMENT_PENDING",
                                  "REJECTED"}

\* Until calls overlap, only completed bookings have a review.
ReviewedIsCompleted ==
    ~overlapped => \A b \in reviewed : booking[b] = "COMPLETED"

\* Until calls overlap, a commission that was paid stays paid.
PaidStays ==
    ~overlapped' => \A p \in Payment : commission[p] = "PAID" => commission'[p] = "PAID"
PaidCommissionStays == [][PaidStays]_bookingsVars

-----------------------------------------------------------------------------
\* What a booking is as a deal between a traveller and a provider.
DealOf(b) ==
    CASE booking[b] = "ABSENT" -> "none"
      [] booking[b] \in {"DRAFT", "PENDING_APPROVAL"} -> "offered"
      [] booking[b] = "PAYMENT_PENDING" -> "agreed"
      [] booking[b] = "CONFIRMING" -> "engaged"
      [] booking[b] \in {"CONFIRMED", "CANCEL_REQUESTED", "DISPUTED"} -> "confirmed"
      [] booking[b] = "COMPLETED" -> "delivered"
      [] OTHER -> "dropped"

Deal == INSTANCE BookingDeal WITH
            deal <- [b \in Booking |-> DealOf(b)],
            paid <- [b \in Booking |-> PaymentsOf(b) # {}],
            broken <- overlapped

\* Until calls overlap, bookings implement the deal: nothing is charged but in
\* the step from agreed to engaged, and delivered or dropped deals stay so.
ImplementsDeal == Deal!Spec
=============================================================================
