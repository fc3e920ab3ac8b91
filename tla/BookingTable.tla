---------------------------- MODULE BookingTable ----------------------------
(***************************************************************************)
(* The database rows about bookings that the booking and the payment       *)
(* components share: the status column of `bookings`, the rows of          *)
(* `booking_state_history`, and the booking each payment is for.           *)
(*                                                                         *)
(* The id of a row stands for its idempotency key, which is unique in the  *)
(* database: a second insert with the same key fails.                      *)
(***************************************************************************)
EXTENDS PaymentTable

CONSTANTS
    Booking,        \* ids of the bookings that can be created (a bound)
    NoBooking       \* booking_id of a payment row that does not exist yet

ASSUME NoBookingAssumption == NoBooking \notin Booking

VARIABLES
    booking,            \* bookings.status, "ABSENT" before the insert
    bookingHistory,     \* booking_state_history, oldest row first
    paidFor             \* payments.booking_id

bookingVars == <<booking, bookingHistory, paidFor>>

-----------------------------------------------------------------------------
\* The enum BookingStatus.
BookingStatus ==
    {"DRAFT", "PENDING_APPROVAL", "PAYMENT_PENDING", "CONFIRMING", "CONFIRMED",
     "COMPLETED", "REJECTED", "FAILED", "CANCEL_REQUESTED", "CANCELLED",
     "DISPUTED"}

\* BOOKING_TRANSITIONS of the bookings service.
ServiceTransitions(from) ==
    CASE from = "DRAFT"            -> {"PENDING_APPROVAL", "CANCELLED"}
      [] from = "PENDING_APPROVAL" -> {"PAYMENT_PENDING", "REJECTED", "CANCELLED"}
      [] from = "PAYMENT_PENDING"  -> {"CONFIRMING", "FAILED", "CANCELLED"}
      [] from = "CONFIRMING"       -> {"CONFIRMED", "FAILED"}
      [] from = "CONFIRMED"        -> {"COMPLETED", "CANCEL_REQUESTED"}
      [] from = "CANCEL_REQUESTED" -> {"CANCELLED"}
      [] from = "DISPUTED"         -> {"CANCELLED", "COMPLETED"}
      [] OTHER                     -> {}

\* BOOKING_TRANSITIONS of the booking state service.
StateTransitions(from) ==
    CASE from = "DRAFT"            -> {"PENDING_APPROVAL"}
      [] from = "PENDING_APPROVAL" -> {"PAYMENT_PENDING", "REJECTED"}
      [] from = "PAYMENT_PENDING"  -> {"CONFIRMING"}
      [] from = "CONFIRMING"       -> {"CONFIRMED", "FAILED"}
      [] from = "CONFIRMED"        -> {"CANCEL_REQUESTED", "COMPLETED", "DISPUTED"}
      [] from = "CANCEL_REQUESTED" -> {"CANCELLED"}
      [] OTHER                     -> {}

\* Roles of the staff endpoint POST bookings-state/:id/transition.
StaffRole == {"SUPER_ADMIN", "ADMIN", "OPERATIONS", "SUPPORT"}

\* TRANSITION_ROLES, cut down to the roles the endpoint admits.
TransitionRoles(from, to) ==
    CASE to = "CANCEL_REQUESTED" -> StaffRole
      [] to = "DISPUTED" -> StaffRole \ {"OPERATIONS"}
      [] to \in {"PENDING_APPROVAL", "REJECTED", "CANCELLED", "COMPLETED"} ->
            StaffRole \ {"SUPPORT"}
      [] OTHER -> {"SUPER_ADMIN", "ADMIN"}

\* The tables before the first payment and the first booking.
EmptyPayments ==
    /\ status = [p \in Payment |-> "ABSENT"]
    /\ history = [p \in Payment |-> <<>>]
    /\ ledger = [p \in Payment |-> {}]
    /\ paidFor = [p \in Payment |-> NoBooking]

EmptyBookings ==
    /\ booking = [b \in Booking |-> "ABSENT"]
    /\ bookingHistory = [b \in Booking |-> <<>>]

BookingRow == [from : BookingStatus, to : BookingStatus,
               actor : StaffRole \cup {"PARTNER"}]
=============================================================================
