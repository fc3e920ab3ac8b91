--------------------------- MODULE BookingsProofs ---------------------------
(***************************************************************************)
(* Proofs about Bookings, for any number of bookings, payments and calls   *)
(* that overlap: its types, that the history records legal changes only,   *)
(* and that no booking is confirmed that was neither paid nor let pass by  *)
(* hand; and what holds until calls overlap: one payment, reviews of what  *)
(* is completed, paid commissions, and the deal that the handlers          *)
(* implement.                                                              *)
(***************************************************************************)
EXTENDS Bookings, TLAPS

-----------------------------------------------------------------------------
PaymentTyped == status \in [Payment -> PaymentStatus \cup {"ABSENT"}]

\* A call that writes a history row has checked the edge and the role.
LegalCall(c) ==
    c.write = "record" =>
        /\ c.to \in StateTransitions(c.from)
        /\ c.actor \in StaffRole \cup {"PARTNER"}
        /\ c.actor # "PARTNER" => c.actor \in TransitionRoles(c.from, c.to)

\* Call c records that a booking is let pass without a payment.
Passes(c) == c.write = "record" /\ c.to = "CONFIRMING"

\* A call takes a booking to the statuses after the payment only from one of
\* them, by paying, or by letting it pass.
PaidCall(c) ==
    c.to \in PaidStatus => c.write = "pay" \/ Passes(c) \/ c.from \in PaidStatus

Covered(b) == PaymentsOf(b) # {} \/ LetPass(b)

\* What a call read of a covered booking stays true, since no payment and no
\* history row goes away.
CallsLegal ==
    \A c \in calls :
        /\ LegalCall(c)
        /\ PaidCall(c)
        /\ c.from \in PaidStatus => Covered(c.booking)

\* A call marks a commission entry that exists.
MarksEntry == \A c \in marking : commission[c.payment] # "NONE"

\* The inductive invariant.
IInv ==
    /\ TypeOK
    /\ MarksEntry
    /\ PaymentTyped
    /\ CallsLegal
    /\ RecordedLegally
    /\ ConfirmedIsPaid

-----------------------------------------------------------------------------
LEMMA InitIInv == Init => IInv
<1> SUFFICES ASSUME Init PROVE IInv
  OBVIOUS
<1>e. EmptyPayments /\ EmptyBookings /\ OwnInit
  BY DEF Init
<1>1. TypeOK
  <2>1. overlapped \in BOOLEAN
    BY <1>e, Zenon DEF OwnInit
  <2>2. QED
    BY <1>e, <2>1 DEF EmptyPayments, EmptyBookings, OwnInit, TypeOK
<1>2. PaymentTyped
  BY <1>e DEF EmptyPayments, PaymentTyped
<1>3. CallsLegal
  BY <1>e DEF OwnInit, CallsLegal
<1>4. RecordedLegally
  <2>1. \A b \in Booking : bookingHistory[b] = << >>
    BY <1>e DEF EmptyBookings
  <2>2. DOMAIN << >> = {}
    OBVIOUS
  <2>3. QED
    BY <2>1, <2>2 DEF RecordedLegally
<1>5. ConfirmedIsPaid
  <2>1. \A b \in Booking : booking[b] = "ABSENT"
    BY <1>e DEF EmptyBookings
  <2>2. QED
    BY <2>1 DEF ConfirmedIsPaid, PaidStatus
<1>6. MarksEntry
  BY <1>e DEF OwnInit, MarksEntry
<1>7. QED
  BY <1>1, <1>2, <1>3, <1>4, <1>5, <1>6 DEF IInv

\* The invariant is about the calls that move bookings and the rows; it is
\* preserved by a step that leaves these alone and keeps the types.
LEMMA QuietIInv ==
    ASSUME IInv, TypeOK', MarksEntry', UNCHANGED <<status, paidFor, bookingHistory>>,
           calls' \subseteq calls,
           \A b \in Booking : booking'[b] \in PaidStatus => booking'[b] = booking[b]
    PROVE  IInv'
<1>1. PaymentTyped'
  BY DEF IInv, PaymentTyped
<1>2. CallsLegal'
  BY DEF IInv, CallsLegal, LegalCall, PaidCall, Passes, Covered, PaymentsOf, LetPass
<1>3. RecordedLegally'
  BY DEF IInv, RecordedLegally
<1>4. ConfirmedIsPaid'
  BY DEF IInv, ConfirmedIsPaid, PaymentsOf, LetPass
<1>5. QED
  BY <1>1, <1>2, <1>3, <1>4 DEF IInv

-----------------------------------------------------------------------------
(* A handler's read.                                                       *)

\* A read adds one call, whose check has passed, and changes nothing else.
LEMMA BeginIInv ==
    ASSUME IInv, NEW w \in Worker, NEW b \in Booking, NEW write \in Write,
           NEW to \in BookingStatus, NEW actor \in StaffRole \cup {"PARTNER", "NOBODY"},
           Begin(w, write, b, to, actor), booking[b] \in BookingStatus,
           write = "record" =>
               /\ to \in StateTransitions(booking[b])
               /\ actor \in StaffRole \cup {"PARTNER"}
               /\ actor # "PARTNER" => actor \in TransitionRoles(booking[b], to),
           to \in PaidStatus => \/ write = "pay"
                                \/ write = "record" /\ to = "CONFIRMING"
                                \/ booking[b] \in PaidStatus
    PROVE  IInv'
<1> DEFINE c0 == [by |-> w, write |-> write, booking |-> b, from |-> booking[b],
                  to |-> to, actor |-> actor]
<1>1. /\ calls' = calls \cup {c0}
      /\ UNCHANGED <<paymentVars, bookingVars, commission, reviewed, reviewing, marking>>
  BY DEF Begin
<1>same. UNCHANGED <<status, booking, bookingHistory, paidFor>>
  BY <1>1 DEF paymentVars, bookingVars
<1>2. c0 \in Call
  BY DEF Call
<1>over. overlapped' \in BOOLEAN
  BY Zenon DEF Begin, Overlap
<1>3. TypeOK'
  BY <1>1, <1>2, <1>same, <1>over DEF IInv, TypeOK
<1>4. LegalCall(c0) /\ PaidCall(c0)
  BY DEF LegalCall, PaidCall, Passes
<1>5. c0.from \in PaidStatus => Covered(c0.booking)
  BY DEF IInv, ConfirmedIsPaid, Covered
<1>6. CallsLegal'
  <2>1. \A c \in calls : /\ LegalCall(c) /\ PaidCall(c)
                         /\ c.from \in PaidStatus => Covered(c.booking)
    BY DEF IInv, CallsLegal
  <2>2. \A c \in calls' : /\ LegalCall(c) /\ PaidCall(c)
                          /\ c.from \in PaidStatus => Covered(c.booking)
    BY <1>1, <1>4, <1>5, <2>1
  <2>3. QED
    BY <2>2, <1>same DEF CallsLegal, Covered, PaymentsOf, LetPass, LegalCall,
                         PaidCall, Passes
<1>7. RecordedLegally'
  BY <1>same DEF IInv, RecordedLegally
<1>8. ConfirmedIsPaid'
  BY <1>same DEF IInv, ConfirmedIsPaid, PaymentsOf, LetPass
<1>9. PaymentTyped'
  BY <1>same DEF IInv, PaymentTyped
<1>10. MarksEntry'
  BY <1>1 DEF IInv, MarksEntry
<1>11. QED
  BY <1>3, <1>6, <1>7, <1>8, <1>9, <1>10 DEF IInv

\* The reads of BookingsService and of the customer controller.
LEMMA ServiceReadIInv ==
    ASSUME IInv, NEW w \in Worker, NEW b \in Booking,
           \/ Submit(w, b) \/ Approve(w, b) \/ Reject(w, b) \/ SubmitPayment(w, b)
           \/ Confirm(w, b) \/ Complete(w, b) \/ Cancel(w, b)
           \/ CustomerCancel(w, b)
    PROVE  IInv'
<1>1. ASSUME NEW write \in Write, NEW to \in BookingStatus, write # "record",
             Begin(w, write, b, to, "NOBODY"), booking[b] \in BookingStatus,
             to \in PaidStatus => write = "pay" \/ booking[b] \in PaidStatus
      PROVE  IInv'
  <2>1. "NOBODY" \in StaffRole \cup {"PARTNER", "NOBODY"}
    OBVIOUS
  <2>2. to \in PaidStatus => \/ write = "pay"
                             \/ write = "record" /\ to = "CONFIRMING"
                             \/ booking[b] \in PaidStatus
    BY <1>1
  <2>3. write = "record" =>
            /\ to \in StateTransitions(booking[b])
            /\ "NOBODY" \in StaffRole \cup {"PARTNER"}
            /\ "NOBODY" # "PARTNER" => "NOBODY" \in TransitionRoles(booking[b], to)
    BY <1>1
  <2>4. QED
    BY <1>1, <2>1, <2>2, <2>3, BeginIInv
<1>2. CASE Submit(w, b)
  BY <1>1, <1>2 DEF Submit, Write, BookingStatus, PaidStatus
<1>3. CASE Approve(w, b)
  BY <1>1, <1>3 DEF Approve, Write, BookingStatus, PaidStatus, ServiceTransitions
<1>4. CASE Reject(w, b)
  BY <1>1, <1>4 DEF Reject, Write, BookingStatus, PaidStatus, ServiceTransitions
<1>5. CASE SubmitPayment(w, b)
  BY <1>1, <1>5 DEF SubmitPayment, Write, BookingStatus, ServiceTransitions
<1>6. CASE Confirm(w, b)
  BY <1>1, <1>6 DEF Confirm, Write, BookingStatus, PaidStatus, ServiceTransitions
<1>7. CASE Complete(w, b)
  BY <1>1, <1>7 DEF Complete, Write, BookingStatus, PaidStatus, ServiceTransitions
<1>8. CASE Cancel(w, b)
  <2>1. CASE booking[b] = "CONFIRMED"
    BY <1>1, <1>8, <2>1 DEF Cancel, CancelTarget, Write, BookingStatus, PaidStatus
  <2>2. CASE booking[b] # "CONFIRMED"
    <3>1. "CANCELLED" \in ServiceTransitions(booking[b])
      BY <1>8, <2>2 DEF Cancel, CancelTarget
    <3>2. booking[b] \in BookingStatus
      BY <3>1 DEF ServiceTransitions, BookingStatus
    <3>3. Begin(w, "update", b, "CANCELLED", "NOBODY")
      BY <1>8, <2>2 DEF Cancel, CancelTarget
    <3>4. QED
      BY <1>1, <3>2, <3>3 DEF Write, BookingStatus, PaidStatus
  <2>3. QED
    BY <2>1, <2>2
<1>9. CASE CustomerCancel(w, b)
  BY <1>1, <1>9 DEF CustomerCancel, Write, BookingStatus, PaidStatus
<1>10. QED
  BY <1>2, <1>3, <1>4, <1>5, <1>6, <1>7, <1>8, <1>9

\* The partner's handlers take edges of the state machine, and only the one
\* for confirming and the one for completing lead past the payment.
LEMMA PartnerReadIInv ==
    ASSUME IInv, NEW w \in Worker, NEW b \in Booking, NEW to \in BookingStatus,
           PartnerMove(w, b, to)
    PROVE  IInv'
<1>1. <<booking[b], to>> \in PartnerStep /\ Begin(w, "record", b, to, "PARTNER")
  BY DEF PartnerMove
<1>2. /\ booking[b] \in BookingStatus
      /\ to \in StateTransitions(booking[b])
      /\ to \in PaidStatus => booking[b] \in PaidStatus
  BY <1>1 DEF PartnerStep, BookingStatus, StateTransitions, PaidStatus
<1>3. "record" \in Write
  BY DEF Write
<1>4. "PARTNER" \in StaffRole \cup {"PARTNER", "NOBODY"}
  OBVIOUS
<1>5. QED
  BY <1>1, <1>2, <1>3, <1>4, BeginIInv

\* The state service checks the edge and the role; the edge into CONFIRMING
\* is the only one that leads past the payment.
LEMMA StaffReadIInv ==
    ASSUME IInv, NEW w \in Worker, NEW b \in Booking, NEW to \in BookingStatus,
           NEW role \in StateRole, StateMove(w, b, role, to)
    PROVE  IInv'
<1>1. /\ to \in StateTransitions(booking[b])
      /\ role \in TransitionRoles(booking[b], to)
      /\ Begin(w, "record", b, to, role)
  BY DEF StateMove
<1>2. role \in StaffRole
  BY StateRoleAssumption
<1>3. booking[b] \in BookingStatus
  BY <1>1 DEF StateTransitions, BookingStatus
<1>4. to \in PaidStatus => to = "CONFIRMING" \/ booking[b] \in PaidStatus
  BY <1>1 DEF StateTransitions, PaidStatus
<1>5. "record" \in Write
  BY DEF Write
<1>6. role \in StaffRole \cup {"PARTNER", "NOBODY"}
  BY <1>2
<1>7. QED
  BY <1>1, <1>2, <1>3, <1>4, <1>5, <1>6, BeginIInv

-----------------------------------------------------------------------------
(* A handler's write.                                                      *)

\* The writes that touch no payment.
LEMMA MoveIInv ==
    ASSUME IInv, NEW c \in calls,
           c.write # "pay", calls' = calls \ {c},
           booking' = [booking EXCEPT ![c.booking] = c.to],
           TypeOK', MarksEntry', RecordedLegally', UNCHANGED <<status, paidFor>>,
           \A b \in Booking : LetPass(b) => LetPass(b)',
           Passes(c) => LetPass(c.booking)'
    PROVE  IInv'
<1>1. c.booking \in Booking /\ c.to \in BookingStatus
  BY DEF IInv, TypeOK, Call
<1>2. PaymentTyped'
  BY DEF IInv, PaymentTyped
<1>grows. \A b \in Booking : Covered(b) => Covered(b)'
  BY DEF Covered, PaymentsOf
<1>3. CallsLegal'
  <2> SUFFICES ASSUME NEW k \in calls'
               PROVE  /\ LegalCall(k) /\ PaidCall(k)
                      /\ k.from \in PaidStatus => Covered(k.booking)'
    BY DEF CallsLegal, LegalCall, PaidCall, Passes
  <2>1. k \in calls /\ k.booking \in Booking
    BY DEF IInv, TypeOK, Call
  <2>2. QED
    BY <2>1, <1>grows DEF IInv, CallsLegal
<1>4. ConfirmedIsPaid'
  <2> SUFFICES ASSUME NEW b \in Booking, booking'[b] \in PaidStatus
               PROVE  Covered(b)'
    BY DEF ConfirmedIsPaid, Covered
  <2>1. CASE b = c.booking
    <3>1. booking'[b] = c.to
      BY <2>1, <1>1 DEF IInv, TypeOK
    <3>2. Passes(c) \/ c.from \in PaidStatus
      BY <3>1 DEF IInv, CallsLegal, PaidCall
    <3>3. CASE Passes(c)
      BY <2>1, <3>3 DEF Covered
    <3>4. CASE c.from \in PaidStatus
      <4>1. Covered(c.booking)
        BY <3>4 DEF IInv, CallsLegal
      <4>2. QED
        BY <4>1, <2>1, <1>grows
    <3>5. QED
      BY <3>2, <3>3, <3>4
  <2>2. CASE b # c.booking
    <3>1. booking'[b] = booking[b]
      BY <2>2 DEF IInv, TypeOK
    <3>2. Covered(b)
      BY <3>1 DEF IInv, ConfirmedIsPaid, Covered
    <3>3. QED
      BY <3>2, <1>grows
  <2>3. QED
    BY <2>1, <2>2
<1>5. QED
  BY <1>2, <1>3, <1>4 DEF IInv

LEMMA UpdateIInv ==
    ASSUME IInv, NEW c \in calls, UpdateBooking(c)
    PROVE  IInv'
<1>1. /\ c.write # "pay" /\ calls' = calls \ {c}
      /\ booking' = [booking EXCEPT ![c.booking] = c.to]
      /\ UNCHANGED <<status, paidFor, bookingHistory, commission, reviewed,
                     reviewing, marking, overlapped>>
  BY DEF UpdateBooking, paymentVars
<1>2. c.booking \in Booking /\ c.to \in BookingStatus
  BY DEF IInv, TypeOK, Call
<1>3. TypeOK'
  BY <1>1, <1>2 DEF IInv, TypeOK
<1>4. RecordedLegally'
  BY <1>1 DEF IInv, RecordedLegally
<1>5. MarksEntry'
  BY <1>1 DEF IInv, MarksEntry
<1>6. ~Passes(c) /\ \A b \in Booking : LetPass(b) => LetPass(b)'
  BY <1>1 DEF Passes, LetPass, UpdateBooking
<1>7. QED
  BY <1>1, <1>3, <1>4, <1>5, <1>6, MoveIInv

LEMMA RecordIInv ==
    ASSUME IInv, NEW c \in calls, RecordBooking(c)
    PROVE  IInv'
<1> DEFINE q == c.booking
           row == [from |-> c.from, to |-> c.to, actor |-> c.actor]
           n == Len(bookingHistory[q])
<1>1. /\ c.write # "pay" /\ calls' = calls \ {c}
      /\ booking' = [booking EXCEPT ![q] = c.to]
      /\ bookingHistory' = [bookingHistory EXCEPT ![q] = Append(bookingHistory[q], row)]
      /\ UNCHANGED <<status, paidFor, commission, reviewed, reviewing, marking, overlapped>>
  BY DEF RecordBooking, paymentVars
<1>2. q \in Booking /\ c.from \in BookingStatus /\ c.to \in BookingStatus
  BY DEF IInv, TypeOK, Call
<1>legal. /\ c.to \in StateTransitions(c.from)
          /\ c.actor \in StaffRole \cup {"PARTNER"}
          /\ c.actor # "PARTNER" => c.actor \in TransitionRoles(c.from, c.to)
  BY DEF RecordBooking, IInv, CallsLegal, LegalCall
<1>seq. bookingHistory[q] \in Seq(BookingRow) /\ n \in Nat
  BY <1>2 DEF IInv, TypeOK
<1>row. row \in BookingRow
  BY <1>2, <1>legal DEF BookingRow
<1>new. bookingHistory'[q] = Append(bookingHistory[q], row)
  BY <1>1, <1>2 DEF IInv, TypeOK
<1>others. \A b \in Booking : b # q => bookingHistory'[b] = bookingHistory[b]
  BY <1>1 DEF IInv, TypeOK
<1>append. Append(bookingHistory[q], row) \in Seq(BookingRow)
  BY <1>seq, <1>row
<1>3. TypeOK'
  <2>1. bookingHistory' \in [Booking -> Seq(BookingRow)]
    BY <1>1, <1>append DEF IInv, TypeOK
  <2>2. QED
    BY <1>1, <1>2, <2>1 DEF IInv, TypeOK
<1>4. RecordedLegally'
  <2> SUFFICES ASSUME NEW b \in Booking, NEW i \in DOMAIN bookingHistory'[b]
               PROVE  LET r == bookingHistory'[b][i]
                      IN  /\ r.to \in StateTransitions(r.from)
                          /\ r.actor # "PARTNER" =>
                                 r.actor \in TransitionRoles(r.from, r.to)
    BY DEF RecordedLegally
  <2>1. CASE b # q
    <3>1. bookingHistory'[b] = bookingHistory[b]
      BY <2>1, <1>others
    <3>2. QED
      BY <3>1 DEF IInv, RecordedLegally
  <2>2. CASE b = q /\ i \in 1..n
    <3>1. bookingHistory'[q][i] = bookingHistory[q][i]
      BY <2>2, <1>new, <1>seq
    <3>2. i \in DOMAIN bookingHistory[q]
      BY <2>2, <1>seq
    <3>3. QED
      BY <2>2, <3>1, <3>2 DEF IInv, RecordedLegally
  <2>3. CASE b = q /\ i = n + 1
    <3>1. bookingHistory'[q][i] = row
      BY <2>3, <1>new, <1>seq
    <3>2. QED
      BY <2>3, <3>1, <1>legal
  <2>4. b # q \/ i \in 1..n \/ i = n + 1
    <3>1. DOMAIN Append(bookingHistory[q], row) = 1..(n + 1)
      BY <1>seq
    <3>2. b = q => i \in 1..(n + 1)
      BY <3>1, <1>new
    <3>3. QED
      BY <3>2, <1>seq
  <2>5. QED
    BY <2>1, <2>2, <2>3, <2>4
<1>5. MarksEntry'
  BY <1>1 DEF IInv, MarksEntry
<1>6. \A b \in Booking : LetPass(b) => LetPass(b)'
  <2> SUFFICES ASSUME NEW b \in Booking, NEW i \in DOMAIN bookingHistory[b],
                      bookingHistory[b][i].to = "CONFIRMING"
               PROVE  LetPass(b)'
    BY DEF LetPass
  <2>1. i \in DOMAIN bookingHistory'[b] /\ bookingHistory'[b][i] = bookingHistory[b][i]
    <3>1. CASE b = q
      BY <3>1, <1>new, <1>seq
    <3>2. CASE b # q
      BY <3>2, <1>others
    <3>3. QED
      BY <3>1, <3>2
  <2>2. QED
    BY <2>1 DEF LetPass
<1>7. Passes(c) => LetPass(q)'
  <2>1. n + 1 \in DOMAIN bookingHistory'[q] /\ bookingHistory'[q][n + 1] = row
    BY <1>new, <1>seq
  <2>2. QED
    BY <2>1 DEF LetPass, Passes
<1>8. QED
  BY <1>1, <1>3, <1>4, <1>5, <1>6, <1>7, MoveIInv

LEMMA CompleteIInv ==
    ASSUME IInv, NEW c \in calls, CompleteBooking(c)
    PROVE  IInv'
<1>1. /\ c.write # "pay" /\ calls' = calls \ {c}
      /\ booking' = [booking EXCEPT ![c.booking] = c.to]
      /\ UNCHANGED <<status, paidFor, bookingHistory, reviewed, reviewing, marking, overlapped>>
  BY DEF CompleteBooking, paymentVars
<1>2. c.booking \in Booking /\ c.to \in BookingStatus
  BY DEF IInv, TypeOK, Call
<1>3. \A p \in Payment : \/ commission'[p] = commission[p]
                         \/ commission[p] = "PENDING" /\ commission'[p] = "ELIGIBLE"
  BY DEF CompleteBooking
<1>4. commission' \in [Payment -> {"NONE", "PENDING", "ELIGIBLE", "PAID"}]
  BY DEF CompleteBooking, IInv, TypeOK
<1>5. TypeOK'
  BY <1>1, <1>2, <1>3, <1>4 DEF IInv, TypeOK
<1>6. RecordedLegally'
  BY <1>1 DEF IInv, RecordedLegally
<1>7. MarksEntry'
  <2>1. \A c1 \in marking : c1.payment \in Payment /\ commission[c1.payment] # "NONE"
    BY DEF IInv, TypeOK, MarksEntry
  <2>2. QED
    BY <1>1, <1>3, <2>1 DEF MarksEntry
<1>8. ~Passes(c) /\ \A b \in Booking : LetPass(b) => LetPass(b)'
  BY <1>1 DEF Passes, LetPass, CompleteBooking
<1>9. QED
  BY <1>1, <1>5, <1>6, <1>7, <1>8, MoveIInv

\* The payment: the booking goes on and has a payment from then on, and no
\* other booking loses one.
LEMMA PayIInv ==
    ASSUME IInv, NEW c \in calls, PayBooking(c)
    PROVE  IInv'
<1>1. PICK p \in Payment : /\ status[p] = "ABSENT"
                           /\ status' = [status EXCEPT ![p] = "CAPTURED"]
                           /\ paidFor' = [paidFor EXCEPT ![p] = c.booking]
                           /\ commission' = [commission EXCEPT ![p] = "PENDING"]
  BY DEF PayBooking
<1>2. /\ calls' = calls \ {c}
      /\ booking' = [booking EXCEPT ![c.booking] = c.to]
      /\ UNCHANGED <<bookingHistory, reviewed, reviewing, marking, overlapped>>
  BY DEF PayBooking
<1>3. c.booking \in Booking /\ c.to \in BookingStatus /\ c.booking # NoBooking
  BY NoBookingAssumption DEF IInv, TypeOK, Call
<1>4. paidFor[p] = NoBooking
  BY <1>1 DEF IInv, TypeOK
<1>at. /\ status'[p] = "CAPTURED" /\ paidFor'[p] = c.booking
       /\ commission'[p] = "PENDING"
       /\ \A q \in Payment : q # p => /\ status'[q] = status[q]
                                      /\ paidFor'[q] = paidFor[q]
                                      /\ commission'[q] = commission[q]
  BY <1>1 DEF IInv, TypeOK, PaymentTyped
<1>grows. \A b \in Booking : Covered(b) => Covered(b)'
  <2>1. ASSUME NEW b \in Booking, NEW q \in Payment, paidFor[q] = b
        PROVE  paidFor'[q] = b
    <3>1. q # p
      BY <2>1, <1>4, NoBookingAssumption
    <3>2. QED
      BY <2>1, <3>1, <1>at
  <2>2. \A b \in Booking : PaymentsOf(b) # {} => PaymentsOf(b)' # {}
    BY <2>1 DEF PaymentsOf
  <2>3. \A b \in Booking : LetPass(b)' <=> LetPass(b)
    BY <1>2 DEF LetPass
  <2>4. QED
    BY <2>2, <2>3 DEF Covered
<1>5. PaymentTyped'
  BY <1>1 DEF IInv, PaymentTyped, PaymentStatus
<1>6. TypeOK'
  <2>1. \A q \in Payment : /\ status'[q] = "ABSENT" <=> paidFor'[q] = NoBooking
                           /\ commission'[q] = "NONE" <=> paidFor'[q] = NoBooking
    BY <1>at, <1>3 DEF IInv, TypeOK
  <2>2. /\ paidFor' \in [Payment -> Booking \cup {NoBooking}]
        /\ commission' \in [Payment -> {"NONE", "PENDING", "ELIGIBLE", "PAID"}]
        /\ booking' \in [Booking -> BookingStatus \cup {"ABSENT"}]
    BY <1>1, <1>2, <1>3 DEF IInv, TypeOK
  <2>3. QED
    BY <1>2, <2>1, <2>2 DEF IInv, TypeOK
<1>7. CallsLegal'
  <2>1. \A k \in calls' : k \in calls /\ k.booking \in Booking
    BY <1>2 DEF IInv, TypeOK, Call
  <2>2. \A k \in calls' : k.from \in PaidStatus => Covered(k.booking)'
    BY <2>1, <1>grows DEF IInv, CallsLegal
  <2>3. \A k \in calls' : LegalCall(k) /\ PaidCall(k)
    BY <2>1 DEF IInv, CallsLegal
  <2>4. QED
    BY <2>2, <2>3 DEF CallsLegal, LegalCall, PaidCall, Passes
<1>8. RecordedLegally'
  BY <1>2 DEF IInv, RecordedLegally
<1>9. ConfirmedIsPaid'
  <2> SUFFICES ASSUME NEW b \in Booking, booking'[b] \in PaidStatus
               PROVE  Covered(b)'
    BY DEF ConfirmedIsPaid, Covered
  <2>1. CASE b = c.booking
    BY <2>1, <1>at DEF Covered, PaymentsOf
  <2>2. CASE b # c.booking
    <3>1. booking'[b] = booking[b]
      BY <2>2, <1>2 DEF IInv, TypeOK
    <3>2. Covered(b)
      BY <3>1 DEF IInv, ConfirmedIsPaid, Covered
    <3>3. QED
      BY <3>2, <1>grows
  <2>3. QED
    BY <2>1, <2>2
<1>10. MarksEntry'
  <2>1. \A k \in marking : k.payment \in Payment /\ commission[k.payment] # "NONE"
    BY DEF IInv, TypeOK, MarksEntry
  <2>2. QED
    BY <1>2, <1>at, <2>1 DEF MarksEntry
<1>11. QED
  BY <1>5, <1>6, <1>7, <1>8, <1>9, <1>10 DEF IInv

-----------------------------------------------------------------------------
\* Creations, reviews, marked commissions and dying calls.
LEMMA OtherIInv ==
    ASSUME IInv,
           \/ \E b \in Booking : Create(b)
           \/ \E w \in Worker, b \in Booking : ReviewCheck(w, b)
           \/ \E c \in reviewing : ReviewInsert(c)
           \/ \E w \in Worker, p \in Payment, to \in {"ELIGIBLE", "PAID"} :
                 MarkCheck(w, p, to)
           \/ \E c \in marking : MarkUpdate(c)
           \/ Die
           \/ UNCHANGED bookingsVars
    PROVE  IInv'
<1>types. TypeOK /\ MarksEntry
  BY DEF IInv
<1>marks. \A c \in marking : c.payment \in Payment
  BY <1>types DEF TypeOK
<1>1. ASSUME NEW b \in Booking, Create(b) PROVE IInv'
  <2>1. /\ booking' = [booking EXCEPT ![b] = "DRAFT"]
        /\ UNCHANGED <<status, paidFor, bookingHistory, commission, reviewed, calls,
                       reviewing, marking, overlapped>>
    BY <1>1 DEF Create, paymentVars, bookingOnlyVars
  <2>2. TypeOK' /\ MarksEntry'
    BY <1>types, <2>1 DEF TypeOK, BookingStatus, MarksEntry
  <2>3. \A q \in Booking : booking'[q] \in PaidStatus => booking'[q] = booking[q]
    BY <1>types, <2>1 DEF TypeOK, PaidStatus
  <2>4. QED
    BY <2>1, <2>2, <2>3, QuietIInv
<1>2. ASSUME NEW w \in Worker, NEW b \in Booking, ReviewCheck(w, b) PROVE IInv'
  <2>1. /\ reviewing' = reviewing \cup {[by |-> w, booking |-> b]}
        /\ UNCHANGED <<status, booking, paidFor, bookingHistory, commission, reviewed,
                       calls, marking>>
    BY <1>2 DEF ReviewCheck, paymentVars, bookingVars
  <2>o. overlapped' \in BOOLEAN
    BY <1>2, Zenon DEF ReviewCheck, Overlap
  <2>2. TypeOK' /\ MarksEntry'
    BY <1>types, <2>1, <2>o DEF TypeOK, MarksEntry
  <2>3. QED
    BY <2>1, <2>2, QuietIInv
<1>3. ASSUME NEW c \in reviewing, ReviewInsert(c) PROVE IInv'
  <2>1. /\ reviewed' = reviewed \cup {c.booking} /\ reviewing' = reviewing \ {c}
        /\ UNCHANGED <<status, booking, paidFor, bookingHistory, commission, calls,
                       marking, overlapped>>
    BY <1>3 DEF ReviewInsert, paymentVars, bookingVars
  <2>2. c.booking \in Booking
    BY <1>types DEF TypeOK
  <2>3. TypeOK' /\ MarksEntry'
    BY <1>types, <2>1, <2>2 DEF TypeOK, MarksEntry
  <2>4. QED
    BY <2>1, <2>3, QuietIInv
<1>4. ASSUME NEW w \in Worker, NEW p \in Payment, NEW to \in {"ELIGIBLE", "PAID"},
             MarkCheck(w, p, to)
      PROVE  IInv'
  <2>1. /\ marking' = marking \cup {[by |-> w, payment |-> p, to |-> to]}
        /\ UNCHANGED <<status, booking, paidFor, bookingHistory, commission, reviewed,
                       calls, reviewing>>
    BY <1>4 DEF MarkCheck, paymentVars, bookingVars
  <2>2. [by |-> w, payment |-> p, to |-> to]
            \in [by : Worker, payment : Payment, to : {"ELIGIBLE", "PAID"}]
    BY <1>4
  <2>o. overlapped' \in BOOLEAN
    BY <1>4, Zenon DEF MarkCheck, Overlap
  <2>3. TypeOK'
    BY <1>types, <2>1, <2>2, <2>o DEF TypeOK
  <2>4. commission[p] # "NONE"
    BY <1>4 DEF MarkCheck, MarkableFrom
  <2>5. MarksEntry'
    BY <1>types, <2>1, <2>4 DEF MarksEntry
  <2>6. QED
    BY <2>1, <2>3, <2>5, QuietIInv
<1>5. ASSUME NEW c \in marking, MarkUpdate(c) PROVE IInv'
  <2>1. /\ commission' = [commission EXCEPT ![c.payment] = c.to]
        /\ marking' = marking \ {c}
        /\ UNCHANGED <<status, booking, paidFor, bookingHistory, reviewed, calls,
                       reviewing, overlapped>>
    BY <1>5 DEF MarkUpdate, paymentVars, bookingVars
  <2>2. c.payment \in Payment /\ c.to \in {"ELIGIBLE", "PAID"}
    BY <1>types DEF TypeOK
  <2>3. commission[c.payment] # "NONE"
    BY <1>types DEF MarksEntry
  <2>4. TypeOK'
    BY <1>types, <2>1, <2>2, <2>3 DEF TypeOK
  <2>5. \A q \in Payment : commission'[q] = commission[q] \/ commission'[q] = c.to
    BY <1>types, <2>1 DEF TypeOK
  <2>6. MarksEntry'
    BY <1>types, <1>marks, <2>1, <2>2, <2>5 DEF MarksEntry
  <2>7. QED
    BY <2>1, <2>4, <2>6, QuietIInv
<1>6. CASE Die
  <2>1. /\ calls' \subseteq calls /\ reviewing' \subseteq reviewing
        /\ marking' \subseteq marking
        /\ UNCHANGED <<status, booking, paidFor, bookingHistory, commission, reviewed, overlapped>>
    BY <1>6 DEF Die, paymentVars, bookingVars
  <2>2. TypeOK' /\ MarksEntry'
    BY <1>types, <2>1 DEF TypeOK, MarksEntry
  <2>3. QED
    BY <2>1, <2>2, QuietIInv
<1>7. CASE UNCHANGED bookingsVars
  <2>1. UNCHANGED <<status, booking, paidFor, bookingHistory, commission, reviewed,
                    calls, reviewing, marking, overlapped>>
    BY <1>7 DEF bookingsVars
  <2>2. TypeOK' /\ MarksEntry'
    BY <1>types, <2>1 DEF TypeOK, MarksEntry
  <2>3. QED
    BY <2>1, <2>2, QuietIInv
<1>8. QED
  BY <1>1, <1>2, <1>3, <1>4, <1>5, <1>6, <1>7

\* Every step preserves the invariant.
LEMMA NextIInv ==
    ASSUME IInv, [Next]_bookingsVars
    PROVE  IInv'
<1>1. ASSUME NEW c \in calls, \/ UpdateBooking(c) \/ RecordBooking(c)
                              \/ PayBooking(c) \/ CompleteBooking(c)
      PROVE  IInv'
  BY <1>1, UpdateIInv, RecordIInv, PayIInv, CompleteIInv
<1>2. ASSUME NEW w \in Worker, NEW b \in Booking, NEW to \in BookingStatus,
             PartnerMove(w, b, to) \/ \E role \in StateRole : StateMove(w, b, role, to)
      PROVE  IInv'
  BY <1>2, PartnerReadIInv, StaffReadIInv
<1>3. ASSUME NEW w \in Worker, NEW b \in Booking,
             \/ Submit(w, b) \/ Approve(w, b) \/ Reject(w, b) \/ SubmitPayment(w, b)
             \/ Confirm(w, b) \/ Complete(w, b) \/ Cancel(w, b)
             \/ CustomerCancel(w, b)
      PROVE  IInv'
  BY <1>3, ServiceReadIInv
<1>4. QED
  BY <1>1, <1>2, <1>3, OtherIInv DEF Next

-----------------------------------------------------------------------------
\* The inductive invariant holds in every reachable state.
THEOREM SpecIInv == Spec => []IInv
<1>1. Init => IInv
  BY InitIInv
<1>2. IInv /\ [Next]_bookingsVars => IInv'
  BY NextIInv
<1>3. QED
  BY <1>1, <1>2, PTL DEF Spec

\* The rows and the calls of the booking handlers have their types, and
\* commission entries and payments come in pairs.
THEOREM TypeCorrect == Spec => []TypeOK
<1>1. IInv => TypeOK
  BY DEF IInv
<1>2. QED
  BY <1>1, SpecIInv, PTL

\* Every change that the booking history records is one that the state
\* machine admits for the role that made it, in whatever order calls overlap.
THEOREM RecordedCorrect == Spec => []RecordedLegally
<1>1. IInv => RecordedLegally
  BY DEF IInv
<1>2. QED
  BY <1>1, SpecIInv, PTL

\* No booking is confirmed, completed or in dispute that has neither a
\* captured payment nor a history row by which staff let it pass without one.
THEOREM PaidCorrect == Spec => []ConfirmedIsPaid
<1>1. IInv => ConfirmedIsPaid
  BY DEF IInv
<1>2. QED
  BY <1>1, SpecIInv, PTL

-----------------------------------------------------------------------------
(* What holds until calls overlap.                                         *)

\* The statuses in which nobody has paid yet.
Early == {"ABSENT", "DRAFT", "PENDING_APPROVAL", "PAYMENT_PENDING", "REJECTED"}

\* Call c takes an edge of one of the two state machines, and pays on the way
\* from PAYMENT_PENDING only.
OnEdge(c) ==
    /\ c.to \in ServiceTransitions(c.from) \cup StateTransitions(c.from)
    /\ c.write = "pay" => c.from = "PAYMENT_PENDING" /\ c.to = "CONFIRMING"

\* There is one call, and what it has read still holds.
OneAtATime ==
    /\ \A c, d \in calls : c = d
    /\ \A c, d \in marking : c = d
    /\ calls # {} => reviewing = {} /\ marking = {}
    /\ \A c \in calls : booking[c.booking] = c.from
    /\ \A c \in reviewing : booking[c.booking] = "COMPLETED"
    /\ \A c \in marking : commission[c.payment] \in MarkableFrom(c.to)

PaidAfterEarly == \A b \in Booking : booking[b] \in Early => PaymentsOf(b) = {}

ReviewsOfCompleted == \A b \in reviewed : booking[b] = "COMPLETED"

\* The inductive invariant, beside IInv.
Turns ==
    /\ \A c \in calls : OnEdge(c)
    /\ ~overlapped => OneAtATime /\ PaidAfterEarly /\ ChargedOnce /\ ReviewsOfCompleted

LEMMA InitTurns == Init => Turns
<1> SUFFICES ASSUME Init PROVE Turns
  OBVIOUS
<1>1. /\ calls = {} /\ reviewing = {} /\ marking = {} /\ reviewed = {}
      /\ \A p \in Payment : paidFor[p] = NoBooking
  BY DEF Init, OwnInit, EmptyPayments
<1>2. \A b \in Booking : PaymentsOf(b) = {}
  BY <1>1, NoBookingAssumption DEF PaymentsOf
<1>3. QED
  BY <1>1, <1>2 DEF Turns, OneAtATime, PaidAfterEarly, ChargedOnce, ReviewsOfCompleted

\* An edge does not leave COMPLETED, and does not lead back before the payment.
LEMMA EdgeFacts ==
    ASSUME NEW from, NEW to, to \in ServiceTransitions(from) \cup StateTransitions(from)
    PROVE  /\ from # "COMPLETED"
           /\ to \in Early => from \in Early
           /\ from # "ABSENT" /\ to # "ABSENT"
  BY DEF ServiceTransitions, StateTransitions, Early

\* A read adds its call; if another is in progress, calls overlap.
LEMMA BeginTurns ==
    ASSUME IInv, Turns, NEW w \in Worker, NEW b \in Booking, NEW write, NEW to, NEW actor,
           Begin(w, write, b, to, actor),
           to \in ServiceTransitions(booking[b]) \cup StateTransitions(booking[b]),
           write = "pay" => booking[b] = "PAYMENT_PENDING" /\ to = "CONFIRMING"
    PROVE  Turns'
<1> DEFINE c0 == [by |-> w, write |-> write, booking |-> b, from |-> booking[b],
                  to |-> to, actor |-> actor]
<1>1. /\ calls' = calls \cup {c0}
      /\ overlapped' = Overlap
      /\ UNCHANGED <<booking, paidFor, commission, reviewed, reviewing, marking>>
  BY DEF Begin, paymentVars, bookingVars
<1>2. OnEdge(c0)
  BY DEF OnEdge
<1>3. \A c \in calls' : OnEdge(c)
  BY <1>1, <1>2 DEF Turns
<1>4. ASSUME ~overlapped' PROVE (OneAtATime /\ PaidAfterEarly /\ ChargedOnce /\ ReviewsOfCompleted)'
  <2>1. ~overlapped /\ calls = {} /\ reviewing = {} /\ marking = {}
    BY <1>1, <1>4, Zenon DEF Overlap
  <2>2. OneAtATime'
    BY <1>1, <2>1 DEF OneAtATime
  <2>3. (PaidAfterEarly /\ ChargedOnce /\ ReviewsOfCompleted)'
    BY <1>1, <2>1 DEF Turns, PaidAfterEarly, ChargedOnce, ReviewsOfCompleted, PaymentsOf
  <2>4. QED
    BY <2>2, <2>3
<1>5. (\A c \in calls : OnEdge(c))'
  BY <1>3 DEF OnEdge
<1>6. QED
  BY <1>4, <1>5, Zenon DEF Turns

-----------------------------------------------------------------------------
\* A write of a booking.  Until calls overlap its booking is as it was read,
\* and nobody reviews or marks meanwhile.
LEMMA MoveTurns ==
    ASSUME IInv, Turns, NEW c \in calls, calls' = calls \ {c},
           booking' = [booking EXCEPT ![c.booking] = c.to],
           UNCHANGED <<reviewed, reviewing, marking, overlapped>>,
           \/ UNCHANGED paidFor
           \/ c.write = "pay" /\ \E p \in Payment :
                  paidFor[p] = NoBooking /\ paidFor' = [paidFor EXCEPT ![p] = c.booking]
    PROVE  Turns'
<1>1. c \in Call /\ c.booking \in Booking
  BY DEF IInv, TypeOK, Call
<1>2. \A d \in calls' : OnEdge(d)
  BY DEF Turns
<1>3. ASSUME ~overlapped
      PROVE  (OneAtATime /\ PaidAfterEarly /\ ChargedOnce /\ ReviewsOfCompleted)'
  <2>1. /\ OneAtATime /\ PaidAfterEarly /\ ChargedOnce /\ ReviewsOfCompleted
        /\ OnEdge(c)
    BY <1>3 DEF Turns
  <2>2. calls' = {} /\ reviewing = {} /\ marking = {} /\ booking[c.booking] = c.from
    BY <2>1 DEF OneAtATime
  <2>3. OneAtATime'
    BY <2>2 DEF OneAtATime
  <2>4. c.from # "COMPLETED" /\ (c.to \in Early => c.from \in Early)
    BY <2>1, EdgeFacts DEF OnEdge
  <2>5. /\ booking'[c.booking] = c.to
        /\ \A b \in Booking : b # c.booking => booking'[b] = booking[b]
    BY <1>1 DEF IInv, TypeOK
  <2>6. ReviewsOfCompleted'
    BY <2>1, <2>2, <2>4, <2>5 DEF ReviewsOfCompleted, IInv, TypeOK
  <2>7. CASE UNCHANGED paidFor
    <3>1. \A b \in Booking : PaymentsOf(b)' = PaymentsOf(b)
      BY <2>7 DEF PaymentsOf
    <3>2. QED
      BY <2>1, <2>2, <2>3, <2>4, <2>5, <2>6, <3>1 DEF PaidAfterEarly, ChargedOnce
  <2>8. ASSUME c.write = "pay", NEW p \in Payment, paidFor[p] = NoBooking,
               paidFor' = [paidFor EXCEPT ![p] = c.booking]
        PROVE  (PaidAfterEarly /\ ChargedOnce)'
    <3>1. c.from = "PAYMENT_PENDING" /\ c.to = "CONFIRMING"
      BY <2>1, <2>8 DEF OnEdge
    <3>2. PaymentsOf(c.booking) = {}
      BY <1>1, <2>1, <2>2, <3>1 DEF PaidAfterEarly, Early
    <3>3. PaymentsOf(c.booking)' = {p}
      BY <2>8, <3>2 DEF PaymentsOf, IInv, TypeOK
    <3>4. \A b \in Booking : b # c.booking => PaymentsOf(b)' = PaymentsOf(b)
      BY <2>8, NoBookingAssumption DEF PaymentsOf, IInv, TypeOK
    <3>5. QED
      BY <2>1, <2>5, <3>1, <3>3, <3>4 DEF PaidAfterEarly, ChargedOnce, Early
  <2>9. QED
    BY <2>1, <2>3, <2>6, <2>7, <2>8
<1>4. (\A d \in calls : OnEdge(d))'
  BY <1>2 DEF OnEdge
<1>5. QED
  BY <1>3, <1>4 DEF Turns

LEMMA WriteTurns ==
    ASSUME IInv, Turns, NEW c \in calls,
           UpdateBooking(c) \/ RecordBooking(c) \/ PayBooking(c) \/ CompleteBooking(c)
    PROVE  Turns'
<1>1. /\ calls' = calls \ {c}
      /\ booking' = [booking EXCEPT ![c.booking] = c.to]
      /\ UNCHANGED <<reviewed, reviewing, marking, overlapped>>
  BY DEF UpdateBooking, RecordBooking, PayBooking, CompleteBooking
<1>2. \/ UNCHANGED paidFor
      \/ c.write = "pay" /\ \E p \in Payment :
             paidFor[p] = NoBooking /\ paidFor' = [paidFor EXCEPT ![p] = c.booking]
  BY DEF UpdateBooking, RecordBooking, PayBooking, CompleteBooking, IInv, TypeOK
<1>3. QED
  BY <1>1, <1>2, MoveTurns

\* The checks of the handlers: every one is of an edge.
LEMMA ReadTurns ==
    ASSUME IInv, Turns, NEW w \in Worker, NEW b \in Booking,
           \/ Submit(w, b) \/ Approve(w, b) \/ Reject(w, b) \/ SubmitPayment(w, b)
           \/ Confirm(w, b) \/ Complete(w, b) \/ Cancel(w, b) \/ CustomerCancel(w, b)
           \/ \E to \in BookingStatus :
                 \/ PartnerMove(w, b, to)
                 \/ \E role \in StateRole : StateMove(w, b, role, to)
    PROVE  Turns'
<1>1. ASSUME NEW write, NEW to, NEW actor, Begin(w, write, b, to, actor),
             to \in ServiceTransitions(booking[b]) \cup StateTransitions(booking[b]),
             write # "pay"
      PROVE  Turns'
  BY <1>1, BeginTurns
<1>2. CASE Submit(w, b)
  BY <1>1, <1>2 DEF Submit, ServiceTransitions
<1>3. CASE Approve(w, b)
  BY <1>1, <1>3 DEF Approve
<1>4. CASE Reject(w, b)
  BY <1>1, <1>4 DEF Reject
<1>5. CASE SubmitPayment(w, b)
  <2>1. booking[b] = "PAYMENT_PENDING"
    BY <1>5 DEF SubmitPayment, ServiceTransitions
  <2>2. QED
    BY <1>5, <2>1, BeginTurns DEF SubmitPayment
<1>6. CASE Confirm(w, b)
  BY <1>1, <1>6 DEF Confirm
<1>7. CASE Complete(w, b)
  BY <1>1, <1>7 DEF Complete
<1>8. CASE Cancel(w, b)
  BY <1>1, <1>8 DEF Cancel
<1>9. CASE CustomerCancel(w, b)
  BY <1>1, <1>9 DEF CustomerCancel, ServiceTransitions
<1>10. ASSUME NEW to \in BookingStatus, PartnerMove(w, b, to) PROVE Turns'
  <2>1. to \in StateTransitions(booking[b])
    BY <1>10 DEF PartnerMove, PartnerStep, StateTransitions
  <2>2. QED
    BY <1>1, <1>10, <2>1 DEF PartnerMove
<1>11. ASSUME NEW to \in BookingStatus, NEW role \in StateRole, StateMove(w, b, role, to)
       PROVE  Turns'
  BY <1>1, <1>11 DEF StateMove
<1>12. QED
  BY <1>2, <1>3, <1>4, <1>5, <1>6, <1>7, <1>8, <1>9, <1>10, <1>11

\* Creations, reviews, marked commissions and dying calls.
LEMMA OtherTurns ==
    ASSUME IInv, Turns,
           \/ \E b \in Booking : Create(b)
           \/ \E w \in Worker, b \in Booking : ReviewCheck(w, b)
           \/ \E c \in reviewing : ReviewInsert(c)
           \/ \E w \in Worker, p \in Payment, to \in {"ELIGIBLE", "PAID"} :
                 MarkCheck(w, p, to)
           \/ \E c \in marking : MarkUpdate(c)
           \/ Die
           \/ UNCHANGED bookingsVars
    PROVE  Turns'
<1>edges. ASSUME calls' \subseteq calls PROVE (\A c \in calls : OnEdge(c))'
  BY <1>edges DEF Turns, OnEdge
<1>1. ASSUME NEW b \in Booking, Create(b) PROVE Turns'
  <2>1. /\ booking[b] = "ABSENT"
        /\ booking' = [booking EXCEPT ![b] = "DRAFT"]
        /\ UNCHANGED <<paidFor, commission, reviewed, calls, reviewing, marking, overlapped>>
    BY <1>1 DEF Create, bookingOnlyVars
  <2>2. /\ booking'[b] = "DRAFT"
        /\ \A q \in Booking : q # b => booking'[q] = booking[q]
    BY <2>1 DEF IInv, TypeOK
  <2>3. ASSUME ~overlapped
        PROVE  (OneAtATime /\ PaidAfterEarly /\ ChargedOnce /\ ReviewsOfCompleted)'
    <3>1. OneAtATime /\ PaidAfterEarly /\ ChargedOnce /\ ReviewsOfCompleted
      BY <2>3 DEF Turns
    <3>2. \A c \in calls : c.booking \in Booking /\ c.booking # b
      <4>1. \A c \in calls : c.booking \in Booking /\ c.from \in BookingStatus
        BY DEF IInv, TypeOK, Call
      <4>2. "ABSENT" \notin BookingStatus
        BY DEF BookingStatus
      <4>3. QED
        BY <2>1, <3>1, <4>1, <4>2 DEF OneAtATime
    <3>3. \A c \in reviewing : c.booking \in Booking /\ c.booking # b
      BY <2>1, <3>1 DEF OneAtATime, IInv, TypeOK
    <3>4. OneAtATime'
      BY <2>1, <2>2, <3>1, <3>2, <3>3 DEF OneAtATime
    <3>5. (PaidAfterEarly /\ ChargedOnce)'
      BY <2>1, <2>2, <3>1 DEF PaidAfterEarly, ChargedOnce, PaymentsOf, Early
    <3>6. ReviewsOfCompleted'
      BY <2>1, <2>2, <3>1 DEF ReviewsOfCompleted, IInv, TypeOK
    <3>7. QED
      BY <3>4, <3>5, <3>6
  <2>4. QED
    BY <1>edges, <2>1, <2>3 DEF Turns
<1>2. ASSUME NEW w \in Worker, NEW b \in Booking, ReviewCheck(w, b) PROVE Turns'
  <2>1. /\ booking[b] = "COMPLETED"
        /\ reviewing' = reviewing \cup {[by |-> w, booking |-> b]}
        /\ overlapped' = Overlap
        /\ UNCHANGED <<booking, paidFor, commission, reviewed, calls, marking>>
    BY <1>2 DEF ReviewCheck, bookingVars
  <2>2. ASSUME ~overlapped'
        PROVE  (OneAtATime /\ PaidAfterEarly /\ ChargedOnce /\ ReviewsOfCompleted)'
    <3>1. ~overlapped /\ calls = {} /\ reviewing = {} /\ marking = {}
      BY <2>1, <2>2, Zenon DEF Overlap
    <3>2. QED
      BY <2>1, <3>1 DEF Turns, OneAtATime, PaidAfterEarly, ChargedOnce, ReviewsOfCompleted, PaymentsOf
  <2>3. QED
    BY <1>edges, <2>1, <2>2, Zenon DEF Turns
<1>3. ASSUME NEW c \in reviewing, ReviewInsert(c) PROVE Turns'
  <2>1. /\ reviewed' = reviewed \cup {c.booking}
        /\ reviewing' = reviewing \ {c}
        /\ UNCHANGED <<booking, paidFor, commission, calls, marking, overlapped>>
    BY <1>3 DEF ReviewInsert, bookingVars
  <2>2. ASSUME ~overlapped
        PROVE  (OneAtATime /\ PaidAfterEarly /\ ChargedOnce /\ ReviewsOfCompleted)'
    BY <2>1, <2>2 DEF Turns, OneAtATime, PaidAfterEarly, ChargedOnce, ReviewsOfCompleted, PaymentsOf
  <2>3. QED
    BY <1>edges, <2>1, <2>2 DEF Turns
<1>4. ASSUME NEW w \in Worker, NEW p \in Payment, NEW to \in {"ELIGIBLE", "PAID"},
             MarkCheck(w, p, to)
      PROVE  Turns'
  <2>1. /\ commission[p] \in MarkableFrom(to)
        /\ marking' = marking \cup {[by |-> w, payment |-> p, to |-> to]}
        /\ overlapped' = Overlap
        /\ UNCHANGED <<booking, paidFor, commission, reviewed, calls, reviewing>>
    BY <1>4 DEF MarkCheck, bookingVars
  <2>2. ASSUME ~overlapped'
        PROVE  (OneAtATime /\ PaidAfterEarly /\ ChargedOnce /\ ReviewsOfCompleted)'
    <3>1. ~overlapped /\ calls = {} /\ reviewing = {} /\ marking = {}
      BY <2>1, <2>2, Zenon DEF Overlap
    <3>2. OneAtATime'
      BY <2>1, <3>1 DEF OneAtATime, MarkableFrom
    <3>3. QED
      BY <2>1, <3>1, <3>2 DEF Turns, PaidAfterEarly, ChargedOnce, ReviewsOfCompleted, PaymentsOf
  <2>3. QED
    BY <1>edges, <2>1, <2>2, Zenon DEF Turns
<1>5. ASSUME NEW c \in marking, MarkUpdate(c) PROVE Turns'
  <2>1. /\ marking' = marking \ {c}
        /\ UNCHANGED <<booking, paidFor, reviewed, calls, reviewing, overlapped>>
    BY <1>5 DEF MarkUpdate, bookingVars
  <2>2. ASSUME ~overlapped
        PROVE  (OneAtATime /\ PaidAfterEarly /\ ChargedOnce /\ ReviewsOfCompleted)'
    <3>1. OneAtATime /\ PaidAfterEarly /\ ChargedOnce /\ ReviewsOfCompleted
      BY <2>2 DEF Turns
    <3>2. marking' = {} /\ calls' = {}
      BY <2>1, <3>1 DEF OneAtATime
    <3>3. QED
      BY <2>1, <3>1, <3>2 DEF OneAtATime, PaidAfterEarly, ChargedOnce, ReviewsOfCompleted, PaymentsOf
  <2>3. QED
    BY <1>edges, <2>1, <2>2 DEF Turns
<1>6. CASE Die \/ UNCHANGED bookingsVars
  <2>1. /\ calls' \subseteq calls /\ reviewing' \subseteq reviewing /\ marking' \subseteq marking
        /\ UNCHANGED <<booking, paidFor, commission, reviewed, overlapped>>
    BY <1>6 DEF Die, bookingVars, bookingsVars
  <2>2. ASSUME ~overlapped
        PROVE  (OneAtATime /\ PaidAfterEarly /\ ChargedOnce /\ ReviewsOfCompleted)'
    <3>1. OneAtATime /\ PaidAfterEarly /\ ChargedOnce /\ ReviewsOfCompleted
      BY <2>2 DEF Turns
    <3>2. OneAtATime'
      BY <2>1, <3>1 DEF OneAtATime
    <3>3. QED
      BY <2>1, <3>1, <3>2 DEF PaidAfterEarly, ChargedOnce, ReviewsOfCompleted, PaymentsOf
  <2>3. QED
    BY <1>edges, <2>1, <2>2 DEF Turns
<1>7. QED
  BY <1>1, <1>2, <1>3, <1>4, <1>5, <1>6

THEOREM SpecTurns == Spec => [](IInv /\ Turns)
<1>1. ASSUME IInv, Turns, [Next]_bookingsVars PROVE Turns'
  <2>1. ASSUME NEW w \in Worker, NEW b \in Booking,
               \/ Submit(w, b) \/ Approve(w, b) \/ Reject(w, b) \/ SubmitPayment(w, b)
               \/ Confirm(w, b) \/ Complete(w, b) \/ Cancel(w, b) \/ CustomerCancel(w, b)
               \/ \E to \in BookingStatus :
                     \/ PartnerMove(w, b, to)
                     \/ \E role \in StateRole : StateMove(w, b, role, to)
        PROVE  Turns'
    BY <1>1, <2>1, ReadTurns
  <2>2. ASSUME NEW c \in calls, \/ UpdateBooking(c) \/ RecordBooking(c)
                                \/ PayBooking(c) \/ CompleteBooking(c)
        PROVE  Turns'
    BY <1>1, <2>2, WriteTurns
  <2>3. QED
    BY <1>1, <2>1, <2>2, OtherTurns DEF Next
<1>2. IInv /\ Turns /\ [Next]_bookingsVars => Turns'
  BY <1>1
<1>3. QED
  BY <1>2, InitTurns, SpecIInv, PTL DEF Spec

\* Until calls overlap, a booking is paid once at most, and only after it was
\* approved: the two transactions of two payments would have to cross.
THEOREM PaidOnceCorrect == Spec => []PaidOnce
<1>1. IInv /\ Turns => PaidOnce
  BY DEF Turns, PaidOnce, PaidAfterEarly, Early
<1>2. QED
  BY <1>1, SpecTurns, PTL

\* Until calls overlap, only completed bookings have a review, whose handler
\* checks the status some time before it inserts.
THEOREM ReviewedCorrect == Spec => []ReviewedIsCompleted
<1>1. IInv /\ Turns => ReviewedIsCompleted
  BY DEF Turns, ReviewedIsCompleted, ReviewsOfCompleted
<1>2. QED
  BY <1>1, SpecTurns, PTL

\* Until calls overlap, a commission that was paid stays paid, although the
\* completion of the booking and the staff's marks write it too.
THEOREM PaidStaysCorrect == Spec => PaidCommissionStays
<1>1. ASSUME IInv, Turns, [Next]_bookingsVars PROVE PaidStays
  <2> SUFFICES ASSUME ~overlapped', NEW p \in Payment, commission[p] = "PAID"
               PROVE  commission'[p] = "PAID"
    BY DEF PaidStays
  <2>1. ASSUME NEW c \in calls, PayBooking(c) PROVE commission'[p] = "PAID"
    <3>1. PICK q \in Payment : /\ status[q] = "ABSENT"
                               /\ commission' = [commission EXCEPT ![q] = "PENDING"]
      BY <2>1 DEF PayBooking
    <3>2. q # p
      BY <1>1, <3>1 DEF IInv, TypeOK
    <3>3. QED
      BY <1>1, <3>1, <3>2 DEF IInv, TypeOK
  <2>2. ASSUME NEW c \in calls, CompleteBooking(c) PROVE commission'[p] = "PAID"
    BY <2>2 DEF CompleteBooking
  <2>3. ASSUME NEW c \in marking, MarkUpdate(c) PROVE commission'[p] = "PAID"
    <3>1. ~overlapped /\ commission' = [commission EXCEPT ![c.payment] = c.to]
      BY <2>3, Zenon DEF MarkUpdate
    <3>2. commission[c.payment] \in MarkableFrom(c.to)
      BY <1>1, <3>1 DEF Turns, OneAtATime
    <3>3. c.payment # p
      BY <3>2 DEF MarkableFrom
    <3>4. QED
      BY <1>1, <3>1, <3>3 DEF IInv, TypeOK
  <2>4. \/ \E c \in calls : PayBooking(c) \/ CompleteBooking(c)
        \/ \E c \in marking : MarkUpdate(c)
        \/ UNCHANGED commission
    BY <1>1 DEF Next, bookingsVars, bookingOnlyVars, Create, Begin, Submit, Approve, Reject,
        SubmitPayment, Confirm, Complete, Cancel, CustomerCancel, ReviewCheck, PartnerMove,
        StateMove, UpdateBooking, RecordBooking, ReviewInsert, MarkCheck, Die
  <2>5. QED
    BY <2>1, <2>2, <2>3, <2>4
<1>2. QED
  BY <1>1, SpecTurns, PTL DEF Spec, PaidCommissionStays

-----------------------------------------------------------------------------
(* The deal.                                                               *)

DealMap == [b \in Booking |-> DealOf(b)]
PaidMap == [b \in Booking |-> PaymentsOf(b) # {}]

LEMMA InitDeal == Init => Deal!Init
<1> SUFFICES ASSUME Init PROVE Deal!Init
  OBVIOUS
<1>1. /\ booking = [b \in Booking |-> "ABSENT"]
      /\ \A p \in Payment : paidFor[p] = NoBooking
      /\ overlapped = FALSE
  BY DEF Init, EmptyBookings, EmptyPayments, OwnInit
<1>2. \A b \in Booking : DealOf(b) = "none" /\ ~(PaymentsOf(b) # {})
  BY <1>1, NoBookingAssumption DEF DealOf, PaymentsOf
<1>3. QED
  BY <1>1, <1>2 DEF Deal!Init

\* A write of booking q alone moves its deal, or leaves it.
LEMMA WriteDeal ==
    ASSUME IInv, Turns, ~overlapped, NEW c \in calls,
           UpdateBooking(c) \/ RecordBooking(c) \/ PayBooking(c) \/ CompleteBooking(c)
    PROVE  [Deal!Next]_<<DealMap, PaidMap, overlapped>>
<1> DEFINE q == c.booking
<1>1. /\ booking' = [booking EXCEPT ![q] = c.to]
      /\ UNCHANGED overlapped
  BY DEF UpdateBooking, RecordBooking, PayBooking, CompleteBooking
<1>2. q \in Booking /\ booking[q] = c.from /\ OnEdge(c) /\ PaidAfterEarly
  BY DEF IInv, TypeOK, Call, Turns, OneAtATime
<1>3. /\ booking'[q] = c.to
      /\ \A b \in Booking : b # q => booking'[b] = booking[b]
  BY <1>1, <1>2 DEF IInv, TypeOK
<1>4. DealMap' = [DealMap EXCEPT ![q] = DealOf(q)'] /\ DealMap[q] = DealOf(q)
  <2>1. \A b \in Booking : b # q => DealOf(b)' = DealOf(b)
    BY <1>3 DEF DealOf
  <2>2. QED
    BY <1>2, <2>1 DEF DealMap
<1> DEFINE Moves == {<<"offered", "agreed">>, <<"agreed", "engaged">>, <<"engaged", "confirmed">>,
                     <<"confirmed", "delivered">>, <<"offered", "dropped">>,
                     <<"agreed", "dropped">>, <<"engaged", "dropped">>, <<"confirmed", "dropped">>}
<1>5. DealOf(q)' = DealOf(q) \/ <<DealOf(q), DealOf(q)'>> \in Moves
  <2>1. c.to \in ServiceTransitions(c.from) \cup StateTransitions(c.from)
    BY <1>2 DEF OnEdge
  <2>2. QED
    BY <1>2, <1>3, <2>1 DEF DealOf, ServiceTransitions, StateTransitions
<1>6. CASE UNCHANGED paidFor
  <2>1. PaidMap' = PaidMap
    BY <1>6 DEF PaidMap, PaymentsOf
  <2>2. CASE DealOf(q)' = DealOf(q)
    BY <1>1, <1>4, <2>1, <2>2 DEF DealMap
  <2>3. CASE <<DealOf(q), DealOf(q)'>> \in Moves
    <3>1. Deal!Move(q, DealOf(q), DealOf(q)')
      BY <1>1, <1>4, <2>3 DEF Deal!Move, DealMap
    <3>2. Deal!Next
      BY <1>1, <1>2, <1>4, <2>1, <2>3, <3>1
         DEF Deal!Next, Deal!Agree, Deal!LetPass, Deal!Confirm, Deal!Deliver, Deal!Drop, DealMap, PaidMap
    <3>3. QED
      BY <3>2
  <2>4. QED
    BY <1>5, <2>2, <2>3
<1>7. CASE PayBooking(c)
  <2>1. c.from = "PAYMENT_PENDING" /\ c.to = "CONFIRMING"
    BY <1>2, <1>7 DEF OnEdge, PayBooking
  <2>2. DealOf(q) = "agreed" /\ DealOf(q)' = "engaged"
    BY <1>2, <1>3, <2>1 DEF DealOf
  <2>3. PICK p \in Payment : /\ status[p] = "ABSENT"
                             /\ paidFor' = [paidFor EXCEPT ![p] = q]
    BY <1>7 DEF PayBooking
  <2>4. paidFor[p] = NoBooking
    BY <2>3 DEF IInv, TypeOK
  <2>5. PaymentsOf(q)' # {}
    BY <2>3 DEF PaymentsOf, IInv, TypeOK
  <2>6. \A b \in Booking : b # q => PaymentsOf(b)' = PaymentsOf(b)
    BY <2>3, <2>4, NoBookingAssumption DEF PaymentsOf, IInv, TypeOK
  <2>7. PaidMap' = [PaidMap EXCEPT ![q] = TRUE]
    BY <2>5, <2>6, Zenon DEF PaidMap
  <2>8. Deal!Pay(q)
    BY <1>1, <1>4, <2>2, <2>7 DEF Deal!Pay, Deal!Move, DealMap, PaidMap
  <2>9. QED
    BY <1>2, <2>8 DEF Deal!Next
<1>8. QED
  BY <1>6, <1>7 DEF UpdateBooking, RecordBooking, CompleteBooking

\* A creation offers the deal.
LEMMA CreateDeal ==
    ASSUME IInv, NEW b \in Booking, Create(b)
    PROVE  Deal!Next
<1>1. /\ booking[b] = "ABSENT"
      /\ booking' = [booking EXCEPT ![b] = "DRAFT"]
      /\ UNCHANGED <<paidFor, overlapped>>
  BY DEF Create, bookingOnlyVars
<1>2. /\ booking'[b] = "DRAFT"
      /\ \A q \in Booking : q # b => booking'[q] = booking[q]
  BY <1>1 DEF IInv, TypeOK
<1>3. DealOf(b) = "none" /\ DealOf(b)' = "offered"
  BY <1>1, <1>2 DEF DealOf
<1>4. DealMap' = [DealMap EXCEPT ![b] = "offered"] /\ DealMap[b] = "none"
  <2>1. \A q \in Booking : q # b => DealOf(q)' = DealOf(q)
    BY <1>2 DEF DealOf
  <2>2. QED
    BY <1>3, <2>1 DEF DealMap
<1>5. PaidMap' = PaidMap
  BY <1>1 DEF PaidMap, PaymentsOf
<1>6. Deal!Offer(b)
  BY <1>1, <1>4, <1>5 DEF Deal!Offer, Deal!Move, DealMap, PaidMap
<1>7. QED
  BY <1>6 DEF Deal!Next

\* Until calls overlap, the handlers implement the deal: nothing is charged
\* but on the step from agreed to engaged, and what is delivered or dropped
\* stays so.
THEOREM DealCorrect == Spec => ImplementsDeal
<1>1. ASSUME IInv, Turns, [Next]_bookingsVars
      PROVE  [Deal!Next]_<<DealMap, PaidMap, overlapped>>
  <2>1. ASSUME NEW c \in calls, \/ UpdateBooking(c) \/ RecordBooking(c)
                                \/ PayBooking(c) \/ CompleteBooking(c)
        PROVE  [Deal!Next]_<<DealMap, PaidMap, overlapped>>
    <3>1. CASE overlapped
      <4>1. overlapped'
        BY <2>1, <3>1, Zenon DEF UpdateBooking, RecordBooking, PayBooking, CompleteBooking
      <4>2. QED
        BY <4>1 DEF Deal!Next, Deal!Break
    <3>2. CASE ~overlapped
      BY <1>1, <2>1, <3>2, WriteDeal
    <3>3. QED
      BY <3>1, <3>2
  <2>2. ASSUME UNCHANGED <<booking, paidFor>>, overlapped' \/ UNCHANGED overlapped
        PROVE  [Deal!Next]_<<DealMap, PaidMap, overlapped>>
    <3>1. UNCHANGED <<DealMap, PaidMap>>
      BY <2>2 DEF DealMap, DealOf, PaidMap, PaymentsOf
    <3>2. QED
      BY <2>2, <3>1 DEF Deal!Next, Deal!Break
  <2>3. \/ \E b \in Booking : Create(b)
        \/ \E c \in calls : \/ UpdateBooking(c) \/ RecordBooking(c)
                            \/ PayBooking(c) \/ CompleteBooking(c)
        \/ UNCHANGED <<booking, paidFor>> /\ (overlapped' = Overlap \/ UNCHANGED overlapped)
    <3> DEFINE Quiet == /\ UNCHANGED <<booking, paidFor>>
                        /\ overlapped' = Overlap \/ UNCHANGED overlapped
    <3>1. ASSUME NEW w, NEW write, NEW b, NEW to, NEW actor, Begin(w, write, b, to, actor)
          PROVE  Quiet
      BY <3>1, Zenon DEF Begin, bookingVars
    <3>2. ASSUME NEW w \in Worker, NEW b \in Booking,
                 \/ Submit(w, b) \/ Approve(w, b) \/ Reject(w, b) \/ SubmitPayment(w, b)
                 \/ Confirm(w, b) \/ Complete(w, b) \/ Cancel(w, b) \/ CustomerCancel(w, b)
          PROVE  Quiet
      BY <3>1, <3>2, Zenon DEF Submit, Approve, Reject, SubmitPayment, Confirm, Complete, Cancel,
                               CustomerCancel
    <3>3. ASSUME NEW w \in Worker, NEW b \in Booking, NEW to \in BookingStatus,
                 PartnerMove(w, b, to) \/ \E role \in StateRole : StateMove(w, b, role, to)
          PROVE  Quiet
      BY <3>1, <3>3, Zenon DEF PartnerMove, StateMove
    <3>4. ASSUME \/ \E w \in Worker, b \in Booking : ReviewCheck(w, b)
                 \/ \E c \in reviewing : ReviewInsert(c)
                 \/ \E w \in Worker, p \in Payment, to \in {"ELIGIBLE", "PAID"} :
                       MarkCheck(w, p, to)
                 \/ \E c \in marking : MarkUpdate(c)
                 \/ Die
                 \/ UNCHANGED bookingsVars
          PROVE  Quiet
      BY <3>4, Zenon DEF ReviewCheck, ReviewInsert, MarkCheck, MarkUpdate, Die, bookingVars,
                         bookingsVars
    <3>5. QED
      BY <1>1, <3>2, <3>3, <3>4, Zenon DEF Next
  <2>4. overlapped' = Overlap => overlapped' \/ UNCHANGED overlapped
    <3>1. overlapped \in BOOLEAN
      BY <1>1 DEF IInv, TypeOK
    <3>2. QED
      BY <3>1 DEF Overlap
  <2>5. QED
    BY <1>1, <2>1, <2>2, <2>3, <2>4, CreateDeal
<1>2. QED
  BY <1>1, InitDeal, SpecTurns, PTL DEF Spec, ImplementsDeal, Deal!Spec, DealMap, PaidMap
=============================================================================
