---------------------------- MODULE PaymentIntake ---------------------------
(***************************************************************************)
(* How payments come in through a provider.                                *)
(*   - PaymentsService.createPaymentIntent asks Stripe for an intent and   *)
(*     then inserts the row; handleWebhook digests Stripe's events;        *)
(*   - createFawryPayment inserts the row, confirmFawryPayment captures it;*)
(*   - the customer controller's createIntent inserts a row under the name *)
(*     of any provider, and asks none of them.                             *)
(* None of them looks at the status of the booking, and none writes the    *)
(* payment's history or ledger.                                            *)
(*                                                                         *)
(* Stripe is modelled by what its events promise: each is delivered at     *)
(* least once, in any order, again until a delivery is answered, and maybe *)
(* to two handlers at a time.  A handler may die between its writes, and   *)
(* an answer may be lost.                                                  *)
(***************************************************************************)
EXTENDS BookingTable

CONSTANTS
    Copy,           \* concurrent deliveries of one event, or confirmations
    MaxFailures,    \* bound: crashed handlers and lost answers
    Swallow         \* whether the update of the booking may fail unnoticed

ASSUME FailureAssumption == MaxFailures \in Nat /\ Swallow \in BOOLEAN

VARIABLES
    provider,       \* payments.provider, "NONE" before the insert
    intent,         \* Stripe's side of a payment
    events,         \* Stripe events not yet answered
    inserting,      \* createPaymentIntent calls between Stripe and the insert
    webhooks,       \* webhook deliveries in progress
    confirming,     \* Fawry confirmations in progress
    failures        \* crashes and lost answers so far

intakeOnlyVars == <<provider, intent, events, inserting, webhooks, confirming, failures>>
intakeVars == <<status, history, ledger, booking, bookingHistory, paidFor,
                provider, intent, events, inserting, webhooks, confirming, failures>>

Event == [payment : Payment, type : {"succeeded", "payment_failed"}]

IntakeOwnInit ==
    /\ provider = [p \in Payment |-> "NONE"]
    /\ intent = [p \in Payment |-> "NONE"]
    /\ events = {}
    /\ inserting = {}
    /\ webhooks = {}
    /\ confirming = {}
    /\ failures = 0

\* Bookings stand still here, at statuses for which an intent is asked.
IntakeInit ==
    /\ IntakeOwnInit
    /\ EmptyPayments
    /\ booking \in [Booking -> {"DRAFT", "PAYMENT_PENDING"}]
    /\ bookingHistory = [b \in Booking |-> <<>>]

Unused(p) == status[p] = "ABSENT" /\ intent[p] = "NONE"

-----------------------------------------------------------------------------
\* createPaymentIntent: the booking exists; Stripe creates the intent.
CreateIntent(p, b) ==
    /\ Unused(p)
    /\ booking[b] # "ABSENT"
    /\ intent' = [intent EXCEPT ![p] = "OPEN"]
    /\ inserting' = inserting \cup {[payment |-> p, booking |-> b]}
    /\ UNCHANGED <<paymentVars, bookingVars, provider, events, webhooks,
                   confirming, failures>>

InsertRow(p, b, name) ==
    /\ status' = [status EXCEPT ![p] = "CREATED"]
    /\ paidFor' = [paidFor EXCEPT ![p] = b]
    /\ provider' = [provider EXCEPT ![p] = name]
    /\ UNCHANGED <<history, ledger, booking, bookingHistory>>

\* createPaymentIntent: the row is inserted and the client gets its secret.
InsertIntent(c) ==
    /\ InsertRow(c.payment, c.booking, "STRIPE")
    /\ inserting' = inserting \ {c}
    /\ UNCHANGED <<intent, events, webhooks, confirming, failures>>

\* createFawryPayment.
CreateFawry(p, b) ==
    /\ Unused(p)
    /\ booking[b] # "ABSENT"
    /\ InsertRow(p, b, "FAWRY")
    /\ UNCHANGED <<intent, events, inserting, webhooks, confirming, failures>>

Provider == {"STRIPE", "FAWRY", "MOCK"}

\* The customer controller's createIntent, with or without a booking, under
\* the name the caller gives, or MOCK.
CreateManual(p, b, name) ==
    /\ Unused(p)
    /\ b # NoBooking => booking[b] # "ABSENT"
    /\ InsertRow(p, b, name)
    /\ UNCHANGED <<intent, events, inserting, webhooks, confirming, failures>>

-----------------------------------------------------------------------------
\* The traveller pays with the secret the insert returned, or an attempt
\* fails and can be repeated.
Pay(p, type) ==
    /\ intent[p] = "OPEN"
    /\ status[p] # "ABSENT"
    /\ intent' = [intent EXCEPT ![p] = IF type = "succeeded" THEN "SUCCEEDED" ELSE @]
    /\ events' = events \cup {[payment |-> p, type |-> type]}
    /\ UNCHANGED <<paymentVars, bookingVars, provider, inserting, webhooks,
                   confirming, failures>>

\* Stripe delivers an event that has not been answered.
Deliver(e, k) ==
    /\ \A h \in webhooks : h.event = e => h.copy # k
    /\ webhooks' = webhooks \cup {[event |-> e, copy |-> k, captured |-> FALSE]}
    /\ UNCHANGED <<paymentVars, bookingVars, provider, intent, events, inserting,
                   confirming, failures>>

\* The delivery is answered, and the answer may be lost.
Answer(h) ==
    /\ webhooks' = webhooks \ {h}
    /\ \/ events' = events \ {h.event} /\ UNCHANGED failures
       \/ /\ failures < MaxFailures
          /\ failures' = failures + 1
          /\ UNCHANGED events

Captures(h) == h.event.type = "succeeded"

\* What the payment becomes: updateMany changes the row if there is one.
StatusOf(h) ==
    IF status[h.event.payment] = "ABSENT" THEN "ABSENT"
    ELSE IF Captures(h) THEN "CAPTURED" ELSE "FAILED"

\* Mutants: a delivery for a payment that is already captured is answered at
\* once; the booking is confirmed whatever the event's type.
BugSkipCaptured(h) ==
    /\ ~h.captured
    /\ status' = [status EXCEPT ![h.event.payment] = StatusOf(h)]
    /\ IF Captures(h) /\ status[h.event.payment] # "CAPTURED"
       THEN /\ webhooks' = (webhooks \ {h}) \cup {[h EXCEPT !.captured = TRUE]}
            /\ UNCHANGED <<events, failures>>
       ELSE Answer(h)
    /\ UNCHANGED <<history, ledger, bookingVars, provider, intent, inserting, confirming>>
BugConfirmAlways(h) ==
    /\ ~h.captured
    /\ status' = [status EXCEPT ![h.event.payment] = StatusOf(h)]
    /\ webhooks' = (webhooks \ {h}) \cup {[h EXCEPT !.captured = TRUE]}
    /\ UNCHANGED <<history, ledger, bookingVars, provider, intent, events,
                   inserting, confirming, failures>>

\* handleWebhook: the payment is updated, whatever its status; a failure is
\* then answered.
WebhookPayment(h) ==
    /\ ~h.captured
    /\ status' = [status EXCEPT ![h.event.payment] = StatusOf(h)]
    /\ IF Captures(h)
       THEN /\ webhooks' = (webhooks \ {h}) \cup {[h EXCEPT !.captured = TRUE]}
            /\ UNCHANGED <<events, failures>>
       ELSE Answer(h)
    /\ UNCHANGED <<history, ledger, bookingVars, provider, intent, inserting, confirming>>

\* The booking of payment p becomes CONFIRMED, whatever its status; an error
\* is swallowed.
ConfirmBooking(p) ==
    \/ /\ paidFor[p] # NoBooking
       /\ booking' = [booking EXCEPT ![paidFor[p]] = "CONFIRMED"]
    \/ /\ paidFor[p] = NoBooking \/ Swallow
       /\ UNCHANGED booking

\* handleWebhook: the booking named in the intent's metadata.
WebhookBooking(h) ==
    /\ h.captured
    /\ ConfirmBooking(h.event.payment)
    /\ Answer(h)
    /\ UNCHANGED <<paymentVars, bookingHistory, paidFor, provider, intent,
                   inserting, confirming>>

-----------------------------------------------------------------------------
\* confirmFawryPayment: the row is read and must be CREATED ...
FawryCheck(p, k) ==
    /\ provider[p] = "FAWRY"
    /\ status[p] = "CREATED"
    /\ \A c \in confirming : c.payment = p => c.copy # k
    /\ confirming' = confirming \cup {[payment |-> p, copy |-> k, captured |-> FALSE]}
    /\ UNCHANGED <<paymentVars, bookingVars, provider, intent, events, inserting,
                   webhooks, failures>>

\* ... then it is captured ...
FawryPayment(c) ==
    /\ ~c.captured
    /\ status' = [status EXCEPT ![c.payment] = "CAPTURED"]
    /\ confirming' = (confirming \ {c}) \cup {[c EXCEPT !.captured = TRUE]}
    /\ UNCHANGED <<history, ledger, bookingVars, provider, intent, events,
                   inserting, webhooks, failures>>

\* ... and its booking is confirmed.
FawryBooking(c) ==
    /\ c.captured
    /\ ConfirmBooking(c.payment)
    /\ confirming' = confirming \ {c}
    /\ UNCHANGED <<paymentVars, bookingHistory, paidFor, provider, intent, events,
                   inserting, webhooks, failures>>

\* A handler dies between two of its steps.
Crash ==
    /\ failures < MaxFailures
    /\ failures' = failures + 1
    /\ \/ \E c \in inserting : inserting' = inserting \ {c} /\ UNCHANGED <<webhooks, confirming>>
       \/ \E h \in webhooks : webhooks' = webhooks \ {h} /\ UNCHANGED <<inserting, confirming>>
       \/ \E c \in confirming : confirming' = confirming \ {c} /\ UNCHANGED <<inserting, webhooks>>
    /\ UNCHANGED <<paymentVars, bookingVars, provider, intent, events>>

IntakeNext ==
    \/ \E p \in Payment, b \in Booking : CreateIntent(p, b) \/ CreateFawry(p, b)
    \/ \E c \in inserting : InsertIntent(c)
    \/ \E p \in Payment, b \in Booking \cup {NoBooking}, name \in Provider :
          CreateManual(p, b, name)
    \/ \E p \in Payment, type \in {"succeeded", "payment_failed"} : Pay(p, type)
    \/ \E e \in events, k \in Copy : Deliver(e, k)
    \/ \E h \in webhooks : WebhookPayment(h) \/ WebhookBooking(h)
    \/ \E p \in Payment, k \in Copy : FawryCheck(p, k)
    \/ \E c \in confirming : FawryPayment(c) \/ FawryBooking(c)
    \/ Crash

IntakeSpec == IntakeInit /\ [][IntakeNext]_intakeVars

\* Stripe keeps delivering an event that is not answered, and a handler that
\* does not die goes on.
Fairness ==
    /\ \A e \in Event :
          WF_intakeVars(e \in events /\ \E k \in Copy : Deliver(e, k))
    /\ \A e \in Event, k \in Copy :
          WF_intakeVars(\E h \in webhooks : /\ h.event = e /\ h.copy = k
                                            /\ WebhookPayment(h) \/ WebhookBooking(h))

FairSpec == IntakeSpec /\ Fairness

-----------------------------------------------------------------------------
\* Type invariant: the rows, Stripe's side of them, and the handlers in
\* progress.
IntakeTypeOK ==
    /\ status \in [Payment -> {"ABSENT", "CREATED", "CAPTURED", "FAILED"}]
    /\ provider \in [Payment -> Provider \cup {"NONE"}]
    /\ intent \in [Payment -> {"NONE", "OPEN", "SUCCEEDED"}]
    /\ \A p \in Payment : status[p] = "ABSENT" <=> provider[p] = "NONE"
    /\ events \subseteq Event
    /\ inserting \subseteq [payment : Payment, booking : Booking]
    /\ webhooks \subseteq [event : Event, copy : Copy, captured : BOOLEAN]
    /\ confirming \subseteq [payment : Payment, copy : Copy, captured : BOOLEAN]
    /\ failures \in 0..MaxFailures

\* Stripe took the traveller's money.
TakenByStripe(p) == intent[p] = "SUCCEEDED"

\* Somebody called POST payments/fawry/confirm for the payment.  Any signed-in
\* user may, and Fawry is not asked: this is a claim, not a charge.
ClaimedForFawry(p) == provider[p] = "FAWRY" /\ status[p] # "CREATED"

\* No payment but one under Fawry's name is captured that Stripe did not take,
\* a row that says STRIPE or MOCK without an intent of Stripe's least of all;
\* and no booking is confirmed without a payment for it that Stripe took, or a
\* caller claimed for Fawry, in whatever order and however often the events
\* arrive.  It says nothing of whether Fawry took what was claimed.
ChargedFirst ==
    /\ \A p \in Payment :
           status[p] = "CAPTURED" /\ provider[p] # "FAWRY" => TakenByStripe(p)
    /\ \A b \in Booking : booking[b] = "CONFIRMED" =>
           \E p \in Payment : /\ paidFor[p] = b
                              /\ TakenByStripe(p) \/ ClaimedForFawry(p)

\* Unless the update of the booking fails and is swallowed, the booking of a
\* payment that Stripe took is confirmed, also when the handler that captured
\* the payment dies before it gets there: the event is delivered until one
\* delivery is answered, and the answer comes last.
ChargeConfirmsBooking ==
    \A p \in Payment, b \in Booking :
        intent[p] = "SUCCEEDED" /\ paidFor[p] = b ~> booking[b] = "CONFIRMED"
=============================================================================
