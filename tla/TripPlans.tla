----------------------------- MODULE TripPlans ------------------------------
(***************************************************************************)
(* Whole trips from outside providers: the booking of flight, hotel and    *)
(* activity one after another, the bookings the adapters keep, and the     *)
(* providers' webhooks.  Plans live in the memory of one process, and so   *)
(* do the bookings of the mock adapters; webhooks are rows.  An adapter    *)
(* answers as its interface allows, or throws, with or without a booking;  *)
(* the mocks always confirm.  What a leg costs is what the caller says, no *)
(* offer is looked up: totals and the search for offers are left out.      *)
(***************************************************************************)
EXTENDS Naturals, Sequences

CONSTANTS
    Plan,           \* calls of bookTrip
    Direct,         \* bookings made through the adapters' own routes
    Delivery,       \* deliveries of webhooks
    NoPlan

VARIABLES
    trip,           \* trip[p]: the body of bookTrip and its progress, or NoPlan
    stored,         \* stored[p]: what getTripPlan finds, or NoPlan
    reserved,       \* reserved[<<holder, leg>>]: the adapter's booking
    hook,           \* hook[d]: the row of a webhook
    acked           \* ghost: deliveries that were told they were received

planVars == <<trip, stored, reserved, hook, acked>>

-----------------------------------------------------------------------------
\* The legs, in the order in which they are booked; a booking outside a plan
\* is of one kind, it is treated alike in all.
Leg == <<"FLIGHT", "HOTEL", "ACTIVITY">>
Legs == {Leg[i] : i \in DOMAIN Leg}
Booking == Plan \X Legs \cup Direct \X {"HOTEL"}

\* What bookTrip is answered for a leg, an adapter that throws included, and
\* what the adapter then holds.
Booked == {"CONFIRMED", "PENDING"}
Answer == Booked \cup {"FAILED"}
Held == Booked \cup {"NONE"}

Init ==
    /\ trip = [p \in Plan |-> NoPlan]
    /\ stored = [p \in Plan |-> NoPlan]
    /\ reserved = [b \in Booking |-> "NONE"]
    /\ hook = [d \in Delivery |-> "NONE"]
    /\ acked = {}

-----------------------------------------------------------------------------
\* A traveller asks for some legs.  The codes of "known" name a registered
\* adapter.
BookTrip(p, asked, known) ==
    /\ trip[p] = NoPlan
    /\ trip' = [trip EXCEPT ![p] = [asked |-> asked, known |-> known, answers |-> << >>, next |-> 1]]
    /\ UNCHANGED <<stored, reserved, hook, acked>>

\* One leg: it is not asked for, or its provider is unknown and it is skipped.
Wanted(p, leg) == leg \in trip[p].asked \cap trip[p].known
SkipLeg(p) ==
    /\ trip[p] # NoPlan
    /\ trip[p].next \in DOMAIN Leg
    /\ ~Wanted(p, Leg[trip[p].next])
    /\ trip' = [trip EXCEPT ![p].next = @ + 1]
    /\ UNCHANGED <<stored, reserved, hook, acked>>

\* Or the adapter books it, and answers that it is confirmed or pending; or it
\* answers that it failed, or throws: the leg is not booked, or it is, and the
\* answer was lost.
BookLeg(p, answer, held) ==
    /\ trip[p] # NoPlan
    /\ trip[p].next \in DOMAIN Leg
    /\ answer \in Booked => held = answer
    /\ LET leg == Leg[trip[p].next] IN
         /\ Wanted(p, leg)
         /\ trip' = [trip EXCEPT ![p].next = @ + 1,
                                 ![p].answers = [l \in DOMAIN @ \cup {leg} |->
                                                   IF l = leg THEN answer ELSE @[l]]]
         /\ reserved' = [reserved EXCEPT ![<<p, leg>>] = held]
    /\ UNCHANGED <<stored, hook, acked>>

\* Mutant: one confirmed leg confirms the plan.
BugAllConfirmed(answers) ==
    DOMAIN answers = {} \/ \E leg \in DOMAIN answers : answers[leg] = "CONFIRMED"

AllConfirmed(answers) == \A leg \in DOMAIN answers : answers[leg] = "CONFIRMED"

\* The plan is confirmed when every answer there is says so.
StorePlan(p) ==
    /\ trip[p] # NoPlan
    /\ trip[p].next = Len(Leg) + 1
    /\ stored[p] = NoPlan
    /\ LET answers == trip[p].answers IN
         stored' = [stored EXCEPT ![p] =
             [status  |-> IF AllConfirmed(answers) THEN "CONFIRMED" ELSE "CONFIRMING",
              answers |-> answers]]
    /\ UNCHANGED <<trip, reserved, hook, acked>>

-----------------------------------------------------------------------------
\* The adapters' own routes: a booking outside any plan, a cancellation of
\* any booking by its reference.
Book(b) ==
    /\ b[1] \in Direct
    /\ reserved[b] = "NONE"
    /\ reserved' = [reserved EXCEPT ![b] = "CONFIRMED"]
    /\ UNCHANGED <<trip, stored, hook, acked>>

CancelBooking(b) ==
    /\ reserved[b] \notin {"NONE", "CANCELLED"}
    /\ reserved' = [reserved EXCEPT ![b] = "CANCELLED"]
    /\ UNCHANGED <<trip, stored, hook, acked>>

\* receiveWebhook: a row for every delivery, of an event told twice too, then
\* its mark, then the answer.  Nothing else is done with it.
ReceiveWebhook(d) ==
    /\ hook[d] = "NONE"
    /\ hook' = [hook EXCEPT ![d] = "RECEIVED"]
    /\ UNCHANGED <<trip, stored, reserved, acked>>

ProcessWebhook(d) ==
    /\ hook[d] = "RECEIVED"
    /\ hook' = [hook EXCEPT ![d] = "PROCESSED"]
    /\ acked' = acked \cup {d}
    /\ UNCHANGED <<trip, stored, reserved>>

\* The process starts again: plans are gone, calls are cut off, webhooks
\* between their two writes are left as they are.  The mocks lose their
\* bookings; an outside provider keeps them.
Restart(kept) ==
    /\ \E p \in Plan : trip[p] # NoPlan
    /\ trip' = [p \in Plan |-> IF trip[p] = NoPlan THEN NoPlan ELSE [trip[p] EXCEPT !.next = 0]]
    /\ stored' = [p \in Plan |-> NoPlan]
    /\ reserved' = IF kept THEN reserved ELSE [b \in Booking |-> "NONE"]
    /\ hook' = [d \in Delivery |-> IF hook[d] = "RECEIVED" THEN "STUCK" ELSE hook[d]]
    /\ UNCHANGED acked

Next ==
    \/ \E p \in Plan, asked \in SUBSET Legs : \E known \in SUBSET asked : BookTrip(p, asked, known)
    \/ \E p \in Plan : SkipLeg(p)
    \/ \E p \in Plan, answer \in Answer, held \in Held : BookLeg(p, answer, held)
    \/ \E p \in Plan : StorePlan(p)
    \/ \E b \in Booking : Book(b)
    \/ \E b \in Booking : CancelBooking(b)
    \/ \E d \in Delivery : ReceiveWebhook(d)
    \/ \E d \in Delivery : ProcessWebhook(d)
    \/ \E kept \in BOOLEAN : Restart(kept)

Spec == Init /\ [][Next]_planVars

-----------------------------------------------------------------------------
TypeOK ==
    /\ \A p \in Plan : trip[p] # NoPlan =>
           /\ DOMAIN trip[p].answers \subseteq trip[p].asked \cap trip[p].known
           /\ trip[p].next \in 0..Len(Leg) + 1
    /\ \A p \in Plan : stored[p] # NoPlan => stored[p].status \in {"CONFIRMED", "CONFIRMING"}
    /\ reserved \in [Booking -> Held \cup {"CANCELLED"}]
    /\ hook \in [Delivery -> {"NONE", "RECEIVED", "PROCESSED", "STUCK"}]
    /\ acked \subseteq Delivery

\* A stored plan tells what the adapters hold: a leg answered as booked is
\* held as it was answered, or was cancelled there since; what became of a leg
\* whose adapter failed or threw the plan does not know; a confirmed plan
\* whose providers were all known has every leg that was asked for; and
\* whatever happens, adapters hold for a plan only what was asked for, of
\* providers that are known.
PlansMatchBookings ==
    /\ \A p \in Plan : stored[p] # NoPlan =>
         /\ \A leg \in DOMAIN stored[p].answers : stored[p].answers[leg] \in Booked =>
              reserved[<<p, leg>>] \in {stored[p].answers[leg], "CANCELLED"}
         /\ stored[p].status = "CONFIRMED" /\ trip[p].asked \subseteq trip[p].known =>
              \A leg \in trip[p].asked : reserved[<<p, leg>>] \in {"CONFIRMED", "CANCELLED"}
    /\ \A p \in Plan, leg \in Legs : reserved[<<p, leg>>] # "NONE" =>
         trip[p] # NoPlan /\ Wanted(p, leg)
    /\ \A d \in acked : hook[d] = "PROCESSED"
=============================================================================
