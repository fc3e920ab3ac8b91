---------------------------- MODULE BookingDeal -----------------------------
(***************************************************************************)
(* What the booking components promise about each booking, as a deal       *)
(* between a traveller and a provider: it is offered, agreed, engaged (the *)
(* traveller pays, or staff let it pass), confirmed and delivered, and can *)
(* be dropped on the way.  The traveller is charged only on the step from  *)
(* agreed to engaged.                                                      *)
(***************************************************************************)
CONSTANT Booking

VARIABLES
    deal,       \* per booking, how far the deal has come
    paid,       \* per booking, whether the traveller was charged
    broken      \* whether the parties no longer take turns

Stage == {"none", "offered", "agreed", "engaged", "confirmed", "delivered", "dropped"}

TypeOK ==
    /\ deal \in [Booking -> Stage]
    /\ paid \in [Booking -> BOOLEAN]
    /\ broken \in BOOLEAN

Init ==
    /\ deal = [b \in Booking |-> "none"]
    /\ paid = [b \in Booking |-> FALSE]
    /\ ~broken

Move(b, from, to) ==
    /\ deal[b] = from
    /\ deal' = [deal EXCEPT ![b] = to]
    /\ UNCHANGED broken

Offer(b)   == Move(b, "none", "offered") /\ UNCHANGED paid
Agree(b)   == Move(b, "offered", "agreed") /\ UNCHANGED paid
Pay(b)     == Move(b, "agreed", "engaged") /\ paid' = [paid EXCEPT ![b] = TRUE]
LetPass(b) == Move(b, "agreed", "engaged") /\ UNCHANGED paid
Confirm(b) == Move(b, "engaged", "confirmed") /\ UNCHANGED paid
Deliver(b) == Move(b, "confirmed", "delivered") /\ UNCHANGED paid
Drop(b) ==
    /\ deal[b] \in {"offered", "agreed", "engaged", "confirmed"}
    /\ deal' = [deal EXCEPT ![b] = "dropped"]
    /\ UNCHANGED <<paid, broken>>

\* The parties get into each other's way; anything may follow.
Break == broken'

Next ==
    \/ \E b \in Booking :
          \/ Offer(b) \/ Agree(b) \/ Pay(b) \/ LetPass(b)
          \/ Confirm(b) \/ Deliver(b) \/ Drop(b)
    \/ Break

Spec == Init /\ [][Next]_<<deal, paid, broken>>
=============================================================================
