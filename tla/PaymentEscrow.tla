---------------------------- MODULE PaymentEscrow ---------------------------
(***************************************************************************)
(* What the payment state machine promises about the money of each         *)
(* payment, with the ten statuses forgotten: it starts with the customer;  *)
(* it is held before the platform may take it; what is held is taken or    *)
(* released; what was taken is settled or given back, in part first or all *)
(* at once; money that is settled or returned never moves again.           *)
(***************************************************************************)
CONSTANT Payment

VARIABLES
    escrow,     \* per payment, where the money is
    broken      \* whether staff no longer take turns, which ends the promise

Place == {"customer", "held", "platform", "shared", "settled", "returned"}

TypeOK == escrow \in [Payment -> Place] /\ broken \in BOOLEAN

Init ==
    /\ escrow = [p \in Payment |-> "customer"]
    /\ ~broken

Move(p, from, to) ==
    /\ escrow[p] = from
    /\ escrow' = [escrow EXCEPT ![p] = to]
    /\ UNCHANGED broken

Hold(p)       == Move(p, "customer", "held")
Refuse(p)     == Move(p, "customer", "returned")
Take(p)       == Move(p, "held", "platform")
Release(p)    == Move(p, "held", "returned")
Settle(p)     == Move(p, "platform", "settled")
ReturnPart(p) == Move(p, "platform", "shared")
ReturnAll(p)  == Move(p, "platform", "returned")
ReturnRest(p) == Move(p, "shared", "returned")

\* Staff get into each other's way; anything may follow.
Break == broken'

Next ==
    \/ \E p \in Payment :
          \/ Hold(p) \/ Refuse(p) \/ Take(p) \/ Release(p)
          \/ Settle(p) \/ ReturnPart(p) \/ ReturnAll(p) \/ ReturnRest(p)
    \/ Break

Spec == Init /\ [][Next]_<<escrow, broken>>
=============================================================================
