------------------------------- MODULE Refunds ------------------------------
(***************************************************************************)
(* RefundsService: create and transition, behind the finance endpoints     *)
(* POST refunds, refunds/:id/process, /succeed and /fail.                  *)
(*                                                                         *)
(* `create` reads the payment, reads its refunds and inserts the new one,  *)
(* each in a transaction of its own.  `transition` reads the refund, then  *)
(* runs a READ COMMITTED transaction that updates the refund and, for      *)
(* SUCCEEDED, sums the succeeded refunds it can see (the committed ones    *)
(* and its own) and overwrites the payment's status; neither history nor   *)
(* ledger is written.  From its update to its commit the transaction locks *)
(* the refund's row.  A call that fails a check changes nothing and ends.  *)
(* Nothing asks whether an amount is positive.                             *)
(***************************************************************************)
EXTENDS PaymentTable, FiniteSets, Functions

CONSTANTS
    Refund,         \* ids of the refunds that can be created (a bound)
    Clerk,          \* the calls that can be in progress at one time
    RefundInput     \* values of amountMinor a call can carry

ASSUME RefundInputAssumption == RefundInput \subseteq Int
ASSUME RefundAssumption == IsFiniteSet(Refund)

VARIABLES
    refund,         \* the rows of `refunds`
    creating,       \* create calls in progress
    settling        \* transition calls in progress

refundOnlyVars == <<refund, creating, settling>>
refundVars == <<status, history, ledger, refund, creating, settling>>

RefundStatus == {"PENDING", "PROCESSING", "SUCCEEDED", "FAILED"}

RefundRow == [payment : Payment, amount : RefundInput, status : RefundStatus]

\* The ids that have a row.
Existing == {r \in Refund : refund[r].status # "ABSENT"}

OfPayment(p, statuses) ==
    {r \in Existing : refund[r].payment = p /\ refund[r].status \in statuses}

Total(rs) == SumFunctionOnSet([r \in Refund |-> refund[r].amount], rs)

\* Mutant: a failed refund can be paid out after all.
BugRetryFailed(to) ==
    IF to = "PROCESSING" THEN {"PENDING", "FAILED"} ELSE {"PENDING", "PROCESSING"}

\* The table `allowed` of transition: the statuses a target may follow.
AllowedFrom(to) ==
    IF to = "PROCESSING" THEN {"PENDING"} ELSE {"PENDING", "PROCESSING"}

\* The payment statuses a refund may be created in.
Refundable == {"CAPTURED", "SETTLED", "PARTIALLY_REFUNDED"}

\* Mutant: a refund being processed no longer counts against the payment.
BugForgetsProcessing == {"PENDING", "SUCCEEDED"}

\* The statuses of the refunds that count against the payment.
Counted == {"PENDING", "PROCESSING", "SUCCEEDED"}

Busy(k) == \/ \E c \in creating : c.by = k
           \/ \E c \in settling : c.by = k

-----------------------------------------------------------------------------
NoRow == [payment |-> CHOOSE p \in Payment : TRUE, amount |-> 0,
          status |-> "ABSENT"]

RefundOwnInit ==
    /\ refund = [r \in Refund |-> NoRow]
    /\ creating = {}
    /\ settling = {}

\* Payments captured outside the state service, as the Stripe webhook and the
\* Fawry confirmation leave them.
RefundInit ==
    /\ RefundOwnInit
    /\ status = [p \in Payment |-> "CAPTURED"]
    /\ history = [p \in Payment |-> <<>>]
    /\ ledger = [p \in Payment |-> {}]

-----------------------------------------------------------------------------
\* create: the payment is loaded and must be refundable.
CreateLoad(k, p, amount) ==
    /\ ~Busy(k)
    /\ status[p] \in Refundable
    /\ creating' = creating \cup {[by |-> k, payment |-> p, amount |-> amount,
                                   checked |-> FALSE]}
    /\ UNCHANGED <<status, history, ledger, refund, settling>>

\* The new refund fits beside the ones that count.
FitsRemaining(c) ==
    c.amount + Total(OfPayment(c.payment, Counted)) <= Amount[c.payment]

\* create: the refunds of the payment are summed.
CreateCheck(c) ==
    /\ ~c.checked
    /\ FitsRemaining(c)
    /\ creating' = (creating \ {c}) \cup {[c EXCEPT !.checked = TRUE]}
    /\ UNCHANGED <<status, history, ledger, refund, settling>>

\* create: the row is inserted, PENDING by default.
CreateInsert(c) ==
    /\ c.checked
    /\ \E r \in Refund \ Existing :
          refund' = [refund EXCEPT ![r] = [payment |-> c.payment,
                                           amount |-> c.amount,
                                           status |-> "PENDING"]]
    /\ creating' = creating \ {c}
    /\ UNCHANGED <<status, history, ledger, settling>>

\* transition: the refund is loaded and its status must allow the target.
SettleLoad(k, r, to) ==
    /\ ~Busy(k)
    /\ r \in Existing
    /\ refund[r].status \in AllowedFrom(to)
    /\ settling' = settling \cup {[by |-> k, refund |-> r, to |-> to,
                                   summed |-> FALSE, total |-> 0]}
    /\ UNCHANGED <<status, history, ledger, refund, creating>>

Unlocked(r) == \A c \in settling : c.refund = r => ~c.summed

\* transition to PROCESSING or FAILED: the transaction only updates the row.
SettleOther(c) ==
    /\ c.to # "SUCCEEDED"
    /\ Unlocked(c.refund)
    /\ refund' = [refund EXCEPT ![c.refund].status = c.to]
    /\ settling' = settling \ {c}
    /\ UNCHANGED <<status, history, ledger, creating>>

\* transition to SUCCEEDED: the row is updated, not yet committed, and the
\* succeeded refunds are summed, this one among them.
SettleSum(c) ==
    /\ c.to = "SUCCEEDED"
    /\ ~c.summed
    /\ Unlocked(c.refund)
    /\ LET p == refund[c.refund].payment
           seen == OfPayment(p, {"SUCCEEDED"}) \cup {c.refund}
       IN  settling' = (settling \ {c})
                         \cup {[c EXCEPT !.summed = TRUE, !.total = Total(seen)]}
    /\ UNCHANGED <<status, history, ledger, refund, creating>>

\* Mutant: a full refund is told by the amount of this refund alone.
BugThisRefundOnly(c) ==
    IF refund[c.refund].amount >= Amount[refund[c.refund].payment]
    THEN "REFUNDED" ELSE "PARTIALLY_REFUNDED"

\* The status the payment gets.
StatusAfter(c) ==
    IF c.total >= Amount[refund[c.refund].payment]
    THEN "REFUNDED" ELSE "PARTIALLY_REFUNDED"

\* transition to SUCCEEDED: the payment is updated and all of it commits.
SettleCommit(c) ==
    /\ c.summed
    /\ refund' = [refund EXCEPT ![c.refund].status = "SUCCEEDED"]
    /\ status' = [status EXCEPT ![refund[c.refund].payment] = StatusAfter(c)]
    /\ settling' = settling \ {c}
    /\ UNCHANGED <<history, ledger, creating>>

\* A call dies before its last write: a crash, a time-out, a failed check.
GiveUp ==
    /\ \/ \E c \in creating : creating' = creating \ {c} /\ UNCHANGED settling
       \/ \E c \in settling : settling' = settling \ {c} /\ UNCHANGED creating
    /\ UNCHANGED <<status, history, ledger, refund>>

RefundNext ==
    \/ \E k \in Clerk, p \in Payment, a \in RefundInput : CreateLoad(k, p, a)
    \/ \E c \in creating : CreateCheck(c) \/ CreateInsert(c)
    \/ \E k \in Clerk, r \in Refund, to \in RefundStatus \ {"PENDING"} :
          SettleLoad(k, r, to)
    \/ \E c \in settling : SettleOther(c) \/ SettleSum(c) \/ SettleCommit(c)
    \/ GiveUp

RefundSpec == RefundInit /\ [][RefundNext]_refundVars

-----------------------------------------------------------------------------
\* Type invariant: refund rows, and the calls in progress.
RefundTypeOK ==
    /\ status \in [Payment -> PaymentStatus]
    /\ \A r \in Existing : refund[r] \in RefundRow
    /\ creating \subseteq [by : Clerk, payment : Payment, amount : RefundInput,
                           checked : BOOLEAN]
    /\ settling \subseteq [by : Clerk, refund : Existing,
                           to : RefundStatus \ {"PENDING"},
                           summed : BOOLEAN, total : Int]

\* The refunds of p that were once counted and still leave room: a negative one
\* that failed made room for others, which stay.
GaveRoom(p) == {r \in OfPayment(p, {"FAILED"}) : refund[r].amount < 0}

\* "Refund exceeds remaining amount" is refused: the refunds of a payment that
\* are open or paid out, and of the failed ones those of a negative amount,
\* never sum to more than the payment.  So the live refunds alone exceed it
\* only by negative ones that failed after others took the room they made.
RefundsWithinPayment ==
    \A p \in Payment :
        LET counted == OfPayment(p, Counted) \cup GaveRoom(p)
        IN  counted # {} => Total(counted) <= Amount[p]

\* The payment's status says what became of its refunds: REFUNDED once the
\* succeeded ones sum to its amount, PARTIALLY_REFUNDED as long as there are
\* some and they sum to less, be that to nothing.
StatusTellsRefunds ==
    \A p \in Payment :
        LET paid == OfPayment(p, {"SUCCEEDED"})
        IN  /\ status[p] = "REFUNDED" <=> paid # {} /\ Total(paid) >= Amount[p]
            /\ status[p] = "PARTIALLY_REFUNDED" <=> paid # {} /\ Total(paid) < Amount[p]

\* A refund that was paid out or failed keeps that status: the table allows
\* nothing to follow SUCCEEDED or FAILED.
SettledRefundIsFinal ==
    [][\A r \in Existing : refund[r].status \in {"SUCCEEDED", "FAILED"} =>
           refund'[r].status = refund[r].status]_refund
=============================================================================
