---------------------------- MODULE PaymentsState ---------------------------
(***************************************************************************)
(* PaymentStateService.transition, behind the staff endpoint               *)
(* POST admin/payments-state/:id/transition.                               *)
(*                                                                         *)
(* A call is one interactive transaction under READ COMMITTED: it reads    *)
(* the payment without a lock, validates what it read, then updates the    *)
(* row (unconditionally), inserts the history row and the ledger pair, and *)
(* commits.  Other calls may commit between the read and the update; from  *)
(* the update to the commit the row lock keeps every other writer out, so  *)
(* the writes and the commit are one step.  A call that fails validation,  *)
(* or finds the payment already in the requested status, changes nothing   *)
(* and is not a step.                                                      *)
(***************************************************************************)
EXTENDS PaymentTable

CONSTANTS
    Staff,          \* the calls that can be in progress at one time
    AmountInput,    \* values of refundAmountMinor a call can carry
    NoAmount,       \* refundAmountMinor absent
    MaxHistory      \* bound: transitions recorded per payment

ASSUME InputAssumption ==
    /\ AmountInput \subseteq Int
    /\ NoAmount \notin Int
    /\ MaxHistory \in Nat

VARIABLES
    calls,          \* transition calls past their validation, not committed
    overlapped      \* whether two calls were ever in progress at one time

stateVars == <<status, history, ledger, calls, overlapped>>

Call == [by : Staff, payment : Payment, from : PaymentStatus,
         to : PaymentStatus, amount : AmountInput \cup {NoAmount}]

\* refundAmountMinor ?? payment.amountMinor
PostedAmount(p, amount) == IF amount = NoAmount THEN Amount[p] ELSE amount

\* Mutant: a partial refund of the whole amount is let through.
BugWholeIsPartial(p, amount) == amount # NoAmount /\ amount > 0

\* The special validation for PARTIALLY_REFUNDED.
PartialAmountOK(p, amount) ==
    /\ amount # NoAmount
    /\ amount > 0
    /\ amount < Amount[p]

-----------------------------------------------------------------------------
Init ==
    /\ status = [p \in Payment |-> "CREATED"]
    /\ history = [p \in Payment |-> <<>>]
    /\ ledger = [p \in Payment |-> {}]
    /\ calls = {}
    /\ overlapped = FALSE

\* Mutant: any target is accepted, PAYMENT_TRANSITIONS is not consulted.
BugNoTable(s, p, to, amount) ==
    /\ \A c \in calls : c.by # s
    /\ status[p] # to
    /\ to = "PARTIALLY_REFUNDED" => PartialAmountOK(p, amount)
    /\ calls' = calls \cup {[by |-> s, payment |-> p, from |-> status[p],
                             to |-> to, amount |-> amount]}
    /\ overlapped' = (overlapped \/ calls # {})
    /\ UNCHANGED paymentVars

\* findUnique and the validations.
TransitionRead(s, p, to, amount) ==
    /\ \A c \in calls : c.by # s
    /\ status[p] # to
    /\ to \in PaymentTransitions(status[p])
    /\ to = "PARTIALLY_REFUNDED" => PartialAmountOK(p, amount)
    /\ calls' = calls \cup {[by |-> s, payment |-> p, from |-> status[p],
                             to |-> to, amount |-> amount]}
    /\ overlapped' = (overlapped \/ calls # {})
    /\ UNCHANGED paymentVars

\* What the transaction of call c writes, given the new status of the payment
\* and its new history.
Write(c, newStatus, newHistory) ==
    LET p == c.payment
        tx == Len(history[p]) + 1
    IN  /\ Len(history[p]) < MaxHistory
        /\ status' = [status EXCEPT ![p] = newStatus]
        /\ history' = [history EXCEPT ![p] = newHistory]
        /\ ledger' = [ledger EXCEPT
                          ![p] = @ \cup Entries(tx, c.to, PostedAmount(p, c.amount))]
        /\ calls' = calls \ {c}
        /\ UNCHANGED overlapped

Record(c, from) == Append(history[c.payment], [from |-> from, to |-> c.to])

\* Mutants: the row leaves the status found at the update; the row is built
\* from the updated payment; the status is only updated when it is still the
\* one read, the row is inserted regardless; only posting transitions are
\* recorded.
BugFromCurrent(c) == Write(c, c.to, Record(c, status[c.payment]))
\* The transaction rolls back: time-out, lost connection, a failed insert.
TransitionAbort(c) ==
    /\ calls' = calls \ {c}
    /\ UNCHANGED <<paymentVars, overlapped>>

\* The update, the history row, the ledger pair and the commit.
TransitionCommit(c) == Write(c, c.to, Record(c, c.from))

Next ==
    \/ \E s \in Staff, p \in Payment, to \in PaymentStatus,
          amount \in AmountInput \cup {NoAmount} :
            TransitionRead(s, p, to, amount)
    \/ \E c \in calls : TransitionCommit(c) \/ TransitionAbort(c)

Spec == Init /\ [][Next]_stateVars

-----------------------------------------------------------------------------
\* Type invariant: the three tables and the calls in progress hold values
\* their columns can hold.
TypeOK ==
    /\ status \in [Payment -> PaymentStatus]
    /\ history \in [Payment -> Seq(HistoryRow)]
    /\ ledger \in [Payment -> SUBSET LedgerRow]
    /\ calls \subseteq Call
    /\ overlapped \in BOOLEAN

\* Every history row is an edge of PAYMENT_TRANSITIONS, also when another
\* call committed between this call's read and its update: the row records
\* the status the call validated, not the one it overwrote.
HistoryLegal ==
    \A p \in Payment : \A i \in DOMAIN history[p] :
        history[p][i].to \in PaymentTransitions(history[p][i].from)

\* What a call may post for a transition into `to`: the payment's amount, or
\* the amount it was given, which for a partial refund lies strictly between
\* zero and the payment's amount.
PostableAmount(p, to) ==
    IF to = "PARTIALLY_REFUNDED"
    THEN {a \in AmountInput : 0 < a /\ a < Amount[p]}
    ELSE AmountInput \cup {Amount[p]}

\* Each recorded transition into a posting status has exactly its own
\* debit/credit pair, with one and the same postable amount, every other
\* transition has none, and no ledger row stands without its transition:
\* rolled-back and racing calls leave no half of a pair behind.
LedgerMatchesHistory ==
    \A p \in Payment :
        /\ \A i \in DOMAIN history[p] :
              \E a \in PostableAmount(p, history[p][i].to) :
                  {r \in ledger[p] : r.tx = i} = Entries(i, history[p][i].to, a)
        /\ \A r \in ledger[p] : r.tx \in DOMAIN history[p]

\* While this service is the only writer, the status column is the target of
\* the newest history row: racing calls overwrite each other, but status and
\* history in the same order.
StatusIsLastRecorded ==
    \A p \in Payment :
        status[p] = IF history[p] = <<>> THEN "CREATED"
                    ELSE history[p][Len(history[p])].to

\* The status a row claims to leave is one the payment really had: the
\* initial one, or the target of an earlier row.
FromWasReached ==
    \A p \in Payment : \A i \in DOMAIN history[p] :
        \/ history[p][i].from = "CREATED"
        \/ \E j \in 1..(i - 1) : history[p][j].to = history[p][i].from

\* However many calls race, the history tells of the payment: its rows are
\* edges of the table, from statuses the payment had had, the newest one to
\* the status it has.
HistoryHolds == HistoryLegal /\ FromWasReached /\ StatusIsLastRecorded

\* A payment is captured only after it was authorized, and a refund starts
\* only after a capture, whatever calls raced in between.
MoneyInOrder ==
    \A p \in Payment : \A i \in DOMAIN history[p] :
        /\ history[p][i].to = "CAPTURED" =>
              \E j \in 1..(i - 1) : history[p][j].to = "AUTHORIZED"
        /\ history[p][i].to \in {"REFUNDED", "PARTIALLY_REFUNDED"} =>
              \E j \in 1..(i - 1) : history[p][j].to = "CAPTURED"

-----------------------------------------------------------------------------
Jumpless ==
    ~overlapped' => \A p \in Payment :
        status'[p] # status[p] => status'[p] \in PaymentTransitions(status[p])

\* "State machines only, no direct status jumps": until calls overlap, every
\* change of the status column is an edge of PAYMENT_TRANSITIONS.
NoStatusJump == [][Jumpless]_stateVars

\* Where the money of a payment is, read off its status and history: once
\* part of it was returned, a further refund in progress leaves it shared.
EscrowOf(p) ==
    CASE status[p] \in {"CREATED", "REQUIRES_ACTION"} -> "customer"
      [] status[p] = "AUTHORIZED" -> "held"
      [] status[p] = "SETTLED" -> "settled"
      [] status[p] \in {"FAILED", "VOIDED", "REFUNDED"} -> "returned"
      [] OTHER -> IF \E i \in DOMAIN history[p] :
                         history[p][i].to = "PARTIALLY_REFUNDED"
                  THEN "shared" ELSE "platform"

Escrow == INSTANCE PaymentEscrow WITH escrow <- [p \in Payment |-> EscrowOf(p)],
                                      broken <- overlapped

\* Until calls overlap, the service implements the escrow protocol: no money
\* is taken that was not held, and settled or returned money stays so.
ImplementsEscrow == Escrow!Spec
=============================================================================
