---------------------------- MODULE PaymentTable ----------------------------
(***************************************************************************)
(* The database rows about payments that every payment component shares:   *)
(* the status column of `payments`, and per payment the rows of            *)
(* `payment_state_history` and of `ledger_entries`.                        *)
(*                                                                         *)
(* A ledger row carries the position of the history row written by the     *)
(* same transaction (`tx`); the database relates the two only through      *)
(* their creation time.                                                    *)
(***************************************************************************)
EXTENDS Integers, Sequences

CONSTANTS
    Payment,    \* payment ids
    Amount      \* Amount[p]: amount_minor of payment p, fixed at creation; the
                \* routes that insert a payment do not all ask for a positive one

ASSUME AmountAssumption == Amount \in [Payment -> Int]

VARIABLES
    status,     \* payments.status
    history,    \* payment_state_history, oldest row first
    ledger      \* ledger_entries of the payment

paymentVars == <<status, history, ledger>>

-----------------------------------------------------------------------------
\* The enum PaymentStatus.
PaymentStatus ==
    {"CREATED", "REQUIRES_ACTION", "AUTHORIZED", "CAPTURED", "SETTLED",
     "FAILED", "VOIDED", "REFUND_PENDING", "REFUNDED", "PARTIALLY_REFUNDED"}

\* Mutant: an intent can be captured without authorization.
BugCaptureDirectly(from) ==
    IF from = "CREATED" THEN {"REQUIRES_ACTION", "AUTHORIZED", "CAPTURED", "FAILED"}
    ELSE IF from = "REQUIRES_ACTION" THEN {"AUTHORIZED", "FAILED"}
    ELSE IF from = "AUTHORIZED" THEN {"CAPTURED", "VOIDED"}
    ELSE IF from = "CAPTURED" THEN {"REFUND_PENDING"}
    ELSE IF from = "REFUND_PENDING" THEN {"REFUNDED"} ELSE {}

\* PAYMENT_TRANSITIONS of the payment state service.
PaymentTransitions(from) ==
    CASE from = "CREATED"            -> {"REQUIRES_ACTION", "AUTHORIZED", "FAILED"}
      [] from = "REQUIRES_ACTION"    -> {"AUTHORIZED", "FAILED"}
      [] from = "AUTHORIZED"         -> {"CAPTURED", "VOIDED"}
      [] from = "CAPTURED"           -> {"SETTLED", "REFUND_PENDING"}
      [] from = "REFUND_PENDING"     -> {"REFUNDED", "PARTIALLY_REFUNDED"}
      [] from = "PARTIALLY_REFUNDED" -> {"REFUND_PENDING"}
      [] OTHER                       -> {}

Account == {"customer:pending", "kemraa:pending", "kemraa:revenue",
            "customer:refunded"}

\* LEDGER_TRIGGERS: the statuses whose entry moves money, and the account
\* each one debits and credits.
Posting == {"AUTHORIZED", "CAPTURED", "VOIDED", "REFUNDED", "PARTIALLY_REFUNDED"}

DebitOf(to) ==
    CASE to = "AUTHORIZED"            -> "customer:pending"
      [] to \in {"CAPTURED", "VOIDED"} -> "kemraa:pending"
      [] OTHER                        -> "kemraa:revenue"

CreditOf(to) ==
    CASE to = "AUTHORIZED" -> "kemraa:pending"
      [] to = "CAPTURED"   -> "kemraa:revenue"
      [] to = "VOIDED"     -> "customer:pending"
      [] OTHER             -> "customer:refunded"

HistoryRow == [from : PaymentStatus, to : PaymentStatus]

LedgerRow == [tx : Nat, account : Account, direction : {"DEBIT", "CREDIT"},
              amount : Int]

\* The pair of rows createMany inserts for one transition.
Entries(tx, to, amount) ==
    IF to \in Posting
    THEN {[tx |-> tx, account |-> DebitOf(to), direction |-> "DEBIT",
           amount |-> amount],
          [tx |-> tx, account |-> CreditOf(to), direction |-> "CREDIT",
           amount |-> amount]}
    ELSE {}
=============================================================================
