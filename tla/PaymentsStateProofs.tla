------------------------ MODULE PaymentsStateProofs -------------------------
(***************************************************************************)
(* Proofs about PaymentsState, for any number of payments, of concurrent   *)
(* staff calls and of recorded transitions.                                *)
(***************************************************************************)
EXTENDS PaymentsState, TLAPS

-----------------------------------------------------------------------------
\* A call in progress validated an edge of the table, from a status its
\* payment has had; a partial refund's amount is in range.
CallsLegal ==
    \A c \in calls :
        /\ c.to \in PaymentTransitions(c.from)
        /\ c.to = "PARTIALLY_REFUNDED" => PartialAmountOK(c.payment, c.amount)
        /\ \/ c.from = "CREATED"
           \/ \E j \in DOMAIN history[c.payment] :
                  history[c.payment][j].to = c.from

\* The inductive invariant.  CallsLegal carries what a call validated across
\* the steps other calls take before it commits.
IInv ==
    /\ TypeOK
    /\ CallsLegal
    /\ HistoryLegal
    /\ LedgerMatchesHistory
    /\ StatusIsLastRecorded
    /\ FromWasReached
    /\ MoneyInOrder

-----------------------------------------------------------------------------
\* The entries of a transition are ledger rows of that transition.
LEMMA EntriesType ==
    ASSUME NEW tx \in Nat, NEW to, NEW amount \in Int
    PROVE  /\ Entries(tx, to, amount) \subseteq LedgerRow
           /\ \A r \in Entries(tx, to, amount) : r.tx = tx
<1>1. DebitOf(to) \in Account /\ CreditOf(to) \in Account
  BY DEF DebitOf, CreditOf, Account
<1>2. QED
  BY <1>1 DEF Entries, LedgerRow

\* The amount posted is an integer, and one the transition may post.
LEMMA PostedAmountType ==
    ASSUME NEW p \in Payment, NEW to,
           NEW amount \in AmountInput \cup {NoAmount},
           to = "PARTIALLY_REFUNDED" => PartialAmountOK(p, amount)
    PROVE  /\ PostedAmount(p, amount) \in Int
           /\ PostedAmount(p, amount) \in PostableAmount(p, to)
<1>1. Amount[p] \in Int
  BY AmountAssumption
<1>2. QED
  BY <1>1, InputAssumption DEF PostedAmount, PostableAmount, PartialAmountOK

\* Targets of the table are statuses.
LEMMA TransitionsType ==
    ASSUME NEW from
    PROVE  PaymentTransitions(from) \subseteq PaymentStatus
BY DEF PaymentTransitions, PaymentStatus

-----------------------------------------------------------------------------
LEMMA InitIInv == Init => IInv
<1> SUFFICES ASSUME Init PROVE IInv
  OBVIOUS
<1>1. TypeOK
  <2>1. overlapped \in BOOLEAN
    BY Zenon DEF Init
  <2>2. /\ status \in [Payment -> PaymentStatus]
        /\ history \in [Payment -> Seq(HistoryRow)]
        /\ ledger \in [Payment -> SUBSET LedgerRow]
        /\ calls \subseteq Call
    BY DEF Init, PaymentStatus
  <2>3. QED
    BY <2>1, <2>2, Zenon DEF TypeOK
<1>2. CallsLegal /\ HistoryLegal /\ StatusIsLastRecorded
  BY DEF Init, CallsLegal, HistoryLegal, StatusIsLastRecorded
<1>3. LedgerMatchesHistory
  <2>1. \A p \in Payment : DOMAIN history[p] = {} /\ ledger[p] = {}
    <3>1. \A p \in Payment : history[p] = <<>> /\ ledger[p] = {}
      BY DEF Init
    <3>2. DOMAIN << >> = {}
      OBVIOUS
    <3>3. QED
      BY <3>1, <3>2
  <2>2. QED
    BY <2>1 DEF LedgerMatchesHistory
<1>4. FromWasReached /\ MoneyInOrder
  BY DEF Init, FromWasReached, MoneyInOrder
<1>5. QED
  BY <1>1, <1>2, <1>3, <1>4 DEF IInv

\* A read adds a call that is legal and touches no table.
LEMMA ReadIInv ==
    ASSUME IInv,
           NEW s \in Staff, NEW p \in Payment, NEW to \in PaymentStatus,
           NEW amount \in AmountInput \cup {NoAmount},
           TransitionRead(s, p, to, amount)
    PROVE  IInv'
<1> DEFINE c0 == [by |-> s, payment |-> p, from |-> status[p], to |-> to,
                  amount |-> amount]
<1>1. calls' = calls \cup {c0} /\ UNCHANGED <<status, history, ledger>>
  BY DEF TransitionRead, paymentVars
<1>2. TypeOK'
  <2>1. overlapped' \in BOOLEAN
    BY Zenon DEF TransitionRead
  <2>2. calls' \subseteq Call
    BY <1>1 DEF IInv, TypeOK, Call
  <2>3. QED
    BY <1>1, <2>1, <2>2, Zenon DEF IInv, TypeOK
<1>3. status[p] = "CREATED" \/ \E j \in DOMAIN history[p] :
                                  history[p][j].to = status[p]
  <2>1. CASE history[p] = <<>>
    BY <2>1 DEF IInv, StatusIsLastRecorded
  <2>2. CASE history[p] # <<>>
    <3>1. history[p] \in Seq(HistoryRow)
      BY DEF IInv, TypeOK
    <3>2. Len(history[p]) \in DOMAIN history[p]
      BY <2>2, <3>1
    <3>3. status[p] = history[p][Len(history[p])].to
      BY <2>2 DEF IInv, StatusIsLastRecorded
    <3>4. QED
      BY <3>2, <3>3
  <2>3. QED
    BY <2>1, <2>2
<1>4. CallsLegal'
  BY <1>1, <1>3 DEF IInv, CallsLegal, TransitionRead, PartialAmountOK
<1>5. HistoryLegal' /\ StatusIsLastRecorded' /\ FromWasReached' /\ MoneyInOrder'
  BY <1>1 DEF IInv, HistoryLegal, StatusIsLastRecorded, FromWasReached,
              MoneyInOrder
<1>6. LedgerMatchesHistory'
  BY <1>1 DEF IInv, LedgerMatchesHistory
<1>7. QED
  BY <1>2, <1>4, <1>5, <1>6 DEF IInv

\* A roll-back only forgets a call.
LEMMA AbortIInv ==
    ASSUME IInv, NEW c \in calls, TransitionAbort(c)
    PROVE  IInv'
<1>1. calls' = calls \ {c} /\ UNCHANGED <<status, history, ledger, overlapped>>
  BY DEF TransitionAbort, paymentVars
<1>2. TypeOK' /\ CallsLegal'
  <2>1. calls' \subseteq calls
    BY <1>1
  <2>2. TypeOK'
    BY <1>1, <2>1, Zenon DEF IInv, TypeOK
  <2>3. CallsLegal'
    BY <1>1 DEF IInv, CallsLegal
  <2>4. QED
    BY <2>2, <2>3
<1>3. HistoryLegal' /\ StatusIsLastRecorded' /\ FromWasReached' /\ MoneyInOrder'
  BY <1>1 DEF IInv, HistoryLegal, StatusIsLastRecorded, FromWasReached,
              MoneyInOrder
<1>4. LedgerMatchesHistory'
  BY <1>1 DEF IInv, LedgerMatchesHistory
<1>5. QED
  BY <1>2, <1>3, <1>4 DEF IInv

\* What a commit leaves in the tables: the payment's history grows by the
\* call's row, its ledger by the entries of that row, nothing else changes.
LEMMA CommitEffect ==
    ASSUME TypeOK, NEW c \in calls, TransitionCommit(c)
    PROVE  LET p == c.payment
               n == Len(history[p])
           IN  /\ p \in Payment
               /\ n \in Nat
               /\ DOMAIN history[p] = 1..n
               /\ DOMAIN history'[p] = 1..(n + 1)
               /\ \A i \in 1..n : history'[p][i] = history[p][i]
               /\ history'[p][n + 1] = [from |-> c.from, to |-> c.to]
               /\ Len(history'[p]) = n + 1
               /\ status'[p] = c.to
               /\ ledger'[p] = ledger[p] \cup
                       Entries(n + 1, c.to, PostedAmount(p, c.amount))
               /\ \A q \in Payment \ {p} : /\ history'[q] = history[q]
                                           /\ status'[q] = status[q]
                                           /\ ledger'[q] = ledger[q]
               /\ calls' = calls \ {c}
<1> DEFINE p == c.payment
           h == history[p]
           n == Len(h)
           row == [from |-> c.from, to |-> c.to]
<1>1. c \in Call
  BY DEF TypeOK
<1>2. p \in Payment /\ row \in HistoryRow
  BY <1>1 DEF Call, HistoryRow
<1>3. h \in Seq(HistoryRow)
  BY <1>2 DEF TypeOK
<1>4. history' = [history EXCEPT ![p] = Append(h, row)]
  BY DEF TransitionCommit, Write, Record
<1>5. history'[p] = Append(h, row)
  BY <1>2, <1>4 DEF TypeOK
<1>6. /\ n \in Nat
      /\ DOMAIN h = 1..n
      /\ DOMAIN Append(h, row) = 1..(n + 1)
      /\ Len(Append(h, row)) = n + 1
      /\ \A i \in 1..n : Append(h, row)[i] = h[i]
      /\ Append(h, row)[n + 1] = row
  BY <1>2, <1>3
<1>7. /\ status'[p] = c.to
      /\ ledger'[p] = ledger[p] \cup Entries(n + 1, c.to, PostedAmount(p, c.amount))
      /\ calls' = calls \ {c}
  BY <1>2 DEF TransitionCommit, Write, TypeOK
<1>8. \A q \in Payment \ {p} : /\ history'[q] = history[q]
                               /\ status'[q] = status[q]
                               /\ ledger'[q] = ledger[q]
  BY <1>4 DEF TransitionCommit, Write, TypeOK
<1>9. QED
  BY <1>2, <1>5, <1>6, <1>7, <1>8

\* A commit preserves the invariant, whatever committed since its read.
LEMMA CommitIInv ==
    ASSUME IInv, NEW c \in calls, TransitionCommit(c)
    PROVE  IInv'
<1> DEFINE p == c.payment
           n == Len(history[p])
           amt == PostedAmount(p, c.amount)
<1>0. TypeOK /\ c \in Call
  BY DEF IInv, TypeOK
<1>1. /\ p \in Payment
      /\ n \in Nat
      /\ DOMAIN history[p] = 1..n
      /\ DOMAIN history'[p] = 1..(n + 1)
      /\ \A i \in 1..n : history'[p][i] = history[p][i]
      /\ history'[p][n + 1] = [from |-> c.from, to |-> c.to]
      /\ Len(history'[p]) = n + 1
      /\ status'[p] = c.to
      /\ ledger'[p] = ledger[p] \cup Entries(n + 1, c.to, amt)
      /\ \A q \in Payment \ {p} : /\ history'[q] = history[q]
                                  /\ status'[q] = status[q]
                                  /\ ledger'[q] = ledger[q]
      /\ calls' = calls \ {c}
  BY <1>0, CommitEffect
<1>old. p \in Payment /\ DOMAIN history[p] = 1..n
  BY <1>1
<1>2. /\ c.to \in PaymentTransitions(c.from)
      /\ c.to = "PARTIALLY_REFUNDED" => PartialAmountOK(p, c.amount)
      /\ c.from = "CREATED" \/ \E j \in 1..n : history[p][j].to = c.from
  BY <1>1 DEF IInv, CallsLegal
<1>3. amt \in Int /\ amt \in PostableAmount(p, c.to)
  BY <1>0, <1>1, <1>2, PostedAmountType DEF Call
<1>4. TypeOK'
  <2>1. status' \in [Payment -> PaymentStatus]
    BY <1>0, <1>1 DEF TypeOK, Call, TransitionCommit, Write
  <2>2. history' \in [Payment -> Seq(HistoryRow)]
    <3>1. [from |-> c.from, to |-> c.to] \in HistoryRow
      BY <1>0 DEF Call, HistoryRow
    <3>2. Append(history[p], [from |-> c.from, to |-> c.to]) \in Seq(HistoryRow)
      BY <1>0, <1>1, <3>1 DEF TypeOK
    <3>3. QED
      BY <1>0, <3>2 DEF TypeOK, TransitionCommit, Write, Record
  <2>3. ledger' \in [Payment -> SUBSET LedgerRow]
    <3>1. Entries(n + 1, c.to, amt) \subseteq LedgerRow
      BY <1>1, <1>3, EntriesType
    <3>2. ledger' = [ledger EXCEPT ![p] = @ \cup Entries(n + 1, c.to, amt)]
      BY DEF TransitionCommit, Write
    <3>3. QED
      BY <1>0, <1>1, <3>1, <3>2 DEF TypeOK
  <2>4. calls' \subseteq Call
    BY <1>0, <1>1 DEF TypeOK
  <2>5. overlapped' \in BOOLEAN
    BY <1>0, Zenon DEF TypeOK, TransitionCommit, Write
  <2>6. QED
    BY <2>1, <2>2, <2>3, <2>4, <2>5, Zenon DEF TypeOK
<1>5. CallsLegal'
  <2> SUFFICES ASSUME NEW d \in calls'
               PROVE  /\ d.to \in PaymentTransitions(d.from)
                      /\ d.to = "PARTIALLY_REFUNDED" =>
                            PartialAmountOK(d.payment, d.amount)
                      /\ \/ d.from = "CREATED"
                         \/ \E j \in DOMAIN history'[d.payment] :
                                history'[d.payment][j].to = d.from
    BY DEF CallsLegal
  <2>1. d \in calls /\ d.payment \in Payment
    BY <1>0, <1>1 DEF TypeOK, Call
  <2>2. /\ d.to \in PaymentTransitions(d.from)
        /\ d.to = "PARTIALLY_REFUNDED" => PartialAmountOK(d.payment, d.amount)
        /\ \/ d.from = "CREATED"
           \/ \E j \in DOMAIN history[d.payment] :
                  history[d.payment][j].to = d.from
    BY <2>1 DEF IInv, CallsLegal
  <2>3. ASSUME NEW j \in DOMAIN history[d.payment]
        PROVE  /\ j \in DOMAIN history'[d.payment]
               /\ history'[d.payment][j] = history[d.payment][j]
    <3>1. CASE d.payment = p
      BY <1>1, <3>1
    <3>2. CASE d.payment # p
      BY <1>1, <2>1, <3>2
    <3>3. QED
      BY <3>1, <3>2
  <2>4. QED
    BY <2>2, <2>3
<1>dom. DOMAIN history'[p] = 1..(n + 1)
  BY <1>1
<1>keep. \A i \in 1..n : history'[p][i] = history[p][i]
  BY <1>1
<1>row. history'[p][n + 1] = [from |-> c.from, to |-> c.to]
  BY <1>1
<1>others. \A q \in Payment \ {p} : history'[q] = history[q]
  BY <1>1
<1>split. \A i \in 1..(n + 1) :
            /\ i \in 1..n \/ i = n + 1
            /\ \A j \in 1..(i - 1) : j \in 1..n /\ j \in 1..(n + 1)
  BY <1>1
<1>6. HistoryLegal'
  <2> SUFFICES ASSUME NEW q \in Payment, NEW i \in DOMAIN history'[q]
               PROVE  history'[q][i].to \in PaymentTransitions(history'[q][i].from)
    BY DEF HistoryLegal
  <2>1. CASE q # p
    BY <1>others, <2>1 DEF IInv, HistoryLegal
  <2>2. CASE q = p /\ i = n + 1
    BY <1>row, <1>2, <2>2
  <2>3. CASE q = p /\ i \in 1..n
    <3>1. history[p][i].to \in PaymentTransitions(history[p][i].from)
      BY <1>old, <2>3 DEF IInv, HistoryLegal
    <3>2. QED
      BY <1>keep, <2>3, <3>1
  <2>4. QED
    BY <1>dom, <1>split, <2>1, <2>2, <2>3
<1>7. StatusIsLastRecorded'
  BY <1>1 DEF IInv, StatusIsLastRecorded
<1>8. FromWasReached'
  <2> SUFFICES ASSUME NEW q \in Payment, NEW i \in DOMAIN history'[q]
               PROVE  \/ history'[q][i].from = "CREATED"
                      \/ \E j \in 1..(i - 1) :
                             history'[q][j].to = history'[q][i].from
    BY DEF FromWasReached
  <2>1. CASE q # p
    BY <1>others, <2>1 DEF IInv, FromWasReached
  <2>2. CASE q = p /\ i = n + 1
    <3>1. history'[p][i].from = c.from /\ i - 1 = n
      BY <1>1, <1>row, <2>2
    <3>2. c.from = "CREATED" \/ \E j \in 1..n : history'[p][j].to = c.from
      BY <1>2, <1>keep
    <3>3. QED
      BY <2>2, <3>1, <3>2
  <2>3. CASE q = p /\ i \in 1..n
    <3>1. \/ history[p][i].from = "CREATED"
          \/ \E j \in 1..(i - 1) : history[p][j].to = history[p][i].from
      BY <1>old, <2>3 DEF IInv, FromWasReached
    <3>2. \A j \in 1..(i - 1) : history'[p][j] = history[p][j]
      BY <1>dom, <1>split, <1>keep, <2>3
    <3>3. history'[p][i] = history[p][i]
      BY <1>keep, <2>3
    <3>4. QED
      BY <2>3, <3>1, <3>2, <3>3
  <2>4. QED
    BY <1>dom, <1>split, <2>1, <2>2, <2>3
<1>9. MoneyInOrder'
  \* Every call in progress already has what the row it will write needs.
  <2>1. c.to = "CAPTURED" => \E j \in 1..n : history[p][j].to = "AUTHORIZED"
    <3> SUFFICES ASSUME c.to = "CAPTURED"
                 PROVE  \E j \in 1..n : history[p][j].to = "AUTHORIZED"
      OBVIOUS
    <3>1. c.from = "AUTHORIZED"
      BY <1>2 DEF PaymentTransitions
    <3>2. QED
      BY <1>2, <3>1
  <2>2. ASSUME c.to \in {"REFUNDED", "PARTIALLY_REFUNDED"}
        PROVE  \E j \in 1..n : history[p][j].to = "CAPTURED"
    \* The refund was pending; it became so from a capture, or from an
    \* earlier partial refund, which itself came after a capture.
    <3>1. c.from = "REFUND_PENDING"
      BY <1>2, <2>2 DEF PaymentTransitions
    <3>2. PICK j \in 1..n : history[p][j].to = "REFUND_PENDING"
      BY <1>2, <3>1
    <3>3. history[p][j].to \in PaymentTransitions(history[p][j].from)
      BY <1>old DEF IInv, HistoryLegal
    <3>4. history[p][j].from \in {"CAPTURED", "PARTIALLY_REFUNDED"}
      BY <3>2, <3>3 DEF PaymentTransitions
    <3>5. PICK k \in 1..(j - 1) : history[p][k].to = history[p][j].from
      BY <1>old, <3>4 DEF IInv, FromWasReached
    <3>6. k \in 1..n /\ \A l \in 1..(k - 1) : l \in 1..n
      BY <1>1
    <3>7. CASE history[p][k].to = "CAPTURED"
      BY <3>6, <3>7
    <3>8. CASE history[p][k].to = "PARTIALLY_REFUNDED"
      <4>1. \E l \in 1..(k - 1) : history[p][l].to = "CAPTURED"
        BY <1>old, <3>6, <3>8 DEF IInv, MoneyInOrder
      <4>2. QED
        BY <3>6, <4>1
    <3>9. QED
      BY <3>4, <3>5, <3>7, <3>8
  <2> SUFFICES ASSUME NEW q \in Payment, NEW i \in DOMAIN history'[q]
               PROVE  /\ history'[q][i].to = "CAPTURED" =>
                            \E j \in 1..(i - 1) : history'[q][j].to = "AUTHORIZED"
                      /\ history'[q][i].to \in {"REFUNDED", "PARTIALLY_REFUNDED"} =>
                            \E j \in 1..(i - 1) : history'[q][j].to = "CAPTURED"
    BY DEF MoneyInOrder
  <2>3. CASE q # p
    BY <1>others, <2>3 DEF IInv, MoneyInOrder
  <2>4. CASE q = p /\ i \in 1..n
    <3>1. /\ history[p][i].to = "CAPTURED" =>
                \E j \in 1..(i - 1) : history[p][j].to = "AUTHORIZED"
          /\ history[p][i].to \in {"REFUNDED", "PARTIALLY_REFUNDED"} =>
                \E j \in 1..(i - 1) : history[p][j].to = "CAPTURED"
      BY <1>old, <2>4 DEF IInv, MoneyInOrder
    <3>2. \A j \in 1..(i - 1) : history'[p][j] = history[p][j]
      BY <1>dom, <1>split, <1>keep, <2>4
    <3>3. history'[p][i] = history[p][i]
      BY <1>keep, <2>4
    <3>4. QED
      BY <2>4, <3>1, <3>2, <3>3
  <2>5. CASE q = p /\ i = n + 1
    <3>1. history'[p][i].to = c.to /\ i - 1 = n
      BY <1>1, <1>row, <2>5
    <3>2. /\ c.to = "CAPTURED" => \E j \in 1..n : history'[p][j].to = "AUTHORIZED"
          /\ c.to \in {"REFUNDED", "PARTIALLY_REFUNDED"} =>
                \E j \in 1..n : history'[p][j].to = "CAPTURED"
      BY <1>keep, <2>1, <2>2
    <3>3. QED
      BY <2>5, <3>1, <3>2
  <2>6. QED
    BY <1>dom, <1>split, <2>3, <2>4, <2>5
<1>10. LedgerMatchesHistory'
  <2> DEFINE new == Entries(n + 1, c.to, amt)
  <2>1. \A r \in new : r.tx = n + 1
    BY <1>1, <1>3, EntriesType
  <2>2. \A r \in ledger[p] : r.tx \in 1..n
    BY <1>1 DEF IInv, LedgerMatchesHistory
  <2>3. ASSUME NEW q \in Payment, NEW i \in DOMAIN history'[q]
        PROVE  \E a \in PostableAmount(q, history'[q][i].to) :
                  {r \in ledger'[q] : r.tx = i} = Entries(i, history'[q][i].to, a)
    <3>1. CASE q # p
      BY <1>1, <3>1 DEF IInv, LedgerMatchesHistory
    <3>2. CASE q = p /\ i \in 1..n
      <4>1. {r \in ledger'[p] : r.tx = i} = {r \in ledger[p] : r.tx = i}
        BY <1>1, <2>1, <3>2
      <4>2. \E a \in PostableAmount(p, history[p][i].to) :
                {r \in ledger[p] : r.tx = i} = Entries(i, history[p][i].to, a)
        <5> HIDE DEF new
        <5>1. p \in Payment /\ i \in DOMAIN history[p]
          BY <1>old, <3>2
        <5>2. QED
          BY <5>1 DEF IInv, LedgerMatchesHistory
      <4>3. history'[p][i].to = history[p][i].to
        BY <1>keep, <3>2
      <4>4. QED
        BY <3>2, <4>1, <4>2, <4>3
    <3>3. CASE q = p /\ i = n + 1
      <4>1. {r \in ledger'[p] : r.tx = n + 1} = new
        BY <1>1, <2>1, <2>2
      <4>2. history'[p][n + 1].to = c.to
        BY <1>1
      <4>3. QED
        BY <1>3, <3>3, <4>1, <4>2
    <3>4. QED
      BY <1>1, <3>1, <3>2, <3>3
  <2>4. ASSUME NEW q \in Payment, NEW r \in ledger'[q]
        PROVE  r.tx \in DOMAIN history'[q]
    <3>1. CASE q # p
      BY <1>1, <3>1 DEF IInv, LedgerMatchesHistory
    <3>2. CASE q = p
      BY <1>1, <2>1, <2>2, <3>2
    <3>3. QED
      BY <3>1, <3>2
  <2>5. QED
    BY <2>3, <2>4 DEF LedgerMatchesHistory
<1>11. QED
  BY <1>4, <1>5, <1>6, <1>7, <1>8, <1>9, <1>10 DEF IInv

-----------------------------------------------------------------------------
LEMMA NextIInv == IInv /\ [Next]_stateVars => IInv'
<1> SUFFICES ASSUME IInv, [Next]_stateVars PROVE IInv'
  OBVIOUS
<1>1. ASSUME NEW s \in Staff, NEW p \in Payment, NEW to \in PaymentStatus,
             NEW amount \in AmountInput \cup {NoAmount},
             TransitionRead(s, p, to, amount)
      PROVE  IInv'
  BY <1>1, ReadIInv
<1>2. ASSUME NEW c \in calls, TransitionCommit(c)
      PROVE  IInv'
  BY <1>2, CommitIInv
<1>3. ASSUME NEW c \in calls, TransitionAbort(c)
      PROVE  IInv'
  BY <1>3, AbortIInv
<1>4. CASE UNCHANGED stateVars
  <2>1. UNCHANGED <<status, history, ledger, calls, overlapped>>
    BY <1>4 DEF stateVars
  <2>2. TypeOK' /\ CallsLegal' /\ HistoryLegal' /\ StatusIsLastRecorded'
        /\ FromWasReached' /\ MoneyInOrder'
    BY <2>1 DEF IInv, TypeOK, CallsLegal, HistoryLegal, StatusIsLastRecorded,
                FromWasReached, MoneyInOrder
  <2>3. LedgerMatchesHistory'
    BY <2>1 DEF IInv, LedgerMatchesHistory
  <2>4. QED
    BY <2>2, <2>3 DEF IInv
<1>5. QED
  BY <1>1, <1>2, <1>3, <1>4 DEF Next

\* The inductive invariant holds of every behavior of the service.
THEOREM SpecIInv == Spec => []IInv
<1>1. QED
  BY InitIInv, NextIInv, PTL DEF Spec

\* The tables and the calls in progress are well typed in every behavior.
THEOREM TypeCorrect == Spec => []TypeOK
<1>1. IInv => TypeOK
  BY DEF IInv
<1>2. QED
  BY <1>1, SpecIInv, PTL

\* However many calls race, every history row is an edge of the table, from
\* a status the payment had had, and the status is the newest row's target.
THEOREM HistoryCorrect ==
    Spec => []HistoryHolds
<1>1. IInv => HistoryHolds
  BY DEF IInv, HistoryHolds
<1>2. QED
  BY <1>1, SpecIInv, PTL

\* However many calls race or roll back, the ledger holds exactly the
\* debit/credit pairs of the recorded posting transitions.
THEOREM LedgerCorrect == Spec => []LedgerMatchesHistory
<1>1. IInv => LedgerMatchesHistory
  BY DEF IInv
<1>2. QED
  BY <1>1, SpecIInv, PTL

\* However many calls race, nothing is captured before an authorization and
\* nothing refunded before a capture.
THEOREM MoneyOrderCorrect == Spec => []MoneyInOrder
<1>1. IInv => MoneyInOrder
  BY DEF IInv
<1>2. QED
  BY <1>1, SpecIInv, PTL

-----------------------------------------------------------------------------
(***************************************************************************)
(* Until calls overlap.                                                    *)
(***************************************************************************)

\* Until calls overlap, the status a call read is still the payment's; and
\* nothing was returned of a payment that is captured or earlier.
Fresh ==
    ~overlapped =>
        /\ \A c, d \in calls : c = d
        /\ \A c \in calls : c.from = status[c.payment]
        /\ \A p \in Payment :
              status[p] \in {"CREATED", "REQUIRES_ACTION", "AUTHORIZED", "CAPTURED"} =>
                  \A i \in DOMAIN history[p] : history[p][i].to # "PARTIALLY_REFUNDED"

LEMMA InitFresh == Init => Fresh
<1> SUFFICES ASSUME Init PROVE Fresh
  OBVIOUS
<1>1. calls = {} /\ \A p \in Payment : history[p] = <<>>
  BY DEF Init
<1>2. DOMAIN << >> = {}
  OBVIOUS
<1>3. QED
  BY <1>1, <1>2 DEF Fresh

LEMMA CommitFresh ==
    ASSUME IInv, Fresh, ~overlapped, NEW c \in calls, TransitionCommit(c)
    PROVE  Fresh'
<1> DEFINE p == c.payment
           n == Len(history[p])
<1>1. /\ p \in Payment
      /\ DOMAIN history[p] = 1..n
      /\ n \in Nat
      /\ DOMAIN history'[p] = 1..(n + 1)
      /\ \A i \in 1..n : history'[p][i] = history[p][i]
      /\ history'[p][n + 1] = [from |-> c.from, to |-> c.to]
      /\ status'[p] = c.to
      /\ \A q \in Payment \ {p} : /\ history'[q] = history[q]
                                  /\ status'[q] = status[q]
      /\ calls' = calls \ {c}
  BY CommitEffect DEF IInv
<1>2. calls' = {}
  BY <1>1 DEF Fresh
<1>3. c.from = status[p] /\ c.to \in PaymentTransitions(c.from)
  BY DEF Fresh, IInv, CallsLegal
<1>4. ASSUME NEW q \in Payment, NEW i \in DOMAIN history'[q],
             status'[q] \in {"CREATED", "REQUIRES_ACTION", "AUTHORIZED", "CAPTURED"}
      PROVE  history'[q][i].to # "PARTIALLY_REFUNDED"
  <2>1. CASE q # p
    BY <1>1, <1>4, <2>1 DEF Fresh
  <2>2. CASE q = p
    <3>1. status[p] \in {"CREATED", "REQUIRES_ACTION", "AUTHORIZED"}
      BY <1>1, <1>3, <1>4, <2>2 DEF PaymentTransitions
    <3>2. CASE i = n + 1
      BY <1>1, <1>4, <2>2, <3>2
    <3>3. CASE i \in 1..n
      BY <1>1, <2>2, <3>1, <3>3 DEF Fresh
    <3>4. QED
      BY <1>1, <2>2, <3>2, <3>3
  <2>3. QED
    BY <2>1, <2>2
<1>5. QED
  BY <1>2, <1>4 DEF Fresh

LEMMA NextFresh == IInv /\ Fresh /\ [Next]_stateVars => Fresh'
<1> SUFFICES ASSUME IInv, Fresh, [Next]_stateVars, ~overlapped' PROVE Fresh'
  BY DEF Fresh
<1>1. ASSUME NEW s \in Staff, NEW p \in Payment, NEW to \in PaymentStatus,
             NEW amount \in AmountInput \cup {NoAmount},
             TransitionRead(s, p, to, amount)
      PROVE  Fresh'
  <2>1. UNCHANGED <<status, history>>
    BY <1>1 DEF TransitionRead, paymentVars
  <2>2. calls = {} /\ ~overlapped
    BY <1>1 DEF TransitionRead
  <2>3. \A c \in calls' : c = [by |-> s, payment |-> p, from |-> status[p],
                               to |-> to, amount |-> amount]
    BY <1>1, <2>2 DEF TransitionRead
  <2>4. QED
    BY <2>1, <2>2, <2>3 DEF Fresh
<1>2. ASSUME NEW c \in calls, TransitionCommit(c)
      PROVE  Fresh'
  <2>1. ~overlapped
    BY <1>2 DEF TransitionCommit, Write
  <2>2. QED
    BY <1>2, <2>1, CommitFresh
<1>3. ASSUME NEW c \in calls, TransitionAbort(c)
      PROVE  Fresh'
  BY <1>3 DEF TransitionAbort, paymentVars, Fresh
<1>4. CASE UNCHANGED stateVars
  BY <1>4 DEF stateVars, Fresh
<1>5. QED
  BY <1>1, <1>2, <1>3, <1>4 DEF Next

THEOREM SpecFresh == Spec => []Fresh
<1>1. IInv /\ Fresh /\ [Next]_stateVars => Fresh'
  BY NextFresh
<1>2. QED
  BY <1>1, InitFresh, SpecIInv, PTL DEF Spec

\* Until calls overlap, the status moves along edges of the table only.
THEOREM NoStatusJumpCorrect == Spec => NoStatusJump
<1>1. ASSUME IInv, Fresh, [Next]_stateVars
      PROVE  [Jumpless]_stateVars
  <2>1. ASSUME NEW c \in calls, TransitionCommit(c), ~overlapped'
        PROVE  Jumpless
    <3>1. /\ status'[c.payment] = c.to
          /\ \A q \in Payment \ {c.payment} : status'[q] = status[q]
      BY <1>1, <2>1, CommitEffect DEF IInv
    <3>2. ~overlapped
      BY <2>1 DEF TransitionCommit, Write
    <3>3. c.from = status[c.payment] /\ c.to \in PaymentTransitions(c.from)
      BY <1>1, <3>2 DEF Fresh, IInv, CallsLegal
    <3>4. QED
      BY <3>1, <3>3 DEF Jumpless
  <2>2. ASSUME UNCHANGED status
        PROVE  Jumpless
    BY <2>2 DEF Jumpless
  <2>3. ASSUME overlapped'
        PROVE  Jumpless
    BY <2>3 DEF Jumpless
  <2>4. \/ \E c \in calls : TransitionCommit(c)
        \/ UNCHANGED status
    BY <1>1 DEF Next, stateVars, TransitionRead, TransitionAbort, paymentVars
  <2>5. QED
    BY <2>1, <2>2, <2>3, <2>4
<1>2. QED
  BY <1>1, SpecIInv, SpecFresh, PTL DEF Spec, NoStatusJump

-----------------------------------------------------------------------------
(***************************************************************************)
(* The refinement of the escrow protocol.                                  *)
(***************************************************************************)
EscrowMap == [p \in Payment |-> EscrowOf(p)]

\* Some of the payment's money was returned already.
PartReturned(p) == \E i \in DOMAIN history[p] :
                       history[p][i].to = "PARTIALLY_REFUNDED"

LEMMA InitEscrow == Init => Escrow!Init
<1> SUFFICES ASSUME Init PROVE EscrowMap = [p \in Payment |-> "customer"]
  BY DEF Escrow!Init, EscrowMap, Init
<1>1. QED
  BY DEF Init, EscrowMap, EscrowOf

\* A commit moves the money of its payment as the protocol allows, or leaves
\* it where it is.
LEMMA CommitEscrow ==
    ASSUME IInv, Fresh, ~overlapped, NEW c \in calls, TransitionCommit(c)
    PROVE  [Escrow!Next]_<<EscrowMap, overlapped>>
<1> DEFINE p == c.payment
           n == Len(history[p])
<1>1. /\ p \in Payment
      /\ DOMAIN history[p] = 1..n
      /\ n \in Nat
      /\ DOMAIN history'[p] = 1..(n + 1)
      /\ \A i \in 1..n : history'[p][i] = history[p][i]
      /\ history'[p][n + 1] = [from |-> c.from, to |-> c.to]
      /\ status'[p] = c.to
      /\ \A q \in Payment \ {p} : /\ history'[q] = history[q]
                                  /\ status'[q] = status[q]
  BY CommitEffect DEF IInv
<1>2. c.to \in PaymentTransitions(status[p])
  BY DEF Fresh, IInv, CallsLegal
<1>3. EscrowMap' = [EscrowMap EXCEPT ![p] = EscrowOf(p)']
  <2>1. ASSUME NEW q \in Payment \ {p}
        PROVE  EscrowOf(q)' = EscrowOf(q)
    BY <1>1 DEF EscrowOf
  <2>2. EscrowMap' = [q \in Payment |-> EscrowOf(q)']
    BY DEF EscrowMap
  <2>3. QED
    BY <1>1, <2>1, <2>2 DEF EscrowMap
<1>4. EscrowMap[p] = EscrowOf(p)
  BY <1>1 DEF EscrowMap
<1>5. PartReturned(p)' <=> PartReturned(p) \/ c.to = "PARTIALLY_REFUNDED"
  <2>1. PartReturned(p)' <=> \E i \in 1..(n + 1) :
                                history'[p][i].to = "PARTIALLY_REFUNDED"
    BY <1>1 DEF PartReturned
  <2>2. PartReturned(p) <=> \E i \in 1..n :
                               history[p][i].to = "PARTIALLY_REFUNDED"
    BY <1>1 DEF PartReturned
  <2>3. \A i \in 1..(n + 1) : i \in 1..n \/ i = n + 1
    BY <1>1
  <2>4. /\ \A i \in 1..n : i \in 1..(n + 1)
        /\ n + 1 \in 1..(n + 1)
        /\ history'[p][n + 1].to = c.to
    BY <1>1
  <2>5. QED
    BY <1>1, <2>1, <2>2, <2>3, <2>4
<1>6. status[p] \in {"CREATED", "REQUIRES_ACTION", "AUTHORIZED", "CAPTURED"} =>
          ~PartReturned(p)
  BY <1>1 DEF Fresh, PartReturned
<1>7. status[p] = "PARTIALLY_REFUNDED" => PartReturned(p)
  <2>1. ASSUME status[p] = "PARTIALLY_REFUNDED"
        PROVE  PartReturned(p)
    <3>1. history[p] # <<>>
      BY <1>1, <2>1 DEF IInv, StatusIsLastRecorded
    <3>2. history[p] \in Seq(HistoryRow)
      BY <1>1 DEF IInv, TypeOK
    <3>3. n \in DOMAIN history[p]
      BY <3>1, <3>2
    <3>4. history[p][n].to = "PARTIALLY_REFUNDED"
      BY <1>1, <2>1, <3>1 DEF IInv, StatusIsLastRecorded
    <3>5. QED
      BY <3>3, <3>4 DEF PartReturned
  <2>2. QED
    BY <2>1
<1>8. EscrowOf(p) =
        CASE status[p] \in {"CREATED", "REQUIRES_ACTION"} -> "customer"
          [] status[p] = "AUTHORIZED" -> "held"
          [] status[p] = "SETTLED" -> "settled"
          [] status[p] \in {"FAILED", "VOIDED", "REFUNDED"} -> "returned"
          [] OTHER -> IF PartReturned(p) THEN "shared" ELSE "platform"
  BY DEF EscrowOf, PartReturned
<1>9. EscrowOf(p)' =
        CASE c.to \in {"CREATED", "REQUIRES_ACTION"} -> "customer"
          [] c.to = "AUTHORIZED" -> "held"
          [] c.to = "SETTLED" -> "settled"
          [] c.to \in {"FAILED", "VOIDED", "REFUNDED"} -> "returned"
          [] OTHER -> IF PartReturned(p)' THEN "shared" ELSE "platform"
  BY <1>1 DEF EscrowOf, PartReturned
<1>still. UNCHANGED overlapped
  BY DEF TransitionCommit, Write
<1>10. CASE EscrowOf(p)' = EscrowOf(p)
  BY <1>3, <1>4, <1>10, <1>still DEF EscrowMap
<1>11. CASE EscrowOf(p)' # EscrowOf(p)
  <2> DEFINE Moves == {<<"customer", "held">>, <<"customer", "returned">>,
                       <<"held", "platform">>, <<"held", "returned">>,
                       <<"platform", "settled">>, <<"platform", "shared">>,
                       <<"platform", "returned">>, <<"shared", "returned">>}
  <2>1. <<EscrowOf(p), EscrowOf(p)'>> \in Moves
    <3>1. CASE status[p] \in {"CREATED", "REQUIRES_ACTION"}
      BY <1>2, <1>8, <1>9, <1>11, <3>1 DEF PaymentTransitions
    <3>2. CASE status[p] = "AUTHORIZED"
      BY <1>2, <1>5, <1>6, <1>8, <1>9, <3>2 DEF PaymentTransitions
    <3>3. CASE status[p] = "CAPTURED"
      BY <1>2, <1>5, <1>6, <1>8, <1>9, <1>11, <3>3 DEF PaymentTransitions
    <3>4. CASE status[p] = "REFUND_PENDING"
      BY <1>2, <1>5, <1>8, <1>9, <1>11, <3>4 DEF PaymentTransitions
    <3>5. CASE status[p] = "PARTIALLY_REFUNDED"
      BY <1>2, <1>5, <1>7, <1>8, <1>9, <1>11, <3>5 DEF PaymentTransitions
    <3>6. QED
      BY <1>1, <1>2, <3>1, <3>2, <3>3, <3>4, <3>5
         DEF IInv, TypeOK, PaymentStatus, PaymentTransitions
  <2>2. Escrow!Move(p, EscrowOf(p), EscrowOf(p)')
    BY <1>3, <1>4, <1>still DEF Escrow!Move, EscrowMap
  <2>3. Escrow!Next
    BY <1>1, <2>1, <2>2
       DEF Escrow!Next, Escrow!Hold, Escrow!Refuse, Escrow!Take, Escrow!Release,
           Escrow!Settle, Escrow!ReturnPart, Escrow!ReturnAll, Escrow!ReturnRest
  <2>4. QED
    BY <2>3
<1>12. QED
  BY <1>10, <1>11

\* Until calls overlap, the service implements the escrow protocol.
THEOREM EscrowCorrect == Spec => ImplementsEscrow
<1>1. ASSUME IInv, Fresh, [Next]_stateVars
      PROVE  [Escrow!Next]_<<EscrowMap, overlapped>>
  <2>1. ASSUME NEW c \in calls, TransitionCommit(c)
        PROVE  [Escrow!Next]_<<EscrowMap, overlapped>>
    <3>1. CASE overlapped
      BY <2>1, <3>1 DEF TransitionCommit, Write, Escrow!Next, Escrow!Break
    <3>2. CASE ~overlapped
      BY <1>1, <2>1, <3>2, CommitEscrow
    <3>3. QED
      BY <3>1, <3>2
  <2>2. ASSUME UNCHANGED <<status, history>>, overlapped' \/ UNCHANGED overlapped
        PROVE  [Escrow!Next]_<<EscrowMap, overlapped>>
    <3>1. UNCHANGED EscrowMap
      BY <2>2 DEF EscrowMap, EscrowOf
    <3>2. QED
      BY <2>2, <3>1 DEF Escrow!Next, Escrow!Break
  <2>3. \/ \E c \in calls : TransitionCommit(c)
        \/ UNCHANGED <<status, history>> /\ (overlapped' \/ UNCHANGED overlapped)
    BY <1>1 DEF Next, stateVars, TransitionRead, TransitionAbort, paymentVars, IInv, TypeOK
  <2>4. QED
    BY <2>1, <2>2, <2>3
<1>2. QED
  BY <1>1, InitEscrow, SpecIInv, SpecFresh, PTL
     DEF Spec, ImplementsEscrow, Escrow!Spec, EscrowMap
=============================================================================
