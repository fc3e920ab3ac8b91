--------------------------- MODULE CheckoutProofs ---------------------------
(***************************************************************************)
(* Proofs about refunds, about how payments come in, and about the two     *)
(* together with the bookings they are for.                                *)
(*                                                                         *)
(* RefundInv is inductive for the refunds of one clerk, IntakeInv for the  *)
(* provider's callbacks; each is also kept by the steps of the others,     *)
(* because a payment that has a row keeps it, and CheckoutInv joins them   *)
(* with what the booking handlers in progress will write.                  *)
(***************************************************************************)
EXTENDS Checkout, SumLemmas

\* One refund call at a time: what Refunds_overdraw shows to be needed.
OneClerk == \A k, l \in Clerk : k = l

-----------------------------------------------------------------------------
(***************************************************************************)
(* Refunds.                                                                *)
(***************************************************************************)
RefundRowsTyped ==
    /\ refund \in [Refund -> RefundRow \cup {NoRow}]
    /\ creating \subseteq [by : Clerk, payment : Payment, amount : RefundInput,
                           checked : BOOLEAN]
    /\ settling \subseteq [by : Clerk, refund : Existing,
                           to : RefundStatus \ {"PENDING"},
                           summed : BOOLEAN, total : Int]

OneAtATime ==
    /\ \A c, d \in creating : c = d
    /\ \A c, d \in settling : c = d
    /\ creating = {} \/ settling = {}

\* A checked creation still fits.
ChecksHold == \A c \in creating : c.checked => FitsRemaining(c)

\* A loaded refund may still be moved, and a sum that was taken is the sum of
\* what will have been paid out.
StillRight(c) ==
    /\ refund[c.refund].status \in AllowedFrom(c.to)
    /\ c.summed =>
          /\ c.to = "SUCCEEDED"
          /\ c.total = Total(OfPayment(refund[c.refund].payment, {"SUCCEEDED"})
                                \cup {c.refund})
SettlesRight == \A c \in settling : StillRight(c)

RefundInv == /\ RefundRowsTyped
             /\ OneAtATime
             /\ ChecksHold
             /\ SettlesRight
             /\ RefundsWithinPayment

LEMMA AmountsAreInt ==
    ASSUME NEW f, f \in [Refund -> RefundRow \cup {NoRow}], NEW rs \in SUBSET Refund
    PROVE  /\ IsFiniteSet(rs)
           /\ \A r \in rs : [x \in Refund |-> f[x].amount][r] \in Int
           /\ SumFunctionOnSet([x \in Refund |-> f[x].amount], rs) \in Int
<1>1. IsFiniteSet(rs)
  BY RefundAssumption, FS_Subset
<1>2. ASSUME NEW r \in rs PROVE [x \in Refund |-> f[x].amount][r] \in Int
  <2>1. f[r] \in RefundRow \cup {NoRow}
    OBVIOUS
  <2>2. f[r].amount \in Int
    <3>1. CASE f[r] = NoRow
      BY <3>1 DEF NoRow
    <3>2. CASE f[r] \in RefundRow
      <4>1. f[r].amount \in RefundInput
        BY <3>2 DEF RefundRow
      <4>2. QED
        BY <4>1, RefundInputAssumption
    <3>3. QED
      BY <2>1, <3>1, <3>2
  <2>3. QED
    BY <2>2
<1>3. QED
  BY <1>1, <1>2, SumInt

\* What one more refund adds to a total.
LEMMA TotalWith ==
    ASSUME NEW f, f \in [Refund -> RefundRow \cup {NoRow}], NEW rs \in SUBSET Refund,
           NEW r \in Refund, r \notin rs
    PROVE  SumFunctionOnSet([x \in Refund |-> f[x].amount], rs \cup {r})
             = f[r].amount + SumFunctionOnSet([x \in Refund |-> f[x].amount], rs)
<1> DEFINE g == [x \in Refund |-> f[x].amount]
<1>1. IsFiniteSet(rs) /\ (\A y \in rs : g[y] \in Int) /\ g[r] \in Int
  <2>1. {r} \in SUBSET Refund
    OBVIOUS
  <2>2. QED
    BY <2>1, AmountsAreInt
<1>2. g[r] = f[r].amount
  OBVIOUS
<1> HIDE DEF g
<1>3. SumFunctionOnSet(g, rs \cup {r}) = g[r] + SumFunctionOnSet(g, rs)
  BY <1>1, SumAdd
<1>4. QED
  BY <1>2, <1>3 DEF g

LEMMA TotalSame ==
    ASSUME NEW f, NEW h, NEW rs \in SUBSET Refund, \A r \in rs : f[r].amount = h[r].amount
    PROVE  SumFunctionOnSet([x \in Refund |-> f[x].amount], rs)
             = SumFunctionOnSet([x \in Refund |-> h[x].amount], rs)
<1>1. IsFiniteSet(rs)
  BY RefundAssumption, FS_Subset
<1>2. \A r \in rs : [x \in Refund |-> f[x].amount][r] = [x \in Refund |-> h[x].amount][r]
  OBVIOUS
<1>3. QED
  BY <1>1, <1>2, SumSame

LEMMA TotalOfOneMore ==
    ASSUME RefundRowsTyped, NEW rs \in SUBSET Refund, NEW r \in Refund, r \notin rs
    PROVE  Total(rs \cup {r}) = refund[r].amount + Total(rs)
BY TotalWith DEF Total, RefundRowsTyped

\* Negative refunds lower a total.
LEMMA TotalWithNegative ==
    ASSUME NEW f, f \in [Refund -> RefundRow \cup {NoRow}], NEW rs \in SUBSET Refund,
           NEW ns \in SUBSET Refund, rs \cap ns = {}, \A n \in ns : f[n].amount < 0
    PROVE  SumFunctionOnSet([x \in Refund |-> f[x].amount], rs \cup ns)
             <= SumFunctionOnSet([x \in Refund |-> f[x].amount], rs)
<1> DEFINE g == [x \in Refund |-> f[x].amount]
<1>1. /\ IsFiniteSet(rs) /\ IsFiniteSet(ns)
      /\ \A y \in rs : g[y] \in Int
      /\ \A y \in ns : g[y] \in Int
      /\ SumFunctionOnSet(g, rs) \in Int
  BY AmountsAreInt
<1>2. \A y \in ns : g[y] < 0
  OBVIOUS
<1> HIDE DEF g
<1>3. \A y \in ns : g[y] <= 0
  BY <1>1, <1>2
<1>4. SumFunctionOnSet(g, ns) \in Int /\ SumFunctionOnSet(g, ns) <= 0
  BY <1>1, <1>3, SumNotPositive
<1>5. SumFunctionOnSet(g, rs \cup ns) = SumFunctionOnSet(g, rs) + SumFunctionOnSet(g, ns)
  BY <1>1, SumUnion
<1>6. SumFunctionOnSet(g, rs \cup ns) <= SumFunctionOnSet(g, rs)
  BY <1>1, <1>4, <1>5
<1>7. QED
  BY <1>6 DEF g

-----------------------------------------------------------------------------
LEMMA RowsKept ==
    ASSUME RefundRowsTyped, NEW r \in Existing
    PROVE  r \in Refund /\ refund[r] \in RefundRow
BY DEF RefundRowsTyped, Existing, NoRow

\* The same of the totals after a step.
LEMMA TotalKept ==
    ASSUME NEW rs \in SUBSET Refund, \A r \in rs : refund'[r].amount = refund[r].amount
    PROVE  Total(rs)' = Total(rs)
BY TotalSame DEF Total

LEMMA TotalGrows ==
    ASSUME refund' \in [Refund -> RefundRow \cup {NoRow}], NEW rs \in SUBSET Refund,
           NEW r \in Refund, r \notin rs
    PROVE  Total(rs \cup {r})' = refund'[r].amount + Total(rs)'
BY TotalWith DEF Total

\* What one call does to the refunds of a payment: nothing, ...
LEMMA RefundsSame ==
    ASSUME UNCHANGED refund
    PROVE  /\ Existing' = Existing
           /\ \A p, S : OfPayment(p, S)' = OfPayment(p, S)
           /\ \A rs : Total(rs)' = Total(rs)
BY DEF OfPayment, Existing, Total

LEMMA TotalsWithAdded ==
    ASSUME RefundRowsTyped, NEW r \in Refund \ Existing, NEW p \in Payment,
           NEW a \in RefundInput,
           refund' = [refund EXCEPT ![r] = [payment |-> p, amount |-> a,
                                            status |-> "PENDING"]],
           NEW rs \in SUBSET Refund, r \notin rs
    PROVE  Total(rs)' = Total(rs) /\ Total(rs \cup {r})' = Total(rs) + a
<1> DEFINE new == [payment |-> p, amount |-> a, status |-> "PENDING"]
<1>1. new \in RefundRow
  BY DEF RefundRow, RefundStatus
<1>2. refund' \in [Refund -> RefundRow \cup {NoRow}]
  BY <1>1 DEF RefundRowsTyped
<1>3. \A x \in Refund : refund'[x] = IF x = r THEN new ELSE refund[x]
  BY DEF RefundRowsTyped
<1> HIDE DEF new
<1>4. \A x \in rs : refund'[x].amount = refund[x].amount
  BY <1>3
<1>5. Total(rs)' = Total(rs)
  BY <1>4, TotalKept
<1>6. Total(rs \cup {r})' = refund'[r].amount + Total(rs)'
  BY <1>2, TotalGrows
<1>7. refund'[r].amount = a /\ a \in Int
  BY <1>3, RefundInputAssumption DEF new
<1>8. Total(rs) \in Int
  BY AmountsAreInt DEF Total, RefundRowsTyped
<1>9. a + Total(rs) = Total(rs) + a
  BY <1>7, <1>8
<1>10. QED
  BY <1>5, <1>6, <1>7, <1>9

\* ... one refund more, ...
LEMMA RefundAdded ==
    ASSUME RefundRowsTyped, NEW r \in Refund \ Existing, NEW p \in Payment,
           NEW a \in RefundInput,
           refund' = [refund EXCEPT ![r] = [payment |-> p, amount |-> a,
                                            status |-> "PENDING"]]
    PROVE  /\ refund' \in [Refund -> RefundRow \cup {NoRow}]
           /\ Existing' = Existing \cup {r}
           /\ \A q \in Payment : \A S :
                 /\ OfPayment(q, S)' = IF q = p /\ "PENDING" \in S
                                       THEN OfPayment(q, S) \cup {r} ELSE OfPayment(q, S)
                 /\ Total(OfPayment(q, S))' = IF q = p /\ "PENDING" \in S
                                       THEN Total(OfPayment(q, S)) + a ELSE Total(OfPayment(q, S))
<1> DEFINE new == [payment |-> p, amount |-> a, status |-> "PENDING"]
<1>1. new \in RefundRow
  BY DEF RefundRow, RefundStatus
<1>2. refund' \in [Refund -> RefundRow \cup {NoRow}]
  BY <1>1 DEF RefundRowsTyped
<1>3. \A x \in Refund : refund'[x] = IF x = r THEN new ELSE refund[x]
  BY DEF RefundRowsTyped
<1>4. Existing' = Existing \cup {r}
  BY <1>3 DEF Existing
<1>5. ASSUME NEW q \in Payment, NEW S
      PROVE  OfPayment(q, S)' = IF q = p /\ "PENDING" \in S
                               THEN OfPayment(q, S) \cup {r} ELSE OfPayment(q, S)
  BY <1>3, <1>4 DEF OfPayment, Existing
<1> HIDE DEF new
<1>6. ASSUME NEW rs \in SUBSET Refund, r \notin rs
      PROVE  /\ Total(rs)' = Total(rs)
             /\ Total(rs \cup {r})' = Total(rs) + a
  BY <1>6, TotalsWithAdded
<1>7. ASSUME NEW q \in Payment, NEW S
      PROVE  Total(OfPayment(q, S))' = IF q = p /\ "PENDING" \in S
                               THEN Total(OfPayment(q, S)) + a ELSE Total(OfPayment(q, S))
  <2>1. OfPayment(q, S) \in SUBSET Refund /\ r \notin OfPayment(q, S)
    BY DEF OfPayment, Existing
  <2>2. Total(OfPayment(q, S))' = SumFunctionOnSet([x \in Refund |-> refund'[x].amount], OfPayment(q, S)')
    BY DEF Total
  <2>3. QED
    BY <1>5, <1>6, <2>1, <2>2 DEF Total
<1>8. QED
  BY <1>2, <1>4, <1>5, <1>7

\* ... or one refund in another status.
LEMMA RefundMoved ==
    ASSUME RefundRowsTyped, NEW r \in Existing, NEW to \in RefundStatus,
           refund' = [refund EXCEPT ![r].status = to]
    PROVE  /\ refund' \in [Refund -> RefundRow \cup {NoRow}]
           /\ Existing' = Existing
           /\ \A x \in Refund : /\ refund'[x].payment = refund[x].payment
                                /\ refund'[x].amount = refund[x].amount
                                /\ refund'[x].status = IF x = r THEN to ELSE refund[x].status
           /\ \A q \in Payment : \A S :
                 OfPayment(q, S)' = IF q = refund[r].payment
                                   THEN IF to \in S THEN OfPayment(q, S) \cup {r}
                                        ELSE OfPayment(q, S) \ {r}
                                   ELSE OfPayment(q, S)
           /\ \A rs \in SUBSET Refund : Total(rs)' = Total(rs)
<1>1. r \in Refund /\ refund[r] \in RefundRow
  BY RowsKept
<1>2. [refund[r] EXCEPT !.status = to] \in RefundRow
  BY <1>1 DEF RefundRow
<1>3. refund' \in [Refund -> RefundRow \cup {NoRow}]
  BY <1>1, <1>2 DEF RefundRowsTyped
<1>4. ASSUME NEW x \in Refund
      PROVE  /\ refund'[x].payment = refund[x].payment
             /\ refund'[x].amount = refund[x].amount
             /\ refund'[x].status = IF x = r THEN to ELSE refund[x].status
  <2>1. refund[x] \in RefundRow \cup {NoRow}
    BY DEF RefundRowsTyped
  <2>2. refund'[x] = IF x = r THEN [refund[r] EXCEPT !.status = to] ELSE refund[x]
    BY DEF RefundRowsTyped
  <2>3. QED
    BY <1>1, <2>1, <2>2 DEF RefundRow
<1>5. Existing' = Existing
  BY <1>4, <1>1 DEF Existing, RefundStatus
<1>6. ASSUME NEW q \in Payment, NEW S
      PROVE  OfPayment(q, S)' = IF q = refund[r].payment
                               THEN IF to \in S THEN OfPayment(q, S) \cup {r}
                                    ELSE OfPayment(q, S) \ {r}
                               ELSE OfPayment(q, S)
  BY <1>1, <1>4, <1>5 DEF OfPayment, Existing
<1>7. ASSUME NEW rs \in SUBSET Refund PROVE Total(rs)' = Total(rs)
  BY <1>4, TotalKept
<1>8. QED
  BY <1>3, <1>4, <1>5, <1>6, <1>7

\* The refund of a call that settles it, in its row.
LEMMA Settled ==
    ASSUME RefundRowsTyped, NEW c \in settling
    PROVE  /\ c.refund \in Existing /\ c.refund \in Refund
           /\ refund[c.refund] \in RefundRow /\ refund[c.refund].payment \in Payment
           /\ refund[c.refund].amount \in Int
           /\ c.by \in Clerk /\ c.to \in RefundStatus \ {"PENDING"}
           /\ c.summed \in BOOLEAN /\ c.total \in Int
<1>1. c \in [by : Clerk, refund : Existing, to : RefundStatus \ {"PENDING"},
             summed : BOOLEAN, total : Int]
  BY DEF RefundRowsTyped
<1>2. c.refund \in Existing
  BY <1>1
<1>3. c.refund \in Refund /\ refund[c.refund] \in RefundRow
  BY <1>2, RowsKept
<1>4. refund[c.refund].payment \in Payment /\ refund[c.refund].amount \in RefundInput
  BY <1>3 DEF RefundRow
<1>5. QED
  BY <1>1, <1>2, <1>3, <1>4, RefundInputAssumption

LEMMA Created ==
    ASSUME RefundRowsTyped, NEW c \in creating
    PROVE  /\ c.by \in Clerk /\ c.payment \in Payment /\ c.amount \in RefundInput
           /\ c.amount \in Int /\ c.checked \in BOOLEAN
BY RefundInputAssumption DEF RefundRowsTyped

LEMMA TotalIsInt ==
    ASSUME RefundRowsTyped, NEW rs \in SUBSET Refund
    PROVE  Total(rs) \in Int
BY AmountsAreInt DEF Total, RefundRowsTyped

\* An insert adds its amount to what counts.
LEMMA InsertAdds ==
    ASSUME RefundRowsTyped, NEW c \in creating, CreateInsert(c)
    PROVE  \A q \in Payment : \A S :
              /\ Total(OfPayment(q, S))' = IF q = c.payment /\ "PENDING" \in S
                   THEN Total(OfPayment(q, S)) + c.amount ELSE Total(OfPayment(q, S))
              /\ "PENDING" \notin S => OfPayment(q, S)' = OfPayment(q, S)
<1>1. PICK r \in Refund \ Existing :
            refund' = [refund EXCEPT ![r] = [payment |-> c.payment,
                                             amount |-> c.amount,
                                             status |-> "PENDING"]]
  BY DEF CreateInsert
<1>2. c.payment \in Payment /\ c.amount \in RefundInput
  BY Created
<1>3. \A q \in Payment : \A S :
         Total(OfPayment(q, S))' = IF q = c.payment /\ "PENDING" \in S
                               THEN Total(OfPayment(q, S)) + c.amount ELSE Total(OfPayment(q, S))
  BY <1>1, <1>2, RefundAdded
<1> DEFINE p == c.payment
           a == c.amount
<1>4. /\ p \in Payment /\ a \in RefundInput
      /\ refund' = [refund EXCEPT ![r] = [payment |-> p, amount |-> a,
                                           status |-> "PENDING"]]
  BY <1>1, <1>2
<1> HIDE DEF p, a
<1>5. ASSUME NEW q \in Payment, NEW S, "PENDING" \notin S
      PROVE  OfPayment(q, S)' = OfPayment(q, S)
  <2>1. OfPayment(q, S)' = IF q = p /\ "PENDING" \in S
                           THEN OfPayment(q, S) \cup {r} ELSE OfPayment(q, S)
    BY <1>4, RefundAdded
  <2>2. QED
    BY <1>5, <2>1
<1>6. QED
  BY <1>3, <1>5

\* The refunds that RefundsWithinPayment sums.
Room(p) == OfPayment(p, Counted) \cup GaveRoom(p)
WithinRoom(p) == Room(p) # {} => Total(Room(p)) <= Amount[p]

LEMMA RoomSame ==
    ASSUME UNCHANGED refund
    PROVE  \A p \in Payment : WithinRoom(p) => WithinRoom(p)'
<1>1. \A p : Room(p)' = Room(p)
  BY RefundsSame DEF Room, GaveRoom
<1>2. \A p : Total(Room(p))' = Total(Room(p))
  BY <1>1 DEF Total
<1>3. QED
  BY <1>1, <1>2 DEF WithinRoom

LEMMA RoomTyped ==
    ASSUME RefundRowsTyped, NEW q
    PROVE  /\ Room(q) \in SUBSET Refund /\ Total(Room(q)) \in Int
           /\ OfPayment(q, Counted) \in SUBSET Refund /\ Total(OfPayment(q, Counted)) \in Int
           /\ Total(Room(q)) <= Total(OfPayment(q, Counted))
<1>1. OfPayment(q, Counted) \in SUBSET Refund /\ GaveRoom(q) \in SUBSET Refund
  BY DEF OfPayment, Existing, GaveRoom
<1>2. OfPayment(q, Counted) \cap GaveRoom(q) = {}
  BY DEF OfPayment, GaveRoom, Counted
<1>3. \A n \in GaveRoom(q) : refund[n].amount < 0
  BY DEF GaveRoom
<1>4. Total(OfPayment(q, Counted) \cup GaveRoom(q)) <= Total(OfPayment(q, Counted))
  BY <1>1, <1>2, <1>3, TotalWithNegative DEF Total, RefundRowsTyped
<1>5. Room(q) \in SUBSET Refund
  BY <1>1 DEF Room
<1>6. QED
  BY <1>1, <1>4, <1>5, TotalIsInt DEF Room

\* A refund that fits goes where the negative ones that failed left room, and
\* no further.
LEMMA RoomAfterInsert ==
    ASSUME RefundRowsTyped, NEW c \in creating, CreateInsert(c), FitsRemaining(c),
           NEW q \in Payment, WithinRoom(q)
    PROVE  WithinRoom(q)'
<1> DEFINE p == c.payment
           a == c.amount
<1>1. p \in Payment /\ a \in RefundInput /\ a \in Int
  BY Created
<1>2. PICK r \in Refund \ Existing :
            refund' = [refund EXCEPT ![r] = [payment |-> p, amount |-> a,
                                             status |-> "PENDING"]]
  BY DEF CreateInsert
<1>f. a + Total(OfPayment(p, Counted)) <= Amount[p]
  BY DEF FitsRemaining
<1> HIDE DEF p, a
<1>3. /\ \A S : OfPayment(q, S)' = IF q = p /\ "PENDING" \in S
                                   THEN OfPayment(q, S) \cup {r} ELSE OfPayment(q, S)
  BY <1>1, <1>2, RefundAdded
<1>4. r \notin Room(q) /\ r \notin OfPayment(q, {"FAILED"})
  BY <1>2 DEF Room, GaveRoom, OfPayment
<1>5. GaveRoom(q)' = GaveRoom(q)
  <2>1. OfPayment(q, {"FAILED"})' = OfPayment(q, {"FAILED"})
    BY <1>3
  <2>2. \A x \in OfPayment(q, {"FAILED"}) : refund'[x].amount = refund[x].amount
    BY <1>2, <1>4 DEF RefundRowsTyped, OfPayment, Existing
  <2>3. QED
    BY <2>1, <2>2 DEF GaveRoom
<1>6. Room(q)' = IF q = p THEN Room(q) \cup {r} ELSE Room(q)
  <2>1. "PENDING" \in Counted
    BY DEF Counted
  <2>2. OfPayment(q, Counted)' = IF q = p THEN OfPayment(q, Counted) \cup {r}
                                 ELSE OfPayment(q, Counted)
    BY <1>3, <2>1
  <2>3. QED
    BY <1>5, <2>2 DEF Room
<1>7. Total(Room(q))' = SumFunctionOnSet([x \in Refund |-> refund'[x].amount], Room(q)')
  BY DEF Total
<1>8. \A rs \in SUBSET (Refund \ {r}) :
         /\ SumFunctionOnSet([x \in Refund |-> refund'[x].amount], rs) = Total(rs)
         /\ SumFunctionOnSet([x \in Refund |-> refund'[x].amount], rs \cup {r}) = Total(rs) + a
  BY <1>1, <1>2, TotalsWithAdded DEF Total
<1>9. /\ Room(q) \in SUBSET (Refund \ {r}) /\ Total(Room(q)) \in Int
      /\ Total(OfPayment(q, Counted)) \in Int
      /\ Total(Room(q)) <= Total(OfPayment(q, Counted))
  BY <1>4, RoomTyped
<1>10. Amount[q] \in Int
  BY AmountAssumption
<1>11. CASE q = p
  <2>1. Total(Room(q))' = Total(Room(q)) + a
    BY <1>6, <1>7, <1>8, <1>9, <1>11
  <2>2. Total(Room(q)) + a <= Amount[q]
    BY <1>1, <1>f, <1>9, <1>10, <1>11
  <2>3. QED
    BY <2>1, <2>2 DEF WithinRoom
<1>12. CASE q # p
  <2>1. Room(q)' = Room(q) /\ Total(Room(q))' = Total(Room(q))
    BY <1>6, <1>7, <1>8, <1>9, <1>12
  <2>2. QED
    BY <2>1 DEF WithinRoom
<1>13. QED
  BY <1>11, <1>12

\* A refund that is moved on still counts, or fails: then it leaves its room to
\* others, or took none.
LEMMA RoomAfterMove ==
    ASSUME RefundRowsTyped, NEW r \in Existing, NEW to \in RefundStatus,
           refund[r].status \in {"PENDING", "PROCESSING"},
           refund' = [refund EXCEPT ![r].status = to],
           NEW q \in Payment, WithinRoom(q)
    PROVE  WithinRoom(q)'
<1> DEFINE p == refund[r].payment
           a == refund[r].amount
<1>1. r \in Refund /\ refund[r] \in RefundRow
  BY RowsKept
<1>2. p \in Payment /\ a \in Int
  BY <1>1, RefundInputAssumption DEF RefundRow
<1>0. /\ \A x \in Payment : \A S :
            OfPayment(x, S)' = IF x = p THEN IF to \in S THEN OfPayment(x, S) \cup {r}
                                             ELSE OfPayment(x, S) \ {r}
                               ELSE OfPayment(x, S)
      /\ \A x \in Refund : /\ refund'[x].payment = refund[x].payment
                           /\ refund'[x].amount = refund[x].amount
                           /\ refund'[x].status = IF x = r THEN to ELSE refund[x].status
      /\ \A rs \in SUBSET Refund : Total(rs)' = Total(rs)
  BY RefundMoved, Zenon
<1>3. /\ \A S : OfPayment(q, S)' = IF q = p THEN IF to \in S THEN OfPayment(q, S) \cup {r}
                                                     ELSE OfPayment(q, S) \ {r}
                                   ELSE OfPayment(q, S)
      /\ \A x \in Refund : refund'[x].amount = refund[x].amount
      /\ \A rs \in SUBSET Refund : Total(rs)' = Total(rs)
  BY <1>0
<1>4. /\ r \in OfPayment(q, Counted) <=> q = p
      /\ r \notin OfPayment(q, {"FAILED"}) /\ r \notin GaveRoom(q)
  BY DEF OfPayment, Counted, GaveRoom
<1>5. /\ \A x \in GaveRoom(q) : x \in Refund
      /\ \A x \in OfPayment(q, {"FAILED"}) : x \in Refund
  BY DEF OfPayment, Existing, GaveRoom
<1> HIDE DEF p
<1>6. GaveRoom(q)' = IF q = p /\ to = "FAILED" /\ a < 0 THEN GaveRoom(q) \cup {r}
                     ELSE GaveRoom(q)
  <2>1. GaveRoom(q)' = {x \in OfPayment(q, {"FAILED"})' : refund'[x].amount < 0}
    BY DEF GaveRoom
  <2>2. OfPayment(q, {"FAILED"})' = IF q = p /\ to = "FAILED" THEN OfPayment(q, {"FAILED"}) \cup {r}
                                   ELSE OfPayment(q, {"FAILED"})
    <3>1. OfPayment(q, {"FAILED"})' = IF q = p THEN IF to \in {"FAILED"} THEN OfPayment(q, {"FAILED"}) \cup {r}
                                                     ELSE OfPayment(q, {"FAILED"}) \ {r}
                                      ELSE OfPayment(q, {"FAILED"})
      BY <1>3
    <3>2. OfPayment(q, {"FAILED"}) \ {r} = OfPayment(q, {"FAILED"})
      BY <1>4
    <3>3. to \in {"FAILED"} <=> to = "FAILED"
      OBVIOUS
    <3>4. QED
      BY <3>1, <3>2, <3>3
  <2>3. /\ \A x \in OfPayment(q, {"FAILED"}) : refund'[x].amount = refund[x].amount
        /\ refund'[r].amount = a
    BY <1>1, <1>3, <1>5
  <2>4. GaveRoom(q) = {x \in OfPayment(q, {"FAILED"}) : refund[x].amount < 0}
    BY DEF GaveRoom
  <2> HIDE DEF a
  <2>5. QED
    BY <2>1, <2>2, <2>3, <2>4
<1>7. OfPayment(q, Counted)' = IF q = p /\ to = "FAILED" THEN OfPayment(q, Counted) \ {r}
                              ELSE OfPayment(q, Counted)
  <2>1. to \in Counted <=> to # "FAILED"
    BY DEF Counted, RefundStatus
  <2>2. QED
    BY <1>3, <1>4, <2>1
<1>8. Room(q)' = IF q = p /\ to = "FAILED" /\ ~(a < 0) THEN Room(q) \ {r} ELSE Room(q)
  BY <1>4, <1>6, <1>7 DEF Room
<1>9. Total(Room(q))' = SumFunctionOnSet([x \in Refund |-> refund'[x].amount], Room(q)')
  BY DEF Total
<1>10. \A rs \in SUBSET Refund :
           SumFunctionOnSet([x \in Refund |-> refund'[x].amount], rs) = Total(rs)
  BY <1>3 DEF Total
<1>11. Room(q) \in SUBSET Refund /\ Total(Room(q)) \in Int /\ Amount[q] \in Int
  BY RoomTyped, AmountAssumption
<1>12. CASE Room(q)' = Room(q)
  BY <1>9, <1>10, <1>11, <1>12 DEF WithinRoom
<1>13. CASE q = p /\ ~(a < 0) /\ Room(q)' = Room(q) \ {r}
  <2> DEFINE rs == Room(q) \ {r}
  <2>1. r \in Room(q) /\ Room(q) = rs \cup {r} /\ rs \in SUBSET Refund /\ r \notin rs
    BY <1>4, <1>11, <1>13 DEF Room
  <2> HIDE DEF rs
  <2>2. Total(rs \cup {r}) = a + Total(rs)
    BY <1>1, <2>1, TotalOfOneMore
  <2>3. Total(rs) \in Int
    BY <2>1, TotalIsInt
  <2>4. Total(Room(q))' = Total(rs)
    BY <1>9, <1>10, <1>13, <2>1 DEF rs
  <2> HIDE DEF a
  <2>5. Total(rs) <= Amount[q]
    BY <1>2, <1>11, <1>13, <2>1, <2>2, <2>3 DEF WithinRoom
  <2>6. QED
    BY <2>4, <2>5 DEF WithinRoom
<1>14. QED
  BY <1>8, <1>12, <1>13

\* Every step of RefundsService keeps the rows typed.
LEMMA RefundRowsStep ==
    ASSUME RefundRowsTyped, [RefundNext]_refundVars
    PROVE  RefundRowsTyped'
<1>1. ASSUME NEW k \in Clerk, NEW p \in Payment, NEW a \in RefundInput, CreateLoad(k, p, a)
      PROVE  RefundRowsTyped'
  <2> DEFINE c == [by |-> k, payment |-> p, amount |-> a, checked |-> FALSE]
  <2>1. creating' = creating \cup {c} /\ UNCHANGED <<refund, settling>>
    BY <1>1 DEF CreateLoad
  <2>2. c \in [by : Clerk, payment : Payment, amount : RefundInput, checked : BOOLEAN]
    OBVIOUS
  <2> HIDE DEF c
  <2>3. QED
    BY <2>1, <2>2 DEF RefundRowsTyped, Existing
<1>2. ASSUME NEW c \in creating, CreateCheck(c)
      PROVE  RefundRowsTyped'
  BY <1>2 DEF CreateCheck, RefundRowsTyped, Existing
<1>3. ASSUME NEW c \in creating, CreateInsert(c)
      PROVE  RefundRowsTyped'
  <2>1. PICK r \in Refund \ Existing :
            refund' = [refund EXCEPT ![r] = [payment |-> c.payment,
                                             amount |-> c.amount,
                                             status |-> "PENDING"]]
    BY <1>3 DEF CreateInsert
  <2>2. c.payment \in Payment /\ c.amount \in RefundInput
    BY Created
  <2>3. refund' \in [Refund -> RefundRow \cup {NoRow}] /\ Existing' = Existing \cup {r}
    BY <2>1, <2>2, RefundAdded
  <2>4. settling' = settling /\ creating' \subseteq creating
    BY <1>3 DEF CreateInsert
  <2>5. QED
    BY <2>3, <2>4 DEF RefundRowsTyped
<1>4. ASSUME NEW k \in Clerk, NEW r \in Refund, NEW to \in RefundStatus \ {"PENDING"},
             SettleLoad(k, r, to)
      PROVE  RefundRowsTyped'
  <2> DEFINE c == [by |-> k, refund |-> r, to |-> to, summed |-> FALSE, total |-> 0]
  <2>1. settling' = settling \cup {c} /\ UNCHANGED <<refund, creating>> /\ r \in Existing
    BY <1>4 DEF SettleLoad
  <2>2. c \in [by : Clerk, refund : Existing, to : RefundStatus \ {"PENDING"},
               summed : BOOLEAN, total : Int]
    BY <2>1
  <2> HIDE DEF c
  <2>3. QED
    BY <2>1, <2>2 DEF RefundRowsTyped, Existing
<1>5. ASSUME NEW c \in settling, SettleOther(c) \/ SettleCommit(c)
      PROVE  RefundRowsTyped'
  <2>1. c.refund \in Existing /\ c.to \in RefundStatus
    BY Settled
  <2>2. PICK to \in RefundStatus : refund' = [refund EXCEPT ![c.refund].status = to]
    BY <1>5, <2>1 DEF SettleOther, SettleCommit, RefundStatus
  <2>3. refund' \in [Refund -> RefundRow \cup {NoRow}] /\ Existing' = Existing
    BY <2>1, <2>2, RefundMoved
  <2>4. creating' = creating /\ settling' \subseteq settling
    BY <1>5 DEF SettleOther, SettleCommit
  <2>5. QED
    BY <2>3, <2>4 DEF RefundRowsTyped
<1>6. ASSUME NEW c \in settling, SettleSum(c)
      PROVE  RefundRowsTyped'
  <2>1. c.refund \in Refund
    BY Settled
  <2> DEFINE rs == OfPayment(refund[c.refund].payment, {"SUCCEEDED"}) \cup {c.refund}
             d == [c EXCEPT !.summed = TRUE, !.total = Total(rs)]
  <2>2. rs \in SUBSET Refund
    BY <2>1 DEF OfPayment, Existing
  <2> HIDE DEF rs
  <2>3. Total(rs) \in Int
    BY <2>2, TotalIsInt
  <2>4. settling' = (settling \ {c}) \cup {d} /\ UNCHANGED <<refund, creating>>
    BY <1>6 DEF SettleSum, rs
  <2>5. d \in [by : Clerk, refund : Existing, to : RefundStatus \ {"PENDING"},
               summed : BOOLEAN, total : Int]
    BY <2>3 DEF RefundRowsTyped
  <2>6. QED
    BY <2>4, <2>5 DEF RefundRowsTyped, Existing
<1>7. CASE GiveUp
  BY <1>7 DEF GiveUp, RefundRowsTyped, Existing
<1>8. CASE UNCHANGED refundVars
  BY <1>8 DEF refundVars, RefundRowsTyped, Existing
<1>9. QED
  BY <1>1, <1>2, <1>3, <1>4, <1>5, <1>6, <1>7, <1>8 DEF RefundNext

-----------------------------------------------------------------------------
\* With one clerk, calls follow one another.
LEMMA OneAtATimeStep ==
    ASSUME OneClerk, RefundRowsTyped, OneAtATime, [RefundNext]_refundVars
    PROVE  OneAtATime'
<1>0. ASSUME NEW k \in Clerk, ~Busy(k) PROVE creating = {} /\ settling = {}
  <2>1. \A c \in creating : c.by = k
    BY Created DEF OneClerk
  <2>2. \A c \in settling : c.by = k
    BY Settled DEF OneClerk
  <2>3. QED
    BY <1>0, <2>1, <2>2 DEF Busy
<1>1. ASSUME NEW k \in Clerk, NEW p \in Payment, NEW a \in RefundInput, CreateLoad(k, p, a)
      PROVE  OneAtATime'
  BY <1>0, <1>1 DEF CreateLoad, OneAtATime
<1>2. ASSUME NEW c \in creating, CreateCheck(c) \/ CreateInsert(c)
      PROVE  OneAtATime'
  BY <1>2 DEF CreateCheck, CreateInsert, OneAtATime
<1>3. ASSUME NEW k \in Clerk, NEW r \in Refund, NEW to \in RefundStatus \ {"PENDING"},
             SettleLoad(k, r, to)
      PROVE  OneAtATime'
  BY <1>0, <1>3 DEF SettleLoad, OneAtATime
<1>4. ASSUME NEW c \in settling, SettleOther(c) \/ SettleSum(c) \/ SettleCommit(c)
      PROVE  OneAtATime'
  BY <1>4 DEF SettleOther, SettleSum, SettleCommit, OneAtATime
<1>5. CASE GiveUp
  BY <1>5 DEF GiveUp, OneAtATime
<1>6. CASE UNCHANGED refundVars
  BY <1>6 DEF refundVars, OneAtATime
<1>7. QED
  BY <1>1, <1>2, <1>3, <1>4, <1>5, <1>6 DEF RefundNext

\* The invariant of RefundsService under one clerk is kept by all its steps.
LEMMA RefundInvStep ==
    ASSUME OneClerk, RefundInv, [RefundNext]_refundVars
    PROVE  RefundInv'
<1>t. RefundRowsTyped /\ RefundRowsTyped'
  BY RefundRowsStep DEF RefundInv
<1>o. OneAtATime /\ OneAtATime'
  BY OneAtATimeStep DEF RefundInv
<1>h. ChecksHold /\ SettlesRight /\ RefundsWithinPayment
  BY DEF RefundInv
<1>w. RefundsWithinPayment <=> \A q \in Payment : WithinRoom(q)
  BY DEF RefundsWithinPayment, WithinRoom, Room
<1>w2. RefundsWithinPayment' <=> \A q \in Payment : WithinRoom(q)'
  BY DEF RefundsWithinPayment, WithinRoom, Room
<1>same. ASSUME UNCHANGED refund
         PROVE  /\ RefundsWithinPayment'
                /\ \A c : FitsRemaining(c) => FitsRemaining(c)'
                /\ \A c : StillRight(c) => StillRight(c)'
  <2>1. RefundsWithinPayment'
    BY <1>same, <1>h, <1>w, <1>w2, RoomSame
  <2>2. ASSUME NEW c, FitsRemaining(c) PROVE FitsRemaining(c)'
    BY <1>same, <2>2, RefundsSame DEF FitsRemaining
  <2>3. ASSUME NEW c, StillRight(c) PROVE StillRight(c)'
    <3> DEFINE rs == OfPayment(refund[c.refund].payment, {"SUCCEEDED"}) \cup {c.refund}
    <3>1. rs' = rs
      BY <1>same, RefundsSame
    <3>2. Total(rs)' = Total(rs)
      BY <1>same, <3>1 DEF Total
    <3> HIDE DEF rs
    <3>3. StillRight(c) <=> /\ refund[c.refund].status \in AllowedFrom(c.to)
                            /\ c.summed => c.to = "SUCCEEDED" /\ c.total = Total(rs)
      BY DEF StillRight, rs
    <3>4. StillRight(c)' <=> /\ refund'[c.refund].status \in AllowedFrom(c.to)
                             /\ c.summed => c.to = "SUCCEEDED" /\ c.total = Total(rs)'
      BY DEF StillRight, rs
    <3>5. QED
      BY <1>same, <2>3, <3>2, <3>3, <3>4
  <2>4. QED
    BY <2>1, <2>2, <2>3
<1>1. ASSUME NEW k \in Clerk, NEW p \in Payment, NEW a \in RefundInput, CreateLoad(k, p, a)
      PROVE  ChecksHold' /\ SettlesRight' /\ RefundsWithinPayment'
  <2>1. UNCHANGED <<refund, settling>>
    BY <1>1 DEF CreateLoad
  <2>2. \A c \in creating' : c \in creating \/ ~c.checked
    BY <1>1 DEF CreateLoad
  <2>3. QED
    BY <1>h, <1>same, <2>1, <2>2 DEF ChecksHold, SettlesRight
<1>2. ASSUME NEW c \in creating, CreateCheck(c)
      PROVE  ChecksHold' /\ SettlesRight' /\ RefundsWithinPayment'
  <2> DEFINE d == [c EXCEPT !.checked = TRUE]
  <2>1. UNCHANGED <<refund, settling>> /\ creating' = (creating \ {c}) \cup {d} /\ FitsRemaining(c)
    BY <1>2 DEF CreateCheck
  <2>2. FitsRemaining(d)
    <3>1. d.payment = c.payment /\ d.amount = c.amount
      BY <1>t DEF RefundRowsTyped
    <3>2. QED
      BY <2>1, <3>1 DEF FitsRemaining
  <2> HIDE DEF d
  <2>3. QED
    BY <1>h, <1>same, <2>1, <2>2 DEF ChecksHold, SettlesRight
<1>3. ASSUME NEW c \in creating, CreateInsert(c)
      PROVE  ChecksHold' /\ SettlesRight' /\ RefundsWithinPayment'
  <2>4. FitsRemaining(c)
    BY <1>3, <1>h DEF CreateInsert, ChecksHold
  <2>6. RefundsWithinPayment'
    BY <1>3, <1>t, <1>h, <1>w, <1>w2, <2>4, RoomAfterInsert
  <2>7. creating' = {} /\ settling' = {}
    BY <1>3, <1>o DEF OneAtATime, CreateInsert
  <2>8. QED
    BY <2>6, <2>7 DEF ChecksHold, SettlesRight
<1>4. ASSUME NEW k \in Clerk, NEW r \in Refund, NEW to \in RefundStatus \ {"PENDING"},
             SettleLoad(k, r, to)
      PROVE  ChecksHold' /\ SettlesRight' /\ RefundsWithinPayment'
  <2>1. UNCHANGED <<refund, creating>>
    BY <1>4 DEF SettleLoad
  <2>2. \A c \in settling' :
            c \in settling \/ StillRight(c)
    BY <1>4 DEF SettleLoad, StillRight
  <2>3. QED
    BY <1>h, <1>same, <2>1, <2>2 DEF ChecksHold, SettlesRight
<1>5. ASSUME NEW c \in settling, SettleOther(c) \/ SettleCommit(c)
      PROVE  ChecksHold' /\ SettlesRight' /\ RefundsWithinPayment'
  <2>1. c.refund \in Existing /\ c.refund \in Refund /\ c.to \in RefundStatus
        /\ refund[c.refund].payment \in Payment
    BY <1>t, Settled
  <2>2. PICK to \in RefundStatus : refund' = [refund EXCEPT ![c.refund].status = to]
    BY <1>5, <2>1 DEF SettleOther, SettleCommit, RefundStatus
  <2>3. refund[c.refund].status \in {"PENDING", "PROCESSING"}
    BY <1>h DEF SettlesRight, StillRight, AllowedFrom
  <2>4. ASSUME NEW q \in Payment PROVE WithinRoom(q)'
    BY <1>t, <1>h, <1>w, <2>1, <2>2, <2>3, RoomAfterMove
  <2>5. RefundsWithinPayment'
    BY <1>w2, <2>4
  <2>6. creating' = {} /\ settling' = {}
    BY <1>5, <1>o DEF OneAtATime, SettleOther, SettleCommit
  <2>7. QED
    BY <2>5, <2>6 DEF ChecksHold, SettlesRight
<1>6. ASSUME NEW c \in settling, SettleSum(c)
      PROVE  ChecksHold' /\ SettlesRight' /\ RefundsWithinPayment'
  <2> DEFINE d == [c EXCEPT !.summed = TRUE,
                            !.total = Total(OfPayment(refund[c.refund].payment, {"SUCCEEDED"})
                                                \cup {c.refund})]
  <2>1. UNCHANGED <<refund, creating>> /\ settling' = (settling \ {c}) \cup {d}
    BY <1>6 DEF SettleSum
  <2>2. /\ d.refund = c.refund /\ d.to = c.to /\ c.to = "SUCCEEDED"
        /\ d.total = Total(OfPayment(refund[c.refund].payment, {"SUCCEEDED"}) \cup {c.refund})
    BY <1>6, <1>t DEF SettleSum, RefundRowsTyped
  <2> HIDE DEF d
  <2>4. StillRight(d)
    BY <1>h, <2>2 DEF SettlesRight, StillRight
  <2>3. QED
    BY <1>h, <1>same, <2>1, <2>4 DEF ChecksHold, SettlesRight
<1>7. ASSUME GiveUp PROVE ChecksHold' /\ SettlesRight' /\ RefundsWithinPayment'
  <2>1. UNCHANGED refund /\ creating' \subseteq creating /\ settling' \subseteq settling
    BY <1>7 DEF GiveUp
  <2>2. QED
    BY <1>h, <1>same, <2>1 DEF ChecksHold, SettlesRight
<1>8. ASSUME UNCHANGED refundVars PROVE ChecksHold' /\ SettlesRight' /\ RefundsWithinPayment'
  <2>1. UNCHANGED refund /\ creating' = creating /\ settling' = settling
    BY <1>8 DEF refundVars
  <2>2. QED
    BY <1>h, <1>same, <2>1 DEF ChecksHold, SettlesRight
<1>9. ChecksHold' /\ SettlesRight' /\ RefundsWithinPayment'
  <2> DEFINE Kept == ChecksHold' /\ SettlesRight' /\ RefundsWithinPayment'
  <2> HIDE DEF Kept
  <2>1. (\E c \in settling : SettleOther(c) \/ SettleSum(c) \/ SettleCommit(c)) => Kept
    BY <1>5, <1>6 DEF Kept
  <2>2. (\E c \in creating : CreateCheck(c) \/ CreateInsert(c)) => Kept
    BY <1>2, <1>3 DEF Kept
  <2>3. (\E k \in Clerk, p \in Payment, a \in RefundInput : CreateLoad(k, p, a)) => Kept
    BY <1>1 DEF Kept
  <2>4. (\E k \in Clerk, r \in Refund, to \in RefundStatus \ {"PENDING"} :
            SettleLoad(k, r, to)) => Kept
    BY <1>4 DEF Kept
  <2>5. GiveUp \/ UNCHANGED refundVars => Kept
    BY <1>7, <1>8 DEF Kept
  <2>6. Kept
    BY <2>1, <2>2, <2>3, <2>4, <2>5 DEF RefundNext
  <2>7. QED
    BY <2>6 DEF Kept
<1>10. QED
  BY <1>t, <1>o, <1>9 DEF RefundInv

-----------------------------------------------------------------------------
\* There is no refund at first.
LEMMA RefundInvInit ==
    ASSUME RefundOwnInit
    PROVE  /\ RefundInv
           /\ \A q, S : OfPayment(q, S) = {}
<1>1. Existing = {} /\ creating = {} /\ settling = {}
  BY DEF RefundOwnInit, Existing, NoRow
<1>2. \A q, S : OfPayment(q, S) = {}
  BY <1>1 DEF OfPayment
<1>3. RefundRowsTyped
  BY <1>1 DEF RefundOwnInit, RefundRowsTyped
<1>4. RefundsWithinPayment
  BY <1>2 DEF RefundsWithinPayment, GaveRoom
<1>5. QED
  BY <1>1, <1>2, <1>3, <1>4 DEF RefundInv, OneAtATime, ChecksHold, SettlesRight

LEMMA StatusTyped ==
    ASSUME RefundRowsTyped, status \in [Payment -> PaymentStatus], [RefundNext]_refundVars
    PROVE  status' \in [Payment -> PaymentStatus]
<1>1. ASSUME NEW c \in settling, SettleCommit(c)
      PROVE  status' \in [Payment -> PaymentStatus]
  <2>1. StatusAfter(c) \in PaymentStatus
    BY DEF StatusAfter, PaymentStatus
  <2>2. QED
    BY <1>1, <2>1 DEF SettleCommit
<1>2. QED
  BY <1>1 DEF RefundNext, refundVars, CreateLoad, CreateCheck, CreateInsert, SettleLoad,
              SettleOther, SettleSum, GiveUp

\* The rows and the calls of RefundsService are well-formed: an id that a call
\* settles has a row, which keeps its payment and its amount.
THEOREM RefundTypeCorrect == RefundSpec => []RefundTypeOK
<1> DEFINE TInv == RefundRowsTyped /\ status \in [Payment -> PaymentStatus]
<1>1. RefundInit => TInv
  BY RefundInvInit DEF RefundInit, RefundInv, PaymentStatus
<1>2. TInv /\ [RefundNext]_refundVars => TInv'
  BY RefundRowsStep, StatusTyped
<1>3. TInv => RefundTypeOK
  BY RowsKept DEF RefundTypeOK, RefundRowsTyped
<1>4. QED
  BY <1>1, <1>2, <1>3, PTL DEF RefundSpec

\* With one clerk, the refunds of a payment that are open or paid out, with the
\* failed ones of a negative amount that made room for others, never exceed it:
\* what a creation summed still holds when it inserts.
THEOREM RefundsStayWithin ==
    ASSUME OneClerk
    PROVE  RefundSpec => []RefundsWithinPayment
<1>1. RefundInit => RefundInv
  BY RefundInvInit DEF RefundInit
<1>2. RefundInv /\ [RefundNext]_refundVars => RefundInv'
  BY RefundInvStep
<1>3. RefundInv => RefundsWithinPayment
  BY DEF RefundInv
<1>4. QED
  BY <1>1, <1>2, <1>3, PTL DEF RefundSpec

\* What a commit makes of the refunds that were paid out.
LEMMA PaidOutAfter ==
    ASSUME RefundInv, NEW c \in settling, SettleCommit(c)
    PROVE  /\ \A q \in Payment :
                 Total(OfPayment(q, {"SUCCEEDED"}))' =
                     IF q = refund[c.refund].payment THEN c.total
                     ELSE Total(OfPayment(q, {"SUCCEEDED"}))
           /\ \A q \in Payment :
                 OfPayment(q, {"SUCCEEDED"})' # {} <=>
                     q = refund[c.refund].payment \/ OfPayment(q, {"SUCCEEDED"}) # {}
<1>t. RefundRowsTyped /\ StillRight(c)
  BY DEF RefundInv, SettlesRight
<1> DEFINE r == c.refund
           p == refund[r].payment
           paid == {"SUCCEEDED"}
           rs == OfPayment(p, paid) \cup {r}
<1>1. r \in Existing /\ r \in Refund /\ p \in Payment
  BY <1>t, Settled
<1>2. refund' = [refund EXCEPT ![r].status = "SUCCEEDED"]
  BY DEF SettleCommit
<1>3. c.total = Total(rs)
  BY <1>t DEF StillRight, SettleCommit
<1>4. rs \in SUBSET Refund /\ \A q : OfPayment(q, paid) \in SUBSET Refund
  BY <1>1 DEF OfPayment, Existing
<1> HIDE DEF r, paid
<1>5. \A q \in Payment : OfPayment(q, paid)' = IF q = p THEN rs ELSE OfPayment(q, paid)
  <2>1. \A q \in Payment : \A S :
                 OfPayment(q, S)' = IF q = refund[r].payment
                                   THEN IF "SUCCEEDED" \in S THEN OfPayment(q, S) \cup {r}
                                        ELSE OfPayment(q, S) \ {r}
                                   ELSE OfPayment(q, S)
    <3>1. "SUCCEEDED" \in RefundStatus
      BY DEF RefundStatus
    <3>2. QED
      BY <1>t, <1>1, <1>2, <3>1, RefundMoved, Zenon
  <2>2. QED
    BY <2>1 DEF paid
<1>6. \A ss \in SUBSET Refund : Total(ss)' = Total(ss)
  <2>1. "SUCCEEDED" \in RefundStatus
    BY DEF RefundStatus
  <2>2. QED
    BY <1>t, <1>1, <1>2, <2>1, RefundMoved, Zenon
<1>7. \A q : Total(OfPayment(q, paid))'
              = SumFunctionOnSet([x \in Refund |-> refund'[x].amount], OfPayment(q, paid)')
  BY DEF Total
<1>8. \A ss \in SUBSET Refund :
          SumFunctionOnSet([x \in Refund |-> refund'[x].amount], ss) = Total(ss)
  BY <1>6 DEF Total
<1> HIDE DEF p, rs
<1>9. \A q \in Payment : Total(OfPayment(q, paid))'
                            = Total(IF q = p THEN rs ELSE OfPayment(q, paid))
  BY <1>4, <1>5, <1>7, <1>8
<1>10. \A q \in Payment : OfPayment(q, paid)' # {} <=> q = p \/ OfPayment(q, paid) # {}
  BY <1>5 DEF rs
<1>11. QED
  BY <1>3, <1>9, <1>10 DEF p, r, paid

LEMMA StatusTellsStep ==
    ASSUME OneClerk, RefundInv, status \in [Payment -> PaymentStatus],
           StatusTellsRefunds, [RefundNext]_refundVars
    PROVE  StatusTellsRefunds'
<1> DEFINE paid(q) == Total(OfPayment(q, {"SUCCEEDED"}))
           some(q) == OfPayment(q, {"SUCCEEDED"}) # {}
<1>t. RefundRowsTyped
  BY DEF RefundInv
<1>same. ASSUME UNCHANGED status,
                \A q \in Payment : paid(q)' = paid(q) /\ (some(q)' <=> some(q))
         PROVE  StatusTellsRefunds'
  BY <1>same DEF StatusTellsRefunds
<1>1. ASSUME UNCHANGED <<status, refund>> PROVE StatusTellsRefunds'
  BY <1>1, <1>same, RefundsSame
<1>2. ASSUME NEW c \in creating, CreateInsert(c) PROVE StatusTellsRefunds'
  <2>4. \A q \in Payment : paid(q)' = paid(q) /\ (some(q)' <=> some(q))
    BY <1>2, <1>t, InsertAdds
  <2>5. UNCHANGED status
    BY <1>2 DEF CreateInsert
  <2>6. QED
    BY <1>same, <2>4, <2>5
<1>3. ASSUME NEW c \in settling, SettleOther(c) PROVE StatusTellsRefunds'
  <2> DEFINE r == c.refund
             to == c.to
  <2>1. r \in Existing /\ to \in RefundStatus /\ to \notin {"SUCCEEDED"}
    BY <1>3, <1>t, Settled DEF SettleOther
  <2>2. refund' = [refund EXCEPT ![r].status = to] /\ UNCHANGED status
    BY <1>3 DEF SettleOther
  <2>3. refund[r].status \in {"PENDING", "PROCESSING"}
    BY DEF RefundInv, SettlesRight, StillRight, AllowedFrom
  <2> HIDE DEF r, to
  <2>4. \A q \in Payment : \A S :
                 OfPayment(q, S)' = IF q = refund[r].payment
                                   THEN IF to \in S THEN OfPayment(q, S) \cup {r}
                                        ELSE OfPayment(q, S) \ {r}
                                   ELSE OfPayment(q, S)
    BY <1>t, <2>1, <2>2, RefundMoved, Zenon
  <2>5. \A q : r \notin OfPayment(q, {"SUCCEEDED"})
    BY <2>3 DEF OfPayment
  <2>6. \A q \in Payment : OfPayment(q, {"SUCCEEDED"})' = OfPayment(q, {"SUCCEEDED"})
    <3>1. \A q : OfPayment(q, {"SUCCEEDED"}) \ {r} = OfPayment(q, {"SUCCEEDED"})
      BY <2>5
    <3>2. to \notin {"SUCCEEDED"}
      BY <2>1
    <3>3. QED
      BY <2>4, <3>1, <3>2
  <2>7. \A rs \in SUBSET Refund : Total(rs)' = Total(rs)
    BY <1>t, <2>1, <2>2, RefundMoved, Zenon
  <2>8. \A rs \in SUBSET Refund :
            SumFunctionOnSet([x \in Refund |-> refund'[x].amount], rs) = Total(rs)
    BY <2>7 DEF Total
  <2>9. \A q : /\ OfPayment(q, {"SUCCEEDED"}) \in SUBSET Refund
               /\ paid(q)' = SumFunctionOnSet([x \in Refund |-> refund'[x].amount],
                                              OfPayment(q, {"SUCCEEDED"})')
    BY DEF Total, OfPayment, Existing
  <2>10. \A q \in Payment : paid(q)' = paid(q) /\ (some(q)' <=> some(q))
    BY <2>6, <2>8, <2>9
  <2>11. QED
    BY <1>same, <2>2, <2>10
<1>4. ASSUME NEW c \in settling, SettleCommit(c) PROVE StatusTellsRefunds'
  <2> DEFINE p == refund[c.refund].payment
  <2>1. p \in Payment
    BY <1>t, Settled
  <2>2. status' = [status EXCEPT ![p] = StatusAfter(c)]
    BY <1>4 DEF SettleCommit
  <2>3. StatusAfter(c) = IF c.total >= Amount[p] THEN "REFUNDED" ELSE "PARTIALLY_REFUNDED"
    BY DEF StatusAfter
  <2>4. /\ \A q \in Payment : paid(q)' = IF q = p THEN c.total ELSE paid(q)
        /\ \A q \in Payment : some(q)' <=> q = p \/ some(q)
    BY <1>4, PaidOutAfter
  <2> HIDE DEF p, paid, some
  <2>5. StatusTellsRefunds <=> \A q \in Payment :
            /\ status[q] = "REFUNDED" <=> some(q) /\ paid(q) >= Amount[q]
            /\ status[q] = "PARTIALLY_REFUNDED" <=> some(q) /\ paid(q) < Amount[q]
    BY DEF StatusTellsRefunds, paid, some
  <2>6. StatusTellsRefunds' <=> \A q \in Payment :
            /\ status'[q] = "REFUNDED" <=> some(q)' /\ paid(q)' >= Amount[q]
            /\ status'[q] = "PARTIALLY_REFUNDED" <=> some(q)' /\ paid(q)' < Amount[q]
    BY DEF StatusTellsRefunds, paid, some
  <2>7. c.total \in Int /\ Amount[p] \in Int
    BY <1>t, <2>1, Settled, AmountAssumption
  <2>8. ASSUME NEW q \in Payment
        PROVE  /\ status'[q] = "REFUNDED" <=> some(q)' /\ paid(q)' >= Amount[q]
               /\ status'[q] = "PARTIALLY_REFUNDED" <=> some(q)' /\ paid(q)' < Amount[q]
    <3>1. CASE q = p
      <4>1. status'[q] = StatusAfter(c) /\ paid(q)' = c.total /\ some(q)'
        BY <2>2, <2>4, <3>1
      <4>2. QED
        BY <2>3, <2>4, <2>7, <3>1, <4>1
    <3>2. CASE q # p
      <4>1. status'[q] = status[q] /\ paid(q)' = paid(q) /\ (some(q)' <=> some(q))
        BY <2>2, <2>4, <3>2
      <4>2. QED
        BY <2>5, <4>1
    <3>3. QED
      BY <3>1, <3>2
  <2>9. QED
    BY <2>6, <2>8
<1>5. QED
  BY <1>1, <1>2, <1>3, <1>4 DEF RefundNext, refundVars, CreateLoad, CreateCheck, SettleLoad,
                                SettleSum, GiveUp

\* With one clerk, the status of a payment tells how much of it was returned,
\* although each transition overwrites it with what it summed itself.
THEOREM StatusTells ==
    ASSUME OneClerk
    PROVE  RefundSpec => []StatusTellsRefunds
<1> DEFINE SInv == RefundInv /\ status \in [Payment -> PaymentStatus] /\ StatusTellsRefunds
<1>1. RefundInit => SInv
  <2> SUFFICES ASSUME RefundInit PROVE SInv
    OBVIOUS
  <2>1. RefundInv /\ \A q, S : OfPayment(q, S) = {}
    BY RefundInvInit DEF RefundInit
  <2>2. status = [p \in Payment |-> "CAPTURED"]
    BY DEF RefundInit
  <2>3. StatusTellsRefunds
    <3>1. \A q \in Payment : status[q] = "CAPTURED"
      BY <2>2
    <3>2. QED
      BY <2>1, <3>1 DEF StatusTellsRefunds
  <2>4. QED
    BY <2>1, <2>2, <2>3 DEF PaymentStatus
<1>2. SInv /\ [RefundNext]_refundVars => SInv'
  <2>1. SInv /\ [RefundNext]_refundVars => status' \in [Payment -> PaymentStatus]
    BY StatusTyped DEF RefundInv
  <2>2. QED
    BY <2>1, RefundInvStep, StatusTellsStep
<1>3. SInv => StatusTellsRefunds
  OBVIOUS
<1>4. QED
  BY <1>1, <1>2, <1>3, PTL DEF RefundSpec

\* With one clerk, a refund that was paid out or failed keeps its status: what
\* a transition checked when it loaded the refund still holds at its write.
THEOREM SettledIsFinal ==
    ASSUME OneClerk
    PROVE  RefundSpec => SettledRefundIsFinal
<1> DEFINE Kept == \A r \in Existing : refund[r].status \in {"SUCCEEDED", "FAILED"} =>
                                           refund'[r].status = refund[r].status
<1>1. RefundInit => RefundInv
  BY RefundInvInit DEF RefundInit
<1>2. RefundInv /\ [RefundNext]_refundVars => RefundInv'
  BY RefundInvStep
<1>3. RefundInv /\ [RefundNext]_refundVars => [Kept]_refund
  <2> SUFFICES ASSUME RefundInv, [RefundNext]_refundVars PROVE [Kept]_refund
    OBVIOUS
  <2>t. RefundRowsTyped
    BY DEF RefundInv
  <2>1. ASSUME NEW c \in creating, CreateInsert(c) PROVE Kept
    <3>1. PICK r \in Refund \ Existing :
              refund' = [refund EXCEPT ![r] = [payment |-> c.payment,
                                               amount |-> c.amount,
                                               status |-> "PENDING"]]
      BY <2>1 DEF CreateInsert
    <3>2. \A x \in Existing : refund'[x] = refund[x]
      BY <3>1, <2>t DEF RefundRowsTyped, Existing
    <3>3. QED
      BY <3>2
  <2>2. ASSUME NEW c \in settling, SettleOther(c) \/ SettleCommit(c) PROVE Kept
    <3>1. refund[c.refund].status \in {"PENDING", "PROCESSING"}
      BY DEF RefundInv, SettlesRight, StillRight, AllowedFrom
    <3>2. \A x \in Existing : x # c.refund => refund'[x] = refund[x]
      BY <2>2, <2>t DEF RefundRowsTyped, Existing, SettleOther, SettleCommit
    <3>3. QED
      BY <3>1, <3>2
  <2>3. QED
    BY <2>1, <2>2 DEF RefundNext, refundVars, CreateLoad, CreateCheck, SettleLoad,
                      SettleSum, GiveUp
<1>4. QED
  BY <1>1, <1>2, <1>3, PTL DEF RefundSpec, SettledRefundIsFinal

-----------------------------------------------------------------------------
(***************************************************************************)
(* Payment intake.                                                         *)
(***************************************************************************)
\* A payment that has no row has no provider and no booking, and a call that
\* will insert one waits for an intent that nobody can have paid.
RowsMissing ==
    /\ \A p \in Payment : status[p] = "ABSENT" => provider[p] = "NONE" /\ paidFor[p] = NoBooking
    /\ \A c \in inserting : /\ status[c.payment] = "ABSENT"
                            /\ intent[c.payment] = "OPEN"
    /\ \A c, d \in inserting : c.payment = d.payment => c = d

\* Stripe tells of successes that happened, and a handler that captured the
\* payment handles one of them.
EventsTrue ==
    /\ \A e \in events : e.type = "succeeded" => intent[e.payment] = "SUCCEEDED"
    /\ \A h \in webhooks : /\ Captures(h) => intent[h.event.payment] = "SUCCEEDED"
                           /\ h.captured => Captures(h)

\* A Fawry confirmation is about a Fawry payment.
FawryTrue ==
    \A c \in confirming : /\ provider[c.payment] = "FAWRY"
                          /\ c.captured => status[c.payment] # "CREATED"

IntakeRowsTyped ==
    /\ DOMAIN status = Payment
    /\ booking \in [Booking -> BookingStatus \cup {"ABSENT"}]
    /\ paidFor \in [Payment -> Booking \cup {NoBooking}]
    /\ provider \in [Payment -> Provider \cup {"NONE"}]
    /\ intent \in [Payment -> {"NONE", "OPEN", "SUCCEEDED"}]
    /\ events \subseteq Event
    /\ inserting \subseteq [payment : Payment, booking : Booking]
    /\ webhooks \subseteq [event : Event, copy : Copy, captured : BOOLEAN]
    /\ confirming \subseteq [payment : Payment, copy : Copy, captured : BOOLEAN]

IntakeInv == IntakeRowsTyped /\ RowsMissing /\ EventsTrue /\ FawryTrue

\* What ChargedFirst asks to stand behind a booking.
Backed(p) == TakenByStripe(p) \/ ClaimedForFawry(p)


\* The members of a call, an event, a delivery and a confirmation.
LEMMA IntakeCalls ==
    ASSUME IntakeRowsTyped
    PROVE  /\ \A e \in events : e.payment \in Payment /\ e \in Event
           /\ \A c \in inserting : c.payment \in Payment /\ c.booking \in Booking
           /\ \A h \in webhooks : /\ h.event \in Event /\ h.event.payment \in Payment
                                  /\ h.copy \in Copy /\ h.captured \in BOOLEAN
           /\ \A c \in confirming : /\ c.payment \in Payment
                                    /\ c.copy \in Copy /\ c.captured \in BOOLEAN
BY DEF IntakeRowsTyped, Event

LEMMA InsertRowKeeps ==
    ASSUME IntakeInv, NEW p \in Payment, NEW b \in Booking \cup {NoBooking},
           NEW name \in Provider, status[p] = "ABSENT",
           InsertRow(p, b, name), UNCHANGED <<intent, events, webhooks, confirming>>,
           \/ inserting' = inserting /\ intent[p] = "NONE"
           \/ \E c \in inserting : c.payment = p /\ inserting' = inserting \ {c}
    PROVE  IntakeInv'
<1>1. IntakeRowsTyped'
  BY DEF IntakeInv, IntakeRowsTyped, InsertRow
<1>2. \A q \in Payment : /\ status'[q] = IF q = p THEN "CREATED" ELSE status[q]
                         /\ paidFor'[q] = IF q = p THEN b ELSE paidFor[q]
                         /\ provider'[q] = IF q = p THEN name ELSE provider[q]
  BY DEF IntakeInv, IntakeRowsTyped, InsertRow
<1>3. \A c \in inserting' : c \in inserting /\ c.payment # p
  BY DEF IntakeInv, RowsMissing
<1>4. \A c \in inserting : c.payment \in Payment
  BY IntakeCalls DEF IntakeInv
<1>5. RowsMissing'
  BY <1>2, <1>3, <1>4 DEF IntakeInv, RowsMissing
<1>6. EventsTrue'
  BY DEF IntakeInv, EventsTrue, Captures
<1>7. FawryTrue'
  <2>1. provider[p] = "NONE"
    BY DEF IntakeInv, RowsMissing
  <2>2. \A c \in confirming : c.payment \in Payment /\ c.payment # p
    BY <2>1, IntakeCalls DEF IntakeInv, FawryTrue
  <2>3. QED
    BY <1>2, <2>2 DEF IntakeInv, FawryTrue
<1>8. QED
  BY <1>1, <1>5, <1>6, <1>7 DEF IntakeInv

\* A status that is written over another one, both of an existing row.
LEMMA OverwriteKeeps ==
    ASSUME IntakeInv, NEW p \in Payment, NEW s, s \notin {"ABSENT", "CREATED"},
           status' = [status EXCEPT ![p] = IF status[p] = "ABSENT" THEN "ABSENT" ELSE s],
           UNCHANGED <<paidFor, provider, intent, inserting, confirming>>
    PROVE  RowsMissing' /\ FawryTrue' /\ DOMAIN status' = Payment
<1>1. \A q \in Payment :
         status'[q] = IF q = p /\ status[p] # "ABSENT" THEN s ELSE status[q]
  BY DEF IntakeInv, IntakeRowsTyped
<1>2. /\ \A c \in inserting : c.payment \in Payment
      /\ \A c \in confirming : c.payment \in Payment
  BY IntakeCalls DEF IntakeInv
<1>3. RowsMissing'
  BY <1>1, <1>2 DEF IntakeInv, RowsMissing
<1>4. FawryTrue'
  BY <1>1, <1>2 DEF IntakeInv, FawryTrue
<1>5. QED
  BY <1>3, <1>4 DEF IntakeInv, IntakeRowsTyped

LEMMA AnswerKeeps ==
    ASSUME NEW h \in webhooks, Answer(h)
    PROVE  webhooks' \subseteq webhooks /\ events' \subseteq events
BY DEF Answer

\* The booking of a payment is confirmed, or nothing is.
LEMMA ConfirmKeeps ==
    ASSUME IntakeRowsTyped, NEW p \in Payment, ConfirmBooking(p)
    PROVE  /\ booking' \in [Booking -> BookingStatus \cup {"ABSENT"}]
           /\ \A b \in Booking : \/ booking'[b] = booking[b]
                                 \/ booking'[b] = "CONFIRMED" /\ paidFor[p] = b
BY DEF ConfirmBooking, IntakeRowsTyped, BookingStatus

LEMMA IntakeInvStep ==
    ASSUME IntakeInv, [IntakeNext]_intakeVars
    PROVE  IntakeInv'
<1>t. IntakeRowsTyped
  BY DEF IntakeInv
<1>c. /\ \A e \in events : e.payment \in Payment /\ e \in Event
      /\ \A c \in inserting : c.payment \in Payment /\ c.booking \in Booking
      /\ \A h \in webhooks : /\ h.event \in Event /\ h.event.payment \in Payment
                             /\ h.copy \in Copy /\ h.captured \in BOOLEAN
      /\ \A c \in confirming : /\ c.payment \in Payment
                               /\ c.copy \in Copy /\ c.captured \in BOOLEAN
  BY <1>t, IntakeCalls
<1>i. RowsMissing /\ EventsTrue /\ FawryTrue
  BY DEF IntakeInv
<1>1. ASSUME NEW p \in Payment, NEW b \in Booking, CreateIntent(p, b) PROVE IntakeInv'
  <2>1. /\ status[p] = "ABSENT" /\ intent[p] = "NONE"
        /\ intent' = [intent EXCEPT ![p] = "OPEN"]
        /\ inserting' = inserting \cup {[payment |-> p, booking |-> b]}
        /\ UNCHANGED <<status, booking, paidFor, provider, events, webhooks, confirming>>
    BY <1>1 DEF CreateIntent, Unused, paymentVars, bookingVars
  <2>2. [payment |-> p, booking |-> b] \in [payment : Payment, booking : Booking]
    OBVIOUS
  <2>3. IntakeRowsTyped'
    BY <1>t, <2>1, <2>2 DEF IntakeRowsTyped
  <2>4. \A q \in Payment : intent'[q] = IF q = p THEN "OPEN" ELSE intent[q]
    BY <1>t, <2>1 DEF IntakeRowsTyped
  <2>5. RowsMissing'
    BY <1>i, <1>c, <2>1, <2>4 DEF RowsMissing
  <2>6. EventsTrue'
    BY <1>i, <1>c, <2>1, <2>4 DEF EventsTrue, Captures
  <2>7. FawryTrue'
    BY <1>i, <2>1 DEF FawryTrue
  <2>8. QED
    BY <2>3, <2>5, <2>6, <2>7 DEF IntakeInv
<1>2. ASSUME NEW c \in inserting, InsertIntent(c) PROVE IntakeInv'
  <2>1. status[c.payment] = "ABSENT"
    BY <1>i DEF RowsMissing
  <2>2. QED
    BY <1>2, <1>c, <2>1, InsertRowKeeps DEF InsertIntent, Provider
<1>3. ASSUME NEW p \in Payment, NEW b \in Booking, CreateFawry(p, b) PROVE IntakeInv'
  BY <1>3, InsertRowKeeps DEF CreateFawry, Unused, Provider
<1>4. ASSUME NEW p \in Payment, NEW b \in Booking \cup {NoBooking},
             NEW name \in Provider, CreateManual(p, b, name)
      PROVE IntakeInv'
  BY <1>4, InsertRowKeeps DEF CreateManual, Unused
<1>5. ASSUME NEW p \in Payment, NEW type \in {"succeeded", "payment_failed"}, Pay(p, type)
      PROVE IntakeInv'
  <2> DEFINE e == [payment |-> p, type |-> type]
  <2>1. /\ status[p] # "ABSENT" /\ events' = events \cup {e}
        /\ intent' = [intent EXCEPT ![p] = IF type = "succeeded" THEN "SUCCEEDED" ELSE @]
        /\ UNCHANGED <<status, booking, paidFor, provider, inserting, webhooks, confirming>>
    BY <1>5 DEF Pay, paymentVars, bookingVars
  <2>2. e \in Event /\ e.payment = p /\ e.type = type
    BY DEF Event
  <2> HIDE DEF e
  <2>3. \A q \in Payment : intent'[q] = IF q = p /\ type = "succeeded" THEN "SUCCEEDED" ELSE intent[q]
    BY <1>t, <2>1 DEF IntakeRowsTyped
  <2>4. IntakeRowsTyped'
    BY <1>t, <2>1, <2>2 DEF IntakeRowsTyped
  <2>5. RowsMissing'
    BY <1>i, <1>c, <2>1, <2>3 DEF RowsMissing
  <2>6. EventsTrue'
    BY <1>i, <1>c, <2>1, <2>2, <2>3 DEF EventsTrue, Captures
  <2>7. FawryTrue'
    BY <1>i, <2>1 DEF FawryTrue
  <2>8. QED
    BY <2>4, <2>5, <2>6, <2>7 DEF IntakeInv
<1>6. ASSUME NEW e \in events, NEW k \in Copy, Deliver(e, k) PROVE IntakeInv'
  <2> DEFINE h == [event |-> e, copy |-> k, captured |-> FALSE]
  <2>1. /\ webhooks' = webhooks \cup {h}
        /\ UNCHANGED <<status, booking, paidFor, provider, intent, events, inserting, confirming>>
    BY <1>6 DEF Deliver, paymentVars, bookingVars
  <2>2. /\ h \in [event : Event, copy : Copy, captured : BOOLEAN]
        /\ h.event = e /\ h.captured = FALSE
    BY <1>c
  <2> HIDE DEF h
  <2>3. QED
    BY <1>t, <1>i, <2>1, <2>2
       DEF IntakeInv, IntakeRowsTyped, RowsMissing, EventsTrue, FawryTrue, Captures
<1>7. ASSUME NEW h \in webhooks, WebhookPayment(h) PROVE IntakeInv'
  <2> DEFINE p == h.event.payment
             d == [h EXCEPT !.captured = TRUE]
             s == IF Captures(h) THEN "CAPTURED" ELSE "FAILED"
  <2>1. /\ status' = [status EXCEPT ![p] = IF status[p] = "ABSENT" THEN "ABSENT" ELSE s]
        /\ UNCHANGED <<booking, paidFor, provider, intent, inserting, confirming>>
    BY <1>7 DEF WebhookPayment, StatusOf, bookingVars
  <2>2. p \in Payment /\ s \notin {"ABSENT", "CREATED"}
    BY <1>c
  <2> HIDE DEF p, s
  <2>3. RowsMissing' /\ FawryTrue' /\ DOMAIN status' = Payment
    BY <2>1, <2>2, OverwriteKeeps
  <2>4. /\ \A g \in webhooks' : g \in webhooks \/ (g = d /\ Captures(h))
        /\ events' \subseteq events
    <3>1. CASE Captures(h)
      <4>1. webhooks' = (webhooks \ {h}) \cup {d} /\ events' = events
        BY <1>7, <3>1 DEF WebhookPayment
      <4>2. QED
        BY <3>1, <4>1
    <3>2. CASE ~Captures(h)
      <4>1. Answer(h)
        BY <1>7, <3>2 DEF WebhookPayment
      <4>2. QED
        BY <4>1, AnswerKeeps
    <3>3. QED
      BY <3>1, <3>2
  <2>5. events' \subseteq events
    BY <2>4
  <2>6. /\ d \in [event : Event, copy : Copy, captured : BOOLEAN]
        /\ d.event = h.event
    BY <1>t DEF IntakeRowsTyped
  <2> HIDE DEF d
  <2>7. IntakeRowsTyped'
    BY <1>t, <2>1, <2>3, <2>4, <2>5, <2>6 DEF IntakeRowsTyped
  <2>8. EventsTrue'
    BY <1>i, <2>1, <2>4, <2>5, <2>6 DEF EventsTrue, Captures
  <2>9. QED
    BY <2>3, <2>7, <2>8 DEF IntakeInv
<1>8. ASSUME NEW h \in webhooks, WebhookBooking(h) PROVE IntakeInv'
  <2>1. /\ ConfirmBooking(h.event.payment)
        /\ webhooks' \subseteq webhooks /\ events' \subseteq events
        /\ UNCHANGED <<status, paidFor, provider, intent, inserting, confirming>>
    BY <1>8, AnswerKeeps DEF WebhookBooking, paymentVars
  <2>2. booking' \in [Booking -> BookingStatus \cup {"ABSENT"}]
    BY <1>t, <1>c, <2>1, ConfirmKeeps
  <2>3. QED
    BY <1>t, <1>i, <2>1, <2>2
       DEF IntakeInv, IntakeRowsTyped, RowsMissing, EventsTrue, FawryTrue, Captures
<1>9. ASSUME NEW p \in Payment, NEW k \in Copy, FawryCheck(p, k) PROVE IntakeInv'
  <2> DEFINE c == [payment |-> p, copy |-> k, captured |-> FALSE]
  <2>1. /\ confirming' = confirming \cup {c} /\ provider[p] = "FAWRY"
        /\ UNCHANGED <<status, booking, paidFor, provider, intent, events, inserting, webhooks>>
    BY <1>9 DEF FawryCheck, paymentVars, bookingVars
  <2>2. /\ c \in [payment : Payment, copy : Copy, captured : BOOLEAN]
        /\ c.payment = p /\ c.captured = FALSE
    OBVIOUS
  <2> HIDE DEF c
  <2>3. QED
    BY <1>t, <1>i, <2>1, <2>2
       DEF IntakeInv, IntakeRowsTyped, RowsMissing, EventsTrue, FawryTrue, Captures
<1>10. ASSUME NEW c \in confirming, FawryPayment(c) PROVE IntakeInv'
  <2> DEFINE p == c.payment
             d == [c EXCEPT !.captured = TRUE]
  <2>1. /\ status' = [status EXCEPT ![p] = "CAPTURED"]
        /\ confirming' = (confirming \ {c}) \cup {d}
        /\ UNCHANGED <<booking, paidFor, provider, intent, events, inserting, webhooks>>
    BY <1>10 DEF FawryPayment, bookingVars
  <2>2. p \in Payment /\ provider[p] = "FAWRY"
    BY <1>c, <1>i DEF FawryTrue
  <2>3. /\ d \in [payment : Payment, copy : Copy, captured : BOOLEAN]
        /\ d.payment = p
    BY <1>t DEF IntakeRowsTyped
  <2> HIDE DEF d, p
  <2>4. \A q \in Payment : status'[q] = IF q = p THEN "CAPTURED" ELSE status[q]
    BY <1>t, <2>1 DEF IntakeRowsTyped
  <2>5. IntakeRowsTyped'
    BY <1>t, <2>1, <2>3 DEF IntakeRowsTyped
  <2>6. status[p] # "ABSENT"
    BY <1>i, <2>2 DEF RowsMissing
  <2>7. RowsMissing'
    BY <1>i, <1>c, <2>1, <2>4, <2>6 DEF RowsMissing
  <2>8. EventsTrue'
    BY <1>i, <2>1 DEF EventsTrue, Captures
  <2>9. FawryTrue'
    BY <1>i, <1>c, <2>1, <2>2, <2>3, <2>4 DEF FawryTrue
  <2>10. QED
    BY <2>5, <2>7, <2>8, <2>9 DEF IntakeInv
<1>11. ASSUME NEW c \in confirming, FawryBooking(c) PROVE IntakeInv'
  <2>1. /\ ConfirmBooking(c.payment)
        /\ confirming' \subseteq confirming
        /\ UNCHANGED <<status, paidFor, provider, intent, events, inserting, webhooks>>
    BY <1>11 DEF FawryBooking, paymentVars
  <2>2. booking' \in [Booking -> BookingStatus \cup {"ABSENT"}]
    BY <1>t, <1>c, <2>1, ConfirmKeeps
  <2>3. QED
    BY <1>t, <1>i, <2>1, <2>2
       DEF IntakeInv, IntakeRowsTyped, RowsMissing, EventsTrue, FawryTrue, Captures
<1>12. ASSUME Crash PROVE IntakeInv'
  <2>1. /\ inserting' \subseteq inserting /\ webhooks' \subseteq webhooks
        /\ confirming' \subseteq confirming
        /\ UNCHANGED <<status, booking, paidFor, provider, intent, events>>
    BY <1>12 DEF Crash, paymentVars, bookingVars
  <2>2. QED
    BY <1>t, <1>i, <2>1
       DEF IntakeInv, IntakeRowsTyped, RowsMissing, EventsTrue, FawryTrue, Captures
<1>13. ASSUME UNCHANGED intakeVars PROVE IntakeInv'
  BY <1>13, <1>t, <1>i
     DEF intakeVars, IntakeInv, IntakeRowsTyped, RowsMissing, EventsTrue, FawryTrue, Captures
<1>14. QED
  BY <1>1, <1>2, <1>3, <1>4, <1>5, <1>6, <1>7, <1>8, <1>9, <1>10, <1>11, <1>12, <1>13
     DEF IntakeNext

\* A charge is not taken back, nor a claim, and a payment keeps its booking.
LEMMA ChargedStays ==
    ASSUME IntakeInv, [IntakeNext]_intakeVars, NEW p \in Payment
    PROVE  /\ Backed(p) => Backed(p)'
           /\ paidFor[p] \in Booking => paidFor'[p] = paidFor[p]
<1>t. IntakeRowsTyped /\ RowsMissing
  BY DEF IntakeInv
<1>row. ASSUME NEW q \in Payment, NEW b, NEW name, status[q] = "ABSENT",
               InsertRow(q, b, name), UNCHANGED intent
        PROVE  /\ Backed(p) => Backed(p)'
               /\ paidFor[p] \in Booking => paidFor'[p] = paidFor[p]
  <2>1. /\ status'[p] = IF p = q THEN "CREATED" ELSE status[p]
        /\ paidFor'[p] = IF p = q THEN b ELSE paidFor[p]
        /\ provider'[p] = IF p = q THEN name ELSE provider[p]
    BY <1>row, <1>t DEF InsertRow, IntakeRowsTyped
  <2>2. provider[q] = "NONE" /\ paidFor[q] \notin Booking
    BY <1>row, <1>t, NoBookingAssumption DEF RowsMissing
  <2>3. QED
    BY <1>row, <2>1, <2>2 DEF Backed, TakenByStripe, ClaimedForFawry
<1>1. ASSUME NEW q \in Payment, NEW b \in Booking, CreateIntent(q, b)
      PROVE  Backed(p) => Backed(p)'
  BY <1>1, <1>t DEF CreateIntent, Unused, Backed, TakenByStripe, ClaimedForFawry, IntakeRowsTyped, paymentVars
<1>2. ASSUME NEW c \in inserting, InsertIntent(c)
      PROVE  /\ Backed(p) => Backed(p)'
             /\ paidFor[p] \in Booking => paidFor'[p] = paidFor[p]
  <2>1. c.payment \in Payment /\ status[c.payment] = "ABSENT"
    BY <1>t, IntakeCalls DEF RowsMissing
  <2>2. QED
    BY <1>2, <1>row, <2>1 DEF InsertIntent
<1>3. ASSUME NEW q \in Payment, NEW b, NEW name, CreateFawry(q, b) \/ CreateManual(q, b, name)
      PROVE  /\ Backed(p) => Backed(p)'
             /\ paidFor[p] \in Booking => paidFor'[p] = paidFor[p]
  BY <1>3, <1>row DEF CreateFawry, CreateManual, Unused
<1>4. ASSUME NEW q \in Payment, NEW type, Pay(q, type) PROVE Backed(p) => Backed(p)'
  <2>1. intent'[p] = intent[p] \/ intent'[p] = "SUCCEEDED"
    BY <1>4, <1>t DEF Pay, IntakeRowsTyped
  <2>2. UNCHANGED <<status, provider>>
    BY <1>4 DEF Pay, paymentVars
  <2>3. QED
    BY <2>1, <2>2 DEF Backed, TakenByStripe, ClaimedForFawry
<1>5. ASSUME NEW h \in webhooks, WebhookPayment(h) PROVE Backed(p) => Backed(p)'
  <2>1. /\ status'[p] = status[p] \/ status'[p] \in {"ABSENT", "CAPTURED", "FAILED"}
        /\ UNCHANGED <<intent, provider>>
    BY <1>5, <1>t DEF WebhookPayment, StatusOf, IntakeRowsTyped
  <2>2. QED
    BY <2>1 DEF Backed, TakenByStripe, ClaimedForFawry
<1>6. ASSUME NEW c \in confirming, FawryPayment(c) PROVE Backed(p) => Backed(p)'
  <2>1. /\ status'[p] = status[p] \/ status'[p] = "CAPTURED"
        /\ UNCHANGED <<intent, provider>>
    BY <1>6, <1>t DEF FawryPayment, IntakeRowsTyped
  <2>2. QED
    BY <2>1 DEF Backed, TakenByStripe, ClaimedForFawry
<1>7. ASSUME UNCHANGED <<status, provider, intent>> PROVE Backed(p) => Backed(p)'
  BY <1>7 DEF Backed, TakenByStripe, ClaimedForFawry
<1>8. ASSUME \/ \E e \in events, k \in Copy : Deliver(e, k)
             \/ \E h \in webhooks : WebhookBooking(h)
             \/ \E q \in Payment, k \in Copy : FawryCheck(q, k)
             \/ \E c \in confirming : FawryBooking(c)
             \/ Crash \/ UNCHANGED intakeVars
      PROVE  Backed(p) => Backed(p)'
  BY <1>7, <1>8 DEF Deliver, WebhookBooking, FawryCheck, FawryBooking, Crash, intakeVars,
                    paymentVars
<1>9. Backed(p) => Backed(p)'
  <2> DEFINE Kept == Backed(p) => Backed(p)'
  <2> HIDE DEF Kept
  <2>1. \A q \in Payment, b \in Booking : CreateIntent(q, b) \/ CreateFawry(q, b) => Kept
    BY <1>1, <1>3 DEF Kept
  <2>2. \A c \in inserting : InsertIntent(c) => Kept
    BY <1>2 DEF Kept
  <2>3. \A q \in Payment, b \in Booking \cup {NoBooking}, name \in Provider :
            CreateManual(q, b, name) => Kept
    BY <1>3 DEF Kept
  <2>4. \A q \in Payment, type \in {"succeeded", "payment_failed"} : Pay(q, type) => Kept
    BY <1>4 DEF Kept
  <2>5. \A h \in webhooks : WebhookPayment(h) => Kept
    BY <1>5 DEF Kept
  <2>6. \A c \in confirming : FawryPayment(c) => Kept
    BY <1>6 DEF Kept
  <2>7. (\/ \E e \in events, k \in Copy : Deliver(e, k)
         \/ \E h \in webhooks : WebhookBooking(h)
         \/ \E q \in Payment, k \in Copy : FawryCheck(q, k)
         \/ \E c \in confirming : FawryBooking(c)
         \/ Crash \/ UNCHANGED intakeVars) => Kept
    BY <1>8 DEF Kept
  <2>8. Kept
    BY <2>1, <2>2, <2>3, <2>4, <2>5, <2>6, <2>7 DEF IntakeNext
  <2>9. QED
    BY <2>8 DEF Kept
<1>10. paidFor[p] \in Booking => paidFor'[p] = paidFor[p]
  <2>1. \/ UNCHANGED paidFor
        \/ \E c \in inserting : InsertIntent(c)
        \/ \E q \in Payment, b \in Booking : CreateFawry(q, b)
        \/ \E q \in Payment, b \in Booking \cup {NoBooking}, name \in Provider :
              CreateManual(q, b, name)
    BY DEF IntakeNext, intakeVars, CreateIntent, Pay, Deliver, WebhookPayment, WebhookBooking,
           FawryCheck, FawryPayment, FawryBooking, Crash, bookingVars
  <2>2. QED
    BY <1>2, <1>3, <2>1
<1>11. QED
  BY <1>9, <1>10

\* A status CAPTURED is written only over a payment that was charged, or claimed.
LEMMA CapturedStep ==
    ASSUME IntakeInv, [IntakeNext]_intakeVars, NEW p \in Payment,
           status'[p] = "CAPTURED", status[p] # "CAPTURED"
    PROVE  Backed(p)'
<1>t. IntakeRowsTyped /\ EventsTrue /\ FawryTrue
  BY DEF IntakeInv
<1>1. ASSUME NEW h \in webhooks, WebhookPayment(h) PROVE Backed(p)'
  <2>1. p = h.event.payment /\ Captures(h)
    BY <1>1, <1>t, IntakeCalls DEF WebhookPayment, StatusOf, IntakeRowsTyped
  <2>2. QED
    BY <1>1, <1>t, <2>1 DEF WebhookPayment, EventsTrue, Backed, TakenByStripe, ClaimedForFawry
<1>2. ASSUME NEW c \in confirming, FawryPayment(c) PROVE Backed(p)'
  <2>1. p = c.payment
    BY <1>2, <1>t, IntakeCalls DEF FawryPayment, IntakeRowsTyped
  <2>2. QED
    BY <1>2, <1>t, <2>1 DEF FawryPayment, FawryTrue, Backed, TakenByStripe, ClaimedForFawry
<1>3. ASSUME NEW q, NEW b, NEW name, InsertRow(q, b, name) PROVE FALSE
  BY <1>3, <1>t DEF InsertRow, IntakeRowsTyped
<1>4. UNCHANGED status => FALSE
  OBVIOUS
<1>5. QED
  BY <1>1, <1>2, <1>3, <1>4
     DEF IntakeNext, intakeVars, paymentVars, CreateIntent, InsertIntent, CreateFawry,
         CreateManual, Pay, Deliver, WebhookBooking, FawryCheck, FawryBooking, Crash

\* A booking is confirmed only for a payment that was charged, or claimed.
LEMMA ConfirmedStep ==
    ASSUME IntakeInv, [IntakeNext]_intakeVars, NEW b \in Booking, booking'[b] # booking[b]
    PROVE  booking'[b] = "CONFIRMED" /\ \E p \in Payment : paidFor[p] = b /\ Backed(p)
<1>t. IntakeRowsTyped /\ EventsTrue /\ FawryTrue
  BY DEF IntakeInv
<1>1. ASSUME NEW h \in webhooks, WebhookBooking(h)
      PROVE  booking'[b] = "CONFIRMED" /\ \E p \in Payment : paidFor[p] = b /\ Backed(p)
  <2>1. h.event.payment \in Payment /\ ConfirmBooking(h.event.payment)
    BY <1>1, <1>t, IntakeCalls DEF WebhookBooking
  <2>2. booking'[b] = "CONFIRMED" /\ paidFor[h.event.payment] = b
    BY <1>t, <2>1, ConfirmKeeps
  <2>3. Backed(h.event.payment)
    BY <1>1, <1>t DEF WebhookBooking, EventsTrue, Backed, TakenByStripe, ClaimedForFawry
  <2>4. QED
    BY <2>1, <2>2, <2>3
<1>2. ASSUME NEW c \in confirming, FawryBooking(c)
      PROVE  booking'[b] = "CONFIRMED" /\ \E p \in Payment : paidFor[p] = b /\ Backed(p)
  <2>1. c.payment \in Payment /\ ConfirmBooking(c.payment)
    BY <1>2, <1>t, IntakeCalls DEF FawryBooking
  <2>2. booking'[b] = "CONFIRMED" /\ paidFor[c.payment] = b
    BY <1>t, <2>1, ConfirmKeeps
  <2>3. Backed(c.payment)
    BY <1>2, <1>t DEF FawryBooking, FawryTrue, Backed, TakenByStripe, ClaimedForFawry
  <2>4. QED
    BY <2>1, <2>2, <2>3
<1>3. \/ UNCHANGED booking
      \/ \E h \in webhooks : WebhookBooking(h)
      \/ \E c \in confirming : FawryBooking(c)
  BY DEF IntakeNext, intakeVars, CreateIntent, InsertIntent, CreateFawry, CreateManual,
         InsertRow, Pay, Deliver, WebhookPayment, FawryCheck, FawryPayment, Crash, bookingVars
<1>4. QED
  BY <1>1, <1>2, <1>3

\* No payment but one under Fawry's name is captured that Stripe did not take,
\* and no booking is confirmed but by a payment for it that Stripe took or a
\* caller claimed for Fawry, in whatever order and however often events arrive
\* and handlers die.
THEOREM ChargedBeforeConfirmed == IntakeSpec => []ChargedFirst
<1>f. ChargedFirst <=>
         /\ \A p \in Payment : status[p] = "CAPTURED" => Backed(p)
         /\ \A b \in Booking : booking[b] = "CONFIRMED" =>
                \E p \in Payment : paidFor[p] = b /\ Backed(p)
  BY DEF ChargedFirst, Backed, ClaimedForFawry
<1>g. ChargedFirst' <=>
         /\ \A p \in Payment : status'[p] = "CAPTURED" => Backed(p)'
         /\ \A b \in Booking : booking'[b] = "CONFIRMED" =>
                \E p \in Payment : paidFor'[p] = b /\ Backed(p)'
  BY DEF ChargedFirst, Backed, ClaimedForFawry
<1>1. IntakeInit => IntakeInv /\ ChargedFirst
  <2> SUFFICES ASSUME IntakeInit PROVE IntakeInv /\ ChargedFirst
    OBVIOUS
  <2>1. /\ status = [p \in Payment |-> "ABSENT"]
        /\ paidFor = [p \in Payment |-> NoBooking]
        /\ booking \in [Booking -> {"DRAFT", "PAYMENT_PENDING"}]
        /\ provider = [p \in Payment |-> "NONE"] /\ intent = [p \in Payment |-> "NONE"]
        /\ events = {} /\ inserting = {} /\ webhooks = {} /\ confirming = {}
    BY DEF IntakeInit, IntakeOwnInit, EmptyPayments
  <2>2. booking \in [Booking -> BookingStatus \cup {"ABSENT"}]
    BY <2>1 DEF BookingStatus
  <2>3. IntakeInv
    BY <2>1, <2>2
       DEF IntakeInv, IntakeRowsTyped, RowsMissing, EventsTrue, FawryTrue
  <2>4. ChargedFirst
    BY <2>1 DEF ChargedFirst
  <2>5. QED
    BY <2>3, <2>4
<1>2. IntakeInv /\ ChargedFirst /\ [IntakeNext]_intakeVars => IntakeInv' /\ ChargedFirst'
  <2> SUFFICES ASSUME IntakeInv, ChargedFirst, [IntakeNext]_intakeVars
               PROVE  IntakeInv' /\ ChargedFirst'
    OBVIOUS
  <2>1. IntakeInv'
    BY IntakeInvStep
  <2>2. ASSUME NEW p \in Payment, status'[p] = "CAPTURED" PROVE Backed(p)'
    <3>1. CASE status[p] = "CAPTURED"
      BY <1>f, <3>1, ChargedStays
    <3>2. CASE status[p] # "CAPTURED"
      BY <2>2, <3>2, CapturedStep
    <3>3. QED
      BY <3>1, <3>2
  <2>3. ASSUME NEW b \in Booking, booking'[b] = "CONFIRMED"
        PROVE  \E p \in Payment : paidFor'[p] = b /\ Backed(p)'
    <3>1. PICK p \in Payment : paidFor[p] = b /\ Backed(p)
      BY <1>f, <2>3, ConfirmedStep
    <3>2. paidFor'[p] = b /\ Backed(p)'
      BY <3>1, ChargedStays
    <3>3. QED
      BY <3>2
  <2>4. QED
    BY <1>g, <2>1, <2>2, <2>3
<1>3. QED
  BY <1>1, <1>2, PTL DEF IntakeSpec

-----------------------------------------------------------------------------
(***************************************************************************)
(* Bookings, intake and refunds together.                                  *)
(***************************************************************************)
\* Staff move bookings by hand only in roles that cannot let one pass to
\* CONFIRMING.
NoAdmins == StateRole \cap {"SUPER_ADMIN", "ADMIN"} = {}

\* A refund is of a payment that exists.
RefundsOfRows ==
    /\ \A r \in Existing : status[refund[r].payment] # "ABSENT"
    /\ \A c \in creating : status[c.payment] # "ABSENT"

BookingCallsTyped ==
    /\ commission \in [Payment -> {"NONE", "PENDING", "ELIGIBLE", "PAID"}]
    /\ calls \subseteq B!Call
    /\ marking \subseteq [by : Worker, payment : Payment, to : {"ELIGIBLE", "PAID"}]

\* A call that will write a status from the payment on, other than the payment
\* itself, is for a booking for which money was taken.
CallsTaken ==
    \A c \in calls : c.write # "pay" /\ c.to \in B!PaidStatus => PaidOrClaimed(c.booking)

CheckoutInv == /\ IntakeInv
               /\ RefundInv
               /\ RefundsOfRows
               /\ BookingCallsTyped
               /\ CallsTaken
               /\ ConfirmedHasPayment

\* A handler that begins a call will write a payment or a status before it,
\* or has read a booking that is as far already.
BeginsTaken(w, write, b, to, actor) ==
    /\ B!Begin(w, write, b, to, actor)
    /\ booking[b] # "ABSENT"
    /\ write = "pay" \/ to \notin B!PaidStatus \/ booking[b] \in B!PaidStatus

BeginsOne ==
    \E w \in Worker, write \in B!Write, b \in Booking, to \in BookingStatus,
       actor \in StaffRole \cup {"PARTNER", "NOBODY"} : BeginsTaken(w, write, b, to, actor)

\* A step that touches neither payments nor the status of bookings.
QuietStep ==
    /\ UNCHANGED <<status, paidFor, commission, booking>>
    /\ calls' \subseteq calls
    /\ BookingCallsTyped => BookingCallsTyped'

\* The kinds of step of the booking handlers.
LEMMA BookingSteps ==
    ASSUME NoAdmins, IntakeRowsTyped, BookingStep
    PROVE  \/ \E b \in Booking : B!Create(b)
           \/ BeginsOne
           \/ \E c \in calls : \/ B!UpdateBooking(c) \/ B!RecordBooking(c)
                               \/ B!PayBooking(c) \/ B!CompleteBooking(c)
           \/ \E c \in marking : B!MarkUpdate(c)
           \/ QuietStep
<1>b. \A b \in Booking : booking[b] \in BookingStatus \cup {"ABSENT"}
  BY DEF IntakeRowsTyped
<1> USE DEF B!Write, B!PaidStatus, BookingStatus
<1>1. ASSUME NEW w \in Worker, NEW b \in Booking, B!Submit(w, b) PROVE BeginsOne
  <2>1. BeginsTaken(w, "update", b, "PENDING_APPROVAL", "NOBODY")
    BY <1>1 DEF B!Submit, BeginsTaken
  <2>2. QED
    BY <2>1 DEF BeginsOne
<1>2. ASSUME NEW w \in Worker, NEW b \in Booking, B!Approve(w, b) PROVE BeginsOne
  <2>1. BeginsTaken(w, "update", b, "PAYMENT_PENDING", "NOBODY")
    BY <1>2, <1>b DEF B!Approve, B!ServiceTransitions, BeginsTaken
  <2>2. QED
    BY <2>1 DEF BeginsOne
<1>3. ASSUME NEW w \in Worker, NEW b \in Booking, B!Reject(w, b) PROVE BeginsOne
  <2>1. BeginsTaken(w, "update", b, "REJECTED", "NOBODY")
    BY <1>3, <1>b DEF B!Reject, B!ServiceTransitions, BeginsTaken
  <2>2. QED
    BY <2>1 DEF BeginsOne
<1>4. ASSUME NEW w \in Worker, NEW b \in Booking, B!SubmitPayment(w, b) PROVE BeginsOne
  <2>1. BeginsTaken(w, "pay", b, "CONFIRMING", "NOBODY")
    BY <1>4, <1>b DEF B!SubmitPayment, B!ServiceTransitions, BeginsTaken
  <2>2. QED
    BY <2>1 DEF BeginsOne
<1>5. ASSUME NEW w \in Worker, NEW b \in Booking, B!Confirm(w, b) PROVE BeginsOne
  <2>1. booking[b] = "CONFIRMING"
    BY <1>5, <1>b DEF B!Confirm, B!ServiceTransitions
  <2>2. BeginsTaken(w, "update", b, "CONFIRMED", "NOBODY")
    BY <1>5, <2>1 DEF B!Confirm, BeginsTaken
  <2>3. QED
    BY <2>2 DEF BeginsOne
<1>6. ASSUME NEW w \in Worker, NEW b \in Booking, B!Complete(w, b) PROVE BeginsOne
  <2>1. booking[b] \in {"CONFIRMED", "DISPUTED"}
    BY <1>6, <1>b DEF B!Complete, B!ServiceTransitions
  <2>2. BeginsTaken(w, "complete", b, "COMPLETED", "NOBODY")
    BY <1>6, <2>1 DEF B!Complete, BeginsTaken
  <2>3. QED
    BY <2>2 DEF BeginsOne
<1>7. ASSUME NEW w \in Worker, NEW b \in Booking, B!Cancel(w, b) PROVE BeginsOne
  <2>1. BeginsTaken(w, "update", b, B!CancelTarget(b), "NOBODY")
    BY <1>7, <1>b DEF B!Cancel, B!CancelTarget, B!ServiceTransitions, BeginsTaken
  <2>2. B!CancelTarget(b) \in BookingStatus
    BY DEF B!CancelTarget
  <2>3. QED
    BY <2>1, <2>2 DEF BeginsOne
<1>8. ASSUME NEW w \in Worker, NEW b \in Booking, B!CustomerCancel(w, b) PROVE BeginsOne
  <2>1. BeginsTaken(w, "update", b, "CANCELLED", "NOBODY")
    BY <1>8 DEF B!CustomerCancel, BeginsTaken
  <2>2. QED
    BY <2>1 DEF BeginsOne
<1>9. ASSUME NEW w \in Worker, NEW b \in Booking, NEW to \in BookingStatus,
             B!PartnerMove(w, b, to)
      PROVE  BeginsOne
  <2>1. BeginsTaken(w, "record", b, to, "PARTNER")
    BY <1>9 DEF B!PartnerMove, B!PartnerStep, BeginsTaken
  <2>2. QED
    BY <2>1 DEF BeginsOne
<1>10. ASSUME NEW w \in Worker, NEW b \in Booking, NEW to \in BookingStatus,
              NEW role \in StateRole, B!StateMove(w, b, role, to)
       PROVE  BeginsOne
  <2>1. role \notin {"SUPER_ADMIN", "ADMIN"}
    BY DEF NoAdmins
  <2>2. role \in StaffRole
    BY <1>10 DEF B!StateMove, B!TransitionRoles, B!StaffRole, StaffRole
  <2>3. to \in B!PaidStatus => booking[b] \in B!PaidStatus
    <3>1. to # "CONFIRMING"
      BY <1>10, <2>1 DEF B!StateMove, B!TransitionRoles
    <3>2. QED
      BY <1>10, <1>b, <3>1 DEF B!StateMove, B!StateTransitions
  <2>4. BeginsTaken(w, "record", b, to, role)
    BY <1>10, <1>b, <2>3 DEF B!StateMove, B!StateTransitions, BeginsTaken
  <2>5. QED
    BY <2>2, <2>4 DEF BeginsOne
<1>11. ASSUME \/ \E w \in Worker, b \in Booking : B!ReviewCheck(w, b)
              \/ \E c \in reviewing : B!ReviewInsert(c)
              \/ B!Die
       PROVE  QuietStep
  <2>1. /\ UNCHANGED <<status, paidFor, commission, booking>>
        /\ calls' \subseteq calls /\ marking' \subseteq marking
    BY <1>11 DEF B!ReviewCheck, B!ReviewInsert, B!Die, B!paymentVars, B!bookingVars
  <2>2. QED
    BY <2>1 DEF QuietStep, BookingCallsTyped
<1>12. ASSUME NEW w \in Worker, NEW p \in Payment, NEW to \in {"ELIGIBLE", "PAID"},
              B!MarkCheck(w, p, to)
       PROVE  QuietStep
  <2> DEFINE c == [by |-> w, payment |-> p, to |-> to]
  <2>1. /\ UNCHANGED <<status, paidFor, commission, booking, calls>>
        /\ marking' = marking \cup {c}
    BY <1>12 DEF B!MarkCheck, B!paymentVars, B!bookingVars
  <2>2. c \in [by : Worker, payment : Payment, to : {"ELIGIBLE", "PAID"}]
    OBVIOUS
  <2> HIDE DEF c
  <2>3. QED
    BY <2>1, <2>2 DEF QuietStep, BookingCallsTyped
<1>13. B!Next
  BY DEF BookingStep
<1>14. B!BookingStatus = BookingStatus
  BY DEF B!BookingStatus
<1> HIDE DEF B!Write, B!PaidStatus, BookingStatus
<1>15. QED
  BY <1>1, <1>2, <1>3, <1>4, <1>5, <1>6, <1>7, <1>8, <1>9, <1>10, <1>11, <1>12, <1>13, <1>14
     DEF B!Next

\* What a step of the booking handlers does to a payment.
LEMMA BookingStepPayments ==
    ASSUME NoAdmins, IntakeInv, BookingCallsTyped, BookingStep, NEW p \in Payment
    PROVE  /\ \/ status'[p] = status[p] /\ paidFor'[p] = paidFor[p]
              \/ /\ status[p] = "ABSENT" /\ status'[p] = "CAPTURED"
                 /\ intent[p] = "NONE" /\ paidFor'[p] \in Booking
           /\ commission[p] # "NONE" => commission'[p] # "NONE"
<1>t. /\ DOMAIN status = Payment
      /\ paidFor \in [Payment -> Booking \cup {NoBooking}]
      /\ commission \in [Payment -> {"NONE", "PENDING", "ELIGIBLE", "PAID"}]
  BY DEF IntakeInv, IntakeRowsTyped, BookingCallsTyped
<1>1. ASSUME NEW c \in calls, B!PayBooking(c)
      PROVE  /\ \/ status'[p] = status[p] /\ paidFor'[p] = paidFor[p]
                \/ /\ status[p] = "ABSENT" /\ status'[p] = "CAPTURED"
                   /\ intent[p] = "NONE" /\ paidFor'[p] \in Booking
             /\ commission[p] # "NONE" => commission'[p] # "NONE"
  <2>1. PICK q \in Payment :
          /\ status[q] = "ABSENT"
          /\ status' = [status EXCEPT ![q] = "CAPTURED"]
          /\ paidFor' = [paidFor EXCEPT ![q] = c.booking]
          /\ commission' = [commission EXCEPT ![q] = "PENDING"]
    BY <1>1 DEF B!PayBooking
  <2>2. c.booking \in Booking
    BY DEF BookingCallsTyped, B!Call
  <2>3. intent[q] = "NONE"
    BY <1>t, <2>1 DEF BookingStep
  <2>4. QED
    BY <1>t, <2>1, <2>2, <2>3
<1>2. ASSUME NEW c \in calls, B!CompleteBooking(c)
      PROVE  /\ UNCHANGED <<status, paidFor>>
             /\ commission[p] # "NONE" => commission'[p] # "NONE"
  BY <1>2, <1>t DEF B!CompleteBooking, B!paymentVars
<1>3. ASSUME NEW c \in marking, B!MarkUpdate(c)
      PROVE  /\ UNCHANGED <<status, paidFor>>
             /\ commission[p] # "NONE" => commission'[p] # "NONE"
  <2>1. c.to \in {"ELIGIBLE", "PAID"}
    BY DEF BookingCallsTyped
  <2>2. QED
    BY <1>3, <1>t, <2>1 DEF B!MarkUpdate, B!paymentVars, B!bookingVars
<1>4. \/ UNCHANGED <<status, paidFor, commission>>
      \/ \E c \in calls : B!PayBooking(c) \/ B!CompleteBooking(c)
      \/ \E c \in marking : B!MarkUpdate(c)
  BY BookingSteps DEF IntakeInv, B!Create, BeginsOne, BeginsTaken, B!Begin, B!UpdateBooking,
         B!RecordBooking, QuietStep, B!paymentVars, B!bookingVars, B!bookingOnlyVars
<1>5. QED
  BY <1>t, <1>1, <1>2, <1>3, <1>4

\* What a refund step does to a payment, and that refunds are of payments.
LEMMA RefundStepPayments ==
    ASSUME IntakeRowsTyped, RefundRowsTyped, RefundsOfRows, RefundStep, NEW p \in Payment
    PROVE  /\ \/ status'[p] = status[p]
              \/ status[p] # "ABSENT" /\ status'[p] \notin {"ABSENT", "CREATED", "CAPTURED"}
           /\ DOMAIN status' = Payment
<1>1. ASSUME NEW c \in settling, SettleCommit(c)
      PROVE  /\ \/ status'[p] = status[p]
                \/ status[p] # "ABSENT" /\ status'[p] \notin {"ABSENT", "CREATED", "CAPTURED"}
             /\ DOMAIN status' = Payment
  <2>1. c.refund \in Existing /\ refund[c.refund].payment \in Payment
    BY Settled
  <2>2. status[refund[c.refund].payment] # "ABSENT"
    BY <2>1 DEF RefundsOfRows
  <2>3. StatusAfter(c) \notin {"ABSENT", "CREATED", "CAPTURED"}
    BY DEF StatusAfter
  <2>4. status' = [status EXCEPT ![refund[c.refund].payment] = StatusAfter(c)]
    BY <1>1 DEF SettleCommit
  <2>5. QED
    BY <2>1, <2>2, <2>3, <2>4 DEF IntakeRowsTyped
<1>2. UNCHANGED status \/ \E c \in settling : SettleCommit(c)
  BY DEF RefundStep, RefundNext, CreateLoad, CreateCheck, CreateInsert, SettleLoad,
         SettleOther, SettleSum, GiveUp
<1>3. QED
  BY <1>1, <1>2 DEF IntakeRowsTyped

\* Refunds are created of payments that have a row.
LEMMA RefundsOfRowsStep ==
    ASSUME IntakeRowsTyped, RefundRowsTyped, RefundsOfRows, RefundStep
    PROVE  RefundsOfRows'
<1>s. \A p \in Payment : status[p] # "ABSENT" => status'[p] # "ABSENT"
  BY RefundStepPayments
<1>p. /\ \A r \in Existing : refund[r].payment \in Payment
      /\ \A c \in creating : c.payment \in Payment
  BY RowsKept, Created DEF RefundRow
<1>1. ASSUME NEW k, NEW p \in Payment, NEW a, CreateLoad(k, p, a)
      PROVE  RefundsOfRows'
  <2>1. /\ UNCHANGED <<status, refund>> /\ status[p] # "ABSENT"
        /\ \A c \in creating' : c \in creating \/ c.payment = p
    BY <1>1 DEF CreateLoad, Refundable
  <2>2. QED
    BY <2>1 DEF RefundsOfRows, Existing
<1>2. ASSUME NEW c \in creating, CreateCheck(c)
      PROVE  RefundsOfRows'
  <2>1. /\ UNCHANGED <<status, refund>>
        /\ \A d \in creating' : d \in creating \/ d.payment = c.payment
    BY <1>2 DEF CreateCheck, RefundRowsTyped
  <2>2. QED
    BY <2>1 DEF RefundsOfRows, Existing
<1>3. ASSUME NEW c \in creating, CreateInsert(c)
      PROVE  RefundsOfRows'
  <2>1. PICK r \in Refund \ Existing :
            refund' = [refund EXCEPT ![r] = [payment |-> c.payment,
                                             amount |-> c.amount,
                                             status |-> "PENDING"]]
    BY <1>3 DEF CreateInsert
  <2>2. \A x \in Existing' : \/ x \in Existing /\ refund'[x] = refund[x]
                             \/ x = r /\ refund'[x].payment = c.payment
    <3>1. \A x \in Refund : x # r => refund'[x] = refund[x]
      BY <2>1 DEF RefundRowsTyped
    <3>2. refund'[r].payment = c.payment
      BY <2>1 DEF RefundRowsTyped
    <3>3. QED
      BY <3>1, <3>2 DEF Existing
  <2>3. UNCHANGED status /\ creating' \subseteq creating
    BY <1>3 DEF CreateInsert
  <2>4. QED
    BY <2>2, <2>3 DEF RefundsOfRows
<1>4. ASSUME NEW c \in settling, SettleOther(c) \/ SettleCommit(c)
      PROVE  RefundsOfRows'
  <2> DEFINE r == c.refund
  <2>1. r \in Existing
    BY Settled
  <2>2. PICK to \in RefundStatus : refund' = [refund EXCEPT ![r].status = to]
    <3>1. c.to \in RefundStatus /\ "SUCCEEDED" \in RefundStatus
      BY Settled DEF RefundStatus
    <3>2. QED
      BY <1>4, <3>1 DEF SettleOther, SettleCommit
  <2> HIDE DEF r
  <2>3. Existing' = Existing /\ \A x \in Refund : refund'[x].payment = refund[x].payment
    BY <2>1, <2>2, RefundMoved
  <2>4. creating' = creating /\ Existing \subseteq Refund
    BY <1>4 DEF SettleOther, SettleCommit, Existing
  <2>5. QED
    BY <1>s, <1>p, <2>3, <2>4 DEF RefundsOfRows
<1>5. ASSUME UNCHANGED <<status, refund>>, creating' \subseteq creating
      PROVE  RefundsOfRows'
  BY <1>5 DEF RefundsOfRows, Existing
<1>6. RefundNext
  BY DEF RefundStep
<1>7. QED
  BY <1>1, <1>2, <1>3, <1>4, <1>5, <1>6 DEF RefundNext, SettleLoad, SettleSum, GiveUp

\* Intake never removes a row.
LEMMA IntakeKeepsRows ==
    ASSUME IntakeInv, IntakeNext, NEW p \in Payment, status[p] # "ABSENT"
    PROVE  status'[p] # "ABSENT"
<1>t. DOMAIN status = Payment
  BY DEF IntakeInv, IntakeRowsTyped
<1>1. ASSUME NEW q, NEW b, NEW name, InsertRow(q, b, name) PROVE status'[p] # "ABSENT"
  BY <1>1, <1>t DEF InsertRow
<1>2. ASSUME NEW h \in webhooks, WebhookPayment(h) PROVE status'[p] # "ABSENT"
  BY <1>2, <1>t DEF WebhookPayment, StatusOf
<1>3. ASSUME NEW c \in confirming, FawryPayment(c) PROVE status'[p] # "ABSENT"
  BY <1>3, <1>t DEF FawryPayment
<1>4. UNCHANGED status => status'[p] # "ABSENT"
  OBVIOUS
<1>5. QED
  BY <1>1, <1>2, <1>3, <1>4
     DEF IntakeNext, paymentVars, CreateIntent, InsertIntent, CreateFawry,
         CreateManual, Pay, Deliver, WebhookBooking, FawryCheck, FawryBooking, Crash

\* Money that was taken for a booking stays taken.
LEMMA TakenStays ==
    ASSUME NoAdmins, CheckoutInv, [Next]_vars, NEW b \in Booking, PaidOrClaimed(b)
    PROVE  PaidOrClaimed(b)'
<1>i. IntakeInv /\ IntakeRowsTyped /\ RowsMissing /\ RefundRowsTyped /\ RefundsOfRows
      /\ BookingCallsTyped
  BY DEF CheckoutInv, IntakeInv, RefundInv
<1>1. PICK p \in Payment : paidFor[p] = b /\ (Backed(p) \/ commission[p] # "NONE")
  BY DEF PaidOrClaimed, Backed
<1>r. status[p] # "ABSENT"
  BY <1>i, <1>1, NoBookingAssumption DEF RowsMissing
<1>2. CASE BookingStep
  <2>1. /\ \/ status'[p] = status[p] /\ paidFor'[p] = paidFor[p]
           \/ status[p] = "ABSENT"
        /\ commission[p] # "NONE" => commission'[p] # "NONE"
    BY <1>i, <1>2, BookingStepPayments
  <2>2. UNCHANGED <<provider, intent>>
    BY <1>2 DEF BookingStep, intakeOnlyVars
  <2>3. QED
    BY <1>1, <1>r, <2>1, <2>2 DEF PaidOrClaimed, Backed, TakenByStripe, ClaimedForFawry
<1>3. CASE IntakeStep
  <2>1. /\ Backed(p) => Backed(p)'
        /\ paidFor'[p] = paidFor[p]
    BY <1>i, <1>1, <1>3, ChargedStays DEF IntakeStep
  <2>2. UNCHANGED commission
    BY <1>3 DEF IntakeStep, bookingOnlyVars
  <2>3. QED
    BY <1>1, <2>1, <2>2 DEF PaidOrClaimed, Backed
<1>4. CASE RefundStep
  <2>1. status'[p] = status[p] \/ status'[p] # "CREATED"
    BY <1>i, <1>4, RefundStepPayments
  <2>2. UNCHANGED <<paidFor, commission, provider, intent>>
    BY <1>4 DEF RefundStep, bookingVars, bookingOnlyVars, intakeOnlyVars
  <2>3. QED
    BY <1>1, <2>1, <2>2 DEF PaidOrClaimed, Backed, TakenByStripe, ClaimedForFawry
<1>5. CASE UNCHANGED vars
  BY <1>1, <1>5
     DEF vars, bookingOnlyVars, intakeOnlyVars, PaidOrClaimed, Backed, TakenByStripe,
         ClaimedForFawry
<1>6. QED
  BY <1>2, <1>3, <1>4, <1>5 DEF Next

\* The invariant of refunds is about their rows and calls only.
LEMMA RefundInvSame ==
    ASSUME RefundInv, UNCHANGED refundOnlyVars
    PROVE  RefundInv'
<1>1. UNCHANGED <<refund, creating, settling>>
  BY DEF refundOnlyVars
<1>2. QED
  BY <1>1 DEF RefundInv, RefundRowsTyped, OneAtATime, ChecksHold, SettlesRight, StillRight,
              FitsRemaining, RefundsWithinPayment, GaveRoom, OfPayment, Existing, Total

\* The booking handlers keep what intake relies on.
LEMMA BookingKeepsIntake ==
    ASSUME NoAdmins, IntakeInv, BookingCallsTyped, BookingStep,
           booking' \in [Booking -> BookingStatus \cup {"ABSENT"}]
    PROVE  IntakeInv'
<1>1. UNCHANGED <<provider, intent, events, inserting, webhooks, confirming>>
  BY DEF BookingStep, intakeOnlyVars
<1>2. \A p \in Payment : \/ status'[p] = status[p] /\ paidFor'[p] = paidFor[p]
                         \/ /\ status[p] = "ABSENT" /\ status'[p] = "CAPTURED"
                            /\ intent[p] = "NONE" /\ paidFor'[p] \in Booking
  BY BookingStepPayments
<1>3. DOMAIN status' = Payment /\ paidFor' \in [Payment -> Booking \cup {NoBooking}]
  <2>1. \/ UNCHANGED <<status, paidFor>> \/ \E c \in calls : B!PayBooking(c)
    BY BookingSteps DEF IntakeInv, B!Create, BeginsOne, BeginsTaken, B!Begin,
           B!UpdateBooking, B!RecordBooking, B!CompleteBooking, B!MarkUpdate, QuietStep,
           B!paymentVars, B!bookingVars, B!bookingOnlyVars
  <2>2. \A c \in calls : c.booking \in Booking
    BY DEF BookingCallsTyped, B!Call
  <2>3. QED
    BY <2>1, <2>2 DEF B!PayBooking, IntakeInv, IntakeRowsTyped
<1>c. /\ \A c \in inserting : c.payment \in Payment
      /\ \A c \in confirming : c.payment \in Payment
  BY IntakeCalls DEF IntakeInv
<1>4. IntakeRowsTyped'
  BY <1>1, <1>3 DEF IntakeInv, IntakeRowsTyped
<1>5. RowsMissing'
  <2>1. \A p \in Payment : status'[p] = "ABSENT" =>
                              provider'[p] = "NONE" /\ paidFor'[p] = NoBooking
    BY <1>1, <1>2 DEF IntakeInv, RowsMissing
  <2>2. \A c \in inserting : status'[c.payment] = "ABSENT"
    BY <1>2, <1>c DEF IntakeInv, RowsMissing
  <2>3. QED
    BY <1>1, <2>1, <2>2 DEF IntakeInv, RowsMissing
<1>6. EventsTrue'
  BY <1>1 DEF IntakeInv, EventsTrue, Captures
<1>7. FawryTrue'
  BY <1>1, <1>2, <1>c DEF IntakeInv, FawryTrue
<1>8. QED
  BY <1>4, <1>5, <1>6, <1>7 DEF IntakeInv

\* So do the refunds.
LEMMA RefundKeepsIntake ==
    ASSUME IntakeInv, RefundRowsTyped, RefundsOfRows, RefundStep
    PROVE  IntakeInv'
<1>1. UNCHANGED <<booking, paidFor, provider, intent, events, inserting, webhooks, confirming>>
  BY DEF RefundStep, intakeOnlyVars, bookingVars
<1>2. \A p \in Payment : \/ status'[p] = status[p]
                         \/ status[p] # "ABSENT" /\ status'[p] \notin {"ABSENT", "CREATED", "CAPTURED"}
  BY RefundStepPayments DEF IntakeInv
<1>3. DOMAIN status' = Payment
  <2>1. UNCHANGED status \/ \E c \in settling : SettleCommit(c)
    BY DEF RefundStep, RefundNext, CreateLoad, CreateCheck, CreateInsert, SettleLoad,
           SettleOther, SettleSum, GiveUp
  <2>2. QED
    BY <2>1 DEF SettleCommit, IntakeInv, IntakeRowsTyped
<1>c. /\ \A c \in inserting : c.payment \in Payment
      /\ \A c \in confirming : c.payment \in Payment
  BY IntakeCalls DEF IntakeInv
<1>4. IntakeRowsTyped'
  BY <1>1, <1>3 DEF IntakeInv, IntakeRowsTyped
<1>5. RowsMissing'
  BY <1>1, <1>2, <1>c DEF IntakeInv, RowsMissing
<1>6. EventsTrue'
  BY <1>1 DEF IntakeInv, EventsTrue, Captures
<1>7. FawryTrue'
  BY <1>1, <1>2, <1>c DEF IntakeInv, FawryTrue
<1>8. QED
  BY <1>4, <1>5, <1>6, <1>7 DEF IntakeInv

\* The booking handlers keep the calls typed and what they will write taken.
LEMMA BookingStepCalls ==
    ASSUME NoAdmins, CheckoutInv, BookingStep
    PROVE  /\ BookingCallsTyped'
           /\ booking' \in [Booking -> BookingStatus \cup {"ABSENT"}]
           /\ CallsTaken'
           /\ ConfirmedHasPayment'
<1>t. /\ IntakeRowsTyped /\ BookingCallsTyped /\ CallsTaken /\ ConfirmedHasPayment
      /\ booking \in [Booking -> BookingStatus \cup {"ABSENT"}]
  BY DEF CheckoutInv, IntakeInv, IntakeRowsTyped
<1>k. \A b \in Booking : PaidOrClaimed(b) => PaidOrClaimed(b)'
  BY TakenStays DEF Next
<1>c. \A c \in calls : /\ c.booking \in Booking /\ c.to \in BookingStatus
                       /\ c \in B!Call
  BY <1>t DEF BookingCallsTyped, B!Call, B!BookingStatus, BookingStatus
<1>1. ASSUME NEW b \in Booking, B!Create(b)
      PROVE  /\ BookingCallsTyped'
             /\ booking' \in [Booking -> BookingStatus \cup {"ABSENT"}]
             /\ CallsTaken'
             /\ ConfirmedHasPayment'
  <2>1. /\ booking' = [booking EXCEPT ![b] = "DRAFT"]
        /\ UNCHANGED <<commission, calls, marking>>
    BY <1>1 DEF B!Create, B!bookingOnlyVars
  <2>2. booking' \in [Booking -> BookingStatus \cup {"ABSENT"}]
    BY <1>t, <2>1 DEF BookingStatus
  <2>3. \A a \in Booking : booking'[a] \in B!PaidStatus => booking[a] \in B!PaidStatus
    BY <1>t, <2>1 DEF B!PaidStatus
  <2>4. QED
    BY <1>t, <1>k, <1>c, <2>1, <2>2, <2>3 DEF BookingCallsTyped, CallsTaken, ConfirmedHasPayment
<1>2. ASSUME BeginsOne
      PROVE  /\ BookingCallsTyped'
             /\ booking' \in [Booking -> BookingStatus \cup {"ABSENT"}]
             /\ CallsTaken'
             /\ ConfirmedHasPayment'
  <2>1. PICK w \in Worker, write \in B!Write, b \in Booking, to \in BookingStatus,
             actor \in StaffRole \cup {"PARTNER", "NOBODY"} : BeginsTaken(w, write, b, to, actor)
    BY <1>2 DEF BeginsOne
  <2> DEFINE d == [by |-> w, write |-> write, booking |-> b,
                   from |-> booking[b], to |-> to, actor |-> actor]
  <2>2. /\ calls' = calls \cup {d}
        /\ UNCHANGED <<booking, commission, marking>>
    BY <2>1 DEF BeginsTaken, B!Begin, B!bookingVars
  <2>3. d.booking = b /\ d.write = write /\ d.to = to
    OBVIOUS
  <2>4. booking[b] # "ABSENT" => d \in B!Call
    BY <1>t DEF B!Call, B!BookingStatus, BookingStatus, B!StaffRole, StaffRole, B!Write
  <2>5. write # "pay" /\ to \in B!PaidStatus => PaidOrClaimed(b)
    BY <1>t, <2>1 DEF BeginsTaken, ConfirmedHasPayment
  <2>6. booking[b] # "ABSENT"
    BY <2>1 DEF BeginsTaken
  <2> HIDE DEF d
  <2>7. BookingCallsTyped'
    BY <1>t, <2>2, <2>4, <2>6 DEF BookingCallsTyped
  <2>8. CallsTaken'
    BY <1>t, <1>k, <1>c, <2>2, <2>3, <2>5 DEF CallsTaken
  <2>9. QED
    BY <1>t, <1>k, <2>2, <2>7, <2>8 DEF ConfirmedHasPayment
<1>3. ASSUME NEW c \in calls, B!UpdateBooking(c) \/ B!RecordBooking(c)
                              \/ B!PayBooking(c) \/ B!CompleteBooking(c)
      PROVE  /\ BookingCallsTyped'
             /\ booking' \in [Booking -> BookingStatus \cup {"ABSENT"}]
             /\ CallsTaken'
             /\ ConfirmedHasPayment'
  <2>1. /\ booking' = [booking EXCEPT ![c.booking] = c.to]
        /\ calls' = calls \ {c} /\ UNCHANGED marking
    BY <1>3 DEF B!UpdateBooking, B!RecordBooking, B!PayBooking, B!CompleteBooking
  <2>2. booking' \in [Booking -> BookingStatus \cup {"ABSENT"}]
    BY <1>t, <1>c, <2>1
  <2>3. c.to \in B!PaidStatus => PaidOrClaimed(c.booking)'
    <3>1. CASE c.write # "pay"
      BY <1>t, <1>k, <1>c, <3>1 DEF CallsTaken
    <3>2. CASE c.write = "pay"
      <4>1. B!PayBooking(c)
        BY <1>3, <3>2 DEF B!UpdateBooking, B!RecordBooking, B!CompleteBooking
      <4>2. PICK p \in Payment : /\ paidFor' = [paidFor EXCEPT ![p] = c.booking]
                                 /\ commission' = [commission EXCEPT ![p] = "PENDING"]
        BY <4>1 DEF B!PayBooking
      <4>3. paidFor'[p] = c.booking /\ commission'[p] # "NONE"
        BY <1>t, <4>2 DEF IntakeRowsTyped, BookingCallsTyped
      <4>4. QED
        BY <4>3 DEF PaidOrClaimed, Backed
    <3>3. QED
      BY <3>1, <3>2
  <2>4. CallsTaken'
    BY <1>t, <1>k, <1>c, <2>1 DEF CallsTaken
  <2>5. ConfirmedHasPayment'
    <3>1. ASSUME NEW b \in Booking, booking'[b] \in B!PaidStatus PROVE PaidOrClaimed(b)'
      <4>1. CASE b = c.booking
        BY <1>t, <1>c, <2>1, <2>3, <3>1, <4>1
      <4>2. CASE b # c.booking
        BY <1>t, <1>k, <2>1, <3>1, <4>2 DEF ConfirmedHasPayment
      <4>3. QED
        BY <4>1, <4>2
    <3>2. QED
      BY <3>1 DEF ConfirmedHasPayment
  <2>6. commission' \in [Payment -> {"NONE", "PENDING", "ELIGIBLE", "PAID"}]
    <3>1. CASE UNCHANGED commission
      BY <1>t, <3>1 DEF BookingCallsTyped
    <3>2. CASE ~UNCHANGED commission
      <4>1. B!PayBooking(c) \/ B!CompleteBooking(c)
        BY <1>3, <3>2 DEF B!UpdateBooking, B!RecordBooking
      <4>2. QED
        BY <1>t, <4>1 DEF B!PayBooking, B!CompleteBooking, BookingCallsTyped
    <3>3. QED
      BY <3>1, <3>2
  <2>7. BookingCallsTyped'
    BY <1>t, <2>1, <2>6 DEF BookingCallsTyped
  <2>8. QED
    BY <2>2, <2>4, <2>5, <2>7
<1>4. ASSUME NEW c \in marking, B!MarkUpdate(c)
      PROVE  /\ BookingCallsTyped'
             /\ booking' \in [Booking -> BookingStatus \cup {"ABSENT"}]
             /\ CallsTaken'
             /\ ConfirmedHasPayment'
  <2>1. /\ UNCHANGED <<booking, calls>> /\ marking' \subseteq marking
        /\ commission' = [commission EXCEPT ![c.payment] = c.to]
    BY <1>4 DEF B!MarkUpdate, B!bookingVars
  <2>2. c.to \in {"ELIGIBLE", "PAID"}
    BY <1>t DEF BookingCallsTyped
  <2>3. BookingCallsTyped'
    BY <1>t, <2>1, <2>2 DEF BookingCallsTyped
  <2>4. QED
    BY <1>t, <1>k, <1>c, <2>1, <2>3 DEF CallsTaken, ConfirmedHasPayment
<1>5. ASSUME QuietStep
      PROVE  /\ BookingCallsTyped'
             /\ booking' \in [Booking -> BookingStatus \cup {"ABSENT"}]
             /\ CallsTaken'
             /\ ConfirmedHasPayment'
  BY <1>5, <1>t, <1>k, <1>c DEF QuietStep, CallsTaken, ConfirmedHasPayment
<1>6. QED
  BY <1>1, <1>2, <1>3, <1>4, <1>5, <1>t, BookingSteps

LEMMA CheckoutInvInit == Init => CheckoutInv
<1> SUFFICES ASSUME Init PROVE CheckoutInv
  OBVIOUS
<1>1. /\ status = [p \in Payment |-> "ABSENT"]
      /\ paidFor = [p \in Payment |-> NoBooking]
      /\ booking = [b \in Booking |-> "ABSENT"]
      /\ provider = [p \in Payment |-> "NONE"] /\ intent = [p \in Payment |-> "NONE"]
      /\ events = {} /\ inserting = {} /\ webhooks = {} /\ confirming = {}
      /\ commission = [p \in Payment |-> "NONE"] /\ calls = {} /\ marking = {}
  BY DEF Init, IntakeOwnInit, B!OwnInit, EmptyPayments, EmptyBookings
<1>2. IntakeInv
  BY <1>1 DEF IntakeInv, IntakeRowsTyped, RowsMissing, EventsTrue, FawryTrue
<1>3. RefundInv
  BY RefundInvInit DEF Init
<1>4. RefundsOfRows
  BY DEF Init, RefundOwnInit, RefundsOfRows, Existing, NoRow
<1>5. BookingCallsTyped
  BY <1>1 DEF BookingCallsTyped
<1>6. CallsTaken /\ ConfirmedHasPayment
  BY <1>1 DEF CallsTaken, ConfirmedHasPayment, B!PaidStatus
<1>7. QED
  BY <1>2, <1>3, <1>4, <1>5, <1>6 DEF CheckoutInv

LEMMA CheckoutInvStep ==
    ASSUME OneClerk, NoAdmins, CheckoutInv, [Next]_vars
    PROVE  CheckoutInv'
<1>t. /\ IntakeInv /\ IntakeRowsTyped /\ RefundInv /\ RefundRowsTyped /\ RefundsOfRows
      /\ BookingCallsTyped /\ CallsTaken /\ ConfirmedHasPayment
  BY DEF CheckoutInv, IntakeInv, RefundInv
<1>k. \A b \in Booking : PaidOrClaimed(b) => PaidOrClaimed(b)'
  BY TakenStays
<1>p. /\ \A r \in Existing : refund[r].payment \in Payment
      /\ \A c \in creating : c.payment \in Payment
      /\ \A c \in calls : c.booking \in Booking
  BY <1>t, RowsKept, Created DEF RefundRow, BookingCallsTyped, B!Call
<1>1. CASE BookingStep
  <2>1. /\ BookingCallsTyped'
        /\ booking' \in [Booking -> BookingStatus \cup {"ABSENT"}]
        /\ CallsTaken'
        /\ ConfirmedHasPayment'
    BY <1>1, BookingStepCalls
  <2>2. IntakeInv'
    BY <1>1, <1>t, <2>1, BookingKeepsIntake
  <2>3. UNCHANGED refundOnlyVars
    BY <1>1 DEF BookingStep
  <2>4. RefundInv'
    BY <1>t, <2>3, RefundInvSame
  <2>5. \A p \in Payment : status[p] # "ABSENT" => status'[p] # "ABSENT"
    BY <1>1, <1>t, BookingStepPayments
  <2>6. RefundsOfRows'
    BY <1>t, <1>p, <2>3, <2>5 DEF refundOnlyVars, RefundsOfRows, Existing
  <2>7. QED
    BY <2>1, <2>2, <2>4, <2>6 DEF CheckoutInv
<1>2. CASE IntakeStep
  <2>1. IntakeNext /\ UNCHANGED <<bookingOnlyVars, refundOnlyVars>>
    BY <1>2 DEF IntakeStep
  <2>2. IntakeInv'
    BY <1>t, <2>1, IntakeInvStep
  <2>3. RefundInv'
    BY <1>t, <2>1, RefundInvSame
  <2>4. \A p \in Payment : status[p] # "ABSENT" => status'[p] # "ABSENT"
    BY <1>t, <2>1, IntakeKeepsRows
  <2>5. RefundsOfRows'
    BY <1>t, <1>p, <2>1, <2>4 DEF refundOnlyVars, RefundsOfRows, Existing
  <2>6. BookingCallsTyped' /\ calls' = calls
    BY <1>t, <2>1 DEF bookingOnlyVars, BookingCallsTyped
  <2>7. CallsTaken'
    BY <1>t, <1>k, <1>p, <2>6 DEF CallsTaken
  <2>8. ASSUME NEW b \in Booking, booking'[b] \in B!PaidStatus PROVE PaidOrClaimed(b)'
    <3>1. CASE booking'[b] = booking[b]
      BY <1>t, <1>k, <2>8, <3>1 DEF ConfirmedHasPayment
    <3>2. CASE booking'[b] # booking[b]
      <4>1. \E p \in Payment : paidFor[p] = b /\ Backed(p)
        BY <1>t, <2>1, <3>2, ConfirmedStep
      <4>2. QED
        BY <1>k, <4>1 DEF PaidOrClaimed, Backed
    <3>3. QED
      BY <3>1, <3>2
  <2>9. QED
    BY <2>2, <2>3, <2>5, <2>6, <2>7, <2>8 DEF CheckoutInv, ConfirmedHasPayment
<1>3. CASE RefundStep
  <2>1. RefundNext /\ UNCHANGED <<bookingVars, bookingOnlyVars, intakeOnlyVars>>
    BY <1>3 DEF RefundStep
  <2>2. IntakeInv'
    BY <1>3, <1>t, RefundKeepsIntake
  <2>3. RefundInv'
    BY <1>t, <2>1, RefundInvStep
  <2>4. RefundsOfRows'
    BY <1>3, <1>t, RefundsOfRowsStep
  <2>5. BookingCallsTyped' /\ calls' = calls /\ booking' = booking
    BY <1>t, <2>1 DEF bookingOnlyVars, bookingVars, BookingCallsTyped
  <2>6. CallsTaken' /\ ConfirmedHasPayment'
    BY <1>t, <1>k, <1>p, <2>5 DEF CallsTaken, ConfirmedHasPayment
  <2>7. QED
    BY <2>2, <2>3, <2>4, <2>5, <2>6 DEF CheckoutInv
<1>4. CASE UNCHANGED vars
  <2>1. UNCHANGED <<status, booking, paidFor, provider, intent, events, inserting, webhooks,
                    confirming, commission, calls, marking, refund, creating, settling>>
    BY <1>4 DEF vars, bookingOnlyVars, intakeOnlyVars, refundOnlyVars
  <2>2. RefundInv'
    BY <1>t, <2>1, RefundInvSame DEF refundOnlyVars
  <2>3. IntakeInv'
    BY <1>t, <2>1
       DEF IntakeInv, IntakeRowsTyped, RowsMissing, EventsTrue, FawryTrue, Captures
  <2>4. RefundsOfRows' /\ BookingCallsTyped'
    BY <1>t, <2>1 DEF RefundsOfRows, Existing, BookingCallsTyped
  <2>5. CallsTaken' /\ ConfirmedHasPayment'
    BY <1>t, <1>k, <1>p, <2>1 DEF CallsTaken, ConfirmedHasPayment
  <2>6. QED
    BY <2>2, <2>3, <2>4, <2>5 DEF CheckoutInv
<1>5. QED
  BY <1>1, <1>2, <1>3, <1>4 DEF Next

\* With one clerk, and where staff do not let bookings pass by hand, every
\* booking from CONFIRMING on has a payment that Stripe took, a caller claimed
\* for Fawry or submitPayment recorded, and the refunds of a payment stay
\* within it as RefundsWithinPayment says, however the
\* steps of booking handlers, provider callbacks and refunds interleave and
\* whatever the one writes over the status that the other wrote.
THEOREM MoneyIsAccounted ==
    ASSUME OneClerk, NoAdmins
    PROVE  Spec => []MoneyAccounted
<1>1. CheckoutInv /\ [Next]_vars => CheckoutInv'
  BY CheckoutInvStep
<1>2. CheckoutInv => MoneyAccounted
  BY DEF CheckoutInv, RefundInv, MoneyAccounted
<1>3. QED
  BY CheckoutInvInit, <1>1, <1>2, PTL DEF Spec
=============================================================================
