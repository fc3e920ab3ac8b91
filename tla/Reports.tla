------------------------------ MODULE Reports ------------------------------
(***************************************************************************)
(* What the books say.  The rows that bookings, payments and commissions   *)
(* leave behind are summed by reports written apart from one another: the  *)
(* administrators' summary, the tax filing of a month, the analytics, the  *)
(* partner's summary, earnings and dashboard.  A sale is a booking with    *)
(* its payment and its commission entry; the entry refers to a rule that   *)
(* staff may delete as long as it has none.                                *)
(***************************************************************************)
EXTENDS Integers, Functions

CONSTANTS
    Sale,           \* bookings
    Amount,         \* amounts, in minor units, of either sign
    MonthDays,      \* days of a month
    Months,         \* months that are filed (a bound)
    Day,            \* days of sales, counted from the first of month 1
    NoRow

VARIABLES
    sale,           \* sale[s]: what the tables say of a booking, or NoRow
    rulePresent,    \* the commission rule exists
    deletingRule    \* a deletion has counted no entries of the rule

reportVars == <<sale, rulePresent, deletingRule>>

-----------------------------------------------------------------------------
\* Statuses that the reports tell apart, and one for the others.
PaymentStatus == {"CAPTURED", "SETTLED", "PARTIALLY_REFUNDED", "OTHER"}
EntryStatus == {"PENDING", "PAID", "REVERSED"}

\* What the partner's reports tell apart of a booking: CANCELLED, with asked
\* for and rejected, FAILED, and the rest.  One that failed may be paid and
\* have its entry: both are written before it is CONFIRMING.
BookingStatus == {"LIVE", "CANCELLED", "FAILED"}
SaleRow ==
    [day : Day, total : Amount, payment : PaymentStatus,
     booking : BookingStatus, commission : EntryStatus \cup {"NONE"}]

\* Math.round(minor * bps / 10000)
RoundedBps(minor, bps) == (minor * bps + 5000) \div 10000

\* computeCommission: ten per cent of the booking.
CommissionOf(s) == IF sale[s].commission = "NONE" THEN 0 ELSE RoundedBps(sale[s].total, 1000)

Sales == {s \in Sale : sale[s] # NoRow}
Total(S) == SumFunction([s \in S |-> sale[s].total])
Commission(S) == SumFunction([s \in S |-> CommissionOf(s)])
Paid(S, statuses) == {s \in S : sale[s].payment \in statuses}

\* adminSummary; its totals by provider, tax and refunds are left out.
AdminSummary ==
    [gross      |-> Total(Sales),
     captured   |-> Total(Paid(Sales, {"CAPTURED", "SETTLED", "PARTIALLY_REFUNDED"})),
     byStatus   |-> [p \in PaymentStatus |-> Total(Paid(Sales, {p}))]]

\* taxFiling: the payments of a month; the range ends when the last day of
\* the month begins.  The refunds it takes off are left out.
FiledDays(month) == (month - 1) * MonthDays + 1 .. month * MonthDays - 1
Filed(month) == {s \in Paid(Sales, {"CAPTURED"}) : sale[s].day \in FiledDays(month)}

\* overview of the analytics, by day; stats of the partner's dashboard.
RevenueByDay == [d \in Day |-> Total({s \in Paid(Sales, {"CAPTURED", "SETTLED"}) : sale[s].day = d})]
DashboardRevenue == Total(Paid(Sales, {"CAPTURED", "SETTLED"}))

\* commissionPayout sums every entry, reversed ones too.
CommissionPayout == Commission(Sales)

\* The partner's summary: bookings that were not called off, and what their
\* entries that were not reversed take from them.
InBooking(statuses) == {s \in Sales : sale[s].booking \in statuses}
PartnerSummary ==
    LET own == Sales \ InBooking({"CANCELLED", "FAILED"})
        entries == {s \in own : sale[s].commission # "REVERSED"}
    IN  [gross |-> Total(own), commission |-> Commission(entries), net |-> Total(own) - Commission(entries),
         byStatus |-> [e \in EntryStatus |-> Commission({s \in entries : sale[s].commission = e})]]

\* Mutant: a commission that was reversed is taken from the line.
BugEarningsLine(s) == sale[s].total - CommissionOf(s)

\* The earnings report: one line per booking.
EarningsLine(s) == sale[s].total - IF sale[s].commission = "REVERSED" THEN 0 ELSE CommissionOf(s)
EarningsReport == [s \in Sales \ InBooking({"CANCELLED", "FAILED"}) |-> EarningsLine(s)]

\* The partner's reports of bookings and of cancellations, and the gross of
\* its analytics.
BookingsReport == Sales
CancellationsReport == InBooking({"CANCELLED"})
OverviewGross == Total(Sales) - Total(InBooking({"CANCELLED", "FAILED"}))

-----------------------------------------------------------------------------
TypeOK ==
    /\ sale \in [Sale -> SaleRow \cup {NoRow}]
    /\ {rulePresent, deletingRule} \subseteq BOOLEAN

Init ==
    /\ sale = [s \in Sale |-> NoRow]
    /\ rulePresent = FALSE
    /\ deletingRule = FALSE

\* What the other components leave in the tables for a booking.  An entry
\* refers to a rule, and the database refuses one whose rule is gone.
Book(s, r) ==
    /\ sale[s] = NoRow
    /\ r.commission # "NONE" => rulePresent
    /\ sale' = [sale EXCEPT ![s] = r]
    /\ UNCHANGED <<rulePresent, deletingRule>>

CreateRule ==
    /\ ~rulePresent
    /\ rulePresent' = TRUE
    /\ UNCHANGED <<sale, deletingRule>>

\* deleteRule counts the entries of the rule, then deletes it; the reference
\* of an entry that was made meanwhile makes the deletion fail.
CountEntries ==
    /\ rulePresent
    /\ \A s \in Sales : sale[s].commission = "NONE"
    /\ deletingRule' = TRUE
    /\ UNCHANGED <<sale, rulePresent>>

DeleteRule ==
    /\ deletingRule
    /\ deletingRule' = FALSE
    /\ rulePresent' = (rulePresent /\ \E s \in Sales : sale[s].commission # "NONE")
    /\ UNCHANGED sale

Next ==
    \/ \E s \in Sale, r \in SaleRow : Book(s, r)
    \/ CreateRule
    \/ CountEntries
    \/ DeleteRule

Spec == Init /\ [][Next]_reportVars

-----------------------------------------------------------------------------
OnlyPaidOut == {s \in Sales : sale[s].booking # "LIVE" \/ sale[s].commission = "REVERSED"}

\* Reports written apart agree: the summary's totals by status make
\* its gross; the partner's net is what the lines of the
\* earnings report add up to, and its commission what the entries add up to
\* by status; its analytics have the summary's gross; a booking is a line of
\* the earnings or of the cancellations, unless it failed; the dashboard's
\* revenue is the sum of the analytics' days, and what the administrators see
\* as captured beyond it was refunded in part; what is paid out beyond the
\* partner's commission is of bookings called off or failed, or reversed; and
\* entries that are paid out have their rule.
ReportsAgree ==
    /\ SumFunction(AdminSummary.byStatus) = AdminSummary.gross
    /\ SumFunction(EarningsReport) = PartnerSummary.net
    /\ OverviewGross = PartnerSummary.gross
    /\ BookingsReport \ InBooking({"FAILED"}) = DOMAIN EarningsReport \cup CancellationsReport
    /\ DOMAIN EarningsReport \cap CancellationsReport = {}
    /\ SumFunction(PartnerSummary.byStatus) = PartnerSummary.commission
    /\ SumFunction(RevenueByDay) = DashboardRevenue
    /\ AdminSummary.captured = DashboardRevenue + Total(Paid(Sales, {"PARTIALLY_REFUNDED"}))
    /\ CommissionPayout = PartnerSummary.commission + Commission(OnlyPaidOut)
    /\ CommissionPayout # 0 => rulePresent

\* A captured payment is filed in no month but its own, and in that one if it
\* was made before the month's last day.  (One of the last day is in no
\* filing, though the comment "last day" of the code means to include it.)
Month(day) == (day - 1) \div MonthDays + 1
FiledOnce ==
    \A s \in Paid(Sales, {"CAPTURED"}) :
        /\ \A m \in 1..Months : s \in Filed(m) => m = Month(sale[s].day)
        /\ sale[s].day % MonthDays # 0 => s \in Filed(Month(sale[s].day))
=============================================================================
