---------------------------- MODULE Settlements -----------------------------
(***************************************************************************)
(* Settlements of partners for periods, and their totals, which take six   *)
(* queries while approvals and payments go on.                             *)
(***************************************************************************)
EXTENDS Integers, FiniteSets, Functions

CONSTANTS
    Partner,        \* partners
    Period,         \* periods of settlements
    Net,            \* net amounts
    NoSettlement

VARIABLES
    settlement,     \* settlement[<<partner, period>>]: its row, or NoSettlement
    stats,          \* the totals as far as they are read
    moved           \* ghost: settlements changed while the totals were read

settlementVars == <<settlement, stats, moved>>

-----------------------------------------------------------------------------
Status == {"OPEN", "APPROVED", "PAID"}
Key == Partner \X Period

Having(statuses) == {k \in Key : settlement[k] # NoSettlement /\ settlement[k].status \in statuses}
NetOf(statuses) == SumFunction([k \in Having(statuses) |-> settlement[k].net])

TypeOK ==
    /\ settlement \in [Key -> [net : Net, status : Status] \cup {NoSettlement}]
    /\ DOMAIN stats \in SUBSET {"total", "open", "approved", "paid", "pendingSum", "paidSum"}
    /\ moved \in BOOLEAN

Init ==
    /\ settlement = [k \in Key |-> NoSettlement]
    /\ stats = << >>
    /\ moved = FALSE

-----------------------------------------------------------------------------
Set(k, r) ==
    /\ settlement' = [settlement EXCEPT ![k] = r]
    /\ moved' = (moved \/ DOMAIN stats # {})
    /\ UNCHANGED stats

\* A partner has one settlement for a period.
CreateSettlement(k, net) == settlement[k] = NoSettlement /\ Set(k, [net |-> net, status |-> "OPEN"])

\* approve and pay look at no status: either may come first, or again.
ApproveSettlement(k) == settlement[k] # NoSettlement /\ Set(k, [settlement[k] EXCEPT !.status = "APPROVED"])
PaySettlement(k) == settlement[k] # NoSettlement /\ Set(k, [settlement[k] EXCEPT !.status = "PAID"])

\* settlementsStats: six queries, one after the other, and what each would
\* answer now.
Queries == <<"total", "open", "approved", "paid", "pendingSum", "paidSum">>
Count(statuses) == Cardinality(Having(statuses))
Answers ==
    [total |-> Count(Status), open |-> Count({"OPEN"}), approved |-> Count({"APPROVED"}),
     paid |-> Count({"PAID"}), pendingSum |-> NetOf({"OPEN", "APPROVED"}), paidSum |-> NetOf({"PAID"})]

ReadStats ==
    /\ \E n \in DOMAIN Queries :
          /\ DOMAIN stats = {Queries[i] : i \in 1 .. n - 1}
          /\ stats' = [q \in DOMAIN stats \cup {Queries[n]} |->
                          IF q \in DOMAIN stats THEN stats[q] ELSE Answers[q]]
    /\ UNCHANGED <<settlement, moved>>

\* The answer is sent; the next totals start from nothing.
StatsShown ==
    /\ "paidSum" \in DOMAIN stats
    /\ stats' = << >>
    /\ moved' = FALSE
    /\ UNCHANGED settlement

Next ==
    \/ \E k \in Key, net \in Net : CreateSettlement(k, net)
    \/ \E k \in Key : ApproveSettlement(k)
    \/ \E k \in Key : PaySettlement(k)
    \/ ReadStats
    \/ StatsShown

Spec == Init /\ [][Next]_settlementVars

-----------------------------------------------------------------------------
\* Totals that were read while no settlement changed add up, in money and in
\* number, to the settlements there are.
TotalsAddUp ==
    "paidSum" \in DOMAIN stats /\ ~moved =>
        /\ stats.pendingSum + stats.paidSum = NetOf(Status)
        /\ stats.open + stats.approved + stats.paid = stats.total
=============================================================================
