-------------------------------- MODULE Trips ---------------------------------
(***************************************************************************)
(* Trips and the versions of their itinerary: the traveller plans, asks    *)
(* for approval, and staff approve or reject (TripsService, the customer   *)
(* controller, and the draft that the assistant THOTH creates).            *)
(*                                                                         *)
(* A handler reads the trip, checks its status, and writes later without   *)
(* looking again.  Adding items takes up to five statements and replacing  *)
(* an itinerary four, none of them in a transaction; a call in progress is *)
(* a record of what it does next and of what it has read so far.  A query  *)
(* with its included rows is one step, and so is a transaction of two      *)
(* updates, which all lock the trip first.                                 *)
(***************************************************************************)
EXTENDS Integers, Sequences, FiniteSets, Functions

CONSTANTS
    Trip,           \* ids of the trips that can be created (a bound)
    Item,           \* ids of the items that can be inserted (a bound)
    Estimate,       \* Estimate[x]: estimated_minor of item x, of either sign
    Details,        \* values of what update changes: title, dates, budget
    Worker,         \* the calls that can be in progress at one time
    MaxVersion      \* bound: versions of one itinerary

ASSUME TripsAssumption ==
    /\ IsFiniteSet(Item)
    /\ Estimate \in [Item -> Int]
    /\ MaxVersion \in Nat

VARIABLES
    trip,           \* trips.status, "ABSENT" before the insert
    details,        \* the columns update writes
    versions,       \* per trip its itineraries; the position is the version
    calls,          \* the calls in progress
    disturbed       \* whether calls have overlapped or one has failed

tripVars == <<trip, details, versions>>
vars == <<trip, details, versions, calls, disturbed>>

-----------------------------------------------------------------------------
\* The part of the enum TripStatus that is ever written.
TripStatus == {"DRAFT", "PLANNING", "READY", "ACTIVE", "APPROVED"}

\* TRIP_TRANSITIONS, without the targets no handler asks for.
TripTransitions(from) ==
    CASE from = "DRAFT"    -> {"PLANNING"}
      [] from = "PLANNING" -> {"READY"}
      [] from = "READY"    -> {"ACTIVE", "PLANNING"}
      [] OTHER             -> {}

\* An itinerary row and its items.
Itinerary == [status : {"DRAFT", "PROPOSED", "APPROVED"}, items : SUBSET Item,
              total : Int]

Open == {"DRAFT", "PLANNING"}

\* What a call does next.
Todo == {"UPDATE", "PLAN", "FIND", "ADD", "FIND_LAST", "CREATE", "SUM", "TOTAL",
         "PROPOSE", "APPROVE", "REJECT", "CONFIRM"}

\* `version` is the version a call works on, `total` the sum it has read.
Call == [by : Worker, next : Todo, trip : Trip, version : Nat,
         items : SUBSET Item, total : Int, details : Details]

Total(xs) == SumFunctionOnSet(Estimate, xs)

Latest(t) == Len(versions[t])

\* Items that no row and no call has: the ids of new rows.
Fresh == {x \in Item : /\ \A t \in Trip : \A v \in 1..Latest(t) :
                              x \notin versions[t][v].items
                       /\ \A c \in calls : x \notin c.items}

Init ==
    /\ trip = [t \in Trip |-> "ABSENT"]
    /\ details \in [Trip -> Details]
    /\ versions = [t \in Trip |-> << >>]
    /\ calls = {}
    /\ disturbed = FALSE

-----------------------------------------------------------------------------
(* Reads and checks.                                                       *)

\* Worker w has read trip t and its check has passed.
Begin(w, next, t, v, xs, d) ==
    /\ \A c \in calls : c.by # w
    /\ calls' = calls \cup {[by |-> w, next |-> next, trip |-> t, version |-> v,
                             items |-> xs, total |-> 0, details |-> d]}
    /\ disturbed' = (disturbed \/ calls # {})
    /\ UNCHANGED tripVars

\* create, by the traveller or by THOTH's tool: one insert.
Create(t) ==
    /\ trip[t] = "ABSENT"
    /\ trip' = [trip EXCEPT ![t] = "DRAFT"]
    /\ UNCHANGED <<details, versions, calls, disturbed>>

\* Mutant: the lock on trips that are no longer planned is forgotten.
BugUpdateAnyTime(w, t, d) ==
    /\ trip[t] # "ABSENT"
    /\ Begin(w, "UPDATE", t, 0, {}, d)

Update(w, t, d) ==
    /\ trip[t] \in Open
    /\ Begin(w, "UPDATE", t, 0, {}, d)

AddItems(w, t, xs) ==
    /\ trip[t] \in Open
    /\ xs \subseteq Fresh
    /\ Begin(w, IF trip[t] = "DRAFT" THEN "PLAN" ELSE "FIND", t, 0, xs, details[t])

\* Mutant: a proposed itinerary can be replaced.
BugReplaceReady(w, t, xs) ==
    /\ trip[t] \in Open \cup {"READY"}
    /\ xs \subseteq Fresh
    /\ Begin(w, "FIND_LAST", t, 0, xs, details[t])

Replace(w, t, xs) ==
    /\ trip[t] \in Open
    /\ xs \subseteq Fresh
    /\ Begin(w, "FIND_LAST", t, 0, xs, details[t])

\* requestApproval: the trip with its latest itinerary, which has items.
RequestApproval(w, t) ==
    /\ "READY" \in TripTransitions(trip[t])
    /\ Latest(t) > 0
    /\ versions[t][Latest(t)].items # {}
    /\ Begin(w, "PROPOSE", t, Latest(t), {}, details[t])

\* approve: the trip with its latest itinerary, which is proposed.
Approve(w, t) ==
    /\ "ACTIVE" \in TripTransitions(trip[t])
    /\ Latest(t) > 0
    /\ versions[t][Latest(t)].status = "PROPOSED"
    /\ Begin(w, "APPROVE", t, Latest(t), {}, details[t])

\* reject: the trip with its latest itinerary, if it has one.
Reject(w, t) ==
    /\ "PLANNING" \in TripTransitions(trip[t])
    /\ Begin(w, "REJECT", t, Latest(t), {}, details[t])

\* The customer's approve.
CustomerApprove(w, t) ==
    /\ trip[t] = "DRAFT"
    /\ Begin(w, "CONFIRM", t, 0, {}, details[t])

-----------------------------------------------------------------------------
(* What a call does next.                                                  *)

Continue(c, next, v, total) ==
    /\ calls' = (calls \ {c})
                  \cup {[c EXCEPT !.next = next, !.version = v, !.total = total]}
    /\ UNCHANGED disturbed

End(c) ==
    /\ calls' = calls \ {c}
    /\ UNCHANGED disturbed

WriteDetails(c) ==
    /\ c.next = "UPDATE"
    /\ details' = [details EXCEPT ![c.trip] = c.details]
    /\ End(c)
    /\ UNCHANGED <<trip, versions>>

\* addItineraryItems: a DRAFT becomes PLANNING ...
Plan(c) ==
    /\ c.next = "PLAN"
    /\ trip' = [trip EXCEPT ![c.trip] = "PLANNING"]
    /\ Continue(c, "FIND", 0, 0)
    /\ UNCHANGED <<details, versions>>

\* ... the latest itinerary is looked up, and the first version is created
\* when there is none ...
Find(c) ==
    /\ c.next = "FIND"
    /\ IF Latest(c.trip) = 0 THEN Continue(c, "CREATE", 1, 0)
                             ELSE Continue(c, "ADD", Latest(c.trip), 0)
    /\ UNCHANGED tripVars

\* ... or the items are inserted for the version that was found.
AddToVersion(c) ==
    /\ c.next = "ADD"
    /\ versions' = [versions EXCEPT ![c.trip][c.version].items = @ \cup c.items]
    /\ Continue(c, "SUM", c.version, 0)
    /\ UNCHANGED <<trip, details>>

\* replaceItinerary: the latest version is looked up ...
FindLast(c) ==
    /\ c.next = "FIND_LAST"
    /\ Continue(c, "CREATE", Latest(c.trip) + 1, 0)
    /\ UNCHANGED tripVars

\* ... and the next one is created with its items; trip and version are
\* unique together, so that the insert fails if it exists by now.
CreateVersion(c) ==
    /\ c.next = "CREATE"
    /\ Latest(c.trip) = c.version - 1 /\ c.version <= MaxVersion
    /\ versions' = [versions EXCEPT ![c.trip] = Append(@,
           [status |-> "DRAFT", items |-> c.items, total |-> 0])]
    /\ Continue(c, "SUM", c.version, 0)
    /\ UNCHANGED <<trip, details>>

\* recalcAndReturn: the items are read and summed ...
Sum(c) ==
    /\ c.next = "SUM"
    /\ Continue(c, "TOTAL", c.version, Total(versions[c.trip][c.version].items))
    /\ UNCHANGED tripVars

\* Mutant: the sum is added to the total.
BugAddTotal(c) ==
    /\ c.next = "TOTAL"
    /\ versions' = [versions EXCEPT ![c.trip][c.version].total = @ + c.total]
    /\ End(c)
    /\ UNCHANGED <<trip, details>>

\* ... and the total is written.
WriteTotal(c) ==
    /\ c.next = "TOTAL"
    /\ versions' = [versions EXCEPT ![c.trip][c.version].total = c.total]
    /\ End(c)
    /\ UNCHANGED <<trip, details>>

\* The transaction of requestApproval, approve and reject: the status of the
\* trip and of the itinerary that was read, if there was one.
SignOff(c, next, tripStatus, itineraryStatus) ==
    /\ c.next = next
    /\ trip' = [trip EXCEPT ![c.trip] = tripStatus]
    /\ versions' = IF c.version = 0 THEN versions
                   ELSE [versions EXCEPT ![c.trip][c.version].status = itineraryStatus]
    /\ End(c)
    /\ UNCHANGED details

\* Mutant: only the itinerary is taken back.
BugRejectItineraryOnly(c) ==
    /\ c.next = "REJECT"
    /\ versions' = IF c.version = 0 THEN versions
                   ELSE [versions EXCEPT ![c.trip][c.version].status = "DRAFT"]
    /\ End(c)
    /\ UNCHANGED <<trip, details>>

WriteProposal(c) == SignOff(c, "PROPOSE", "READY", "PROPOSED")
WriteApproval(c) == SignOff(c, "APPROVE", "ACTIVE", "APPROVED")
WriteRejection(c) == SignOff(c, "REJECT", "PLANNING", "DRAFT")

WriteCustomerApproval(c) ==
    /\ c.next = "CONFIRM"
    /\ trip' = [trip EXCEPT ![c.trip] = "APPROVED"]
    /\ End(c)
    /\ UNCHANGED <<details, versions>>

\* A call fails before its next statement; what it wrote stays.
Die(c) ==
    /\ calls' = calls \ {c}
    /\ disturbed' = TRUE
    /\ UNCHANGED tripVars

Next ==
    \/ \E t \in Trip : Create(t)
    \/ \E w \in Worker, t \in Trip :
          \/ \E d \in Details : Update(w, t, d)
          \/ \E xs \in SUBSET Item : AddItems(w, t, xs) \/ Replace(w, t, xs)
          \/ RequestApproval(w, t) \/ Approve(w, t) \/ Reject(w, t)
          \/ CustomerApprove(w, t)
    \/ \E c \in calls :
          \/ WriteDetails(c) \/ Plan(c) \/ Find(c) \/ AddToVersion(c)
          \/ FindLast(c) \/ CreateVersion(c) \/ Sum(c) \/ WriteTotal(c)
          \/ WriteProposal(c) \/ WriteApproval(c) \/ WriteRejection(c)
          \/ WriteCustomerApproval(c) \/ Die(c)

Spec == Init /\ [][Next]_vars

-----------------------------------------------------------------------------
(* Properties.                                                             *)

\* Types of the variables; a call that goes on with a version found it.
TypeOK ==
    /\ trip \in [Trip -> TripStatus \cup {"ABSENT"}]
    /\ details \in [Trip -> Details]
    /\ versions \in [Trip -> Seq(Itinerary)]
    /\ calls \subseteq Call
    /\ disturbed \in BOOLEAN
    /\ \A c \in calls :
          /\ c.next \in {"ADD", "SUM", "TOTAL", "PROPOSE", "APPROVE"} =>
                 c.version \in 1..Latest(c.trip)
          /\ c.next = "REJECT" => c.version \in 0..Latest(c.trip)

\* An active trip has an approved itinerary, and what was proposed or
\* approved has items, however approvals, rejections, proposals and new
\* versions overlap.
ActiveIsApproved ==
    \A t \in Trip :
        /\ trip[t] = "ACTIVE" =>
              \E v \in 1..Latest(t) : versions[t][v].status = "APPROVED"
        /\ \A v \in 1..Latest(t) :
              versions[t][v].status # "DRAFT" => versions[t][v].items # {}

\* The total is the sum of some of the items xs, of none if it is zero.
SumOfSome(total, xs) == \E ys \in SUBSET xs : total = Total(ys)

\* Overlapping or failed calls can leave the estimate of an itinerary behind
\* its items: it is then the sum of some of them, of either sign, but never
\* counts an item twice or one that the itinerary has not.
EstimateWithinItems ==
    \A t \in Trip : \A v \in 1..Latest(t) :
        SumOfSome(versions[t][v].total, versions[t][v].items)

\* Unless calls overlap or fail, the estimate is the sum of the items
\* whenever no call is in progress.
EstimateIsSum ==
    ~disturbed /\ calls = {} =>
        \A t \in Trip : \A v \in 1..Latest(t) :
            versions[t][v].total = Total(versions[t][v].items)

\* The estimates customers see, whatever overlaps or fails.
EstimatesHold == EstimateWithinItems /\ EstimateIsSum

\* Unless calls overlap or fail, the approval gate is about the newest version: a
\* trip waits for approval exactly while that version is proposed, is active
\* exactly while it is approved, and every older version is a draft.
GateOnNewest ==
    ~disturbed => \A t \in Trip : \A v \in 1..Latest(t) :
        /\ versions[t][v].status = "PROPOSED" <=> trip[t] = "READY" /\ v = Latest(t)
        /\ versions[t][v].status = "APPROVED" <=> trip[t] = "ACTIVE" /\ v = Latest(t)

\* What a trip offers for approval: its details and, version by version, the
\* items and their estimate.
Content(t) == <<details[t], [v \in 1..Latest(t) |->
                             <<versions[t][v].items, versions[t][v].total>>]>>
Frozen ==
    \A t \in Trip : ~disturbed' /\ trip[t] \in {"READY", "ACTIVE", "APPROVED"} =>
        Content(t)' = Content(t)

\* Unless calls overlap or fail, what was sent for approval stays as it is,
\* as the locks of update, addItineraryItems and replaceItinerary intend.
SentIsFrozen == [][Frozen]_vars
=============================================================================
