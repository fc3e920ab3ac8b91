-------------------------------- MODULE Rides --------------------------------
(***************************************************************************)
(* Rides and their drivers: the customer's request and cancel, the         *)
(* driver's accept, decline, cancel and the four stages of a ride, the     *)
(* report of an incident, the driver's own status and verification, and    *)
(* what administrators and partners set on a driver.                       *)
(*                                                                         *)
(* A handler reads the ride (accept reads the driver first), checks what   *)
(* it read, and writes in a later transaction without looking again.  A    *)
(* call in progress is a record that says what it does next.  A call       *)
(* whose check fails changes nothing and is not a step.                    *)
(***************************************************************************)
EXTENDS Naturals, Sequences

CONSTANTS
    Ride, Driver,
    NoRide, NoDriver,   \* in a call or a row that names none
    Worker,             \* the calls that can be in progress at one time
    StaffStatus,        \* what administrators and partners set a driver to
    MaxEvents           \* bound: events per ride

DriverStatus == {"OFFLINE", "ONLINE", "BUSY", "SUSPENDED"}

ASSUME RidesAssumption ==
    /\ MaxEvents \in Nat
    /\ NoRide \notin Ride /\ NoDriver \notin Driver
    /\ StaffStatus \subseteq DriverStatus

VARIABLES
    ride,           \* status of a ride, or "ABSENT"
    assigned,       \* driverId of a ride, or NoDriver
    events,         \* the RideEvent rows of a ride that go with its status,
                    \* oldest first
    notes,          \* its other RideEvent rows, without their order
    incidents,      \* rides with a RideIncident row
    driverStatus,
    verification,   \* verificationStatus of a driver
    calls           \* the calls in progress

rideVars == <<ride, assigned, events, notes, incidents>>
driverVars == <<driverStatus, verification>>
vars == <<ride, assigned, events, notes, incidents, driverStatus, verification,
          calls>>

-----------------------------------------------------------------------------
RideStatus == {"REQUESTED", "MATCHING", "DRIVER_ASSIGNED", "DRIVER_ARRIVING",
               "DRIVER_ARRIVED", "IN_PROGRESS", "COMPLETED", "CANCELLED",
               "INCIDENT"}

\* REJECTED exists as well, but nothing writes it to a driver.
Verification == {"UNVERIFIED", "PENDING", "VERIFIED"}

Waiting == {"REQUESTED", "MATCHING"}

\* The stages a driver takes a ride through: expected status, status
\* written, event recorded.
Stage == {<<"DRIVER_ASSIGNED", "DRIVER_ARRIVING", "DRIVER_ARRIVING">>,
          <<"DRIVER_ARRIVING", "DRIVER_ARRIVED", "DRIVER_ARRIVED">>,
          <<"DRIVER_ARRIVED", "IN_PROGRESS", "RIDE_STARTED">>,
          <<"IN_PROGRESS", "COMPLETED", "RIDE_COMPLETED">>}

StageEvent == {s[3] : s \in Stage}

EventType == StageEvent \cup {"DRIVER_ASSIGNED", "DRIVER_CANCELLED"}

Event == [type : EventType, by : Driver]

NoteType == {"DRIVER_DECLINED", "INCIDENT_REPORTED"}

\* What a call does next: the event types stand for the write that records
\* them, the others for the steps that record none.
Todo == EventType \cup NoteType \cup
    {"READ_RIDE", "WITHDRAW", "GO_ONLINE", "SUBMIT", "FILE_INCIDENT",
     "MARK_INCIDENT"}

Call == [by : Worker, next : Todo, ride : Ride \cup {NoRide},
         driver : Driver \cup {NoDriver}]

Init ==
    /\ ride = [r \in Ride |-> "ABSENT"]
    /\ assigned = [r \in Ride |-> NoDriver]
    /\ events = [r \in Ride |-> << >>]
    /\ notes = {}
    /\ incidents = {}
    /\ driverStatus = [d \in Driver |-> "OFFLINE"]
    /\ verification = [d \in Driver |-> "UNVERIFIED"]
    /\ calls = {}

-----------------------------------------------------------------------------
(* Reads and checks.                                                       *)

\* Worker w has read what its handler checks, and the check has passed.
Begin(w, next, r, d) ==
    /\ \A c \in calls : c.by # w
    /\ calls' = calls \cup {[by |-> w, next |-> next, ride |-> r, driver |-> d]}
    /\ UNCHANGED <<rideVars, driverVars>>

\* Call c goes on to `next`, or ends.
Continue(c, next) == calls' = (calls \ {c}) \cup {[c EXCEPT !.next = next]}
End(c) == calls' = calls \ {c}

\* request: a new ride, in one insert.
Request(r) ==
    /\ ride[r] = "ABSENT"
    /\ ride' = [ride EXCEPT ![r] = "REQUESTED"]
    /\ UNCHANGED <<assigned, events, notes, incidents, driverVars, calls>>

\* The customer's cancel.
CustomerCancel(w, r) ==
    /\ ride[r] \in Waiting
    /\ Begin(w, "WITHDRAW", r, NoDriver)

\* accept, first read: the driver.
Accept(w, r, d) ==
    /\ driverStatus[d] = "ONLINE"
    /\ verification[d] \in {"VERIFIED", "PENDING"}
    /\ ride[r] # "ABSENT"
    /\ Begin(w, "READ_RIDE", r, d)

\* Mutant: the status of the ride is not checked.
BugAcceptAnyStatus(c) ==
    /\ c.next = "READ_RIDE"
    /\ Continue(c, "DRIVER_ASSIGNED")
    /\ UNCHANGED <<rideVars, driverVars>>

\* accept, second read: the ride.
AcceptRide(c) ==
    /\ c.next = "READ_RIDE"
    /\ assigned[c.ride] = NoDriver
    /\ ride[c.ride] \in Waiting
    /\ Continue(c, "DRIVER_ASSIGNED")
    /\ UNCHANGED <<rideVars, driverVars>>

Decline(w, r, d) ==
    /\ ride[r] # "ABSENT"
    /\ ~(assigned[r] = d /\ ride[r] = "DRIVER_ASSIGNED")
    /\ Begin(w, "DRIVER_DECLINED", r, d)

\* The driver's cancel.
DriverCancel(w, r, d) ==
    /\ assigned[r] = d
    /\ ride[r] \in {"DRIVER_ASSIGNED", "DRIVER_ARRIVING"}
    /\ Begin(w, "DRIVER_CANCELLED", r, d)

\* Mutant: the ownership of the ride is not checked.
BugAnyDriver(w, r, d, s) ==
    /\ s \in Stage
    /\ ride[r] = s[1]
    /\ Begin(w, s[3], r, d)

\* Mutant: a ride can be completed when the driver has not started it.
BugSkipStart(w, r, d, s) ==
    /\ s \in Stage
    /\ assigned[r] = d
    /\ ride[r] = s[1] \/ (s[2] = "COMPLETED" /\ ride[r] = "DRIVER_ARRIVED")
    /\ Begin(w, s[3], r, d)

\* arriving, arrived, start, complete.
Advance(w, r, d, s) ==
    /\ s \in Stage
    /\ assigned[r] = d
    /\ ride[r] = s[1]
    /\ Begin(w, s[3], r, d)

\* report: whatever the status of the ride.
Report(w, r, d) ==
    /\ assigned[r] = d
    /\ Begin(w, "FILE_INCIDENT", r, d)

GoOnline(w, d) ==
    /\ verification[d] \in {"VERIFIED", "PENDING"}
    /\ driverStatus[d] # "SUSPENDED"
    /\ Begin(w, "GO_ONLINE", NoRide, d)

SubmitVerification(w, d) ==
    /\ verification[d] = "UNVERIFIED"
    /\ Begin(w, "SUBMIT", NoRide, d)

-----------------------------------------------------------------------------
(* Writes.                                                                 *)

Record(r, type, d) ==
    /\ Len(events[r]) < MaxEvents
    /\ events' = [events EXCEPT ![r] = Append(@, [type |-> type, by |-> d])]

SetDriver(d, s) == driverStatus' = [driverStatus EXCEPT ![d] = s]

Withdraw(c) ==
    /\ c.next = "WITHDRAW"
    /\ ride' = [ride EXCEPT ![c.ride] = "CANCELLED"]
    /\ End(c)
    /\ UNCHANGED <<assigned, events, notes, incidents, driverVars>>

AssignDriver(c) ==
    /\ c.next = "DRIVER_ASSIGNED"
    /\ ride' = [ride EXCEPT ![c.ride] = "DRIVER_ASSIGNED"]
    /\ assigned' = [assigned EXCEPT ![c.ride] = c.driver]
    /\ Record(c.ride, "DRIVER_ASSIGNED", c.driver)
    /\ SetDriver(c.driver, "BUSY")
    /\ End(c)
    /\ UNCHANGED <<notes, incidents, verification>>

\* Mutant: the driver stays on the ride that goes back to the pool.
BugKeepDriver(c) ==
    /\ c.next = "DRIVER_CANCELLED"
    /\ ride' = [ride EXCEPT ![c.ride] = "MATCHING"]
    /\ Record(c.ride, "DRIVER_CANCELLED", c.driver)
    /\ SetDriver(c.driver, "ONLINE")
    /\ End(c)
    /\ UNCHANGED <<assigned, notes, incidents, verification>>

ReturnToPool(c) ==
    /\ c.next = "DRIVER_CANCELLED"
    /\ ride' = [ride EXCEPT ![c.ride] = "MATCHING"]
    /\ assigned' = [assigned EXCEPT ![c.ride] = NoDriver]
    /\ Record(c.ride, "DRIVER_CANCELLED", c.driver)
    /\ SetDriver(c.driver, "ONLINE")
    /\ End(c)
    /\ UNCHANGED <<notes, incidents, verification>>

\* The stage's status and event, and a driver who has finished is ONLINE.
WriteStage(c, s) ==
    /\ s \in Stage
    /\ c.next = s[3]
    /\ ride' = [ride EXCEPT ![c.ride] = s[2]]
    /\ Record(c.ride, s[3], c.driver)
    /\ IF s[2] = "COMPLETED" THEN SetDriver(c.driver, "ONLINE")
                             ELSE UNCHANGED driverStatus
    /\ End(c)
    /\ UNCHANGED <<assigned, notes, incidents, verification>>

\* report writes the incident, the status of the ride and the event one
\* after the other; a failure in between leaves what was written.
FileIncident(c) ==
    /\ c.next = "FILE_INCIDENT"
    /\ incidents' = incidents \cup {c.ride}
    /\ Continue(c, "MARK_INCIDENT")
    /\ UNCHANGED <<ride, assigned, events, notes, driverVars>>

MarkIncident(c) ==
    /\ c.next = "MARK_INCIDENT"
    /\ ride' = [ride EXCEPT ![c.ride] = "INCIDENT"]
    /\ Continue(c, "INCIDENT_REPORTED")
    /\ UNCHANGED <<assigned, events, notes, incidents, driverVars>>

\* decline, and the last write of report: an event and nothing else.
WriteNote(c) ==
    /\ c.next \in NoteType
    /\ notes' = notes \cup {[ride |-> c.ride, type |-> c.next, by |-> c.driver]}
    /\ End(c)
    /\ UNCHANGED <<ride, assigned, events, incidents, driverVars>>

WriteOnline(c) ==
    /\ c.next = "GO_ONLINE"
    /\ SetDriver(c.driver, "ONLINE")
    /\ End(c)
    /\ UNCHANGED <<rideVars, verification>>

WritePending(c) ==
    /\ c.next = "SUBMIT"
    /\ verification' = [verification EXCEPT ![c.driver] = "PENDING"]
    /\ End(c)
    /\ UNCHANGED <<rideVars, driverStatus>>

\* A call can fail before its next write, or its check of the ride fails.
Die(c) ==
    /\ End(c)
    /\ UNCHANGED <<rideVars, driverVars>>

\* Writes without a check: goOffline (to OFFLINE), and the status an
\* administrator or a partner sets.
WriteStatus(d, s) ==
    /\ SetDriver(d, s)
    /\ UNCHANGED <<rideVars, verification, calls>>

\* verify and reject, by an administrator or a partner.
Judge(d, v) ==
    /\ v \in {"VERIFIED", "UNVERIFIED"}
    /\ verification' = [verification EXCEPT ![d] = v]
    /\ UNCHANGED <<rideVars, driverStatus, calls>>

-----------------------------------------------------------------------------
RideStart(w, r, d) ==
    \/ Accept(w, r, d)
    \/ Decline(w, r, d)
    \/ DriverCancel(w, r, d)
    \/ \E s \in Stage : Advance(w, r, d, s)
    \/ Report(w, r, d)

DriverStart(w, d) == GoOnline(w, d) \/ SubmitVerification(w, d)

Proceed(c) ==
    \/ AcceptRide(c)
    \/ Withdraw(c)
    \/ AssignDriver(c)
    \/ ReturnToPool(c)
    \/ \E s \in Stage : WriteStage(c, s)
    \/ FileIncident(c)
    \/ MarkIncident(c)
    \/ WriteNote(c)
    \/ WriteOnline(c)
    \/ WritePending(c)
    \/ Die(c)

Next ==
    \/ \E r \in Ride : Request(r)
    \/ \E w \in Worker, r \in Ride : CustomerCancel(w, r)
    \/ \E w \in Worker, r \in Ride, d \in Driver : RideStart(w, r, d)
    \/ \E w \in Worker, d \in Driver : DriverStart(w, d)
    \/ \E c \in calls : Proceed(c)
    \/ \E d \in Driver, s \in StaffStatus \cup {"OFFLINE"} : WriteStatus(d, s)
    \/ \E d \in Driver, v \in Verification : Judge(d, v)

Spec == Init /\ [][Next]_vars
-----------------------------------------------------------------------------
(* Properties.                                                             *)

\* Types of the variables.
TypeOK ==
    /\ ride \in [Ride -> RideStatus \cup {"ABSENT"}]
    /\ assigned \in [Ride -> Driver \cup {NoDriver}]
    /\ events \in [Ride -> Seq(Event)]
    /\ notes \subseteq [ride : Ride, type : NoteType, by : Driver]
    /\ incidents \subseteq Ride
    /\ driverStatus \in [Driver -> DriverStatus]
    /\ verification \in [Driver -> Verification]
    /\ calls \subseteq Call

\* The event that has to come before another one.
Before == [DRIVER_CANCELLED |-> "DRIVER_ASSIGNED",
           DRIVER_ARRIVING  |-> "DRIVER_ASSIGNED",
           DRIVER_ARRIVED   |-> "DRIVER_ARRIVING",
           RIDE_STARTED     |-> "DRIVER_ARRIVED",
           RIDE_COMPLETED   |-> "RIDE_STARTED"]

\* A ride goes through its stages in order: no event is recorded before
\* the one it follows, so a completed ride was assigned, driven to, met and
\* started, in that order.  It holds however many calls race.
StagesInOrder ==
    \A r \in Ride : \A i \in 1..Len(events[r]) :
        events[r][i].type \in DOMAIN Before =>
            \E j \in 1..(i - 1) : events[r][j].type = Before[events[r][i].type]

\* One driver takes a ride through all of its stages: the event an event
\* follows was recorded by the same driver, who has not cancelled since.
\* It needs calls that do not overlap: a ride accepted twice changes hands
\* in the middle.
OneCrew ==
    \A r \in Ride : \A i \in 1..Len(events[r]) :
        events[r][i].type \in DOMAIN Before =>
            \E j \in 1..(i - 1) :
                /\ events[r][j].type = Before[events[r][i].type]
                /\ events[r][j].by = events[r][i].by
                /\ \A k \in (j + 1)..(i - 1) :
                       events[r][k].type # "DRIVER_CANCELLED"

\* A ride has a driver from the moment it is assigned and none while it
\* waits or once its customer has cancelled it, for calls that do not
\* overlap.
CrewedRide ==
    \A r \in Ride :
        (assigned[r] = NoDriver) <=>
            (ride[r] \in {"ABSENT", "REQUESTED", "MATCHING", "CANCELLED"})

\* A completed or cancelled ride never moves again, save that its driver
\* may still report an incident on a completed one, for calls that do not
\* overlap.
FinalStays ==
    [][\A r \in Ride :
          /\ ride[r] = "CANCELLED" => ride'[r] = "CANCELLED"
          /\ ride[r] = "INCIDENT" => ride'[r] = "INCIDENT"
          /\ ride[r] = "COMPLETED" => ride'[r] \in {"COMPLETED", "INCIDENT"}]_vars
=============================================================================
