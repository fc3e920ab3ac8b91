---------------------------- MODULE RidesProofs -----------------------------
(***************************************************************************)
(* Proofs about Rides, for any number of rides, drivers and overlapping    *)
(* calls: its types, and that a ride goes through its stages in order;     *)
(* and, while no two calls overlap, that it stays in one pair of hands.    *)
(***************************************************************************)
EXTENDS Rides, TLAPS

-----------------------------------------------------------------------------
\* An event of this type has been recorded for ride r.
Had(r, type) == \E j \in 1..Len(events[r]) : events[r][j].type = type

\* The event that brings a ride into a status its driver acts on.
EventOf == [DRIVER_ASSIGNED |-> "DRIVER_ASSIGNED",
            DRIVER_ARRIVING |-> "DRIVER_ARRIVING",
            DRIVER_ARRIVED  |-> "DRIVER_ARRIVED",
            IN_PROGRESS     |-> "RIDE_STARTED"]

StatusReached ==
    \A r \in Ride : ride[r] \in DOMAIN EventOf => Had(r, EventOf[ride[r]])

\* The call names the ride and the driver its next step needs, and the event
\* that its own one follows has been recorded already, whatever has happened
\* to the ride since the call read it.
CallOK(c) ==
    /\ c.next \notin {"GO_ONLINE", "SUBMIT"} => c.ride \in Ride
    /\ c.next # "WITHDRAW" => c.driver \in Driver
    /\ c.next \in DOMAIN Before => Had(c.ride, Before[c.next])

CallsReached == \A c \in calls : CallOK(c)

\* The inductive invariant.
IInv == TypeOK /\ StatusReached /\ CallsReached /\ StagesInOrder

-----------------------------------------------------------------------------
LEMMA BeforeFacts ==
    /\ DOMAIN Before = {"DRIVER_CANCELLED", "DRIVER_ARRIVING", "DRIVER_ARRIVED",
                        "RIDE_STARTED", "RIDE_COMPLETED"}
    /\ Before["DRIVER_CANCELLED"] = "DRIVER_ASSIGNED"
    /\ Before["DRIVER_ARRIVING"] = "DRIVER_ASSIGNED"
    /\ Before["DRIVER_ARRIVED"] = "DRIVER_ARRIVING"
    /\ Before["RIDE_STARTED"] = "DRIVER_ARRIVED"
    /\ Before["RIDE_COMPLETED"] = "RIDE_STARTED"
BY DEF Before

LEMMA EventOfFacts ==
    /\ DOMAIN EventOf = {"DRIVER_ASSIGNED", "DRIVER_ARRIVING", "DRIVER_ARRIVED",
                         "IN_PROGRESS"}
    /\ EventOf["DRIVER_ASSIGNED"] = "DRIVER_ASSIGNED"
    /\ EventOf["DRIVER_ARRIVING"] = "DRIVER_ARRIVING"
    /\ EventOf["DRIVER_ARRIVED"] = "DRIVER_ARRIVED"
    /\ EventOf["IN_PROGRESS"] = "RIDE_STARTED"
BY DEF EventOf

LEMMA EventTypes ==
    EventType = {"DRIVER_ARRIVING", "DRIVER_ARRIVED", "RIDE_STARTED",
                 "RIDE_COMPLETED", "DRIVER_ASSIGNED", "DRIVER_CANCELLED"}
BY DEF EventType, StageEvent, Stage

\* A stage writes a status and records an event that fit each other, and its
\* event follows the one that brought the ride into the status it expects.
LEMMA StageFacts ==
    ASSUME NEW s \in Stage
    PROVE  /\ s[1] \in DOMAIN EventOf
           /\ s[2] \in RideStatus
           /\ s[3] \in EventType
           /\ s[3] \in DOMAIN Before /\ Before[s[3]] = EventOf[s[1]]
           /\ s[2] \in DOMAIN EventOf => EventOf[s[2]] = s[3]
BY BeforeFacts, EventOfFacts, EventTypes DEF Stage, RideStatus

-----------------------------------------------------------------------------
LEMMA InitIInv == Init => IInv
<1> SUFFICES ASSUME Init PROVE IInv
  OBVIOUS
<1>1. TypeOK
  BY DEF Init, TypeOK, DriverStatus, Verification
<1>2. StatusReached
  <2>1. \A r \in Ride : ride[r] = "ABSENT"
    BY DEF Init
  <2>2. QED
    BY <2>1, EventOfFacts DEF StatusReached
<1>3. CallsReached
  BY DEF Init, CallsReached
<1>4. StagesInOrder
  <2>1. \A r \in Ride : Len(events[r]) = 0
    BY DEF Init
  <2>2. QED
    BY <2>1 DEF StagesInOrder
<1>5. QED
  BY <1>1, <1>2, <1>3, <1>4 DEF IInv

\* A step that leaves the events and brings no ride into a status its driver
\* acts on preserves the invariant if it adds no call but legal ones.
LEMMA QuietIInv ==
    ASSUME IInv, TypeOK', UNCHANGED events,
           \A r \in Ride : ride'[r] \in DOMAIN EventOf => ride'[r] = ride[r],
           \A c \in calls' : c \in calls \/ CallOK(c)
    PROVE  IInv'
<1>1. StatusReached'
  <2> SUFFICES ASSUME NEW r \in Ride, ride'[r] \in DOMAIN EventOf
               PROVE  \E j \in 1..Len(events'[r]) :
                          events'[r][j].type = EventOf[ride'[r]]
    BY DEF StatusReached, Had
  <2>1. ride'[r] = ride[r]
    OBVIOUS
  <2>2. Had(r, EventOf[ride[r]])
    BY <2>1 DEF IInv, StatusReached
  <2>3. QED
    BY <2>1, <2>2 DEF Had
<1>2. CallsReached'
  <2>1. \A c \in calls' : CallOK(c)
    BY DEF IInv, CallsReached
  <2>2. QED
    BY <2>1 DEF CallsReached, CallOK, Had
<1>3. StagesInOrder'
  BY DEF IInv, StagesInOrder
<1>4. QED
  BY <1>1, <1>2, <1>3 DEF IInv

\* A read adds one call and changes nothing else.
LEMMA BeginIInv ==
    ASSUME IInv, NEW w \in Worker, NEW next \in Todo,
           NEW r \in Ride \cup {NoRide}, NEW d \in Driver \cup {NoDriver},
           Begin(w, next, r, d),
           next \notin {"GO_ONLINE", "SUBMIT"} => r \in Ride,
           next # "WITHDRAW" => d \in Driver,
           next \in DOMAIN Before => Had(r, Before[next])
    PROVE  IInv'
<1> DEFINE c0 == [by |-> w, next |-> next, ride |-> r, driver |-> d]
<1>1. calls' = calls \cup {c0} /\ UNCHANGED <<rideVars, driverVars>>
  BY DEF Begin
<1>2. c0 \in Call
  BY DEF Call
<1>3. TypeOK'
  BY <1>1, <1>2 DEF IInv, TypeOK, rideVars, driverVars
<1>4. CallOK(c0)
  BY DEF CallOK
<1>5. UNCHANGED events /\ UNCHANGED ride
  BY <1>1 DEF rideVars
<1>6. \A c \in calls' : c \in calls \/ CallOK(c)
  BY <1>1, <1>4
<1>7. QED
  BY <1>3, <1>5, <1>6, QuietIInv

\* A write that records an event preserves the invariant if the event that
\* it follows is there and if it fits the status that is written.
LEMMA RecordIInv ==
    ASSUME IInv, TypeOK', NEW c \in calls, c.ride \in Ride,
           NEW type \in EventType, NEW s \in RideStatus,
           Record(c.ride, type, c.driver), End(c),
           ride' = [ride EXCEPT ![c.ride] = s],
           type \in DOMAIN Before => Had(c.ride, Before[type]),
           s \in DOMAIN EventOf => EventOf[s] = type
    PROVE  IInv'
<1> DEFINE q == c.ride
           e == [type |-> type, by |-> c.driver]
           n == Len(events[q])
<1>q. q \in Ride
  OBVIOUS
<1>seq. events[q] \in Seq(Event) /\ n \in Nat
  BY <1>q DEF IInv, TypeOK
<1>row. events' = [events EXCEPT ![q] = Append(events[q], e)]
  BY DEF Record
<1>new. events'[q] = Append(events[q], e)
  BY <1>q, <1>row DEF IInv, TypeOK
<1>others. \A r \in Ride : r # q => events'[r] = events[r]
  BY <1>row DEF IInv, TypeOK
<1>len. Len(events'[q]) = n + 1
  BY <1>new, <1>seq
<1>old. \A j \in 1..n : events'[q][j] = events[q][j]
  BY <1>new, <1>seq
<1>last. events'[q][n + 1] = e
  BY <1>new, <1>seq
<1>range. \A j \in 1..n : j \in 1..(n + 1)
  BY <1>seq
<1>had. ASSUME NEW r \in Ride, NEW t, Had(r, t)
        PROVE  \E j \in 1..Len(events'[r]) : events'[r][j].type = t
  <2>1. PICK j \in 1..Len(events[r]) : events[r][j].type = t
    BY <1>had DEF Had
  <2>2. CASE r # q
    BY <2>1, <2>2, <1>others
  <2>3. CASE r = q
    BY <2>1, <2>3, <1>old, <1>len, <1>range
  <2>4. QED
    BY <2>2, <2>3
<1>type. \E j \in 1..Len(events'[q]) : events'[q][j].type = type
  <2>1. n + 1 \in 1..(n + 1)
    BY <1>seq
  <2>2. e.type = type
    OBVIOUS
  <2>3. QED
    BY <2>1, <2>2, <1>last, <1>len
<1>1. StatusReached'
  <2> SUFFICES ASSUME NEW r \in Ride, ride'[r] \in DOMAIN EventOf
               PROVE  \E j \in 1..Len(events'[r]) :
                          events'[r][j].type = EventOf[ride'[r]]
    BY DEF StatusReached, Had
  <2>1. CASE r = q
    <3>1. ride'[r] = s
      BY <2>1, <1>q DEF IInv, TypeOK
    <3>2. EventOf[ride'[r]] = type
      BY <3>1
    <3>3. QED
      BY <3>2, <2>1, <1>type
  <2>2. CASE r # q
    <3>1. ride'[r] = ride[r]
      BY <2>2 DEF IInv, TypeOK
    <3>2. Had(r, EventOf[ride[r]])
      BY <3>1 DEF IInv, StatusReached
    <3>3. QED
      BY <3>1, <3>2, <1>had
  <2>3. QED
    BY <2>1, <2>2
<1>2. CallsReached'
  <2>1. ASSUME NEW k \in calls', k.next \in DOMAIN Before
        PROVE  \E j \in 1..Len(events'[k.ride]) :
                   events'[k.ride][j].type = Before[k.next]
    <3>1. CallOK(k)
      BY DEF End, IInv, CallsReached
    <3>2. k.ride \in Ride /\ Had(k.ride, Before[k.next])
      BY <2>1, <3>1, BeforeFacts DEF CallOK
    <3>3. QED
      BY <3>2, <1>had
  <2>2. QED
    BY <2>1 DEF CallsReached, CallOK, Had, End, IInv
<1>3. StagesInOrder'
  <2> SUFFICES ASSUME NEW r \in Ride, NEW i \in 1..Len(events'[r]),
                      events'[r][i].type \in DOMAIN Before
               PROVE  \E j \in 1..(i - 1) :
                          events'[r][j].type = Before[events'[r][i].type]
    BY DEF StagesInOrder
  <2>1. CASE r # q
    <3>1. events'[r] = events[r]
      BY <2>1, <1>others
    <3>2. QED
      BY <3>1 DEF IInv, StagesInOrder
  <2>2. CASE r = q /\ i \in 1..n
    <3>1. events'[q][i] = events[q][i]
      BY <2>2, <1>old
    <3>2. PICK j \in 1..(i - 1) :
                  events[q][j].type = Before[events[q][i].type]
      BY <2>2, <3>1, <1>q DEF IInv, StagesInOrder
    <3>3. j \in 1..n
      BY <2>2, <1>seq
    <3>4. events'[q][j] = events[q][j]
      BY <3>3, <1>old
    <3>5. QED
      BY <2>2, <3>1, <3>2, <3>4
  <2>3. CASE r = q /\ i = n + 1
    <3>1. events'[q][i].type = type
      BY <2>3, <1>last
    <3>2. PICK j \in 1..n : events[q][j].type = Before[type]
      BY <2>3, <3>1 DEF Had
    <3>3. events'[q][j].type = Before[type]
      BY <3>2, <1>old
    <3>4. j \in 1..(i - 1)
      BY <2>3, <1>seq
    <3>5. QED
      BY <2>3, <3>1, <3>3, <3>4
  <2>4. i \in 1..n \/ i = n + 1 \/ r # q
    BY <1>len, <1>seq
  <2>5. QED
    BY <2>1, <2>2, <2>3, <2>4
<1>4. QED
  BY <1>1, <1>2, <1>3 DEF IInv

-----------------------------------------------------------------------------
\* The writes keep the types.
LEMMA WriteTypeOK ==
    ASSUME TypeOK, CallsReached, NEW c \in calls, Proceed(c)
    PROVE  TypeOK'
<1>c. c \in Call /\ CallOK(c)
  BY DEF TypeOK, CallsReached
<1>calls. End(c) => calls' \subseteq Call
  BY DEF End, TypeOK
<1>goes. ASSUME NEW t \in Todo, Continue(c, t) PROVE calls' \subseteq Call
  <2>1. [c EXCEPT !.next = t] \in Call
    BY <1>c, <1>goes DEF Call
  <2>2. QED
    BY <1>goes, <2>1 DEF Continue, TypeOK
<1>events. ASSUME NEW t \in EventType, Record(c.ride, t, c.driver), c.driver \in Driver
           PROVE  events' \in [Ride -> Seq(Event)]
  <2>1. [type |-> t, by |-> c.driver] \in Event
    BY <1>events DEF Event
  <2>2. c.ride \in Ride => events[c.ride] \in Seq(Event)
    BY DEF TypeOK
  <2>3. c.ride \in Ride =>
            Append(events[c.ride], [type |-> t, by |-> c.driver]) \in Seq(Event)
    BY <2>1, <2>2
  <2>4. QED
    BY <1>events, <2>3 DEF Record, TypeOK
<1>todo. {"DRIVER_ASSIGNED", "MARK_INCIDENT", "INCIDENT_REPORTED"} \subseteq Todo
  BY EventTypes DEF Todo, NoteType
<1>1. CASE AcceptRide(c)
  BY <1>1, <1>goes, <1>todo DEF AcceptRide, rideVars, driverVars, TypeOK
<1>2. CASE Withdraw(c)
  BY <1>2, <1>calls DEF Withdraw, driverVars, TypeOK, RideStatus
<1>3. CASE AssignDriver(c)
  <2>1. c.ride \in Ride /\ c.driver \in Driver
    BY <1>c, <1>3 DEF CallOK, AssignDriver
  <2>2. events' \in [Ride -> Seq(Event)]
    BY <1>3, <2>1, <1>events, EventTypes DEF AssignDriver
  <2>3. QED
    BY <1>3, <1>calls, <2>1, <2>2
    DEF AssignDriver, SetDriver, TypeOK, RideStatus, DriverStatus
<1>4. CASE ReturnToPool(c)
  <2>1. c.ride \in Ride /\ c.driver \in Driver
    BY <1>c, <1>4 DEF CallOK, ReturnToPool
  <2>2. events' \in [Ride -> Seq(Event)]
    BY <1>4, <2>1, <1>events, EventTypes DEF ReturnToPool
  <2>3. QED
    BY <1>4, <1>calls, <2>1, <2>2
    DEF ReturnToPool, SetDriver, TypeOK, RideStatus, DriverStatus
<1>5. ASSUME NEW s \in Stage, WriteStage(c, s) PROVE TypeOK'
  <2>1. s[3] \notin {"GO_ONLINE", "SUBMIT", "WITHDRAW"}
    BY StageFacts, BeforeFacts
  <2>2. c.ride \in Ride /\ c.driver \in Driver
    BY <1>c, <1>5, <2>1 DEF CallOK, WriteStage
  <2>3. events' \in [Ride -> Seq(Event)]
    BY <1>5, <2>2, <1>events, StageFacts DEF WriteStage
  <2>4. s[2] \in RideStatus
    BY StageFacts
  <2>5. driverStatus' \in [Driver -> DriverStatus]
    BY <1>5 DEF WriteStage, SetDriver, TypeOK, DriverStatus
  <2>6. QED
    BY <1>5, <1>calls, <2>3, <2>4, <2>5 DEF WriteStage, TypeOK
<1>6. CASE FileIncident(c)
  <2>1. c.ride \in Ride
    BY <1>c, <1>6 DEF CallOK, FileIncident
  <2>2. QED
    BY <1>6, <2>1, <1>goes, <1>todo DEF FileIncident, driverVars, TypeOK
<1>7. CASE MarkIncident(c)
  BY <1>7, <1>goes, <1>todo DEF MarkIncident, driverVars, TypeOK, RideStatus
<1>8. CASE WriteNote(c)
  <2>1. c.ride \in Ride /\ c.driver \in Driver
    BY <1>c, <1>8 DEF CallOK, WriteNote, NoteType
  <2>2. QED
    BY <1>8, <2>1, <1>calls DEF WriteNote, driverVars, TypeOK
<1>9. CASE WriteOnline(c)
  BY <1>9, <1>calls DEF WriteOnline, SetDriver, rideVars, TypeOK, DriverStatus
<1>10. CASE WritePending(c)
  BY <1>10, <1>calls DEF WritePending, rideVars, TypeOK, Verification
<1>11. CASE Die(c)
  BY <1>11, <1>calls DEF Die, rideVars, driverVars, TypeOK
<1>12. QED
  BY <1>1, <1>2, <1>3, <1>4, <1>5, <1>6, <1>7, <1>8, <1>9, <1>10, <1>11
  DEF Proceed

\* A call that ends, or goes on to a step that records no event that follows
\* another, leaves legal calls.
LEMMA CallsStay ==
    ASSUME CallsReached, TypeOK, NEW c \in calls,
           \/ End(c)
           \/ \E t \in {"DRIVER_ASSIGNED", "MARK_INCIDENT", "INCIDENT_REPORTED"} :
                 Continue(c, t) /\ c.next \in {"READ_RIDE", "FILE_INCIDENT",
                                               "MARK_INCIDENT"}
    PROVE  \A k \in calls' : k \in calls \/ CallOK(k)
<1>1. CASE End(c)
  BY <1>1 DEF End
<1>2. ASSUME NEW t \in {"DRIVER_ASSIGNED", "MARK_INCIDENT", "INCIDENT_REPORTED"},
             Continue(c, t),
             c.next \in {"READ_RIDE", "FILE_INCIDENT", "MARK_INCIDENT"}
      PROVE  \A k \in calls' : k \in calls \/ CallOK(k)
  <2> DEFINE k0 == [c EXCEPT !.next = t]
  <2>1. CallOK(c) /\ c \in Call
    BY <1>2 DEF CallsReached, TypeOK
  <2>2. c.ride \in Ride /\ c.driver \in Driver
    BY <2>1, <1>2 DEF CallOK
  <2>3. k0.next = t /\ k0.ride = c.ride /\ k0.driver = c.driver
    BY <2>1 DEF Call
  <2>4. t \notin DOMAIN Before
    BY BeforeFacts
  <2>5. CallOK(k0)
    BY <2>2, <2>3, <2>4 DEF CallOK
  <2>6. QED
    BY <1>2, <2>5 DEF Continue
<1>3. QED
  BY <1>1, <1>2

\* The writes preserve the invariant.
LEMMA ProceedIInv ==
    ASSUME IInv, NEW c \in calls, Proceed(c)
    PROVE  IInv'
<1>type. TypeOK'
  BY WriteTypeOK DEF IInv
<1>c. CallOK(c)
  BY DEF IInv, CallsReached
<1>calls. CallsReached /\ TypeOK
  BY DEF IInv
<1>1. CASE AcceptRide(c)
  <2>1. \A k \in calls' : k \in calls \/ CallOK(k)
    BY <1>1, <1>calls, CallsStay DEF AcceptRide
  <2>2. UNCHANGED <<ride, events>>
    BY <1>1 DEF AcceptRide, rideVars
  <2>3. QED
    BY <1>type, <2>1, <2>2, QuietIInv
<1>2. CASE Withdraw(c)
  <2>1. \A k \in calls' : k \in calls \/ CallOK(k)
    BY <1>2, <1>calls, CallsStay DEF Withdraw
  <2>2. \A r \in Ride : ride'[r] = ride[r] \/ ride'[r] = "CANCELLED"
    BY <1>2, <1>calls DEF Withdraw, TypeOK
  <2>3. "CANCELLED" \notin DOMAIN EventOf
    BY EventOfFacts
  <2>4. UNCHANGED events
    BY <1>2 DEF Withdraw
  <2>5. QED
    BY <1>type, <2>1, <2>2, <2>3, <2>4, QuietIInv
<1>3. CASE AssignDriver(c)
  <2>1. c.ride \in Ride
    BY <1>c, <1>3 DEF CallOK, AssignDriver
  <2>2. "DRIVER_ASSIGNED" \in EventType /\ "DRIVER_ASSIGNED" \notin DOMAIN Before
    BY EventTypes, BeforeFacts
  <2>3. "DRIVER_ASSIGNED" \in RideStatus
    BY DEF RideStatus
  <2>4. QED
    BY <1>3, <1>type, <2>1, <2>2, <2>3, EventOfFacts, RecordIInv DEF AssignDriver
<1>4. CASE ReturnToPool(c)
  <2>1. c.ride \in Ride
    BY <1>c, <1>4 DEF CallOK, ReturnToPool
  <2>2. "DRIVER_CANCELLED" \in EventType /\ Had(c.ride, Before["DRIVER_CANCELLED"])
    BY <1>c, <1>4, EventTypes, BeforeFacts DEF CallOK, ReturnToPool
  <2>3. "MATCHING" \in RideStatus /\ "MATCHING" \notin DOMAIN EventOf
    BY EventOfFacts DEF RideStatus
  <2>4. QED
    BY <1>4, <1>type, <2>1, <2>2, <2>3, RecordIInv DEF ReturnToPool
<1>5. ASSUME NEW s \in Stage, WriteStage(c, s) PROVE IInv'
  <2>1. /\ s[3] \in EventType /\ s[3] \in DOMAIN Before
        /\ s[2] \in RideStatus
        /\ s[2] \in DOMAIN EventOf => EventOf[s[2]] = s[3]
    BY StageFacts
  <2>2. /\ c.next = s[3] /\ Record(c.ride, s[3], c.driver) /\ End(c)
        /\ ride' = [ride EXCEPT ![c.ride] = s[2]]
    BY <1>5 DEF WriteStage
  <2>3. c.ride \in Ride /\ Had(c.ride, Before[s[3]])
    BY <1>c, <2>1, <2>2, BeforeFacts DEF CallOK
  <2>4. QED
    BY <1>type, <2>1, <2>2, <2>3, RecordIInv
<1>6. CASE FileIncident(c)
  <2>1. \A k \in calls' : k \in calls \/ CallOK(k)
    BY <1>6, <1>calls, CallsStay DEF FileIncident
  <2>2. UNCHANGED <<ride, events>>
    BY <1>6 DEF FileIncident
  <2>3. QED
    BY <1>type, <2>1, <2>2, QuietIInv
<1>7. CASE MarkIncident(c)
  <2>1. \A k \in calls' : k \in calls \/ CallOK(k)
    BY <1>7, <1>calls, CallsStay DEF MarkIncident
  <2>2. \A r \in Ride : ride'[r] = ride[r] \/ ride'[r] = "INCIDENT"
    BY <1>7, <1>calls DEF MarkIncident, TypeOK
  <2>3. "INCIDENT" \notin DOMAIN EventOf
    BY EventOfFacts
  <2>4. UNCHANGED events
    BY <1>7 DEF MarkIncident
  <2>5. QED
    BY <1>type, <2>1, <2>2, <2>3, <2>4, QuietIInv
<1>8. CASE WriteNote(c) \/ WriteOnline(c) \/ WritePending(c) \/ Die(c)
  <2>1. \A k \in calls' : k \in calls \/ CallOK(k)
    BY <1>8, <1>calls, CallsStay DEF WriteNote, WriteOnline, WritePending, Die
  <2>2. UNCHANGED <<ride, events>>
    BY <1>8 DEF WriteNote, WriteOnline, WritePending, Die, rideVars
  <2>3. QED
    BY <1>type, <2>1, <2>2, QuietIInv
<1>9. QED
  BY <1>1, <1>2, <1>3, <1>4, <1>5, <1>6, <1>7, <1>8 DEF Proceed

\* The reads of a handler about a ride preserve the invariant.
LEMMA RideStartIInv ==
    ASSUME IInv, NEW w \in Worker, NEW r \in Ride, NEW d \in Driver,
           RideStart(w, r, d)
    PROVE  IInv'
<1>todo. {"READ_RIDE", "DRIVER_DECLINED", "DRIVER_CANCELLED", "FILE_INCIDENT"}
             \subseteq Todo
  BY EventTypes DEF Todo, NoteType
<1>names. r \in Ride \cup {NoRide} /\ d \in Driver \cup {NoDriver}
  OBVIOUS
<1>1. ASSUME NEW t \in {"READ_RIDE", "DRIVER_DECLINED", "FILE_INCIDENT"},
             Begin(w, t, r, d)
      PROVE  IInv'
  <2>1. t \notin DOMAIN Before /\ t \in Todo
    BY <1>todo, BeforeFacts
  <2>2. QED
    BY <1>1, <1>names, <2>1, BeginIInv
<1>2. CASE DriverCancel(w, r, d)
  <2>1. Had(r, "DRIVER_ASSIGNED")
    <3>1. CASE ride[r] = "DRIVER_ASSIGNED"
      BY <3>1, EventOfFacts DEF IInv, StatusReached
    <3>2. CASE ride[r] = "DRIVER_ARRIVING"
      <4>1. PICK j \in 1..Len(events[r]) : events[r][j].type = "DRIVER_ARRIVING"
        BY <3>2, EventOfFacts DEF IInv, StatusReached, Had
      <4>2. PICK i \in 1..(j - 1) : events[r][i].type = "DRIVER_ASSIGNED"
        BY <4>1, BeforeFacts DEF IInv, StagesInOrder
      <4>3. Len(events[r]) \in Nat
        BY DEF IInv, TypeOK
      <4>4. i \in 1..Len(events[r])
        BY <4>1, <4>2, <4>3
      <4>5. QED
        BY <4>2, <4>4 DEF Had
    <3>3. QED
      BY <1>2, <3>1, <3>2 DEF DriverCancel
  <2>2. Begin(w, "DRIVER_CANCELLED", r, d)
    BY <1>2 DEF DriverCancel
  <2>3. "DRIVER_CANCELLED" \in Todo
    BY <1>todo
  <2>4. QED
    BY <1>names, <2>1, <2>2, <2>3, BeforeFacts, BeginIInv
<1>3. ASSUME NEW s \in Stage, Advance(w, r, d, s) PROVE IInv'
  <2>1. s[3] \in Todo /\ s[1] \in DOMAIN EventOf /\ Before[s[3]] = EventOf[s[1]]
    BY StageFacts DEF Todo
  <2>2. ride[r] = s[1] /\ Begin(w, s[3], r, d)
    BY <1>3 DEF Advance
  <2>3. Had(r, Before[s[3]])
    BY <2>1, <2>2 DEF IInv, StatusReached
  <2>4. QED
    BY <1>names, <2>1, <2>2, <2>3, BeginIInv
<1>4. QED
  BY <1>1, <1>2, <1>3 DEF RideStart, Accept, Decline, Report

\* The steps of Next, one by one.
LEMMA NextIInv ==
    ASSUME IInv, [Next]_vars
    PROVE  IInv'
<1>types. TypeOK
  BY DEF IInv
<1>1. ASSUME NEW r \in Ride, Request(r) PROVE IInv'
  <2>1. TypeOK'
    BY <1>types, <1>1 DEF Request, driverVars, TypeOK, RideStatus
  <2>2. \A q \in Ride : ride'[q] = ride[q] \/ ride'[q] = "REQUESTED"
    BY <1>types, <1>1 DEF Request, TypeOK
  <2>3. "REQUESTED" \notin DOMAIN EventOf
    BY EventOfFacts
  <2>4. UNCHANGED <<events, calls>>
    BY <1>1 DEF Request
  <2>5. QED
    BY <2>1, <2>2, <2>3, <2>4, QuietIInv
<1>2. ASSUME NEW w \in Worker, NEW r \in Ride, CustomerCancel(w, r) PROVE IInv'
  <2>1. "WITHDRAW" \in Todo /\ "WITHDRAW" \notin DOMAIN Before
    BY BeforeFacts DEF Todo
  <2>2. r \in Ride \cup {NoRide} /\ NoDriver \in Driver \cup {NoDriver}
    OBVIOUS
  <2>3. QED
    BY <1>2, <2>1, <2>2, BeginIInv DEF CustomerCancel
<1>3. ASSUME NEW w \in Worker, NEW r \in Ride, NEW d \in Driver, RideStart(w, r, d)
      PROVE  IInv'
  BY <1>3, RideStartIInv
<1>4. ASSUME NEW w \in Worker, NEW d \in Driver, DriverStart(w, d) PROVE IInv'
  <2>1. /\ {"GO_ONLINE", "SUBMIT"} \subseteq Todo
        /\ "GO_ONLINE" \notin DOMAIN Before /\ "SUBMIT" \notin DOMAIN Before
    BY BeforeFacts DEF Todo
  <2>2. NoRide \in Ride \cup {NoRide} /\ d \in Driver \cup {NoDriver}
    OBVIOUS
  <2>3. CASE GoOnline(w, d)
    BY <2>1, <2>2, <2>3, BeginIInv DEF GoOnline
  <2>4. CASE SubmitVerification(w, d)
    BY <2>1, <2>2, <2>4, BeginIInv DEF SubmitVerification
  <2>5. QED
    BY <1>4, <2>3, <2>4 DEF DriverStart
<1>5. ASSUME NEW c \in calls, Proceed(c) PROVE IInv'
  BY <1>5, ProceedIInv
<1>6. ASSUME NEW d \in Driver, NEW s \in StaffStatus \cup {"OFFLINE"},
             WriteStatus(d, s)
      PROVE  IInv'
  <2>1. s \in DriverStatus
    BY RidesAssumption DEF DriverStatus
  <2>2. TypeOK'
    BY <1>types, <1>6, <2>1 DEF WriteStatus, SetDriver, rideVars, TypeOK
  <2>3. UNCHANGED <<ride, events, calls>>
    BY <1>6 DEF WriteStatus, rideVars
  <2>4. QED
    BY <2>2, <2>3, QuietIInv
<1>7. ASSUME NEW d \in Driver, NEW v \in Verification, Judge(d, v) PROVE IInv'
  <2>1. TypeOK'
    BY <1>types, <1>7 DEF Judge, rideVars, TypeOK
  <2>2. UNCHANGED <<ride, events, calls>>
    BY <1>7 DEF Judge, rideVars
  <2>3. QED
    BY <2>1, <2>2, QuietIInv
<1>8. CASE UNCHANGED vars
  <2>1. TypeOK'
    BY <1>types, <1>8 DEF vars, TypeOK
  <2>2. UNCHANGED <<ride, events, calls>>
    BY <1>8 DEF vars
  <2>3. QED
    BY <2>1, <2>2, QuietIInv
<1>9. QED
  BY <1>1, <1>2, <1>3, <1>4, <1>5, <1>6, <1>7, <1>8 DEF Next

-----------------------------------------------------------------------------
\* The inductive invariant holds in every reachable state.
THEOREM SpecIInv == Spec => []IInv
<1>1. Init => IInv
  BY InitIInv
<1>2. IInv /\ [Next]_vars => IInv'
  BY NextIInv
<1>3. QED
  BY <1>1, <1>2, PTL DEF Spec

\* The rows and the calls of the ride handlers have their types.
THEOREM TypeCorrect == Spec => []TypeOK
<1>1. IInv => TypeOK
  BY DEF IInv
<1>2. QED
  BY <1>1, SpecIInv, PTL

\* A ride goes through its stages in order, for any number of drivers and
\* overlapping calls: each stage's handler checks a status that some earlier
\* handler wrote together with its event.
THEOREM StagesCorrect == Spec => []StagesInOrder
<1>1. IInv => StagesInOrder
  BY DEF IInv
<1>2. QED
  BY <1>1, SpecIInv, PTL
-----------------------------------------------------------------------------
(* What holds while calls do not overlap.                                  *)

OneWorker == \A v, w \in Worker : v = w

\* There is one call at a time.
OneCall == \A b, c \in calls : b = c

\* What a call has read of its ride still holds when it writes.
Current(c) ==
    /\ c.next \in {"WITHDRAW", "DRIVER_ASSIGNED"} => ride[c.ride] \in Waiting
    /\ c.next = "DRIVER_CANCELLED" =>
           /\ assigned[c.ride] = c.driver
           /\ ride[c.ride] \in {"DRIVER_ASSIGNED", "DRIVER_ARRIVING"}
    /\ \A s \in Stage : c.next = s[3] =>
           assigned[c.ride] = c.driver /\ ride[c.ride] = s[1]
    /\ c.next \in {"FILE_INCIDENT", "MARK_INCIDENT"} =>
           assigned[c.ride] = c.driver

CallsCurrent == \A c \in calls : Current(c)

\* Among these events driver d has recorded one of this type, and nobody has
\* cancelled since.
HadBy(es, type, d) ==
    \E j \in 1..Len(es) :
        /\ es[j].type = type /\ es[j].by = d
        /\ \A k \in (j + 1)..Len(es) : es[k].type # "DRIVER_CANCELLED"

\* The driver of a ride has brought it where it is.
InHands ==
    \A r \in Ride :
        ride[r] \in DOMAIN EventOf => HadBy(events[r], EventOf[ride[r]], assigned[r])

Hands == CrewedRide /\ InHands /\ OneCrew

\* The inductive invariant while calls do not overlap.
SInv == IInv /\ OneCall /\ CallsCurrent /\ Hands

\* The statuses of a ride that has a driver.
LEMMA CrewedStatus ==
    /\ \A s \in DOMAIN EventOf :
           s \notin {"ABSENT", "REQUESTED", "MATCHING", "CANCELLED"}
    /\ \A s \in Stage :
           /\ s[1] \notin {"CANCELLED", "INCIDENT", "COMPLETED"}
           /\ s[2] \notin {"ABSENT", "REQUESTED", "MATCHING", "CANCELLED"}
           /\ s[3] \notin {"WITHDRAW", "DRIVER_ASSIGNED", "DRIVER_CANCELLED",
                           "FILE_INCIDENT", "MARK_INCIDENT", "READ_RIDE",
                           "DRIVER_DECLINED", "INCIDENT_REPORTED",
                           "GO_ONLINE", "SUBMIT"}
    /\ \A s, t \in Stage : s[3] = t[3] => s = t
BY EventOfFacts DEF Stage

LEMMA InitSInv == Init => SInv
<1> SUFFICES ASSUME Init PROVE SInv
  OBVIOUS
<1>1. IInv
  BY InitIInv
<1>2. OneCall /\ CallsCurrent
  BY DEF Init, OneCall, CallsCurrent
<1>3. CrewedRide
  BY DEF Init, CrewedRide
<1>4. InHands
  <2>1. \A r \in Ride : ride[r] = "ABSENT"
    BY DEF Init
  <2>2. QED
    BY <2>1, EventOfFacts DEF InHands
<1>5. OneCrew
  <2>1. \A r \in Ride : Len(events[r]) = 0
    BY DEF Init
  <2>2. QED
    BY <2>1 DEF OneCrew
<1>6. QED
  BY <1>1, <1>2, <1>3, <1>4, <1>5 DEF SInv, Hands

\* A step that leaves the events, the drivers and the rides in a driver's
\* hands leaves them in those hands.
LEMMA QuietHands ==
    ASSUME Hands, UNCHANGED <<events, assigned>>,
           \A r \in Ride : ride'[r] \in DOMAIN EventOf => ride'[r] = ride[r],
           \A r \in Ride :
               \/ ride'[r] = ride[r]
               \/ assigned[r] = NoDriver /\ ride'[r] \in {"REQUESTED", "CANCELLED"}
               \/ assigned[r] # NoDriver /\ ride'[r] = "INCIDENT"
    PROVE  Hands'
<1>1. CrewedRide'
  BY DEF Hands, CrewedRide
<1>2. InHands'
  <2> SUFFICES ASSUME NEW r \in Ride, ride'[r] \in DOMAIN EventOf
               PROVE  HadBy(events'[r], EventOf[ride'[r]], assigned'[r])
    BY DEF InHands
  <2>1. ride'[r] = ride[r] /\ assigned'[r] = assigned[r]
    OBVIOUS
  <2>2. HadBy(events[r], EventOf[ride[r]], assigned[r])
    BY <2>1 DEF Hands, InHands
  <2>3. QED
    BY <2>1, <2>2
<1>3. OneCrew'
  BY DEF Hands, OneCrew
<1>4. QED
  BY <1>1, <1>2, <1>3 DEF Hands

\* A write that records an event of a driver whose event it follows keeps
\* the ride in one pair of hands.
LEMMA RecordHands ==
    ASSUME IInv, Hands, NEW c \in calls, c.ride \in Ride,
           NEW type \in EventType, NEW s \in RideStatus,
           Record(c.ride, type, c.driver),
           ride' = [ride EXCEPT ![c.ride] = s],
           \A r \in Ride : r # c.ride => assigned'[r] = assigned[r],
           (assigned'[c.ride] = NoDriver) <=>
               (s \in {"ABSENT", "REQUESTED", "MATCHING", "CANCELLED"}),
           type \in DOMAIN Before => HadBy(events[c.ride], Before[type], c.driver),
           s \in DOMAIN EventOf =>
               EventOf[s] = type /\ assigned'[c.ride] = c.driver
    PROVE  Hands'
<1> DEFINE q == c.ride
           e == [type |-> type, by |-> c.driver]
           n == Len(events[q])
<1>q. q \in Ride
  OBVIOUS
<1>seq. events[q] \in Seq(Event) /\ n \in Nat
  BY <1>q DEF IInv, TypeOK
<1>row. events' = [events EXCEPT ![q] = Append(events[q], e)]
  BY DEF Record
<1>new. events'[q] = Append(events[q], e)
  BY <1>q, <1>row DEF IInv, TypeOK
<1>others. \A r \in Ride : r # q => events'[r] = events[r]
  BY <1>row DEF IInv, TypeOK
<1>len. Len(events'[q]) = n + 1
  BY <1>new, <1>seq
<1>old. \A j \in 1..n : events'[q][j] = events[q][j]
  BY <1>new, <1>seq
<1>last. events'[q][n + 1] = e
  BY <1>new, <1>seq
<1>at. ride'[q] = s /\ \A r \in Ride : r # q => ride'[r] = ride[r]
  BY DEF IInv, TypeOK
<1>1. CrewedRide'
  BY <1>at DEF Hands, CrewedRide
<1>2. InHands'
  <2> SUFFICES ASSUME NEW r \in Ride, ride'[r] \in DOMAIN EventOf
               PROVE  HadBy(events'[r], EventOf[ride'[r]], assigned'[r])
    BY DEF InHands
  <2>1. CASE r = q
    <3>1. EventOf[ride'[r]] = type /\ assigned'[r] = c.driver
      BY <2>1, <1>at
    <3>2. n + 1 \in 1..Len(events'[r])
      BY <2>1, <1>len, <1>seq
    <3>3. events'[r][n + 1].type = type /\ events'[r][n + 1].by = c.driver
      BY <2>1, <1>last
    <3>4. (n + 1 + 1)..Len(events'[r]) = {}
      BY <2>1, <1>len, <1>seq
    <3>5. QED
      BY <3>1, <3>2, <3>3, <3>4 DEF HadBy
  <2>2. CASE r # q
    <3>1. ride'[r] = ride[r] /\ assigned'[r] = assigned[r] /\ events'[r] = events[r]
      BY <2>2, <1>at, <1>others
    <3>2. HadBy(events[r], EventOf[ride[r]], assigned[r])
      BY <3>1 DEF Hands, InHands
    <3>3. QED
      BY <3>1, <3>2
  <2>3. QED
    BY <2>1, <2>2
<1>3. OneCrew'
  <2> SUFFICES ASSUME NEW r \in Ride, NEW i \in 1..Len(events'[r]),
                      events'[r][i].type \in DOMAIN Before
               PROVE  \E j \in 1..(i - 1) :
                          /\ events'[r][j].type = Before[events'[r][i].type]
                          /\ events'[r][j].by = events'[r][i].by
                          /\ \A k \in (j + 1)..(i - 1) :
                                 events'[r][k].type # "DRIVER_CANCELLED"
    BY DEF OneCrew
  <2>1. CASE r # q
    <3>1. events'[r] = events[r]
      BY <2>1, <1>others
    <3>2. QED
      BY <3>1 DEF Hands, OneCrew
  <2>2. CASE r = q /\ i \in 1..n
    <3>1. events'[q][i] = events[q][i]
      BY <2>2, <1>old
    <3>2. PICK j \in 1..(i - 1) :
                  /\ events[q][j].type = Before[events[q][i].type]
                  /\ events[q][j].by = events[q][i].by
                  /\ \A k \in (j + 1)..(i - 1) :
                         events[q][k].type # "DRIVER_CANCELLED"
      BY <2>2, <3>1, <1>q DEF Hands, OneCrew
    <3>3. \A k \in 1..(i - 1) : events'[q][k] = events[q][k]
      BY <2>2, <1>seq, <1>old
    <3>4. \A k \in (j + 1)..(i - 1) : k \in 1..(i - 1)
      BY <2>2, <1>seq
    <3>5. QED
      BY <2>2, <3>1, <3>2, <3>3, <3>4
  <2>3. CASE r = q /\ i = n + 1
    <3>1. events'[q][i].type = type /\ events'[q][i].by = c.driver
      BY <2>3, <1>last
    <3>2. PICK j \in 1..n :
                  /\ events[q][j].type = Before[type]
                  /\ events[q][j].by = c.driver
                  /\ \A k \in (j + 1)..n : events[q][k].type # "DRIVER_CANCELLED"
      BY <2>3, <3>1 DEF HadBy
    <3>3. i - 1 = n
      BY <2>3, <1>seq
    <3>4. \A k \in (j + 1)..n : k \in 1..n
      BY <1>seq
    <3>5. events'[q][j] = events[q][j]
      BY <3>2, <1>old
    <3>6. \A k \in (j + 1)..(i - 1) : events'[q][k].type # "DRIVER_CANCELLED"
      BY <3>2, <3>3, <3>4, <1>old
    <3>7. /\ j \in 1..(i - 1)
          /\ events'[q][j].type = Before[events'[q][i].type]
          /\ events'[q][j].by = events'[q][i].by
      BY <3>1, <3>2, <3>3, <3>5
    <3>8. QED
      BY <2>3, <3>6, <3>7
  <2>4. i \in 1..n \/ i = n + 1 \/ r # q
    BY <1>len, <1>seq
  <2>5. QED
    BY <2>1, <2>2, <2>3, <2>4
<1>4. QED
  BY <1>1, <1>2, <1>3 DEF Hands

\* A read, of one worker, is the only call there is.
LEMMA BeginSInv ==
    ASSUME OneWorker, SInv, IInv', NEW w \in Worker, NEW next, NEW r, NEW d,
           Begin(w, next, r, d),
           Current([by |-> w, next |-> next, ride |-> r, driver |-> d])
    PROVE  SInv'
<1> DEFINE c0 == [by |-> w, next |-> next, ride |-> r, driver |-> d]
<1>1. calls' = calls \cup {c0} /\ UNCHANGED <<rideVars, driverVars>>
  BY DEF Begin
<1>2. calls = {}
  <2>1. \A c \in calls : c.by \in Worker
    BY DEF SInv, IInv, TypeOK, Call
  <2>2. QED
    BY <2>1 DEF OneWorker, Begin
<1>3. calls' = {c0}
  BY <1>1, <1>2
<1>4. UNCHANGED <<ride, assigned, events>>
  BY <1>1 DEF rideVars
<1>5. OneCall'
  BY <1>3 DEF OneCall
<1>6. CallsCurrent'
  BY <1>3, <1>4 DEF CallsCurrent, Current
<1>7. Hands'
  BY <1>4, QuietHands DEF SInv
<1>8. QED
  BY <1>5, <1>6, <1>7 DEF SInv

\* The driver who is on the way was assigned, and has not cancelled since.
LEMMA ArrivingWasAssigned ==
    ASSUME IInv, OneCrew, NEW r \in Ride, NEW d,
           HadBy(events[r], "DRIVER_ARRIVING", d)
    PROVE  HadBy(events[r], "DRIVER_ASSIGNED", d)
<1> DEFINE es == events[r]
           n == Len(es)
<1>n. n \in Nat
  BY DEF IInv, TypeOK
<1>1. PICK i \in 1..n :
            /\ es[i].type = "DRIVER_ARRIVING" /\ es[i].by = d
            /\ \A k \in (i + 1)..n : es[k].type # "DRIVER_CANCELLED"
  BY DEF HadBy
<1>2. PICK j \in 1..(i - 1) :
            /\ es[j].type = "DRIVER_ASSIGNED" /\ es[j].by = d
            /\ \A k \in (j + 1)..(i - 1) : es[k].type # "DRIVER_CANCELLED"
  BY <1>1, BeforeFacts DEF OneCrew
<1>3. j \in 1..n
  BY <1>n, <1>1, <1>2
<1>4. \A k \in (j + 1)..n : k \in (j + 1)..(i - 1) \/ k = i \/ k \in (i + 1)..n
  BY <1>n, <1>1, <1>2
<1>5. \A k \in (j + 1)..n : es[k].type # "DRIVER_CANCELLED"
  BY <1>1, <1>2, <1>4
<1>6. QED
  BY <1>2, <1>3, <1>5 DEF HadBy

\* A call of which nothing is left, or that goes on, is the only one.
LEMMA ProceedCalls ==
    ASSUME OneCall, NEW c \in calls
    PROVE  /\ End(c) => calls' = {}
           /\ \A t : Continue(c, t) => calls' = {[c EXCEPT !.next = t]}
BY DEF OneCall, End, Continue

\* The writes of the only call there is.
LEMMA ProceedSInv ==
    ASSUME SInv, IInv', NEW c \in calls, Proceed(c)
    PROVE  SInv'
<1>types. TypeOK /\ OneCall /\ CallsCurrent /\ Hands /\ CrewedRide
  BY DEF SInv, IInv, Hands
<1>c. c \in Call /\ CallOK(c) /\ Current(c)
  BY <1>types DEF TypeOK, SInv, IInv, CallsReached, CallsCurrent
<1>end. End(c) => OneCall' /\ CallsCurrent'
  BY <1>types, ProceedCalls DEF OneCall, CallsCurrent
<1>goes. ASSUME NEW t, Continue(c, t), Current([c EXCEPT !.next = t])'
         PROVE  OneCall' /\ CallsCurrent'
  <2>1. calls' = {[c EXCEPT !.next = t]}
    BY <1>types, <1>goes, ProceedCalls
  <2>2. QED
    BY <2>1, <1>goes DEF OneCall, CallsCurrent
<1>still. UNCHANGED <<ride, assigned, events>> => Hands'
  BY <1>types, QuietHands
<1>next. ASSUME NEW t
         PROVE  LET k == [c EXCEPT !.next = t]
                IN  k.next = t /\ k.ride = c.ride /\ k.driver = c.driver
  BY <1>c DEF Call
<1>1. CASE AcceptRide(c)
  <2>1. Continue(c, "DRIVER_ASSIGNED") /\ UNCHANGED <<ride, assigned, events>>
    BY <1>1 DEF AcceptRide, rideVars
  <2>2. ride[c.ride] \in Waiting
    BY <1>1 DEF AcceptRide
  <2>3. Current([c EXCEPT !.next = "DRIVER_ASSIGNED"])'
    BY <2>1, <2>2, <1>next, CrewedStatus DEF Current
  <2>4. QED
    BY <2>1, <2>3, <1>goes, <1>still DEF SInv
<1>2. CASE Withdraw(c)
  <2>1. ride[c.ride] \in Waiting /\ c.ride \in Ride
    BY <1>c, <1>2 DEF Withdraw, Current, CallOK
  <2>2. assigned[c.ride] = NoDriver
    BY <2>1, <1>types DEF CrewedRide, Waiting
  <2>3. ride' = [ride EXCEPT ![c.ride] = "CANCELLED"]
    BY <1>2 DEF Withdraw
  <2>4. \A r \in Ride :
            \/ ride'[r] = ride[r]
            \/ assigned[r] = NoDriver /\ ride'[r] = "CANCELLED"
    BY <2>2, <2>3, <1>types DEF TypeOK
  <2>5. \A r \in Ride : ride'[r] \in DOMAIN EventOf => ride'[r] = ride[r]
    BY <2>4, CrewedStatus
  <2>6. UNCHANGED <<events, assigned>> /\ End(c)
    BY <1>2 DEF Withdraw
  <2>7. Hands'
    BY <2>4, <2>5, <2>6, <1>types, QuietHands
  <2>8. QED
    BY <2>6, <2>7, <1>end DEF SInv
<1>3. CASE AssignDriver(c)
  <2>1. c.ride \in Ride /\ c.driver \in Driver
    BY <1>c, <1>3 DEF AssignDriver, CallOK
  <2>2. /\ ride' = [ride EXCEPT ![c.ride] = "DRIVER_ASSIGNED"]
        /\ assigned' = [assigned EXCEPT ![c.ride] = c.driver]
        /\ Record(c.ride, "DRIVER_ASSIGNED", c.driver) /\ End(c)
    BY <1>3 DEF AssignDriver
  <2>3. /\ assigned'[c.ride] = c.driver
        /\ \A r \in Ride : r # c.ride => assigned'[r] = assigned[r]
    BY <2>1, <2>2, <1>types DEF TypeOK
  <2>4. assigned'[c.ride] # NoDriver
    BY <2>1, <2>3, RidesAssumption
  <2>5. "DRIVER_ASSIGNED" \in EventType /\ "DRIVER_ASSIGNED" \notin DOMAIN Before
    BY EventTypes, BeforeFacts
  <2>6. "DRIVER_ASSIGNED" \in RideStatus
    BY DEF RideStatus
  <2>7. Hands'
    BY <2>1, <2>2, <2>3, <2>4, <2>5, <2>6, <1>types, EventOfFacts, RecordHands
    DEF SInv
  <2>8. QED
    BY <2>2, <2>7, <1>end DEF SInv
<1>4. CASE ReturnToPool(c)
  <2>1. c.ride \in Ride /\ c.driver \in Driver
    BY <1>c, <1>4 DEF ReturnToPool, CallOK
  <2>2. /\ ride' = [ride EXCEPT ![c.ride] = "MATCHING"]
        /\ assigned' = [assigned EXCEPT ![c.ride] = NoDriver]
        /\ Record(c.ride, "DRIVER_CANCELLED", c.driver) /\ End(c)
    BY <1>4 DEF ReturnToPool
  <2>3. /\ assigned'[c.ride] = NoDriver
        /\ \A r \in Ride : r # c.ride => assigned'[r] = assigned[r]
    BY <2>1, <2>2, <1>types DEF TypeOK
  <2>4. /\ assigned[c.ride] = c.driver
        /\ ride[c.ride] \in {"DRIVER_ASSIGNED", "DRIVER_ARRIVING"}
    BY <1>c, <1>4 DEF ReturnToPool, Current
  <2>5. HadBy(events[c.ride], "DRIVER_ASSIGNED", c.driver)
    <3>1. CASE ride[c.ride] = "DRIVER_ASSIGNED"
      BY <3>1, <2>1, <2>4, <1>types, EventOfFacts DEF Hands, InHands
    <3>2. CASE ride[c.ride] = "DRIVER_ARRIVING"
      BY <3>2, <2>1, <2>4, EventOfFacts, ArrivingWasAssigned DEF SInv, Hands, InHands
    <3>3. QED
      BY <2>4, <3>1, <3>2
  <2>6. "DRIVER_CANCELLED" \in EventType
    BY EventTypes
  <2>7. "MATCHING" \in RideStatus /\ "MATCHING" \notin DOMAIN EventOf
    BY EventOfFacts DEF RideStatus
  <2>8. Hands'
    BY <2>1, <2>2, <2>3, <2>5, <2>6, <2>7, <1>types, BeforeFacts, RecordHands
    DEF SInv
  <2>9. QED
    BY <2>2, <2>8, <1>end DEF SInv
<1>5. ASSUME NEW s \in Stage, WriteStage(c, s) PROVE SInv'
  <2>1. /\ c.next = s[3] /\ Record(c.ride, s[3], c.driver) /\ End(c)
        /\ ride' = [ride EXCEPT ![c.ride] = s[2]] /\ UNCHANGED assigned
    BY <1>5 DEF WriteStage
  <2>2. c.ride \in Ride /\ c.driver \in Driver
    BY <1>c, <2>1, CrewedStatus DEF CallOK
  <2>3. assigned[c.ride] = c.driver /\ ride[c.ride] = s[1]
    BY <1>c, <2>1 DEF Current
  <2>4. HadBy(events[c.ride], Before[s[3]], c.driver)
    BY <2>2, <2>3, <1>types, StageFacts DEF Hands, InHands
  <2>5. assigned'[c.ride] # NoDriver
    BY <2>1, <2>2, <2>3, RidesAssumption
  <2>6. Hands'
    BY <2>1, <2>2, <2>3, <2>4, <2>5, <1>types, CrewedStatus, StageFacts, RecordHands
    DEF SInv
  <2>7. QED
    BY <2>1, <2>6, <1>end DEF SInv
<1>6. CASE FileIncident(c)
  <2>1. Continue(c, "MARK_INCIDENT") /\ UNCHANGED <<ride, assigned, events>>
    BY <1>6 DEF FileIncident
  <2>2. assigned[c.ride] = c.driver
    BY <1>c, <1>6 DEF FileIncident, Current
  <2>3. Current([c EXCEPT !.next = "MARK_INCIDENT"])'
    BY <2>1, <2>2, <1>next, CrewedStatus DEF Current
  <2>4. QED
    BY <2>1, <2>3, <1>goes, <1>still DEF SInv
<1>7. CASE MarkIncident(c)
  <2>1. c.ride \in Ride /\ c.driver \in Driver /\ assigned[c.ride] = c.driver
    BY <1>c, <1>7 DEF MarkIncident, CallOK, Current
  <2>2. assigned[c.ride] # NoDriver
    BY <2>1, RidesAssumption
  <2>3. /\ ride' = [ride EXCEPT ![c.ride] = "INCIDENT"]
        /\ Continue(c, "INCIDENT_REPORTED") /\ UNCHANGED <<events, assigned>>
    BY <1>7 DEF MarkIncident
  <2>4. \A r \in Ride :
            \/ ride'[r] = ride[r]
            \/ assigned[r] # NoDriver /\ ride'[r] = "INCIDENT"
    BY <2>2, <2>3, <1>types DEF TypeOK
  <2>5. \A r \in Ride : ride'[r] \in DOMAIN EventOf => ride'[r] = ride[r]
    BY <2>4, EventOfFacts
  <2>6. Hands'
    BY <2>3, <2>4, <2>5, <1>types, QuietHands
  <2>7. Current([c EXCEPT !.next = "INCIDENT_REPORTED"])'
    BY <1>next, CrewedStatus DEF Current
  <2>8. QED
    BY <2>3, <2>6, <2>7, <1>goes DEF SInv
<1>8. CASE WriteNote(c) \/ WriteOnline(c) \/ WritePending(c) \/ Die(c)
  <2>1. End(c) /\ UNCHANGED <<ride, assigned, events>>
    BY <1>8 DEF WriteNote, WriteOnline, WritePending, Die, rideVars
  <2>2. QED
    BY <2>1, <1>end, <1>still DEF SInv
<1>9. QED
  BY <1>1, <1>2, <1>3, <1>4, <1>5, <1>6, <1>7, <1>8 DEF Proceed

\* The steps of Next, one by one, when calls do not overlap.
LEMMA NextSInv ==
    ASSUME OneWorker, SInv, [Next]_vars
    PROVE  SInv'
<1>types. IInv' /\ TypeOK /\ Hands /\ CrewedRide /\ CallsCurrent
  BY NextIInv DEF SInv, IInv, Hands
<1>quiet. UNCHANGED <<ride, assigned, events, calls>> => SInv'
  BY <1>types, QuietHands DEF SInv, OneCall, CallsCurrent, Current
<1>1. ASSUME NEW r \in Ride, Request(r) PROVE SInv'
  <2>1. /\ ride[r] = "ABSENT" /\ ride' = [ride EXCEPT ![r] = "REQUESTED"]
        /\ UNCHANGED <<assigned, events, calls>>
    BY <1>1 DEF Request
  <2>2. assigned[r] = NoDriver
    BY <2>1, <1>types DEF CrewedRide
  <2>3. \A q \in Ride :
            \/ ride'[q] = ride[q]
            \/ assigned[q] = NoDriver /\ ride'[q] = "REQUESTED"
    BY <2>1, <2>2, <1>types DEF TypeOK
  <2>4. \A q \in Ride : ride'[q] \in DOMAIN EventOf => ride'[q] = ride[q]
    BY <2>3, CrewedStatus
  <2>5. Hands'
    BY <2>1, <2>3, <2>4, <1>types, QuietHands
  <2>6. ASSUME NEW c \in calls PROVE Current(c)'
    <3>1. Current(c) /\ CallOK(c)
      BY <1>types DEF CallsCurrent, SInv, IInv, CallsReached
    <3>2. CASE c.ride = r
      <4>1. /\ ride[c.ride] \notin Waiting
            /\ ride[c.ride] \notin {"DRIVER_ASSIGNED", "DRIVER_ARRIVING"}
            /\ \A s \in Stage : ride[c.ride] # s[1]
        BY <2>1, <3>2 DEF Waiting, Stage
      <4>2. c.next \in {"FILE_INCIDENT", "MARK_INCIDENT"} =>
                c.driver \in Driver /\ assigned[c.ride] = NoDriver
        BY <2>2, <3>1, <3>2 DEF CallOK
      <4>3. assigned'[c.ride] = assigned[c.ride]
        BY <2>1
      <4>4. QED
        BY <3>1, <4>1, <4>2, <4>3, RidesAssumption DEF Current
    <3>3. CASE c.ride # r
      <4>1. ride'[c.ride] = ride[c.ride] \/ c.ride \notin Ride
        BY <2>1, <3>3, <1>types DEF TypeOK
      <4>2. c.ride \notin Ride => c.next \in {"GO_ONLINE", "SUBMIT"}
        BY <3>1 DEF CallOK
      <4>3. UNCHANGED assigned
        BY <2>1
      <4>4. QED
        BY <3>1, <4>1, <4>2, <4>3, CrewedStatus DEF Current
    <3>4. QED
      BY <3>2, <3>3
  <2>7. OneCall' /\ CallsCurrent'
    BY <2>1, <2>6 DEF SInv, OneCall, CallsCurrent
  <2>8. QED
    BY <2>5, <2>7, <1>types DEF SInv
<1>2. ASSUME NEW w \in Worker, NEW r \in Ride, CustomerCancel(w, r) PROVE SInv'
  <2>1. Current([by |-> w, next |-> "WITHDRAW", ride |-> r, driver |-> NoDriver])
    BY <1>2, CrewedStatus DEF CustomerCancel, Current
  <2>2. Begin(w, "WITHDRAW", r, NoDriver)
    BY <1>2 DEF CustomerCancel
  <2>3. QED
    BY <2>1, <2>2, <1>types, BeginSInv
<1>3. ASSUME NEW w \in Worker, NEW r \in Ride, NEW d \in Driver, RideStart(w, r, d)
      PROVE  SInv'
  <2>1. ASSUME NEW t \in {"READ_RIDE", "DRIVER_DECLINED"}, Begin(w, t, r, d)
        PROVE  SInv'
    <3>1. Current([by |-> w, next |-> t, ride |-> r, driver |-> d])
      BY CrewedStatus DEF Current
    <3>2. QED
      BY <2>1, <3>1, <1>types, BeginSInv
  <2>2. CASE DriverCancel(w, r, d)
    <3>1. Current([by |-> w, next |-> "DRIVER_CANCELLED", ride |-> r, driver |-> d])
      BY <2>2, CrewedStatus DEF DriverCancel, Current
    <3>2. QED
      BY <2>2, <3>1, <1>types, BeginSInv DEF DriverCancel
  <2>3. ASSUME NEW s \in Stage, Advance(w, r, d, s) PROVE SInv'
    <3>1. \A t \in Stage : s[3] = t[3] => s = t
      BY CrewedStatus
    <3>2. Current([by |-> w, next |-> s[3], ride |-> r, driver |-> d])
      BY <2>3, <3>1, CrewedStatus DEF Advance, Current
    <3>3. QED
      BY <2>3, <3>2, <1>types, BeginSInv DEF Advance
  <2>4. CASE Report(w, r, d)
    <3>1. Current([by |-> w, next |-> "FILE_INCIDENT", ride |-> r, driver |-> d])
      BY <2>4, CrewedStatus DEF Report, Current
    <3>2. QED
      BY <2>4, <3>1, <1>types, BeginSInv DEF Report
  <2>5. QED
    BY <1>3, <2>1, <2>2, <2>3, <2>4 DEF RideStart, Accept, Decline
<1>4. ASSUME NEW w \in Worker, NEW d \in Driver, DriverStart(w, d) PROVE SInv'
  <2>1. ASSUME NEW t \in {"GO_ONLINE", "SUBMIT"}, Begin(w, t, NoRide, d)
        PROVE  SInv'
    <3>1. Current([by |-> w, next |-> t, ride |-> NoRide, driver |-> d])
      BY CrewedStatus DEF Current
    <3>2. QED
      BY <2>1, <3>1, <1>types, BeginSInv
  <2>2. QED
    BY <1>4, <2>1 DEF DriverStart, GoOnline, SubmitVerification
<1>5. ASSUME NEW c \in calls, Proceed(c) PROVE SInv'
  BY <1>5, <1>types, ProceedSInv
<1>6. ASSUME NEW d \in Driver, NEW s \in StaffStatus \cup {"OFFLINE"},
             WriteStatus(d, s)
      PROVE  SInv'
  BY <1>6, <1>quiet DEF WriteStatus, rideVars
<1>7. ASSUME NEW d \in Driver, NEW v \in Verification, Judge(d, v) PROVE SInv'
  BY <1>7, <1>quiet DEF Judge, rideVars
<1>8. CASE UNCHANGED vars
  BY <1>8, <1>quiet DEF vars
<1>9. QED
  BY <1>1, <1>2, <1>3, <1>4, <1>5, <1>6, <1>7, <1>8 DEF Next

\* The invariant of calls that do not overlap.
LEMMA SpecSInv ==
    ASSUME OneWorker
    PROVE  Spec => []SInv
<1>1. Init => SInv
  BY InitSInv
<1>2. SInv /\ [Next]_vars => SInv'
  BY NextSInv
<1>3. QED
  BY <1>1, <1>2, PTL DEF Spec

\* A ride has a driver exactly from its assignment on, for any number of
\* rides and drivers, while no two calls overlap: accept, cancel and the
\* stages then write to the ride as they have read it.
THEOREM CrewedCorrect ==
    ASSUME OneWorker
    PROVE  Spec => []CrewedRide
<1>1. SInv => CrewedRide
  BY DEF SInv, Hands
<1>2. QED
  BY <1>1, SpecSInv, PTL

\* One driver takes a ride through all of its stages while no two calls
\* overlap: the driver on the row is the one who recorded the event that
\* brought the ride into its status, and a cancel takes the driver off.
THEOREM OneCrewCorrect ==
    ASSUME OneWorker
    PROVE  Spec => []OneCrew
<1>1. SInv => OneCrew
  BY DEF SInv, Hands
<1>2. QED
  BY <1>1, SpecSInv, PTL

-----------------------------------------------------------------------------
\* What FinalStays says of one ride.
FinalRow(r) ==
    /\ ride[r] = "CANCELLED" => ride'[r] = "CANCELLED"
    /\ ride[r] = "INCIDENT" => ride'[r] = "INCIDENT"
    /\ ride[r] = "COMPLETED" => ride'[r] \in {"COMPLETED", "INCIDENT"}

\* Writes to a ride that moves, and reports of an incident on a ride that
\* has a driver.
LEMMA ProceedFinal ==
    ASSUME SInv, NEW c \in calls, Proceed(c), NEW r \in Ride
    PROVE  FinalRow(r)
<1>types. TypeOK /\ CrewedRide
  BY DEF SInv, IInv, Hands
<1>c. CallOK(c) /\ Current(c)
  BY DEF SInv, IInv, CallsReached, CallsCurrent
<1>write. ASSUME NEW s, ride' = [ride EXCEPT ![c.ride] = s],
                 ride[c.ride] \notin {"CANCELLED", "INCIDENT", "COMPLETED"}
          PROVE  FinalRow(r)
  <2>1. ride'[r] = ride[r] \/ r = c.ride
    BY <1>write, <1>types DEF TypeOK
  <2>2. QED
    BY <1>write, <2>1 DEF FinalRow
<1>1. CASE Withdraw(c) \/ AssignDriver(c)
  <2>1. ride[c.ride] \notin {"CANCELLED", "INCIDENT", "COMPLETED"}
    BY <1>c, <1>1 DEF Withdraw, AssignDriver, Current, Waiting
  <2>2. QED
    BY <1>1, <2>1, <1>write DEF Withdraw, AssignDriver
<1>2. CASE ReturnToPool(c)
  <2>1. ride[c.ride] \notin {"CANCELLED", "INCIDENT", "COMPLETED"}
    BY <1>c, <1>2 DEF ReturnToPool, Current
  <2>2. QED
    BY <1>2, <2>1, <1>write DEF ReturnToPool
<1>3. ASSUME NEW s \in Stage, WriteStage(c, s) PROVE FinalRow(r)
  <2>1. ride[c.ride] = s[1]
    BY <1>c, <1>3 DEF WriteStage, Current
  <2>2. ride[c.ride] \notin {"CANCELLED", "INCIDENT", "COMPLETED"}
    BY <2>1, CrewedStatus
  <2>3. QED
    BY <1>3, <2>2, <1>write DEF WriteStage
<1>4. CASE MarkIncident(c)
  <2>1. c.ride \in Ride /\ c.driver \in Driver /\ assigned[c.ride] = c.driver
    BY <1>c, <1>4 DEF MarkIncident, CallOK, Current
  <2>2. ride[c.ride] # "CANCELLED"
    BY <2>1, <1>types, RidesAssumption DEF CrewedRide
  <2>3. ride' = [ride EXCEPT ![c.ride] = "INCIDENT"]
    BY <1>4 DEF MarkIncident
  <2>4. ride'[r] = ride[r] \/ (r = c.ride /\ ride'[r] = "INCIDENT")
    BY <2>3, <1>types DEF TypeOK
  <2>5. QED
    BY <2>2, <2>4 DEF FinalRow
<1>5. CASE AcceptRide(c) \/ FileIncident(c) \/ WriteNote(c) \/ WriteOnline(c)
               \/ WritePending(c) \/ Die(c)
  BY <1>5 DEF AcceptRide, FileIncident, WriteNote, WriteOnline, WritePending, Die,
              rideVars, FinalRow
<1>6. QED
  BY <1>1, <1>2, <1>3, <1>4, <1>5 DEF Proceed

\* A completed, cancelled or incident ride stays so while no two calls
\* overlap, save that an incident may be reported on a completed one: every
\* other handler writes to a ride that it has found in a status before that.
THEOREM FinalStaysCorrect ==
    ASSUME OneWorker
    PROVE  Spec => FinalStays
<1>1. ASSUME SInv, [Next]_vars
      PROVE  [\A r \in Ride :
                /\ ride[r] = "CANCELLED" => ride'[r] = "CANCELLED"
                /\ ride[r] = "INCIDENT" => ride'[r] = "INCIDENT"
                /\ ride[r] = "COMPLETED" => ride'[r] \in {"COMPLETED", "INCIDENT"}]_vars
  <2> SUFFICES ASSUME NEW r \in Ride PROVE FinalRow(r)
    BY DEF FinalRow
  <2>types. TypeOK
    BY <1>1 DEF SInv, IInv
  <2>same. UNCHANGED ride => FinalRow(r)
    BY DEF FinalRow
  <2>1. ASSUME NEW q \in Ride, Request(q) PROVE FinalRow(r)
    BY <2>1, <2>types DEF Request, TypeOK, FinalRow
  <2>2. ASSUME NEW c \in calls, Proceed(c) PROVE FinalRow(r)
    BY <1>1, <2>2, ProceedFinal
  <2>3. CASE \E w \in Worker, q \in Ride : CustomerCancel(w, q)
    BY <2>3, <2>same DEF CustomerCancel, Begin, rideVars
  <2>4. ASSUME NEW w \in Worker, NEW q \in Ride, NEW d \in Driver,
               RideStart(w, q, d)
        PROVE  FinalRow(r)
    <3>1. \E t : Begin(w, t, q, d)
      BY <2>4 DEF RideStart, Accept, Decline, DriverCancel, Advance, Report
    <3>2. QED
      BY <3>1, <2>same DEF Begin, rideVars
  <2>5. ASSUME NEW w \in Worker, NEW d \in Driver, DriverStart(w, d)
        PROVE  FinalRow(r)
    BY <2>5, <2>same DEF DriverStart, GoOnline, SubmitVerification, Begin, rideVars
  <2>6. ASSUME NEW d \in Driver, NEW s, WriteStatus(d, s) PROVE FinalRow(r)
    BY <2>6, <2>same DEF WriteStatus, rideVars
  <2>7. ASSUME NEW d \in Driver, NEW v, Judge(d, v) PROVE FinalRow(r)
    BY <2>7, <2>same DEF Judge, rideVars
  <2>8. CASE UNCHANGED vars
    BY <2>8, <2>same DEF vars
  <2>9. QED
    BY <1>1, <2>1, <2>2, <2>3, <2>4, <2>5, <2>6, <2>7, <2>8 DEF Next
<1>2. QED
  BY <1>1, SpecSInv, PTL DEF Spec, FinalStays
=============================================================================
