-------------------------------- MODULE Fleet --------------------------------
(***************************************************************************)
(* Vehicles and the partners their drivers belong to.  A partner's routes  *)
(* check the driver and the plate and write later; a driver keeps vehicles *)
(* of his own, whose plates nobody compares; staff add vehicles and move   *)
(* drivers from one partner to another without a look at their vehicles.   *)
(***************************************************************************)
EXTENDS FiniteSets

CONSTANTS
    Caller,         \* calls that may be in progress
    Partner,
    Driver,
    Vehicle,        \* rows of vehicles
    Plate,
    Nil

VARIABLES
    employer,       \* employer[d]: the driver's partner, or Nil
    vehicle,        \* vehicle[v]: the row, or Nil
    scrapped,       \* rows that were deleted
    editing,        \* editing[c]: the fields a call is about to write, or Nil
    unchecked,      \* ghost: vehicles whose plate no check has passed
    transferred,    \* ghost: drivers that were moved
    jammed          \* ghost: calls were in progress together

fleetVars == <<employer, vehicle, scrapped, editing, unchecked, transferred, jammed>>

-----------------------------------------------------------------------------
\* The fields that somebody compares; an update names some of them.
VehicleRow == [partner : Partner \cup {Nil}, driver : Driver \cup {Nil}, plate : Plate]
Patch == [driver : Driver \cup {Nil}, plate : Plate] \cup [driver : Driver \cup {Nil}] \cup [plate : Plate]

Owned(v, p) == vehicle[v] # Nil /\ vehicle[v].partner = p
Employs(p, d) == d = Nil \/ (d # Nil /\ employer[d] = p)
Fresh(v) == vehicle[v] = Nil /\ v \notin scrapped /\ \A c \in Caller : editing[c] # Nil => editing[c].vehicle # v

Init ==
    /\ employer \in [Driver -> Partner \cup {Nil}]
    /\ vehicle = [v \in Vehicle |-> Nil]
    /\ scrapped = {}
    /\ editing = [c \in Caller |-> Nil]
    /\ unchecked = {}
    /\ transferred = {}
    /\ jammed = FALSE

-----------------------------------------------------------------------------
Begin(c, v, fields, checked) ==
    /\ editing[c] = Nil
    /\ editing' = [editing EXCEPT ![c] = [vehicle |-> v, fields |-> fields, checked |-> checked]]
    /\ jammed' = (jammed \/ \E d \in Caller : editing[d] # Nil)
    /\ UNCHANGED <<employer, vehicle, scrapped, unchecked, transferred>>

\* create: the driver is the partner's and none of its vehicles has the plate.
Create(c, v, p, d, plate) ==
    /\ Fresh(v)
    /\ Employs(p, d)
    /\ \A w \in Vehicle : Owned(w, p) => vehicle[w].plate # plate
    /\ Begin(c, v, [partner |-> p, driver |-> d, plate |-> plate], TRUE)

\* Mutant: the driver of an update is not looked up among the partner's.
BugUpdate(c, v, p, fields) ==
    /\ Owned(v, p)
    /\ Begin(c, v, fields, "plate" \notin DOMAIN fields)

\* update: of a vehicle of the partner; the driver is checked, the plate is not.
Update(c, v, p, fields) ==
    /\ Owned(v, p)
    /\ "driver" \in DOMAIN fields => Employs(p, fields.driver)
    /\ Begin(c, v, fields, "plate" \notin DOMAIN fields)

\* assignDriver of the partner.
AssignDriver(c, v, p, d) ==
    /\ Owned(v, p)
    /\ employer[d] = p
    /\ Begin(c, v, [driver |-> d], TRUE)

\* A driver enters a vehicle of his own, which belongs to no partner.  The
\* handler expects the database to refuse a plate twice, which it does not.
CreateOwn(c, v, d, plate) ==
    /\ Fresh(v)
    /\ Begin(c, v, [partner |-> Nil, driver |-> d, plate |-> plate], FALSE)

\* A driver changes the vehicle he drives, its plate too, whosever it is.
UpdateOwn(c, v, d, plate) ==
    /\ vehicle[v] # Nil
    /\ vehicle[v].driver = d
    /\ Begin(c, v, [plate |-> plate], FALSE)

\* An insert, or an update of a row that is still there.
Write(c) ==
    /\ editing[c] # Nil
    /\ LET v == editing[c].vehicle
           fields == editing[c].fields
       IN /\ v \notin scrapped
          /\ vehicle' = [vehicle EXCEPT ![v] =
                 IF "partner" \in DOMAIN fields THEN fields
                 ELSE [f \in DOMAIN @ |-> IF f \in DOMAIN fields THEN fields[f] ELSE @[f]]]
          /\ unchecked' = IF editing[c].checked THEN unchecked ELSE unchecked \cup {v}
    /\ editing' = [editing EXCEPT ![c] = Nil]
    /\ UNCHANGED <<employer, scrapped, transferred, jammed>>

EditDies(c) ==
    /\ editing[c] # Nil
    /\ editing' = [editing EXCEPT ![c] = Nil]
    /\ UNCHANGED <<employer, vehicle, scrapped, unchecked, transferred, jammed>>

\* The delete routes of the partner and of the driver.
DeleteVehicle(v) ==
    /\ vehicle[v] # Nil
    /\ vehicle' = [vehicle EXCEPT ![v] = Nil]
    /\ scrapped' = scrapped \cup {v}
    /\ UNCHANGED <<employer, editing, unchecked, transferred, jammed>>

\* Staff: addVehicle in one insert, assignDriver and unassignDriver.
AddVehicle(v, p, plate) ==
    /\ Fresh(v)
    /\ vehicle' = [vehicle EXCEPT ![v] = [partner |-> p, driver |-> Nil, plate |-> plate]]
    /\ unchecked' = unchecked \cup {v}
    /\ UNCHANGED <<employer, scrapped, editing, transferred, jammed>>

Transfer(d, p) ==
    /\ p # employer[d]
    /\ employer' = [employer EXCEPT ![d] = p]
    /\ transferred' = transferred \cup {d}
    /\ UNCHANGED <<vehicle, scrapped, editing, unchecked, jammed>>

Next ==
    \/ \E c \in Caller, v \in Vehicle, p \in Partner, d \in Driver \cup {Nil}, plate \in Plate : Create(c, v, p, d, plate)
    \/ \E c \in Caller, v \in Vehicle, p \in Partner, fields \in Patch : Update(c, v, p, fields)
    \/ \E c \in Caller, v \in Vehicle, p \in Partner, d \in Driver : AssignDriver(c, v, p, d)
    \/ \E c \in Caller, v \in Vehicle, d \in Driver, plate \in Plate : CreateOwn(c, v, d, plate)
    \/ \E c \in Caller, v \in Vehicle, d \in Driver, plate \in Plate : UpdateOwn(c, v, d, plate)
    \/ \E c \in Caller : Write(c)
    \/ \E c \in Caller : EditDies(c)
    \/ \E v \in Vehicle : DeleteVehicle(v)
    \/ \E v \in Vehicle, p \in Partner, plate \in Plate : AddVehicle(v, p, plate)
    \/ \E d \in Driver, p \in Partner \cup {Nil} : Transfer(d, p)

Spec == Init /\ [][Next]_fleetVars

-----------------------------------------------------------------------------
TypeOK ==
    /\ employer \in [Driver -> Partner \cup {Nil}]
    /\ vehicle \in [Vehicle -> VehicleRow \cup {Nil}]
    /\ editing \in [Caller -> [vehicle : Vehicle, fields : VehicleRow \cup Patch, checked : BOOLEAN] \cup {Nil}]
    /\ unchecked \cup scrapped \subseteq Vehicle
    /\ transferred \subseteq Driver
    /\ jammed \in BOOLEAN

\* A partner's vehicle is driven by a driver of the partner, unless staff
\* moved the driver; and until calls overlap, of two vehicles of a partner
\* with one plate, one has a plate that no check has passed.
FleetHolds ==
    /\ \A v \in Vehicle :
           vehicle[v] # Nil /\ vehicle[v].partner # Nil /\ vehicle[v].driver \notin transferred
               => Employs(vehicle[v].partner, vehicle[v].driver)
    /\ ~jammed => \A v, w \in Vehicle \ unchecked :
           /\ v # w /\ vehicle[v] # Nil /\ vehicle[w] # Nil /\ vehicle[v].partner # Nil
           /\ vehicle[v].partner = vehicle[w].partner
           => vehicle[v].plate # vehicle[w].plate
=============================================================================
