------------------------------ MODULE Platform ------------------------------
(* The parts of the platform around payments, bookings, trips and rides.    *)
(*                                                                          *)
(* The parts below keep their rows in tables of their own and call nothing  *)
(* of each other while a step of theirs is in progress, so their steps      *)
(* commute and a behaviour of all of them is one behaviour of each.  The    *)
(* initial state picks the part that runs: TLC then visits the sum of their *)
(* states instead of the product, under one configuration.                  *)
EXTENDS Integers

CONSTANTS
    Parts,                                  \* the parts to run
    Caller, Nil,                            \* calls in progress, and no value
    Verifier, Slip, MaxGuesses, MaxCodes, MaxWrong,         \* OneTimeCodes
    Role, MaxSecrets,                                       \* Accounts
    Event, Channel, MaxAttempts, MaxStalls, MaxErrors,      \* Notifications
    Chat, Action, Topic, Risk,                              \* Thoth
    Keys,                                                   \* Desk
    Sale, Amount, MonthDays, Months, Day,                   \* Reports
    Employer, Period, Net,                      \* Settlements, Fleet
    Partner,                                                \* Catalogue
    Row, MaxVersion, Sync,                                  \* SearchIndex
    Driver, Vehicle, Plate,                                 \* Fleet
    Plans, Direct, Delivery,                                \* TripPlans
    Member, EventId, MaxTracked,                            \* Portal
    Request,                                                \* Requests
    Pages, MaxAsks, MaxMoves                                \* Console

VARIABLES
    part,           \* the part that runs
    redis, memory, reachable, issued, verifying, accepted, wrong,
    slip, redeeming, redeemed, disturbed,
    kind, userStatus, member, mfa, trusted, holdsRefresh, granted,
    asked, proven, request, crossed,
    payload, pending, job, rows, inbox, errors,
    tool, chat, action, handling, written, decided, overtaken, raced,
    row, doing, answered, overlapped,
    sale, rulePresent, deletingRule,
    settlement, stats, moved,
    service, slots, bookedFor, changing, archived, tangled, handedOver,
    version, doc, changed, available, syncing, missed, deleted,
    employer, vehicle, scrapped, editing, unchecked, transferred, jammed,
    trip, stored, reserved, hook, acked,
    team, link, tracked, emitted, fresh, busy, stepped,
    flag, req, audit, switched,
    page, server, filter, picked, asks, list, drawer,
    acting, moves, muddled,
    web, access, refresh, user, flight, loggedOut, lateAnswer

CodesPart         == INSTANCE OneTimeCodes WITH MaxAttempts <- MaxGuesses, NoEntry <- Nil
AccountsPart      == INSTANCE Accounts WITH NoCall <- Nil
NotificationsPart == INSTANCE Notifications
ThothPart         == INSTANCE Thoth WITH Staff <- Caller, Nothing <- Nil
DeskPart          == INSTANCE Desk WITH Clerk <- Caller, Key <- Keys, Nobody <- Nil
ReportsPart       == INSTANCE Reports WITH NoRow <- Nil
SettlementsPart   == INSTANCE Settlements WITH Partner <- Employer, NoSettlement <- Nil
CataloguePart     == INSTANCE Catalogue WITH NoRow <- Nil
SearchIndexPart   == INSTANCE SearchIndex WITH Idle <- Nil
FleetPart         == INSTANCE Fleet WITH Partner <- Employer
TripPlansPart     == INSTANCE TripPlans WITH Plan <- Plans, NoPlan <- Nil
PortalPart        == INSTANCE Portal WITH Call <- Caller
RequestsPart      == INSTANCE Requests
ConsolePart       == INSTANCE Console
WebSessionPart    == INSTANCE WebSession WITH Tab <- Caller, Idle <- Nil

\* The variables of the parts.
codeVars ==
    <<redis, memory, reachable, issued, verifying,
      accepted, wrong, slip, redeeming, redeemed, disturbed>>
accountVars ==
    <<kind, userStatus, member, mfa, trusted,
      holdsRefresh, granted, asked, proven, request, crossed>>
notifyVars == <<payload, pending, job, rows, inbox, errors>>
thothVars == <<tool, chat, action, handling, written, decided, overtaken, raced>>
deskVars == <<row, doing, answered, overlapped>>
reportVars == <<sale, rulePresent, deletingRule>>
settlementVars == <<settlement, stats, moved>>
catalogueVars ==
    <<service, slots, bookedFor,
      changing, archived, tangled, handedOver>>
indexVars == <<version, doc, changed, available, syncing, missed, deleted>>
fleetVars ==
    <<employer, vehicle, scrapped,
      editing, unchecked, transferred, jammed>>
planVars == <<trip, stored, reserved, hook, acked>>
portalVars == <<team, link, tracked, emitted, fresh, busy, stepped>>
requestVars == <<flag, req, audit, switched>>
consoleVars ==
    <<page, server, filter, picked, asks,
      list, drawer, acting, moves, muddled>>
sessionVars == <<web, access, refresh, user, flight, loggedOut, lateAnswer>>

vars ==
    <<part, codeVars, accountVars, notifyVars, thothVars, deskVars,
      reportVars, settlementVars, catalogueVars, indexVars,
      fleetVars, planVars, portalVars, requestVars, consoleVars,
      sessionVars>>

\* Only part p moves.
Alone(p) ==
    /\ part = p
    /\ UNCHANGED part
    /\ p # "Codes" => UNCHANGED codeVars
    /\ p # "Accounts" => UNCHANGED accountVars
    /\ p # "Notifications" => UNCHANGED notifyVars
    /\ p # "Thoth" => UNCHANGED thothVars
    /\ p # "Desk" => UNCHANGED deskVars
    /\ p # "Reports" => UNCHANGED reportVars
    /\ p # "Settlements" => UNCHANGED settlementVars
    /\ p # "Catalogue" => UNCHANGED catalogueVars
    /\ p # "SearchIndex" => UNCHANGED indexVars
    /\ p # "Fleet" => UNCHANGED fleetVars
    /\ p # "TripPlans" => UNCHANGED planVars
    /\ p # "Portal" => UNCHANGED portalVars
    /\ p # "Requests" => UNCHANGED requestVars
    /\ p # "Console" => UNCHANGED consoleVars
    /\ p # "WebSession" => UNCHANGED sessionVars

\* A part that does not run starts in one of its initial states.
Init ==
    /\ part \in Parts
    /\ CodesPart!Init
    /\ AccountsPart!Init
    /\ NotificationsPart!Init
    /\ ThothPart!Init
    /\ DeskPart!Init
    /\ ReportsPart!Init
    /\ SettlementsPart!Init
    /\ CataloguePart!Init
    /\ SearchIndexPart!Init
    /\ FleetPart!Init
    /\ TripPlansPart!Init
    /\ PortalPart!Init
    /\ RequestsPart!Init
    /\ ConsolePart!Init
    /\ WebSessionPart!Init
    /\ part # "Console" => /\ page = (CHOOSE p \in Pages : TRUE)
                           /\ server = (CHOOSE s \in ConsolePart!StartStatuses(page) : TRUE)
    /\ part # "WebSession" => web = "admin"
    /\ part # "Fleet" => \A d \in Driver : employer[d] = Nil
    /\ part # "Portal" => team[CHOOSE m \in Member : TRUE] # Nil

Next ==
    \/ Alone("Codes") /\ CodesPart!Next
    \/ Alone("Accounts") /\ AccountsPart!Next
    \/ Alone("Notifications") /\ NotificationsPart!Next
    \/ Alone("Thoth") /\ ThothPart!Next
    \/ Alone("Desk") /\ DeskPart!Next
    \/ Alone("Reports") /\ ReportsPart!Next
    \/ Alone("Settlements") /\ SettlementsPart!Next
    \/ Alone("Catalogue") /\ CataloguePart!Next
    \/ Alone("SearchIndex") /\ SearchIndexPart!Next
    \/ Alone("Fleet") /\ FleetPart!Next
    \/ Alone("TripPlans") /\ TripPlansPart!Next
    \/ Alone("Portal") /\ PortalPart!Next
    \/ Alone("Requests") /\ RequestsPart!Next
    \/ Alone("Console") /\ ConsolePart!Next
    \/ Alone("WebSession") /\ WebSessionPart!Next

\* The workers of the notifications poll as long as the process runs.
Fairness ==
    \A j \in NotificationsPart!Job :
        WF_notifyVars(Alone("Notifications") /\ NotificationsPart!Work(j))

Spec == Init /\ [][Next]_vars /\ Fairness

-----------------------------------------------------------------------------
\* A code, a slip or a link is good for one use, and wrong guesses are counted
\* as long as the calls do not cross (OtpService, reset of the password).
CodesHold ==
    part = "Codes" => CodesPart!TypeOK /\ CodesPart!UsedOnce /\ CodesPart!GuessesCounted

\* What the login routes and the staff's routes leave in the tables is what
\* was proven and asked for, until a call crosses another.
AsProvenAndAsked ==
    part = "Accounts" => AccountsPart!TypeOK /\ AccountsPart!AsProvenAndAsked

\* The logins that look at a user's status issue tokens to active users only,
\* the partners' login looks at the second factor, and what is closed, a ticket
\* or an incident, stays so, until a call crosses another.
IssuedAndClosed == AccountsPart!IssuedToActive /\ DeskPart!ClosedStays

\* A user is told of an event on every channel at least once, or the job is
\* still to be tried or has failed for good.
ToldAtLeastOnce ==
    part = "Notifications" => NotificationsPart!TypeOK /\ NotificationsPart!ToldAtLeastOnce

\* Every job of the notifications ends, done or failed.
JobsEnd == NotificationsPart!JobsEnd

\* THOTH's tools run only past the gates there are in the code, write only
\* when they ran, and staff decide an action once unless they decide together.
ToolsHold ==
    part = "Thoth" => ThothPart!TypeOK /\ ThothPart!RunsAsAllowed /\ ThothPart!DecidedOnce

\* The reports agree with one another, a captured payment is filed in no month
\* but its own, and the totals of the settlements add up.
BooksAgree ==
    /\ part = "Reports" => ReportsPart!TypeOK /\ ReportsPart!ReportsAgree /\ ReportsPart!FiledOnce
    /\ part = "Settlements" => SettlementsPart!TypeOK /\ SettlementsPart!TotalsAddUp

\* What is on offer, booked and found is what the provider and staff made it.
OffersHold ==
    /\ part = "Catalogue" => CataloguePart!TypeOK /\ CataloguePart!OffersHold
    /\ part = "SearchIndex" => SearchIndexPart!TypeOK /\ SearchIndexPart!IndexCatchesUp

\* A partner's vehicles are driven by its drivers, its team has an
\* administrator, its counters and its events are right.
AssetsHold ==
    /\ part = "Fleet" => FleetPart!TypeOK /\ FleetPart!FleetHolds
    /\ part = "Portal" => PortalPart!TypeOK /\ PortalPart!PortalHolds

\* What a stored plan tells of its bookings the adapters hold, and they hold
\* nothing that was not asked for.
PlansMatchBookings ==
    part = "TripPlans" => TripPlansPart!TypeOK /\ TripPlansPart!PlansMatchBookings

\* What staff and users see and leave is true: the pages, the session of the
\* browser, the tickets and content they edit, the log of their calls.
ClientsHold ==
    /\ part = "Console" => ConsolePart!ConsoleHolds
    /\ part = "WebSession" =>
           /\ WebSessionPart!TypeOK
           /\ WebSessionPart!LoggedOutForGood
    /\ part = "Desk" => DeskPart!TypeOK /\ DeskPart!NothingUndone
    /\ part = "Requests" => RequestsPart!TypeOK /\ RequestsPart!LogTellsTruth
=============================================================================
