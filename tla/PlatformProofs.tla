--------------------------- MODULE PlatformProofs ---------------------------
(***************************************************************************)
(* Proofs about the parts of Platform, for any values of the constants.    *)
(* Of a step at most one part knows (OnePart), so that each section shows  *)
(* an inductive invariant of one part, and the theorems at its end hold of *)
(* Platform.                                                               *)
(***************************************************************************)
EXTENDS Platform, Sequences, SequenceTheorems, SumLemmas

-----------------------------------------------------------------------------
\* A step of Platform is a step of one part, and the others see nothing of it.
LEMMA OnePart ==
    ASSUME [Next]_vars
    PROVE  /\ CodesPart!Next \/ UNCHANGED codeVars
           /\ AccountsPart!Next \/ UNCHANGED accountVars
           /\ NotificationsPart!Next \/ UNCHANGED notifyVars
           /\ ThothPart!Next \/ UNCHANGED thothVars
           /\ DeskPart!Next \/ UNCHANGED deskVars
           /\ ReportsPart!Next \/ UNCHANGED reportVars
           /\ SettlementsPart!Next \/ UNCHANGED settlementVars
           /\ CataloguePart!Next \/ UNCHANGED catalogueVars
           /\ SearchIndexPart!Next \/ UNCHANGED indexVars
           /\ FleetPart!Next \/ UNCHANGED fleetVars
           /\ TripPlansPart!Next \/ UNCHANGED planVars
           /\ PortalPart!Next \/ UNCHANGED portalVars
           /\ RequestsPart!Next \/ UNCHANGED requestVars
           /\ ConsolePart!Next \/ UNCHANGED consoleVars
           /\ WebSessionPart!Next \/ UNCHANGED sessionVars
<1>1. CASE UNCHANGED vars
  BY <1>1 DEF vars
<1>2. CASE Next
  BY <1>2 DEF Next, Alone
<1>3. QED
  BY <1>1, <1>2

-----------------------------------------------------------------------------
(* Notifications: for any events, channels, attempts and deaths of workers *)
(* its types, and that a user is told at least once.                       *)

NotificationsUnborn == [state |-> "NONE", attempts |-> 0, stalls |-> 0]

\* An event has channels to be added to once it was emitted, and the job of
\* such a channel is not there yet.
NotificationsExpected ==
    /\ \A e \in Event : payload[e] = "NONE" => pending[e] = {}
    /\ \A j \in NotificationsPart!Job : payload[j[1]] = "NONE" \/ j[2] \in pending[j[1]] => job[j] = NotificationsUnborn

\* A job's attempts and stalls are used up only when it has failed.
NotificationsCounted ==
    \A j \in NotificationsPart!Job :
        /\ job[j].state # "FAILED" => job[j].attempts < MaxAttempts /\ job[j].stalls <= MaxStalls
        /\ job[j].state = "FAILED" => job[j].attempts = MaxAttempts \/ job[j].stalls > MaxStalls

\* A row is written once in an attempt that throws or whose worker dies, and
\* once by a job that is past its insert.
NotificationsRowsOf(j) ==
    /\ rows[j] <= job[j].attempts + job[j].stalls + (IF job[j].state \in {"INSERTED", "DONE"} THEN 1 ELSE 0)
    /\ job[j].state = "INSERTED" => payload[j[1]] = "USER" /\ rows[j] >= 1
    /\ job[j].state = "DONE" /\ payload[j[1]] = "USER" => rows[j] >= 1
    /\ job[j].state = "NONE" => rows[j] = 0

\* The types without the bounds of the counters of rows.
NotificationsTypes ==
    /\ payload \in [Event -> NotificationsPart!EventPayload \cup {"NONE", "CODE"}]
    /\ pending \in [Event -> SUBSET Channel]
    /\ job \in [NotificationsPart!Job -> [state : NotificationsPart!JobState, attempts : 0..MaxAttempts, stalls : 0..MaxStalls + 1]]
    /\ rows \in [NotificationsPart!Job -> Nat]
    /\ inbox \in {"NONE", "QUEUED", "SENT", "READ"}
    /\ errors \in 0..MaxErrors

\* The inductive invariant.
NotificationsIInv == NotificationsTypes /\ NotificationsExpected /\ NotificationsCounted /\ \A j \in NotificationsPart!Job : NotificationsRowsOf(j)

\* The bounds are numbers, a job is tried at least once, and there is a channel
\* for the e-mail of a code.
NotificationsBounds ==
    /\ MaxAttempts \in Nat \ {0} /\ MaxStalls \in Nat /\ MaxErrors \in Nat
    /\ "email" \in Channel

-----------------------------------------------------------------------------
LEMMA NotificationsInitIInv ==
    ASSUME NotificationsBounds, NotificationsPart!Init
    PROVE  NotificationsIInv
<1>1. NotificationsTypes
  BY DEF NotificationsBounds, NotificationsPart!Init, NotificationsTypes,
         NotificationsPart!EventPayload, NotificationsPart!JobState
<1>2. NotificationsExpected /\ NotificationsCounted /\ \A j \in NotificationsPart!Job : NotificationsRowsOf(j)
  BY DEF NotificationsBounds, NotificationsPart!Init, NotificationsExpected,
         NotificationsCounted, NotificationsRowsOf, NotificationsUnborn
<1>3. QED
  BY <1>1, <1>2 DEF NotificationsIInv

\* What a step of one job must leave, of that job only.
NotificationsJobIInv(j) ==
    /\ job[j] \in [state : NotificationsPart!JobState, attempts : 0..MaxAttempts, stalls : 0..MaxStalls + 1]
    /\ job[j].state # "FAILED" => job[j].attempts < MaxAttempts /\ job[j].stalls <= MaxStalls
    /\ job[j].state = "FAILED" => job[j].attempts = MaxAttempts \/ job[j].stalls > MaxStalls
    /\ job[j].state # "NONE"
    /\ NotificationsRowsOf(j)

\* A job that is handed out, moved or ended leaves the other jobs alone.
LEMMA NotificationsOneJob ==
    ASSUME NotificationsBounds, NotificationsIInv, NEW j \in NotificationsPart!Job, job[j].state # "NONE",
           UNCHANGED <<payload, pending>>,
           NEW r \in [state : NotificationsPart!JobState, attempts : 0..MaxAttempts, stalls : 0..MaxStalls + 1],
           job' = [job EXCEPT ![j] = r],
           rows' = rows \/ rows' = [rows EXCEPT ![j] = @ + 1],
           inbox' \in {"NONE", "QUEUED", "SENT", "READ"},
           errors' \in 0..MaxErrors,
           NotificationsJobIInv(j)'
    PROVE  NotificationsIInv'
<1>1. NotificationsTypes'
  BY DEF NotificationsIInv, NotificationsTypes
<1>2. \A k \in NotificationsPart!Job : k # j => job'[k] = job[k] /\ rows'[k] = rows[k]
  BY DEF NotificationsIInv, NotificationsTypes
<1>3. payload[j[1]] # "NONE" /\ j[2] \notin pending[j[1]]
  BY DEF NotificationsIInv, NotificationsExpected, NotificationsUnborn
<1>4. NotificationsExpected'
  BY <1>2, <1>3 DEF NotificationsIInv, NotificationsExpected
<1>5. NotificationsCounted'
  BY <1>2 DEF NotificationsIInv, NotificationsCounted, NotificationsJobIInv
<1>6. (\A k \in NotificationsPart!Job : NotificationsRowsOf(k))'
  BY <1>2 DEF NotificationsIInv, NotificationsRowsOf, NotificationsJobIInv
<1>7. QED
  BY <1>1, <1>4, <1>5, <1>6 DEF NotificationsIInv

-----------------------------------------------------------------------------
LEMMA NotificationsStepIInv ==
    ASSUME NotificationsBounds, NotificationsIInv,
           NotificationsPart!Next \/ UNCHANGED notifyVars
    PROVE  NotificationsIInv'
<1> USE DEF NotificationsBounds
<1>0. NotificationsTypes /\ NotificationsExpected /\ NotificationsCounted /\ \A j \in NotificationsPart!Job : NotificationsRowsOf(j)
  BY DEF NotificationsIInv
<1>1. ASSUME NEW e \in Event, NEW p \in NotificationsPart!EventPayload, NEW channels \in SUBSET Channel,
             NotificationsPart!Emit(e, p, channels)
      PROVE  NotificationsIInv'
  <2>1. NotificationsTypes'
    BY <1>0, <1>1 DEF NotificationsPart!Emit, NotificationsTypes
  <2>2. NotificationsExpected' /\ NotificationsCounted' /\ \A j \in NotificationsPart!Job : NotificationsRowsOf(j)'
    BY <1>0, <1>1
    DEF NotificationsPart!Emit, NotificationsTypes, NotificationsPart!EventPayload,
        NotificationsExpected, NotificationsCounted, NotificationsRowsOf,
        NotificationsUnborn, NotificationsPart!Job
  <2>3. QED
    BY <2>1, <2>2 DEF NotificationsIInv
<1>2. ASSUME NEW e \in Event, NotificationsPart!QueueCode(e)
      PROVE  NotificationsIInv'
  <2>0. \E S \in SUBSET Channel : pending' = [pending EXCEPT ![e] = S]
    <3>1. pending[e] \in SUBSET Channel /\ pending = [pending EXCEPT ![e] = pending[e]]
      BY <1>0 DEF NotificationsTypes
    <3>2. {"email"} \in SUBSET Channel
      OBVIOUS
    <3>3. QED
      BY <1>2, <3>1, <3>2 DEF NotificationsPart!QueueCode
  <2>1. NotificationsTypes'
    BY <1>0, <1>2, <2>0 DEF NotificationsPart!QueueCode, NotificationsTypes
  <2>2. NotificationsExpected' /\ NotificationsCounted' /\ \A j \in NotificationsPart!Job : NotificationsRowsOf(j)'
    BY <1>0, <1>2, <2>0
    DEF NotificationsPart!QueueCode, NotificationsTypes, NotificationsExpected,
        NotificationsCounted, NotificationsRowsOf, NotificationsUnborn,
        NotificationsPart!Job
  <2>3. QED
    BY <2>1, <2>2 DEF NotificationsIInv
<1>3. ASSUME NEW e \in Event, NEW c \in Channel, NotificationsPart!AddJob(e, c)
      PROVE  NotificationsIInv'
  <2>0. <<e, c>> \in NotificationsPart!Job /\ job[<<e, c>>] = NotificationsUnborn
    BY <1>0, <1>3
    DEF NotificationsPart!AddJob, NotificationsExpected, NotificationsPart!Job
  <2>1. NotificationsTypes'
    BY <1>0, <1>3, <2>0
    DEF NotificationsPart!AddJob, NotificationsTypes, NotificationsPart!JobState
  <2>2. NotificationsExpected'
    <3>0. payload[e] # "NONE" /\ \A d \in Event : payload[d] = "NONE" => pending'[d] = {}
      BY <1>0, <1>3
      DEF NotificationsPart!AddJob, NotificationsTypes, NotificationsExpected
    <3>1. SUFFICES ASSUME NEW k \in NotificationsPart!Job, payload[k[1]] = "NONE" \/ k[2] \in pending'[k[1]]
                   PROVE  job'[k] = NotificationsUnborn
      BY <1>3, <3>0 DEF NotificationsPart!AddJob, NotificationsExpected
    <3>2. k # <<e, c>>
      BY <1>0, <1>3, <3>0, <3>1 DEF NotificationsPart!AddJob, NotificationsTypes
    <3>3. k[2] \in pending'[k[1]] => k[2] \in pending[k[1]]
      BY <1>0, <1>3
      DEF NotificationsPart!AddJob, NotificationsTypes, NotificationsPart!Job
    <3>4. QED
      BY <1>0, <1>3, <2>0, <3>1, <3>2, <3>3
      DEF NotificationsPart!AddJob, NotificationsTypes, NotificationsExpected
  <2>3. NotificationsCounted' /\ \A j \in NotificationsPart!Job : NotificationsRowsOf(j)'
    <3>1. job'[<<e, c>>] = [state |-> "WAITING", attempts |-> 0, stalls |-> 0]
      BY <1>0, <1>3, <2>0
      DEF NotificationsPart!AddJob, NotificationsTypes, NotificationsUnborn
    <3>2. \A k \in NotificationsPart!Job : k # <<e, c>> => job'[k] = job[k]
      BY <1>0, <1>3 DEF NotificationsPart!AddJob, NotificationsTypes
    <3>3. rows' = rows /\ payload' = payload /\ rows[<<e, c>>] = 0
      BY <1>0, <1>3, <2>0
      DEF NotificationsPart!AddJob, NotificationsTypes, NotificationsRowsOf,
          NotificationsUnborn
    <3>4. NotificationsCounted'
      BY <1>0, <3>1, <3>2 DEF NotificationsCounted
    <3>5. ASSUME NEW k \in NotificationsPart!Job PROVE NotificationsRowsOf(k)'
      BY <1>0, <3>1, <3>2, <3>3 DEF NotificationsRowsOf
    <3>6. QED
      BY <3>4, <3>5
  <2>4. QED
    BY <2>1, <2>2, <2>3 DEF NotificationsIInv
<1>4. ASSUME NEW e \in Event, NotificationsPart!EmitDies(e)
      PROVE  NotificationsIInv'
  <2>1. NotificationsTypes'
    BY <1>0, <1>4 DEF NotificationsPart!EmitDies, NotificationsTypes
  <2>2. NotificationsExpected' /\ NotificationsCounted' /\ \A j \in NotificationsPart!Job : NotificationsRowsOf(j)'
    BY <1>0, <1>4
    DEF NotificationsPart!EmitDies, NotificationsTypes, NotificationsExpected,
        NotificationsCounted, NotificationsRowsOf, NotificationsPart!Job
  <2>3. QED
    BY <2>1, <2>2 DEF NotificationsIInv
<1>5. ASSUME NEW j \in NotificationsPart!Job, NotificationsPart!Work(j) \/ NotificationsPart!Stall(j)
      PROVE  NotificationsIInv'
  <2>1. CASE NotificationsPart!Take(j)
    <3>1. NotificationsJobIInv(j)'
      BY <1>0, <2>1
      DEF NotificationsPart!Take, NotificationsTypes, NotificationsCounted,
          NotificationsRowsOf, NotificationsJobIInv, NotificationsPart!JobState
    <3>2. QED
      BY <1>0, <2>1, <3>1, NotificationsOneJob
      DEF NotificationsPart!Take, NotificationsTypes, NotificationsPart!JobState
  <2>2. CASE NotificationsPart!Insert(j)
    <3>1. NotificationsJobIInv(j)'
      BY <1>0, <2>2
      DEF NotificationsPart!Insert, NotificationsPart!AddRow, NotificationsTypes, NotificationsCounted,
          NotificationsRowsOf, NotificationsJobIInv, NotificationsPart!JobState
    <3>2. QED
      BY <1>0, <2>2, <3>1, NotificationsOneJob
      DEF NotificationsPart!Insert, NotificationsPart!AddRow, NotificationsTypes, NotificationsPart!JobState
  <2>3. CASE NotificationsPart!Complete(j)
    <3>1. NotificationsJobIInv(j)'
      BY <1>0, <2>3
      DEF NotificationsPart!Complete, NotificationsTypes, NotificationsCounted,
          NotificationsRowsOf, NotificationsJobIInv, NotificationsPart!JobState
    <3>2. QED
      BY <1>0, <2>3, <3>1, NotificationsOneJob
      DEF NotificationsPart!Complete, NotificationsTypes, NotificationsPart!JobState
  <2>4. CASE NotificationsPart!Throw(j)
    <3> DEFINE r == NotificationsPart!Retried(j)
    <3>1. /\ job' = [job EXCEPT ![j] = r] /\ job'[j] = r
          /\ job[j].state = "ACTIVE"
          /\ UNCHANGED <<payload, pending>>
          /\ errors' \in 0..MaxErrors
          /\ inbox' \in {"NONE", "QUEUED", "SENT", "READ"}
          /\ rows' = rows \/ rows' = [rows EXCEPT ![j] = @ + 1]
      BY <1>0, <2>4
      DEF NotificationsPart!Throw, NotificationsPart!AddRow, NotificationsTypes
    <3>2. job[j].attempts \in 0..MaxAttempts - 1 /\ job[j].stalls \in 0..MaxStalls
      BY <1>0, <3>1 DEF NotificationsTypes, NotificationsCounted
    <3>3. r = [state    |-> IF job[j].attempts + 1 < MaxAttempts THEN "WAITING" ELSE "FAILED",
               attempts |-> job[j].attempts + 1,
               stalls   |-> job[j].stalls]
      <4> DEFINE s == IF job[j].attempts + 1 < MaxAttempts THEN "WAITING" ELSE "FAILED"
      <4>1. job[j] \in [state : NotificationsPart!JobState, attempts : 0..MaxAttempts, stalls : 0..MaxStalls + 1]
        BY <1>0 DEF NotificationsTypes
      <4>2. r = [job[j] EXCEPT !.attempts = job[j].attempts + 1, !.state = s]
        BY DEF NotificationsPart!Retried
      <4> HIDE DEF r, s
      <4>3. r = [state |-> s, attempts |-> job[j].attempts + 1, stalls |-> job[j].stalls]
        BY <4>1, <4>2
      <4>4. QED
        BY <4>3 DEF s
    <3>4. /\ r \in [state : NotificationsPart!JobState, attempts : 0..MaxAttempts, stalls : 0..MaxStalls + 1]
          /\ r.attempts = job[j].attempts + 1 /\ r.stalls = job[j].stalls
      BY <3>2, <3>3 DEF NotificationsPart!JobState
    <3> HIDE DEF r
    <3>0. rows[j] <= job[j].attempts + job[j].stalls
      BY <1>0, <3>1, <3>2 DEF NotificationsRowsOf
    <3>a. /\ rows[j] \in Nat /\ rows'[j] \in Nat /\ rows'[j] <= rows[j] + 1
          /\ payload' = payload
      BY <1>0, <3>1 DEF NotificationsTypes
    <3>b. rows'[j] <= r.attempts + r.stalls
      BY <3>0, <3>2, <3>4, <3>a
    <3>c. r.state = IF job[j].attempts + 1 < MaxAttempts THEN "WAITING" ELSE "FAILED"
      BY <3>3
    <3>d. NotificationsRowsOf(j)'
      BY <3>1, <3>b, <3>c, <3>2, <3>4, <3>a DEF NotificationsRowsOf
    <3>5. NotificationsJobIInv(j)'
      BY <3>1, <3>2, <3>c, <3>4, <3>d DEF NotificationsJobIInv
    <3>6. QED
      BY <1>0, <3>1, <3>4, <3>5, NotificationsOneJob DEF NotificationsTypes
  <2>5. CASE NotificationsPart!SendCode(j)
    <3>1. NotificationsJobIInv(j)'
      BY <1>0, <2>5
      DEF NotificationsPart!SendCode, NotificationsTypes, NotificationsCounted,
          NotificationsRowsOf, NotificationsJobIInv, NotificationsPart!JobState
    <3>2. QED
      BY <1>0, <2>5, <3>1, NotificationsOneJob
      DEF NotificationsPart!SendCode, NotificationsTypes, NotificationsPart!JobState
  <2>6. CASE NotificationsPart!Stall(j)
    <3>1. NotificationsJobIInv(j)'
      BY <1>0, <2>6
      DEF NotificationsPart!Stall, NotificationsTypes, NotificationsCounted,
          NotificationsRowsOf, NotificationsJobIInv, NotificationsPart!JobState
    <3>2. QED
      BY <1>0, <2>6, <3>1, NotificationsOneJob
      DEF NotificationsPart!Stall, NotificationsTypes, NotificationsCounted,
          NotificationsPart!JobState
  <2>7. QED
    BY <1>5, <2>1, <2>2, <2>3, <2>4, <2>5, <2>6 DEF NotificationsPart!Work
<1>6. CASE NotificationsPart!WriteSent \/ NotificationsPart!MarkRead \/ UNCHANGED notifyVars
  BY <1>0, <1>6
  DEF NotificationsPart!WriteSent, NotificationsPart!MarkRead, notifyVars,
      NotificationsIInv, NotificationsTypes, NotificationsExpected,
      NotificationsCounted, NotificationsRowsOf
<1>7. QED
  BY <1>1, <1>2, <1>3, <1>4, <1>5, <1>6 DEF NotificationsPart!Next

LEMMA NotificationsSuffice ==
    ASSUME NotificationsBounds, NotificationsIInv
    PROVE  NotificationsPart!TypeOK /\ NotificationsPart!ToldAtLeastOnce
<1>0. ASSUME NEW j \in NotificationsPart!Job
      PROVE  rows[j] \in 0..MaxAttempts + MaxStalls + 1
  <2>1. /\ job[j].attempts \in 0..MaxAttempts /\ job[j].stalls \in 0..MaxStalls + 1
        /\ rows[j] \in Nat
    BY DEF NotificationsIInv, NotificationsTypes
  <2>2. job[j].state # "FAILED" => job[j].attempts < MaxAttempts /\ job[j].stalls <= MaxStalls
    BY DEF NotificationsIInv, NotificationsCounted
  <2>3. rows[j] <= job[j].attempts + job[j].stalls + (IF job[j].state \in {"INSERTED", "DONE"} THEN 1 ELSE 0)
    BY DEF NotificationsIInv, NotificationsRowsOf
  <2>4. QED
    BY <2>1, <2>2, <2>3 DEF NotificationsBounds
<1>1. NotificationsPart!TypeOK
  BY <1>0 DEF NotificationsIInv, NotificationsTypes, NotificationsPart!TypeOK
<1>2. NotificationsPart!ToldAtLeastOnce
  BY DEF NotificationsBounds, NotificationsIInv, NotificationsTypes,
         NotificationsCounted, NotificationsRowsOf, NotificationsPart!ToldAtLeastOnce
<1>3. QED
  BY <1>1, <1>2

\* The workers of notifications: a job that is done has told its user, one
\* that failed was tried as often as it may be, and a user is told again only
\* when an attempt before threw or lost its worker.
THEOREM ToldAtLeastOnceCorrect ==
    ASSUME NotificationsBounds
    PROVE  Spec => []ToldAtLeastOnce
<1>1. Init => NotificationsIInv
  BY NotificationsInitIInv DEF Init
<1>2. NotificationsIInv /\ [Next]_vars => NotificationsIInv'
  BY OnePart, NotificationsStepIInv
<1>3. NotificationsIInv => ToldAtLeastOnce
  BY NotificationsSuffice DEF ToldAtLeastOnce
<1>4. QED
  BY <1>1, <1>2, <1>3, PTL DEF Spec

-----------------------------------------------------------------------------
(* Catalogue: for any partners and calls in progress what is archived      *)
(* stays so, a booked service is there, and its bookings are its           *)
(* provider's.                                                             *)

\* The calls of the routes.
CatalogueChange == [op : {"STATUS", "PATCH"}, by : Partner, to : CataloguePart!ServiceStatus]
CatalogueOther == [op : {"FAIL", "DELETE", "BOOK"}, by : Partner]
CatalogueSlots == [op : {"SLOT"}, by : Partner, add : BOOLEAN]

\* Their state, without the flags.
CatalogueTypes ==
    /\ service \in [provider : Partner, status : CataloguePart!ServiceStatus \cup {"DELETED"}] \cup {Nil}
    /\ bookedFor \in SUBSET Partner
    /\ changing \in [Caller -> CatalogueChange \cup CatalogueOther \cup CatalogueSlots \cup {Nil}]

\* Nothing happens to a service that is not there.
CatalogueNothingBefore ==
    service = Nil => bookedFor = {} /\ ~archived /\ \A c \in Caller : changing[c] = Nil

\* Until calls overlap there is one, and what it wants to make of the service
\* fits the status it still has.
CatalogueOneCall ==
    ~tangled =>
        /\ \A c, d \in Caller : changing[c] # Nil /\ changing[d] # Nil => c = d
        /\ \A c \in Caller : CataloguePart!Doing(c, "STATUS") /\ service.status = "ARCHIVED" => changing[c].to = "ARCHIVED"

\* The inductive invariant.
CatalogueIInv == CatalogueTypes /\ CatalogueNothingBefore /\ CatalogueOneCall /\ CataloguePart!OffersHold

\* No call and no row is the mark for none.
CatalogueDistinct ==
    /\ Nil \notin CatalogueChange \cup CatalogueOther \cup CatalogueSlots
    /\ Nil \notin [provider : Partner, status : CataloguePart!ServiceStatus \cup {"DELETED"}]

-----------------------------------------------------------------------------
LEMMA CatalogueInitIInv ==
    ASSUME CataloguePart!Init
    PROVE  CatalogueIInv
BY DEF CataloguePart!Init, CatalogueIInv, CatalogueTypes, CatalogueNothingBefore,
       CatalogueOneCall, CataloguePart!Doing, CataloguePart!OffersHold,
       CataloguePart!Present

LEMMA CatalogueTransitionFacts == CataloguePart!Transitions["ARCHIVED"] = {}
BY DEF CataloguePart!Transitions

\* A call that begins with what its route has read of the service.
LEMMA CatalogueBeginIInv ==
    ASSUME CatalogueDistinct, CatalogueIInv, NEW c \in Caller,
           NEW call \in CatalogueChange \cup CatalogueOther \cup CatalogueSlots, CataloguePart!Begin(c, call),
           call.by = service.provider,
           call.op = "STATUS" /\ service.status = "ARCHIVED" => call.to = "ARCHIVED"
    PROVE  CatalogueIInv'
<1>0. /\ CataloguePart!Present /\ changing[c] = Nil
      /\ changing' = [changing EXCEPT ![c] = call]
      /\ UNCHANGED <<service, slots, bookedFor, archived, handedOver>>
      /\ ~tangled' => ~tangled /\ \A d \in Caller : changing[d] = Nil
  BY DEF CataloguePart!Begin
<1>1. changing'[c] = call /\ \A d \in Caller : d # c => changing'[d] = changing[d]
  BY <1>0 DEF CatalogueIInv, CatalogueTypes
<1>2. CatalogueTypes'
  BY <1>0 DEF CatalogueIInv, CatalogueTypes
<1>3. CatalogueNothingBefore'
  BY <1>0 DEF CatalogueNothingBefore, CataloguePart!Present
<1>4. CatalogueOneCall'
  BY <1>0, <1>1 DEF CatalogueOneCall, CataloguePart!Doing
<1>5. CataloguePart!OffersHold'
  BY <1>0, <1>1 DEF CatalogueIInv, CataloguePart!OffersHold, CataloguePart!Present
<1>6. QED
  BY <1>2, <1>3, <1>4, <1>5 DEF CatalogueIInv

\* A call that ends.
LEMMA CatalogueEndFacts ==
    ASSUME CatalogueIInv, NEW c \in Caller, CataloguePart!End(c)
    PROVE  /\ changing' \in [Caller -> CatalogueChange \cup CatalogueOther \cup CatalogueSlots \cup {Nil}]
           /\ changing'[c] = Nil /\ \A d \in Caller : d # c => changing'[d] = changing[d]
           /\ UNCHANGED <<tangled, handedOver>>
BY DEF CatalogueIInv, CatalogueTypes, CataloguePart!End

-----------------------------------------------------------------------------
LEMMA CatalogueStepIInv ==
    ASSUME CatalogueDistinct, CatalogueIInv,
           CataloguePart!Next \/ UNCHANGED catalogueVars
    PROVE  CatalogueIInv'
<1>0. CatalogueTypes /\ CatalogueNothingBefore /\ CatalogueOneCall /\ CataloguePart!OffersHold
  BY DEF CatalogueIInv
<1>1. ASSUME NEW p \in Partner, CataloguePart!CreateService(p) \/ CataloguePart!Create(p)
      PROVE  CatalogueIInv'
  <2>0. \E s \in {"DRAFT", "PAUSED"} : CataloguePart!Insert(p, s)
    BY <1>1 DEF CataloguePart!CreateService, CataloguePart!Create
  <2>1. PICK s \in {"DRAFT", "PAUSED"} : CataloguePart!Insert(p, s)
    BY <2>0
  <2>2. /\ service = Nil /\ service' = [provider |-> p, status |-> s]
        /\ UNCHANGED <<slots, bookedFor, changing, archived, tangled, handedOver>>
    BY <2>1 DEF CataloguePart!Insert
  <2>3. CatalogueTypes' /\ CatalogueNothingBefore'
    BY <1>0, <2>2
    DEF CatalogueTypes, CatalogueNothingBefore, CataloguePart!ServiceStatus,
        CatalogueDistinct
  <2>4. CatalogueOneCall' /\ CataloguePart!OffersHold'
    BY <1>0, <2>2
    DEF CatalogueNothingBefore, CatalogueOneCall, CataloguePart!OffersHold,
        CataloguePart!Doing, CataloguePart!Present, CatalogueDistinct
  <2>5. QED
    BY <2>3, <2>4 DEF CatalogueIInv
<1>2. ASSUME NEW c \in Caller, NEW p, NEW o \in {"STATUS", "PATCH"}, NEW to \in CataloguePart!ServiceStatus,
             CataloguePart!Present, service.provider = p,
             o = "STATUS" /\ service.status = "ARCHIVED" => to = "ARCHIVED",
             CataloguePart!Begin(c, [op |-> o, by |-> p, to |-> to])
      PROVE  CatalogueIInv'
  <2>1. p \in Partner
    BY <1>0, <1>2 DEF CatalogueTypes, CataloguePart!Present
  <2>2. [op |-> o, by |-> p, to |-> to] \in CatalogueChange
    BY <2>1 DEF CatalogueChange
  <2>3. QED
    BY <1>2, <2>2, CatalogueBeginIInv
<1>3. ASSUME NEW c \in Caller, NEW p, NEW o \in {"FAIL", "DELETE", "BOOK"},
             CataloguePart!Present, service.provider = p, CataloguePart!Begin(c, [op |-> o, by |-> p])
      PROVE  CatalogueIInv'
  <2>1. p \in Partner
    BY <1>0, <1>3 DEF CatalogueTypes, CataloguePart!Present
  <2>2. [op |-> o, by |-> p] \in CatalogueOther
    BY <2>1 DEF CatalogueOther
  <2>3. QED
    BY <1>3, <2>2, CatalogueBeginIInv
<1>4. /\ \A c \in Caller, to \in CataloguePart!ServiceStatus : CataloguePart!SetStatus(c, to) => CatalogueIInv'
      /\ \A c \in Caller :
             CataloguePart!Remove(c) \/ CataloguePart!Choose(c) \/ CataloguePart!ChooseAny(c) => CatalogueIInv'
      /\ \A c \in Caller, p \in Partner, to \in CataloguePart!ServiceStatus : CataloguePart!Patch(c, p, to) => CatalogueIInv'
      /\ \A c \in Caller, p \in Partner :
             CataloguePart!Publish(c, p) \/ CataloguePart!ActivateService(c, p) \/ CataloguePart!Deactivate(c, p) \/ CataloguePart!Delete(c, p) => CatalogueIInv'
      /\ \A c \in Caller, p \in Partner, add \in BOOLEAN : CataloguePart!Slot(c, p, add) => CatalogueIInv'
  <2>1. ASSUME NEW c \in Caller, NEW to \in CataloguePart!ServiceStatus, CataloguePart!SetStatus(c, to)
        PROVE  CatalogueIInv'
    <3>1. service.status # "ARCHIVED"
      BY <2>1, CatalogueTransitionFacts DEF CataloguePart!SetStatus
    <3>2. QED
      BY <1>2, <2>1, <3>1 DEF CataloguePart!SetStatus
  <2>2. ASSUME NEW c \in Caller,
               CataloguePart!Remove(c) \/ CataloguePart!Choose(c) \/ CataloguePart!ChooseAny(c)
        PROVE  CatalogueIInv'
    BY <1>2, <1>3, <2>2
    DEF CataloguePart!Remove, CataloguePart!Choose, CataloguePart!ChooseAny,
        CataloguePart!Visible, CataloguePart!ServiceStatus
  <2>3. ASSUME NEW c \in Caller, NEW p \in Partner, NEW to \in CataloguePart!ServiceStatus, CataloguePart!Patch(c, p, to)
        PROVE  CatalogueIInv'
    BY <1>2, <2>3 DEF CataloguePart!Patch
  <2>4. ASSUME NEW c \in Caller, NEW p \in Partner,
               CataloguePart!Publish(c, p) \/ CataloguePart!ActivateService(c, p) \/ CataloguePart!Deactivate(c, p) \/ CataloguePart!Delete(c, p)
        PROVE  CatalogueIInv'
    BY <1>2, <1>3, <2>4
    DEF CataloguePart!Publish, CataloguePart!ActivateService, CataloguePart!Deactivate,
        CataloguePart!Delete, CataloguePart!ServiceStatus
  <2>5. ASSUME NEW c \in Caller, NEW p \in Partner, NEW add \in BOOLEAN, CataloguePart!Slot(c, p, add)
        PROVE  CatalogueIInv'
    <3>1. [op |-> "SLOT", by |-> p, add |-> add] \in CatalogueSlots
      BY DEF CatalogueSlots
    <3>2. QED
      BY <2>5, <3>1, CatalogueBeginIInv DEF CataloguePart!Slot
  <2>6. QED
    BY <2>1, <2>2, <2>3, <2>4, <2>5
<1>5. ASSUME NEW c \in Caller, CataloguePart!WriteStatus(c)
      PROVE  CatalogueIInv'
  <2>1. /\ changing[c] \in CatalogueChange /\ CataloguePart!Present
        /\ service' = [service EXCEPT !.status = changing[c].to]
        /\ UNCHANGED bookedFor
        /\ archived' => changing[c].to = "ARCHIVED" \/ (archived /\ CataloguePart!Doing(c, "STATUS"))
    BY <1>0, <1>5
    DEF CataloguePart!WriteStatus, CatalogueTypes, CataloguePart!Doing,
        CatalogueDistinct, CatalogueChange, CatalogueOther, CatalogueSlots
  <2>2. changing[c].to \in CataloguePart!ServiceStatus /\ changing[c] # Nil
    BY <2>1 DEF CatalogueChange, CatalogueDistinct
  <2>3. /\ service' \in [provider : Partner, status : CataloguePart!ServiceStatus]
        /\ service'.provider = service.provider /\ service'.status = changing[c].to
    BY <1>0, <2>1, <2>2 DEF CatalogueTypes, CataloguePart!Present
  <2>4. CataloguePart!Present' /\ service' # Nil
    BY <2>3 DEF CataloguePart!Present, CataloguePart!ServiceStatus, CatalogueDistinct
  <2>5. CatalogueTypes' /\ CatalogueNothingBefore'
    BY <1>0, <1>5, <2>1, <2>3, <2>4, CatalogueEndFacts
    DEF CataloguePart!WriteStatus, CatalogueTypes, CatalogueNothingBefore
  <2>6. CatalogueOneCall'
    BY <1>0, <1>5, <2>2, CatalogueEndFacts
    DEF CataloguePart!WriteStatus, CatalogueOneCall, CataloguePart!Doing
  <2>7. archived' /\ ~tangled' => service'.status = "ARCHIVED"
    BY <1>0, <1>5, <2>1, <2>3, CatalogueEndFacts
    DEF CataloguePart!WriteStatus, CatalogueOneCall, CataloguePart!OffersHold
  <2>8. CataloguePart!OffersHold'
    BY <1>0, <1>5, <2>1, <2>3, <2>4, <2>7, CatalogueEndFacts
    DEF CataloguePart!WriteStatus, CataloguePart!OffersHold
  <2>9. QED
    BY <2>5, <2>6, <2>8 DEF CatalogueIInv
<1>6. ASSUME NEW c \in Caller, CataloguePart!Fail(c) \/ CataloguePart!WriteSlot(c)
      PROVE  CatalogueIInv'
  <2>1. CataloguePart!End(c) /\ UNCHANGED <<service, bookedFor, archived>>
    BY <1>6 DEF CataloguePart!Fail, CataloguePart!WriteSlot
  <2>2. CatalogueTypes' /\ CatalogueNothingBefore'
    BY <1>0, <2>1, CatalogueEndFacts DEF CatalogueTypes, CatalogueNothingBefore
  <2>3. CatalogueOneCall' /\ CataloguePart!OffersHold'
    BY <1>0, <2>1, CatalogueEndFacts
    DEF CatalogueOneCall, CataloguePart!OffersHold, CataloguePart!Doing,
        CataloguePart!Present
  <2>4. QED
    BY <2>2, <2>3 DEF CatalogueIInv
<1>7. ASSUME NEW c \in Caller, CataloguePart!WriteDelete(c)
      PROVE  CatalogueIInv'
  <2>1. /\ CataloguePart!Present /\ bookedFor = {} /\ UNCHANGED bookedFor /\ ~archived'
        /\ service' = [service EXCEPT !.status = "DELETED"] /\ CataloguePart!End(c)
    BY <1>7 DEF CataloguePart!WriteDelete
  <2>2. /\ service' \in [provider : Partner, status : {"DELETED"}]
        /\ service'.status = "DELETED"
    BY <1>0, <2>1 DEF CatalogueTypes, CataloguePart!Present
  <2>3. CatalogueTypes' /\ CatalogueNothingBefore'
    BY <1>0, <2>1, <2>2, CatalogueEndFacts
    DEF CatalogueTypes, CatalogueNothingBefore, CatalogueDistinct
  <2>4. CatalogueOneCall' /\ CataloguePart!OffersHold'
    BY <1>0, <2>1, <2>2, CatalogueEndFacts
    DEF CatalogueOneCall, CataloguePart!OffersHold, CataloguePart!Doing,
        CataloguePart!Present
  <2>5. QED
    BY <2>3, <2>4 DEF CatalogueIInv
<1>8. ASSUME NEW c \in Caller, CataloguePart!InsertBooking(c)
      PROVE  CatalogueIInv'
  <2>1. /\ CataloguePart!Doing(c, "BOOK") /\ CataloguePart!Present /\ CataloguePart!End(c)
        /\ bookedFor' = bookedFor \cup {changing[c].by}
        /\ UNCHANGED <<service, archived>>
    BY <1>8 DEF CataloguePart!InsertBooking
  <2>2. changing[c].by \in Partner /\ changing[c] # Nil
    BY <1>0, <2>1
    DEF CatalogueTypes, CataloguePart!Doing, CatalogueChange, CatalogueOther,
        CatalogueSlots
  <2>3. CatalogueTypes' /\ CatalogueNothingBefore'
    BY <1>0, <2>1, <2>2, CatalogueEndFacts
    DEF CatalogueTypes, CatalogueNothingBefore, CataloguePart!Present
  <2>4. CatalogueOneCall' /\ CataloguePart!OffersHold'
    BY <1>0, <2>1, <2>2, CatalogueEndFacts
    DEF CatalogueOneCall, CataloguePart!OffersHold, CataloguePart!Doing,
        CataloguePart!Present
  <2>5. QED
    BY <2>3, <2>4 DEF CatalogueIInv
<1>9. ASSUME NEW p \in Partner, CataloguePart!AssignService(p)
      PROVE  CatalogueIInv'
  <2>1. /\ CataloguePart!Present /\ service' = [service EXCEPT !.provider = p]
        /\ UNCHANGED <<bookedFor, changing, archived, tangled>>
        /\ ~handedOver' => bookedFor = {} /\ \A c \in Caller : changing[c] = Nil
    BY <1>9 DEF CataloguePart!AssignService
  <2>2. /\ service' \in [provider : Partner, status : CataloguePart!ServiceStatus \cup {"DELETED"}]
        /\ service'.status = service.status
    BY <1>0, <2>1 DEF CatalogueTypes, CataloguePart!Present
  <2>3. CatalogueTypes' /\ CatalogueNothingBefore' /\ CatalogueOneCall'
    BY <1>0, <2>1, <2>2
    DEF CatalogueTypes, CatalogueNothingBefore, CatalogueOneCall, CataloguePart!Doing,
        CatalogueDistinct
  <2>4. CataloguePart!OffersHold'
    BY <1>0, <2>1, <2>2
    DEF CataloguePart!OffersHold, CataloguePart!Present, CatalogueDistinct
  <2>5. QED
    BY <2>3, <2>4 DEF CatalogueIInv
<1>10. CASE UNCHANGED catalogueVars
  BY <1>0, <1>10
  DEF catalogueVars, CatalogueIInv, CatalogueTypes, CatalogueNothingBefore,
      CatalogueOneCall, CataloguePart!OffersHold, CataloguePart!Doing,
      CataloguePart!Present
<1>11. QED
  BY <1>1, <1>2, <1>3, <1>4, <1>5, <1>6, <1>7, <1>8, <1>9, <1>10 DEF CataloguePart!Next

\* The flags.
CatalogueFlags ==
    slots \in BOOLEAN /\ archived \in BOOLEAN /\ tangled \in BOOLEAN /\ handedOver \in BOOLEAN

LEMMA CatalogueFlagsStep ==
    ASSUME CatalogueIInv, CatalogueFlags, CataloguePart!Next \/ UNCHANGED catalogueVars
    PROVE  CatalogueFlags'
<1>1. ASSUME NEW c, NEW call, CataloguePart!Begin(c, call) PROVE CatalogueFlags'
  <2>1. tangled' \in BOOLEAN /\ UNCHANGED <<slots, archived, handedOver>>
    BY <1>1 DEF CataloguePart!Begin
  <2>2. QED
    BY <2>1 DEF CatalogueFlags
<1>2. ASSUME NEW c, CataloguePart!WriteStatus(c) PROVE CatalogueFlags'
  <2>1. archived' \in BOOLEAN /\ UNCHANGED <<slots, tangled, handedOver>>
    BY <1>2 DEF CataloguePart!WriteStatus, CataloguePart!End
  <2>2. QED
    BY <2>1 DEF CatalogueFlags
<1>3. ASSUME NEW c \in Caller, CataloguePart!WriteSlot(c) PROVE CatalogueFlags'
  <2>1. changing[c] \in CatalogueSlots
    BY <1>3
    DEF CataloguePart!WriteSlot, CataloguePart!Doing, CatalogueIInv, CatalogueTypes,
        CatalogueChange, CatalogueOther
  <2>2. slots' \in BOOLEAN
    BY <1>3, <2>1 DEF CataloguePart!WriteSlot, CatalogueSlots
  <2>3. UNCHANGED <<archived, tangled, handedOver>>
    BY <1>3 DEF CataloguePart!WriteSlot, CataloguePart!End
  <2>4. QED
    BY <2>2, <2>3 DEF CatalogueFlags
<1>4. ASSUME NEW c, CataloguePart!WriteDelete(c) PROVE CatalogueFlags'
  BY <1>4 DEF CataloguePart!WriteDelete, CataloguePart!End, CatalogueFlags
<1>5. ASSUME NEW p, CataloguePart!AssignService(p) PROVE CatalogueFlags'
  <2>1. handedOver' \in BOOLEAN /\ UNCHANGED <<slots, archived, tangled>>
    BY <1>5 DEF CataloguePart!AssignService
  <2>2. QED
    BY <2>1 DEF CatalogueFlags
<1>6. ASSUME UNCHANGED <<slots, archived, tangled, handedOver>> PROVE CatalogueFlags'
  BY <1>6 DEF CatalogueFlags
<1>7. ASSUME NEW c \in Caller,
             CataloguePart!Fail(c) \/ CataloguePart!InsertBooking(c)
      PROVE  CatalogueFlags'
  BY <1>6, <1>7 DEF CataloguePart!Fail, CataloguePart!InsertBooking, CataloguePart!End
<1>8. ASSUME NEW p, CataloguePart!CreateService(p) \/ CataloguePart!Create(p)
      PROVE  CatalogueFlags'
  BY <1>6, <1>8
  DEF CataloguePart!CreateService, CataloguePart!Create, CataloguePart!Insert
<1>9. ASSUME NEW c, NEW p, NEW x,
             \/ CataloguePart!SetStatus(c, x) \/ CataloguePart!Remove(c)
             \/ CataloguePart!Patch(c, p, x) \/ CataloguePart!Publish(c, p)
             \/ CataloguePart!ActivateService(c, p) \/ CataloguePart!Deactivate(c, p)
             \/ CataloguePart!Delete(c, p) \/ CataloguePart!Slot(c, p, x)
             \/ CataloguePart!Choose(c) \/ CataloguePart!ChooseAny(c)
      PROVE  CatalogueFlags'
  BY <1>1, <1>9
  DEF CataloguePart!SetStatus, CataloguePart!Remove, CataloguePart!Patch,
      CataloguePart!Publish, CataloguePart!ActivateService, CataloguePart!Deactivate,
      CataloguePart!Delete, CataloguePart!Slot, CataloguePart!Choose,
      CataloguePart!ChooseAny
<1>10. CASE UNCHANGED catalogueVars
  BY <1>6, <1>10 DEF catalogueVars
<1>11. CASE CataloguePart!Next
  BY <1>2, <1>3, <1>4, <1>5, <1>7, <1>8, <1>9, <1>11 DEF CataloguePart!Next
<1>12. QED
  BY <1>10, <1>11

LEMMA CatalogueSuffice ==
    ASSUME CatalogueDistinct, CatalogueIInv, CatalogueFlags
    PROVE  CataloguePart!TypeOK /\ CataloguePart!OffersHold
<1>1. ASSUME NEW d \in Caller, changing[d] # Nil PROVE changing[d].by \in Partner
  <2>1. changing[d] \in CatalogueChange \cup CatalogueOther \cup CatalogueSlots
    BY <1>1 DEF CatalogueIInv, CatalogueTypes
  <2>2. QED
    BY <2>1 DEF CatalogueChange, CatalogueOther, CatalogueSlots
<1>2. QED
  BY <1>1 DEF CatalogueIInv, CatalogueTypes, CatalogueFlags, CataloguePart!TypeOK

-----------------------------------------------------------------------------
(* SearchIndex: for any rows, versions and copies in progress the index is *)
(* what the next copy would not change.                                    *)

\* A copy in progress.
IndexCopy == [rows : [Row -> 0..MaxVersion], stage : {"READ", "IMPORTED"}, first : BOOLEAN]

\* A number of versions, and no copy is the mark for none.
IndexBounds == MaxVersion \in Nat /\ Nil \notin IndexCopy

\* What a copy has read of a row that did not change while copies were in
\* progress: nothing, or the row as it still is; and the row, if it changed
\* since the noted time, and then it is in the index once it was imported.
IndexCopied(r, copy) ==
    /\ copy.rows[r] <= version[r]
    /\ r \notin missed => /\ copy.rows[r] \in {0, version[r]}
                          /\ r \in changed => copy.rows[r] = version[r]
                          /\ r \in changed /\ copy.stage = "IMPORTED" => doc[r] = version[r]

\* The inductive invariant.
IndexIInv ==
    /\ SearchIndexPart!TypeOK
    /\ SearchIndexPart!IndexCatchesUp
    /\ \A r \in Row \ deleted, y \in Sync : syncing[y] # Nil => IndexCopied(r, syncing[y])

LEMMA IndexInitIInv ==
    ASSUME IndexBounds, SearchIndexPart!Init
    PROVE  IndexIInv
BY DEF IndexBounds, SearchIndexPart!Init, IndexIInv, SearchIndexPart!TypeOK,
       SearchIndexPart!IndexCatchesUp

LEMMA IndexStepIInv ==
    ASSUME IndexBounds, IndexIInv, SearchIndexPart!Next \/ UNCHANGED indexVars
    PROVE  IndexIInv'
<1> USE DEF IndexBounds
<1>0. /\ version \in [Row -> 0..MaxVersion]
      /\ doc \in [Row -> 0..MaxVersion]
      /\ changed \in SUBSET Row /\ missed \in SUBSET Row /\ deleted \in SUBSET Row
      /\ available \in {"STARTING", "YES", "NO"}
      /\ syncing \in [Sync -> IndexCopy \cup {Nil}]
      /\ \A r \in Row \ deleted :
            /\ r \notin changed \cup missed => doc[r] = version[r]
            /\ doc[r] <= version[r]
      /\ \A r \in Row \ deleted, y \in Sync :
            syncing[y] # Nil => IndexCopied(r, syncing[y])
  BY DEF IndexIInv, SearchIndexPart!TypeOK, SearchIndexPart!IndexCatchesUp, IndexCopy
<1>goal. ASSUME version' \in [Row -> 0..MaxVersion],
                doc' \in [Row -> 0..MaxVersion],
                changed' \in SUBSET Row, missed' \in SUBSET Row, deleted' \in SUBSET Row,
                available' \in {"STARTING", "YES", "NO"},
                syncing' \in [Sync -> IndexCopy \cup {Nil}],
                \A r \in Row \ deleted' :
                    /\ r \notin changed' \cup missed' => doc'[r] = version'[r]
                    /\ doc'[r] <= version'[r]
                    /\ \A y \in Sync : syncing'[y] # Nil => IndexCopied(r, syncing[y])'
         PROVE  IndexIInv'
  BY <1>goal
  DEF IndexIInv, SearchIndexPart!TypeOK, SearchIndexPart!IndexCatchesUp, IndexCopy
<1>1. ASSUME NEW r \in Row, SearchIndexPart!Change(r) PROVE IndexIInv'
  <2>1. /\ version[r] \in 0..MaxVersion - 1
        /\ version' = [version EXCEPT ![r] = version[r] + 1]
        /\ changed' = changed \cup {r}
        /\ UNCHANGED <<doc, available, syncing, deleted>>
    BY <1>0, <1>1 DEF SearchIndexPart!Change
  <2>2. /\ missed' \in SUBSET Row
        /\ \A q \in Row : q # r => (q \in missed' <=> q \in missed)
        /\ (\E y \in Sync : syncing[y] # Nil) => r \in missed'
    BY <1>0, <1>1 DEF SearchIndexPart!Change, SearchIndexPart!Copying
  <2>3. version' \in [Row -> 0..MaxVersion]
    BY <1>0, <2>1
  <2>4. ASSUME NEW q \in Row \ deleted
        PROVE  /\ q \notin changed' \cup missed' => doc[q] = version'[q]
               /\ doc[q] <= version'[q]
               /\ \A y \in Sync : syncing[y] # Nil => IndexCopied(q, syncing[y])'
    <3>1. CASE q = r
      <4>1. version'[q] = version[q] + 1 /\ doc[q] \in Nat /\ version[q] \in Nat
        BY <1>0, <2>1, <3>1
      <4>2. doc[q] <= version'[q]
        BY <1>0, <4>1
      <4>3. ASSUME NEW y \in Sync, syncing[y] # Nil PROVE IndexCopied(q, syncing[y])'
        <5>1. syncing[y].rows[q] <= version[q] /\ syncing[y].rows[q] \in Nat
          BY <1>0, <4>3 DEF IndexCopied, IndexCopy
        <5>2. q \in missed'
          BY <2>2, <3>1, <4>3
        <5>3. QED
          BY <2>1, <4>1, <5>1, <5>2 DEF IndexCopied
      <4>4. QED
        BY <2>1, <3>1, <4>2, <4>3
    <3>2. CASE q # r
      <4>1. version'[q] = version[q] /\ (q \in changed' <=> q \in changed)
        BY <1>0, <2>1, <3>2
      <4>2. QED
        BY <1>0, <2>1, <2>2, <3>2, <4>1 DEF IndexCopied
    <3>3. QED
      BY <3>1, <3>2
  <2>5. QED
    BY <1>0, <1>goal, <2>1, <2>2, <2>3, <2>4
<1>2. ASSUME NEW r \in Row, SearchIndexPart!DeleteRow(r) PROVE IndexIInv'
  <2>1. /\ version' = [version EXCEPT ![r] = 0] /\ changed' = changed \ {r}
        /\ deleted' = deleted \cup {r}
        /\ UNCHANGED <<doc, available, syncing, missed>>
    BY <1>2 DEF SearchIndexPart!DeleteRow
  <2>2. ASSUME NEW q \in Row \ deleted'
        PROVE  /\ version'[q] = version[q] /\ (q \in changed' <=> q \in changed)
               /\ q \in Row \ deleted
    BY <1>0, <2>1
  <2>3. version' \in [Row -> 0..MaxVersion]
    BY <1>0, <2>1
  <2>4. QED
    BY <1>0, <1>goal, <2>1, <2>2, <2>3 DEF IndexCopied
<1>3. ASSUME NEW y \in Sync, NEW copy \in IndexCopy,
             syncing' = [syncing EXCEPT ![y] = copy],
             UNCHANGED <<version, doc, changed, available, missed, deleted>>,
             \A r \in Row \ deleted : IndexCopied(r, copy)
      PROVE  IndexIInv'
  <2>1. syncing' \in [Sync -> IndexCopy \cup {Nil}]
    BY <1>0, <1>3
  <2>2. ASSUME NEW r \in Row \ deleted, NEW z \in Sync, syncing'[z] # Nil
        PROVE  IndexCopied(r, syncing[z])'
    <3>1. IndexCopied(r, syncing'[z])
      BY <1>0, <1>3, <2>2
    <3>2. QED
      BY <1>3, <3>1 DEF IndexCopied
  <2>3. QED
    BY <1>0, <1>3, <1>goal, <2>1, <2>2
<1>4. ASSUME NEW y \in Sync, SearchIndexPart!ReadAll(y) PROVE IndexIInv'
  <2> DEFINE copy == [rows |-> version, stage |-> "READ", first |-> available = "STARTING"]
  <2>1. copy \in IndexCopy
    BY <1>0 DEF IndexCopy
  <2>2. \A r \in Row \ deleted : IndexCopied(r, copy)
    BY <1>0 DEF IndexCopied
  <2>3. QED
    BY <1>3, <1>4, <2>1, <2>2 DEF SearchIndexPart!ReadAll
<1>5. ASSUME NEW y \in Sync, SearchIndexPart!ReadChanged(y) PROVE IndexIInv'
  <2> DEFINE copy == [rows  |-> [r \in Row |-> IF r \in changed THEN version[r] ELSE 0],
                      stage |-> "READ", first |-> FALSE]
  <2>1. copy \in IndexCopy
    BY <1>0 DEF IndexCopy
  <2>2. \A r \in Row \ deleted : IndexCopied(r, copy)
    BY <1>0 DEF IndexCopied
  <2>3. QED
    BY <1>3, <1>5, <2>1, <2>2 DEF SearchIndexPart!ReadChanged
<1>6. ASSUME NEW y \in Sync, SearchIndexPart!ImportDocs(y) PROVE IndexIInv'
  <2> DEFINE copy == syncing[y]
             done == [copy EXCEPT !.stage = "IMPORTED"]
  <2>1. /\ copy \in IndexCopy /\ syncing' = [syncing EXCEPT ![y] = done]
        /\ doc' = [r \in Row |-> IF copy.rows[r] # 0 THEN copy.rows[r] ELSE doc[r]]
        /\ UNCHANGED <<version, changed, available, missed, deleted>>
    BY <1>0, <1>6 DEF SearchIndexPart!ImportDocs
  <2>2. done \in IndexCopy /\ done.rows = copy.rows
    BY <2>1 DEF IndexCopy
  <2>3. syncing' \in [Sync -> IndexCopy \cup {Nil}] /\ copy.rows \in [Row -> 0..MaxVersion]
    BY <1>0, <2>1, <2>2 DEF IndexCopy
  <2>4. doc' \in [Row -> 0..MaxVersion]
    BY <1>0, <2>1, <2>3
  <2>5. ASSUME NEW r \in Row \ deleted
        PROVE  /\ r \notin changed \cup missed => doc'[r] = version[r]
               /\ doc'[r] <= version[r]
               /\ \A z \in Sync : syncing'[z] # Nil => IndexCopied(r, syncing[z])'
    <3>1. IndexCopied(r, copy)
      BY <1>0, <1>6 DEF SearchIndexPart!ImportDocs
    <3>2. doc'[r] = IF copy.rows[r] # 0 THEN copy.rows[r] ELSE doc[r]
      BY <2>1
    <3>3. /\ version[r] \in Nat /\ doc[r] \in Nat /\ doc[r] <= version[r]
          /\ r \notin changed \cup missed => doc[r] = version[r]
      BY <1>0
    <3>4. /\ doc'[r] <= version[r]
          /\ r \notin missed /\ r \in changed => doc'[r] = version[r]
          /\ r \notin changed \cup missed => doc'[r] = version[r]
      BY <3>1, <3>2, <3>3 DEF IndexCopied
    <3>5. ASSUME NEW z \in Sync, syncing'[z] # Nil PROVE IndexCopied(r, syncing[z])'
      <4>1. z # y => syncing'[z] = syncing[z] /\ IndexCopied(r, syncing[z])
        BY <1>0, <2>1, <3>5
      <4>2. z = y => syncing'[z] = done
        BY <1>0, <2>1
      <4>3. syncing'[z].rows[r] <= version[r]
        BY <2>2, <3>1, <4>1, <4>2 DEF IndexCopied
      <4>4. r \notin missed => /\ syncing'[z].rows[r] \in {0, version[r]}
                               /\ r \in changed => syncing'[z].rows[r] = version[r]
        BY <2>2, <3>1, <4>1, <4>2 DEF IndexCopied
      <4>5. QED
        BY <2>1, <3>4, <4>3, <4>4 DEF IndexCopied
    <3>6. QED
      BY <3>4, <3>5
  <2>6. QED
    BY <1>0, <1>goal, <2>1, <2>3, <2>4, <2>5
<1>7. ASSUME NEW y \in Sync, SearchIndexPart!NoteSync(y) PROVE IndexIInv'
  <2>1. /\ syncing[y] # Nil /\ syncing[y].stage = "IMPORTED"
        /\ changed' = {} /\ available' \in {available, "YES"}
        /\ syncing' = [syncing EXCEPT ![y] = Nil]
        /\ UNCHANGED <<version, doc, missed, deleted>>
    BY <1>7 DEF SearchIndexPart!NoteSync
  <2>2. ASSUME NEW r \in Row \ deleted
        PROVE  /\ r \notin missed => doc[r] = version[r]
               /\ \A z \in Sync : syncing'[z] # Nil => IndexCopied(r, syncing[z])'
    <3>1. IndexCopied(r, syncing[y])
      BY <1>0, <2>1
    <3>2. r \notin missed => doc[r] = version[r]
      BY <1>0, <2>1, <3>1 DEF IndexCopied
    <3>3. ASSUME NEW z \in Sync, syncing'[z] # Nil PROVE IndexCopied(r, syncing[z])'
      <4>1. syncing'[z] = syncing[z] /\ IndexCopied(r, syncing[z])
        BY <1>0, <2>1, <3>3
      <4>2. QED
        BY <2>1, <4>1 DEF IndexCopied
    <3>4. QED
      BY <3>2, <3>3
  <2>3. syncing' \in [Sync -> IndexCopy \cup {Nil}]
    BY <1>0, <2>1
  <2>4. QED
    BY <1>0, <1>goal, <2>1, <2>2, <2>3
<1>8. ASSUME NEW y \in Sync, NEW got, SearchIndexPart!SyncFails(y, got) PROVE IndexIInv'
  <2> DEFINE copy == syncing[y]
  <2>1. /\ copy # Nil /\ copy.stage = "READ" /\ copy \in IndexCopy
        /\ doc' = [r \in Row |-> IF r \in got /\ copy.rows[r] # 0 THEN copy.rows[r] ELSE doc[r]]
        /\ available' \in {available, "NO"} /\ syncing' = [syncing EXCEPT ![y] = Nil]
        /\ UNCHANGED <<version, changed, missed, deleted>>
    BY <1>0, <1>8 DEF SearchIndexPart!SyncFails
  <2>2. copy.rows \in [Row -> 0..MaxVersion]
    BY <2>1 DEF IndexCopy
  <2>3. doc' \in [Row -> 0..MaxVersion]
    BY <1>0, <2>1, <2>2
  <2>4. ASSUME NEW r \in Row \ deleted
        PROVE  /\ r \notin changed \cup missed => doc'[r] = version[r]
               /\ doc'[r] <= version[r]
               /\ \A z \in Sync : syncing'[z] # Nil => IndexCopied(r, syncing[z])'
    <3>1. IndexCopied(r, copy)
      BY <1>0, <2>1
    <3>2. doc'[r] = IF r \in got /\ copy.rows[r] # 0 THEN copy.rows[r] ELSE doc[r]
      BY <2>1
    <3>3. /\ version[r] \in Nat /\ doc[r] \in Nat /\ doc[r] <= version[r]
          /\ r \notin changed \cup missed => doc[r] = version[r]
      BY <1>0
    <3>4. /\ doc'[r] <= version[r]
          /\ r \notin missed /\ doc[r] = version[r] => doc'[r] = version[r]
      BY <3>1, <3>2, <3>3 DEF IndexCopied
    <3>5. ASSUME NEW z \in Sync, syncing'[z] # Nil PROVE IndexCopied(r, syncing[z])'
      <4>1. z # y /\ syncing'[z] = syncing[z] /\ IndexCopied(r, syncing[z])
        BY <1>0, <2>1, <3>5
      <4>2. syncing[z].stage = "IMPORTED" /\ r \notin missed => doc'[r] = version[r]
        BY <3>3, <3>4, <4>1 DEF IndexCopied
      <4>3. QED
        BY <2>1, <4>1, <4>2 DEF IndexCopied
    <3>6. QED
      BY <3>3, <3>4, <3>5
  <2>5. syncing' \in [Sync -> IndexCopy \cup {Nil}]
    BY <1>0, <2>1
  <2>6. QED
    BY <1>0, <1>goal, <2>1, <2>3, <2>4, <2>5
<1>9. CASE SearchIndexPart!Restart
  <2>1. /\ available' = "STARTING" /\ changed' = {r \in Row : version[r] # 0}
        /\ syncing' = [y \in Sync |-> Nil] /\ missed' = {}
        /\ UNCHANGED <<version, doc, deleted>>
    BY <1>9 DEF SearchIndexPart!Restart
  <2>2. ASSUME NEW r \in Row \ deleted PROVE version[r] = 0 => doc[r] = version[r]
    BY <1>0
  <2>3. QED
    BY <1>0, <1>goal, <2>1, <2>2
<1>10. CASE UNCHANGED indexVars
  <2>1. UNCHANGED <<version, doc, changed, available, syncing, missed, deleted>>
    BY <1>10 DEF indexVars
  <2>2. QED
    BY <1>0, <1>goal, <2>1 DEF IndexCopied
<1>11. QED
  BY <1>1, <1>2, <1>4, <1>5, <1>6, <1>7, <1>8, <1>9, <1>10 DEF SearchIndexPart!Next

\* ServicesService, the partner's routes and SearchService: what is archived
\* stays archived until calls overlap or a route that ignores the table wakes
\* it, and, whatever overlaps, a booked service is there and its bookings and
\* the calls on it are its provider's unless staff gave it to another.  The
\* index has every row that the next copy would not read, but for those that
\* last changed while a copy was in progress.
THEOREM OffersHoldCorrect ==
    ASSUME CatalogueDistinct, IndexBounds
    PROVE  Spec => []OffersHold
<1> DEFINE I == CatalogueIInv /\ CatalogueFlags /\ IndexIInv
<1>1. Init => I
  <2>1. CataloguePart!Init => CatalogueFlags
    BY DEF CataloguePart!Init, CatalogueFlags
  <2>2. QED
    BY <2>1, CatalogueInitIInv, IndexInitIInv DEF Init
<1>2. I /\ [Next]_vars => I'
  BY OnePart, CatalogueStepIInv, CatalogueFlagsStep, IndexStepIInv
<1>3. I => OffersHold
  BY CatalogueSuffice DEF OffersHold, IndexIInv
<1>4. QED
  BY <1>1, <1>2, <1>3, PTL DEF Spec

-----------------------------------------------------------------------------
(* Accounts: for any roles and any calls in progress second factors are    *)
(* proven and roles are the ones asked for, and a token of the logins that *)
(* look at the status goes to an active user.                              *)

\* The calls in progress.
AccountsOpening ==
    [op : {"REGISTER"}, kind : AccountsPart!Kind \cup {"PORTAL"}]
        \cup [op : {"JOIN", "JOIN_PARTNER", "FORGET"}]
AccountsLogin == [op : {"TRUST", "ISSUE"}, path : AccountsPart!LoginPath]
AccountsAssignment == [op : {"ASSIGN"}, all : SUBSET Role, left : SUBSET Role]
AccountsFlagging == [op : {"FLAG"}, enable : BOOLEAN]
AccountsCalls == AccountsOpening \cup AccountsLogin \cup AccountsAssignment \cup AccountsFlagging

AccountsTypes ==
    /\ kind \in AccountsPart!Kind \cup {"NONE"}
    /\ member \in [AccountsPart!Org -> Role \cup {"NONE", "ADMIN"} \cup AccountsPart!PartnerRole]
    /\ mfa \in [secret : Nat, enabled : BOOLEAN]
    /\ request \in [Caller -> AccountsCalls \cup {Nil}]

\* The role in the company is what was asked for.
AccountsSettled == {member["Kemraa"]} \ {"NONE"} = asked

\* What a call has read still holds.
AccountsSound(call) ==
    /\ call \in AccountsFlagging /\ call.enable => mfa.secret \in proven
    /\ call \in AccountsLogin /\ call.path \in {"OTP", "ACCESS", "REFRESH"} => userStatus = "ACTIVE"
    /\ call \in AccountsLogin /\ call.path = "PARTNER" =>
           call.op = "ISSUE" /\ (mfa.enabled => trusted)
    /\ call \in AccountsAssignment =>
           call.left \subseteq call.all /\ {member["Kemraa"]} \ {"NONE"} = call.all \ call.left
    /\ call \notin AccountsAssignment => AccountsSettled

AccountsProven == mfa.enabled => mfa.secret \in proven

\* Until calls overlap or die there is one call, and it is sound.
AccountsClean ==
    ~crossed =>
        /\ \A c, d \in Caller : request[c] # Nil /\ request[d] # Nil => c = d
        /\ \A c \in Caller : request[c] # Nil => AccountsSound(request[c])
        /\ AccountsProven
        /\ (\A c \in Caller : request[c] = Nil) => AccountsSettled

\* A user who does not exist yet will be active.
AccountsBornActive == kind = "NONE" => userStatus = "ACTIVE"

\* The inductive invariant.
AccountsIInv == AccountsTypes /\ AccountsBornActive /\ AccountsClean

\* No role is the mark for none, and neither is a call.
AccountsDistinct == "NONE" \notin Role /\ Nil \notin AccountsCalls

-----------------------------------------------------------------------------
LEMMA AccountsInitIInv ==
    ASSUME AccountsPart!Init
    PROVE  AccountsIInv
BY DEF AccountsPart!Init, AccountsIInv, AccountsTypes, AccountsBornActive,
       AccountsClean, AccountsProven, AccountsSettled, AccountsPart!Org

\* The user is inserted.
AccountsInserts(c) ==
    \/ AccountsPart!InsertTraveler(c) \/ AccountsPart!InsertDriver(c) \/ AccountsPart!InsertPartner(c)
    \/ AccountsPart!InsertStaff(c) \/ AccountsPart!InsertPortalUser(c)

\* The kinds of calls are told apart by their names.
LEMMA AccountsCallKinds ==
    ASSUME NEW call \in AccountsCalls
    PROVE  /\ call.op \in {"TRUST", "ISSUE"} <=> call \in AccountsLogin
           /\ call.op = "ASSIGN" <=> call \in AccountsAssignment
           /\ call.op = "FLAG" <=> call \in AccountsFlagging
           /\ call.op \in {"REGISTER", "JOIN", "JOIN_PARTNER", "FORGET"} <=> call \in AccountsOpening
BY DEF AccountsCalls, AccountsOpening, AccountsLogin, AccountsAssignment,
       AccountsFlagging

\* A call that begins finds no other, unless it crosses one.
LEMMA AccountsBeginFacts ==
    ASSUME AccountsIInv, NEW c \in Caller, NEW call \in AccountsCalls, AccountsPart!Begin(c, call)
    PROVE  /\ request' \in [Caller -> AccountsCalls \cup {Nil}]
           /\ request'[c] = call
           /\ ~crossed' => /\ ~crossed /\ AccountsSettled /\ AccountsProven
                           /\ \A d \in Caller : request[d] = Nil
                           /\ \A d \in Caller : d # c => request'[d] = Nil
<1>1. request[c] = Nil /\ request' = [request EXCEPT ![c] = call] /\ AccountsPart!Cross
  BY DEF AccountsPart!Begin
<1>2. ~crossed' => ~crossed /\ \A d \in Caller : request[d] = Nil
  BY <1>1 DEF AccountsPart!Cross
<1>3. QED
  BY <1>1, <1>2 DEF AccountsIInv, AccountsTypes, AccountsClean

\* The same for a call that is one step.
LEMMA AccountsCrossFacts ==
    ASSUME AccountsIInv, AccountsPart!Cross
    PROVE  ~crossed' => ~crossed /\ AccountsSettled /\ AccountsProven /\ \A d \in Caller : request[d] = Nil
BY DEF AccountsPart!Cross, AccountsIInv, AccountsClean

\* A call that goes on or ends leaves the others alone.
LEMMA AccountsContinueFacts ==
    ASSUME AccountsIInv, NEW c \in Caller, request[c] # Nil,
           NEW call \in AccountsCalls \cup {Nil}, AccountsPart!Continue(c, call)
    PROVE  /\ request' \in [Caller -> AccountsCalls \cup {Nil}]
           /\ request'[c] = call /\ crossed' = crossed
           /\ request[c] \in AccountsCalls
           /\ ~crossed' => /\ ~crossed /\ AccountsSound(request[c]) /\ AccountsProven
                           /\ \A d \in Caller : d # c => request'[d] = Nil
BY DEF AccountsPart!Continue, AccountsIInv, AccountsTypes, AccountsClean

\* The invariant of the next state, from the one call there is.
LEMMA AccountsCleanNext ==
    ASSUME NEW c \in Caller, NEW call \in AccountsCalls \cup {Nil},
           request' \in [Caller -> AccountsCalls \cup {Nil}], request'[c] = call,
           ~crossed' => /\ \A d \in Caller : d # c => request'[d] = Nil
                        /\ call # Nil => AccountsSound(call)'
                        /\ AccountsProven'
                        /\ call = Nil => AccountsSettled'
    PROVE  AccountsClean'
BY DEF AccountsClean

-----------------------------------------------------------------------------
\* A call begins and changes nothing else.
LEMMA AccountsBeginOnly ==
    ASSUME AccountsIInv, NEW c \in Caller, NEW call \in AccountsCalls, AccountsPart!Begin(c, call),
           UNCHANGED <<AccountsPart!rowVars, granted, asked>>,
           proven \subseteq proven',
           ~crossed' => AccountsSound(call)'
    PROVE  AccountsIInv'
<1>1. /\ UNCHANGED <<kind, userStatus, member, mfa, asked>>
      /\ AccountsSettled => AccountsSettled'
      /\ AccountsProven => AccountsProven'
  BY DEF AccountsPart!rowVars, AccountsSettled, AccountsProven
<1>2. call # Nil \/ call = Nil
  OBVIOUS
<1>3. AccountsClean'
  BY <1>1, AccountsBeginFacts, AccountsCleanNext
<1>4. AccountsTypes' /\ AccountsBornActive'
  BY <1>1, AccountsBeginFacts DEF AccountsIInv, AccountsTypes, AccountsBornActive
<1>5. QED
  BY <1>3, <1>4 DEF AccountsIInv

\* A login begins with what its route has read.
LEMMA AccountsLoginBegins ==
    ASSUME AccountsIInv, NEW c \in Caller, NEW o \in {"TRUST", "ISSUE"}, NEW path \in AccountsPart!LoginPath,
           AccountsPart!Begin(c, [op |-> o, path |-> path]),
           UNCHANGED <<AccountsPart!rowVars, granted, asked, proven>>,
           path \in {"OTP", "ACCESS", "REFRESH"} => userStatus = "ACTIVE",
           path = "PARTNER" => o = "ISSUE" /\ (mfa.enabled => trusted)
    PROVE  AccountsIInv'
<1> DEFINE call == [op |-> o, path |-> path]
<1>1. call \in AccountsLogin /\ call \in AccountsCalls /\ call.op = o /\ call.path = path
  BY DEF AccountsLogin, AccountsCalls
<1>2. call \notin AccountsAssignment \cup AccountsFlagging
  BY <1>1, AccountsCallKinds
<1> HIDE DEF call
<1>3. ASSUME ~crossed' PROVE AccountsSound(call)'
  <2>1. AccountsSettled'
    BY <1>1, <1>3, AccountsBeginFacts DEF call, AccountsSettled, AccountsPart!rowVars
  <2>2. QED
    BY <1>1, <1>2, <2>1 DEF AccountsSound, AccountsPart!rowVars
<1>4. QED
  BY <1>1, <1>3, AccountsBeginOnly DEF call

\* The invariant after a step that is a whole call.
LEMMA AccountsCleanAlone ==
    ASSUME AccountsIInv, AccountsPart!Cross, request' = request,
           ~crossed' => (AccountsSettled => AccountsSettled') /\ (AccountsProven => AccountsProven')
    PROVE  AccountsClean'
BY AccountsCrossFacts DEF AccountsClean

LEMMA AccountsStepIInv ==
    ASSUME AccountsDistinct, MaxSecrets \in Nat, AccountsIInv,
           AccountsPart!Next \/ UNCHANGED accountVars
    PROVE  AccountsIInv'
<1>0. AccountsTypes /\ AccountsBornActive /\ AccountsClean
  BY DEF AccountsIInv
<1>1. ASSUME NEW c \in Caller, NEW k \in AccountsPart!Kind \cup {"PORTAL"}, AccountsPart!Register(c, k)
      PROVE  AccountsIInv'
  <2> DEFINE call == [op |-> "REGISTER", kind |-> k]
  <2>1. call \in AccountsOpening /\ call \in AccountsCalls /\ call.op = "REGISTER"
    BY DEF AccountsOpening, AccountsCalls
  <2>2. call \notin AccountsLogin \cup AccountsAssignment \cup AccountsFlagging
    BY <2>1, AccountsCallKinds
  <2>3. ~crossed' => AccountsSound(call)'
    BY <1>1, <2>1, <2>2, AccountsBeginFacts
    DEF AccountsPart!Register, AccountsSound, AccountsSettled, AccountsPart!rowVars
  <2>4. QED
    BY <1>1, <2>1, <2>3, AccountsBeginOnly DEF AccountsPart!Register
<1>2. ASSUME NEW c \in Caller, AccountsInserts(c)
      PROVE  AccountsIInv'
  <2>1. /\ request[c] # Nil /\ kind = "NONE" /\ userStatus' = "ACTIVE"
        /\ request[c].op = "REGISTER"
        /\ kind' \in AccountsPart!Kind
        /\ UNCHANGED <<mfa, proven, asked>>
        /\ \/ member' = [member EXCEPT !["Partner"] = "PARTNER_ADMIN"]
           \/ member' = member
        /\ \E call \in {[op |-> "JOIN"], [op |-> "JOIN_PARTNER"], Nil} : AccountsPart!Continue(c, call)
    BY <1>2
    DEF AccountsInserts, AccountsPart!InsertTraveler, AccountsPart!InsertDriver, AccountsPart!InsertPartner,
        AccountsPart!InsertStaff, AccountsPart!InsertPortalUser,
        AccountsPart!Insert, AccountsPart!Kind, AccountsPart!Doing, AccountsPart!Finish
  <2>2. PICK call \in {[op |-> "JOIN"], [op |-> "JOIN_PARTNER"], Nil} : AccountsPart!Continue(c, call)
    BY <2>1
  <2>3. /\ call \in AccountsCalls \cup {Nil}
        /\ call # Nil => call \notin AccountsLogin \cup AccountsAssignment \cup AccountsFlagging
    BY AccountsCallKinds DEF AccountsCalls, AccountsOpening
  <2>4. request[c] \in AccountsOpening /\ request[c] \notin AccountsAssignment
    BY <2>1, <2>2, <2>3, AccountsContinueFacts, AccountsCallKinds
  <2>6. member'["Kemraa"] = member["Kemraa"] /\ (AccountsProven => AccountsProven') /\ (AccountsSettled => AccountsSettled')
    BY <1>0, <2>1 DEF AccountsTypes, AccountsPart!Org, AccountsProven, AccountsSettled
  <2>7. AccountsTypes' /\ AccountsBornActive'
    BY <1>0, <2>1, <2>2, <2>3, AccountsContinueFacts
    DEF AccountsTypes, AccountsPart!Org, AccountsBornActive, AccountsPart!Kind, AccountsPart!PartnerRole
  <2>8. ~crossed' => AccountsSettled' /\ AccountsProven'
    BY <2>1, <2>2, <2>3, <2>4, <2>6, AccountsContinueFacts DEF AccountsSound
  <2>9. ~crossed' /\ call # Nil => AccountsSound(call)'
    BY <2>3, <2>8 DEF AccountsSound
  <2>10. AccountsClean'
    BY <2>1, <2>2, <2>3, <2>8, <2>9, AccountsContinueFacts, AccountsCleanNext
  <2>11. QED
    BY <2>7, <2>10 DEF AccountsIInv
<1>3. ASSUME NEW c \in Caller, AccountsPart!JoinStaff(c)
      PROVE  AccountsIInv'
  <2>1. /\ request[c] # Nil /\ AccountsPart!Continue(c, Nil)
        /\ member' = [member EXCEPT !["Kemraa"] = "ADMIN"] /\ asked' = {"ADMIN"}
        /\ UNCHANGED <<kind, userStatus, mfa, proven>>
    BY <1>3 DEF AccountsPart!JoinStaff, AccountsPart!Doing, AccountsPart!Finish
  <2>2. AccountsTypes' /\ AccountsBornActive'
    BY <1>0, <2>1, AccountsContinueFacts
    DEF AccountsTypes, AccountsPart!Org, AccountsBornActive
  <2>3. AccountsSettled' /\ (AccountsProven => AccountsProven')
    BY <1>0, <2>1 DEF AccountsTypes, AccountsPart!Org, AccountsSettled, AccountsProven
  <2>4. AccountsClean'
    BY <2>1, <2>3, AccountsContinueFacts, AccountsCleanNext
  <2>5. QED
    BY <2>2, <2>4 DEF AccountsIInv
<1>4. ASSUME NEW c \in Caller, AccountsPart!LoginOtp(c)
      PROVE  AccountsIInv'
  <2> DEFINE call == [op |-> "ISSUE", path |-> "OTP"]
  <2>1. call \in AccountsLogin /\ call \in AccountsCalls /\ call.op = "ISSUE" /\ call.path = "OTP"
    BY DEF AccountsLogin, AccountsCalls, AccountsPart!LoginPath
  <2>2. call \notin AccountsAssignment \cup AccountsFlagging
    BY <2>1, AccountsCallKinds
  <2>3. /\ userStatus = "ACTIVE" /\ kind' \in AccountsPart!Kind /\ AccountsPart!Begin(c, call)
        /\ UNCHANGED <<userStatus, member, mfa, asked, proven>>
    BY <1>0, <1>4
    DEF AccountsPart!LoginOtp, AccountsBornActive, AccountsTypes, AccountsPart!Kind
  <2> HIDE DEF call
  <2>4. ~crossed' => AccountsSettled' /\ AccountsProven'
    BY <2>1, <2>3, AccountsBeginFacts DEF AccountsSettled, AccountsProven
  <2>5. ~crossed' => AccountsSound(call)'
    BY <2>1, <2>2, <2>3, <2>4 DEF AccountsSound
  <2>6. AccountsClean'
    BY <2>1, <2>3, <2>4, <2>5, AccountsBeginFacts, AccountsCleanNext
  <2>7. AccountsTypes' /\ AccountsBornActive'
    BY <1>0, <2>1, <2>3, AccountsBeginFacts DEF AccountsTypes, AccountsBornActive
  <2>8. QED
    BY <2>6, <2>7 DEF AccountsIInv
<1>5. ASSUME NEW c \in Caller,
             \/ AccountsPart!LoginAccess(c) \/ AccountsPart!LoginRefresh(c) \/ AccountsPart!LoginPassword(c)
             \/ AccountsPart!LoginDriver(c) \/ AccountsPart!LoginPortal(c)
      PROVE  AccountsIInv'
  BY <1>5, AccountsLoginBegins
  DEF AccountsPart!LoginAccess, AccountsPart!LoginRefresh, AccountsPart!LoginPassword,
      AccountsPart!LoginDriver, AccountsPart!LoginPortal, AccountsPart!LoginPath
<1>6. ASSUME NEW c \in Caller, NEW known \in BOOLEAN, AccountsPart!LoginPartner(c, known)
      PROVE  AccountsIInv'
  BY <1>6, AccountsLoginBegins DEF AccountsPart!LoginPartner, AccountsPart!LoginPath
<1>7. ASSUME NEW c \in Caller, NEW s \in 1..MaxSecrets, NEW remember \in BOOLEAN,
             AccountsPart!LoginMfa(c, s, remember)
      PROVE  AccountsIInv'
  <2>1. PICK o \in {"TRUST", "ISSUE"} : AccountsPart!Begin(c, [op |-> o, path |-> "MFA"])
    BY <1>7 DEF AccountsPart!LoginMfa
  <2>2. QED
    BY <1>7, <2>1, AccountsLoginBegins DEF AccountsPart!LoginMfa, AccountsPart!LoginPath
<1>8. ASSUME NEW c \in Caller, AccountsPart!TrustDevice(c)
      PROVE  AccountsIInv'
  <2>0. PICK call : call = [op |-> "ISSUE", path |-> request[c].path]
    OBVIOUS
  <2>1. /\ request[c] # Nil /\ request[c].op = "TRUST" /\ AccountsPart!Continue(c, call)
        /\ UNCHANGED <<kind, userStatus, member, mfa, asked, proven>> /\ trusted'
    BY <1>8, <2>0 DEF AccountsPart!TrustDevice, AccountsPart!Doing
  <2>2. request[c] \in AccountsLogin /\ request[c] \notin AccountsAssignment
    BY <1>0, <2>1, AccountsCallKinds DEF AccountsTypes
  <2>3. call \in AccountsLogin /\ call \in AccountsCalls /\ call.op = "ISSUE" /\ call.path = request[c].path
    BY <2>0, <2>2 DEF AccountsLogin, AccountsCalls
  <2>4. call \notin AccountsAssignment \cup AccountsFlagging
    BY <2>3, AccountsCallKinds
  <2>5. ASSUME ~crossed' PROVE AccountsSound(call)' /\ AccountsProven'
    <3>1. AccountsSound(request[c]) /\ AccountsProven
      BY <2>1, <2>3, <2>5, AccountsContinueFacts
    <3>2. AccountsSettled' /\ call.path # "PARTNER"
      BY <2>1, <2>2, <2>3, <3>1 DEF AccountsSound, AccountsSettled
    <3>3. QED
      BY <2>1, <2>2, <2>3, <2>4, <3>1, <3>2 DEF AccountsSound, AccountsProven
  <2>6. AccountsClean'
    BY <2>1, <2>3, <2>5, AccountsContinueFacts, AccountsCleanNext, AccountsDistinct
    DEF AccountsDistinct
  <2>7. AccountsTypes' /\ AccountsBornActive'
    BY <1>0, <2>1, <2>3, AccountsContinueFacts DEF AccountsTypes, AccountsBornActive
  <2>8. QED
    BY <2>6, <2>7 DEF AccountsIInv
<1>9. ASSUME NEW c \in Caller, AccountsPart!Issue(c) \/ AccountsPart!ForgetDevices(c)
      PROVE  AccountsIInv'
  <2>1. /\ request[c] # Nil /\ request[c].op \in {"ISSUE", "FORGET"} /\ AccountsPart!Continue(c, Nil)
        /\ UNCHANGED <<kind, userStatus, member, mfa, asked, proven>>
    BY <1>9
    DEF AccountsPart!Issue, AccountsPart!ForgetDevices, AccountsPart!Doing,
        AccountsPart!Finish
  <2>2. request[c] \notin AccountsAssignment
    BY <1>0, <2>1, AccountsCallKinds DEF AccountsTypes
  <2>3. ~crossed' => AccountsSettled' /\ AccountsProven'
    BY <2>1, <2>2, AccountsContinueFacts
    DEF AccountsSound, AccountsSettled, AccountsProven
  <2>4. AccountsClean'
    BY <2>1, <2>3, AccountsContinueFacts, AccountsCleanNext
  <2>5. AccountsTypes' /\ AccountsBornActive'
    BY <1>0, <2>1, AccountsContinueFacts DEF AccountsTypes, AccountsBornActive
  <2>6. QED
    BY <2>4, <2>5 DEF AccountsIInv
<1>10. ASSUME NEW to \in AccountsPart!AllowedStatus, AccountsPart!SetStatus(to)
       PROVE  AccountsIInv'
  <2>1. AccountsClean'
    BY <1>10, AccountsCleanAlone
    DEF AccountsPart!SetStatus, AccountsSettled, AccountsProven
  <2>2. QED
    BY <1>0, <1>10, <2>1
    DEF AccountsPart!SetStatus, AccountsIInv, AccountsTypes, AccountsBornActive
<1>11. CASE AccountsPart!RevokeDevice
  <2>1. AccountsClean'
    BY <1>11, AccountsCleanAlone
    DEF AccountsPart!RevokeDevice, AccountsSettled, AccountsProven
  <2>2. QED
    BY <1>0, <1>11, <2>1
    DEF AccountsPart!RevokeDevice, AccountsIInv, AccountsTypes, AccountsBornActive
<1>12. CASE AccountsPart!MfaSetup
  <2>1. AccountsClean'
    <3>1. AccountsSettled' = AccountsSettled /\ AccountsProven'
      BY <1>0, <1>12 DEF AccountsPart!MfaSetup, AccountsSettled, AccountsProven
    <3>2. QED
      BY <1>12, <3>1, AccountsCleanAlone DEF AccountsPart!MfaSetup
  <2>2. QED
    BY <1>0, <1>12, <2>1
    DEF AccountsPart!MfaSetup, AccountsIInv, AccountsTypes, AccountsBornActive
<1>13. ASSUME NEW r \in Role, AccountsPart!UpdateStaffRole(r)
       PROVE  AccountsIInv'
  <2>1. AccountsTypes' /\ AccountsBornActive'
    BY <1>0, <1>13
    DEF AccountsPart!UpdateStaffRole, AccountsTypes, AccountsPart!Org,
        AccountsBornActive
  <2>2. AccountsSettled' /\ (AccountsProven => AccountsProven')
    BY <1>0, <1>13
    DEF AccountsPart!UpdateStaffRole, AccountsTypes, AccountsPart!Org, AccountsSettled,
        AccountsProven, AccountsDistinct
  <2>3. AccountsClean'
    BY <1>13, <2>2, AccountsCleanAlone DEF AccountsPart!UpdateStaffRole
  <2>4. QED
    BY <2>1, <2>3 DEF AccountsIInv
<1>14. ASSUME NEW c \in Caller, AccountsPart!DeleteStaff(c) \/ AccountsPart!RegenerateCode(c)
       PROVE  AccountsIInv'
  <2> DEFINE call == [op |-> "FORGET"]
  <2>1. call \in AccountsCalls /\ call \notin AccountsLogin \cup AccountsAssignment \cup AccountsFlagging
    BY AccountsCallKinds DEF AccountsCalls, AccountsOpening
  <2>2. /\ AccountsPart!Begin(c, call) /\ kind # "NONE"
        /\ UNCHANGED <<kind, member, mfa, asked, proven>>
    BY <1>14
    DEF AccountsPart!DeleteStaff, AccountsPart!RegenerateCode, AccountsPart!rowVars
  <2> HIDE DEF call
  <2>3. ~crossed' => AccountsSettled' /\ AccountsProven'
    BY <2>1, <2>2, AccountsBeginFacts DEF AccountsSettled, AccountsProven
  <2>4. ~crossed' => AccountsSound(call)'
    BY <2>1, <2>3 DEF AccountsSound
  <2>5. AccountsClean'
    BY <2>1, <2>2, <2>3, <2>4, AccountsBeginFacts, AccountsCleanNext
  <2>6. AccountsTypes' /\ AccountsBornActive'
    BY <1>0, <2>1, <2>2, AccountsBeginFacts DEF AccountsTypes, AccountsBornActive
  <2>7. QED
    BY <2>5, <2>6 DEF AccountsIInv
<1>15. ASSUME NEW c \in Caller, NEW actor, NEW roles \in SUBSET Role, AccountsPart!SetRoles(c, actor, roles)
       PROVE  AccountsIInv'
  <2> DEFINE call == [op |-> "ASSIGN", all |-> roles, left |-> roles]
  <2>1. call \in AccountsAssignment /\ call \in AccountsCalls /\ call.all = roles /\ call.left = roles
        /\ call.op = "ASSIGN"
    BY DEF AccountsAssignment, AccountsCalls
  <2>2. call \notin AccountsLogin \cup AccountsFlagging
    BY <2>1, AccountsCallKinds
  <2>3. /\ AccountsPart!Begin(c, call) /\ member' = [o \in AccountsPart!Org |-> "NONE"] /\ kind # "NONE"
        /\ UNCHANGED <<kind, userStatus, mfa, asked, proven>>
    BY <1>15 DEF AccountsPart!SetRoles
  <2> HIDE DEF call
  <2>4. ~crossed' => AccountsProven'
    BY <2>1, <2>3, AccountsBeginFacts DEF AccountsProven
  <2>5. AccountsSound(call)'
    BY <2>1, <2>2, <2>3 DEF AccountsSound, AccountsPart!Org
  <2>6. AccountsClean'
    BY <2>1, <2>3, <2>4, <2>5, AccountsBeginFacts, AccountsCleanNext, AccountsDistinct
    DEF AccountsDistinct
  <2>7. AccountsTypes' /\ AccountsBornActive'
    BY <1>0, <2>1, <2>3, AccountsBeginFacts DEF AccountsTypes, AccountsBornActive
  <2>8. QED
    BY <2>6, <2>7 DEF AccountsIInv
<1>16. ASSUME NEW c \in Caller, NEW r \in Role, AccountsPart!AssignRole(c, r)
       PROVE  AccountsIInv'
  <2>0. PICK call : call = [request[c] EXCEPT !.left = @ \ {r}]
    OBVIOUS
  <2>1. /\ request[c] # Nil /\ request[c].op = "ASSIGN" /\ r \in request[c].left
        /\ member["Kemraa"] = "NONE" /\ member' = [member EXCEPT !["Kemraa"] = r]
        /\ AccountsPart!Continue(c, call)
        /\ UNCHANGED <<kind, userStatus, mfa, asked, proven>>
    BY <1>16, <2>0 DEF AccountsPart!AssignRole, AccountsPart!Doing
  <2>2. request[c] \in AccountsAssignment
    BY <1>0, <2>1, AccountsCallKinds DEF AccountsTypes
  <2>3. /\ call \in AccountsAssignment /\ call \in AccountsCalls /\ call.op = "ASSIGN"
        /\ call.all = request[c].all /\ call.left = request[c].left \ {r}
    BY <2>0, <2>2 DEF AccountsAssignment, AccountsCalls
  <2>4. call \notin AccountsLogin \cup AccountsFlagging
    BY <2>3, AccountsCallKinds
  <2>5. ASSUME ~crossed' PROVE AccountsSound(call)' /\ AccountsProven'
    <3>1. AccountsSound(request[c]) /\ AccountsProven
      BY <2>1, <2>3, <2>5, AccountsContinueFacts
    <3>2. request[c].left \subseteq request[c].all /\ {} = request[c].all \ request[c].left
      BY <2>1, <2>2, <3>1 DEF AccountsSound
    <3>3. member'["Kemraa"] = r /\ r # "NONE"
      BY <1>0, <2>1 DEF AccountsTypes, AccountsPart!Org, AccountsDistinct
    <3>4. {member'["Kemraa"]} \ {"NONE"} = call.all \ call.left /\ call.left \subseteq call.all
      BY <2>1, <2>3, <3>2, <3>3
    <3>5. QED
      BY <2>1, <2>3, <2>4, <3>1, <3>4 DEF AccountsSound, AccountsProven
  <2>6. AccountsClean'
    BY <2>1, <2>3, <2>5, AccountsContinueFacts, AccountsCleanNext, AccountsDistinct
    DEF AccountsDistinct
  <2>7. AccountsTypes' /\ AccountsBornActive'
    BY <1>0, <2>1, <2>3, AccountsContinueFacts
    DEF AccountsTypes, AccountsPart!Org, AccountsBornActive
  <2>8. QED
    BY <2>6, <2>7 DEF AccountsIInv
<1>17. ASSUME NEW c \in Caller, AccountsPart!RolesAssigned(c)
       PROVE  AccountsIInv'
  <2>1. /\ request[c] # Nil /\ request[c].op = "ASSIGN" /\ request[c].left = {}
        /\ asked' = request[c].all /\ AccountsPart!Continue(c, Nil)
        /\ UNCHANGED <<kind, userStatus, member, mfa, proven>>
    BY <1>17
    DEF AccountsPart!RolesAssigned, AccountsPart!Doing, AccountsPart!Finish,
        AccountsPart!rowVars
  <2>2. request[c] \in AccountsAssignment
    BY <1>0, <2>1, AccountsCallKinds DEF AccountsTypes
  <2>3. ~crossed' => AccountsSettled' /\ AccountsProven'
    BY <2>1, <2>2, AccountsContinueFacts
    DEF AccountsSound, AccountsSettled, AccountsProven
  <2>4. AccountsClean'
    BY <2>1, <2>3, AccountsContinueFacts, AccountsCleanNext
  <2>5. AccountsTypes' /\ AccountsBornActive'
    BY <1>0, <2>1, AccountsContinueFacts DEF AccountsTypes, AccountsBornActive
  <2>6. QED
    BY <2>4, <2>5 DEF AccountsIInv
<1>18. ASSUME NEW c \in Caller, NEW s \in 1..MaxSecrets, NEW enable \in BOOLEAN,
              AccountsPart!CheckMfa(c, s, enable)
       PROVE  AccountsIInv'
  <2> DEFINE call == [op |-> "FLAG", enable |-> enable]
  <2>1. call \in AccountsFlagging /\ call \in AccountsCalls /\ call.op = "FLAG"
    BY DEF AccountsFlagging, AccountsCalls
  <2>2. call \notin AccountsLogin \cup AccountsAssignment
    BY <2>1, AccountsCallKinds
  <2>3. /\ AccountsPart!Begin(c, call) /\ UNCHANGED <<AccountsPart!rowVars, granted, asked>>
        /\ proven' = proven \cup {mfa.secret}
    BY <1>18 DEF AccountsPart!CheckMfa
  <2> HIDE DEF call
  <2>4. ~crossed' => AccountsSettled'
    BY <2>1, <2>3, AccountsBeginFacts DEF AccountsSettled, AccountsPart!rowVars
  <2>5. ~crossed' => AccountsSound(call)'
    BY <2>1, <2>2, <2>3, <2>4 DEF AccountsSound, AccountsPart!rowVars
  <2>6. QED
    BY <2>1, <2>3, <2>5, AccountsBeginOnly
<1>19. ASSUME NEW c \in Caller, AccountsPart!FlagMfa(c)
       PROVE  AccountsIInv'
  <2>1. /\ request[c] # Nil /\ request[c].op = "FLAG"
        /\ mfa' = [mfa EXCEPT !.enabled = request[c].enable] /\ AccountsPart!Continue(c, Nil)
        /\ UNCHANGED <<kind, userStatus, member, asked, proven>>
    BY <1>19 DEF AccountsPart!FlagMfa, AccountsPart!Doing, AccountsPart!Finish
  <2>2. request[c] \in AccountsFlagging /\ request[c] \notin AccountsAssignment
    BY <1>0, <2>1, AccountsCallKinds DEF AccountsTypes
  <2>3. mfa'.secret = mfa.secret /\ (mfa'.enabled <=> request[c].enable)
    BY <1>0, <2>1, <2>2 DEF AccountsTypes, AccountsFlagging
  <2>4. ~crossed' => AccountsSettled' /\ AccountsProven'
    BY <2>1, <2>2, <2>3, AccountsContinueFacts
    DEF AccountsSound, AccountsSettled, AccountsProven
  <2>5. AccountsClean'
    BY <2>1, <2>4, AccountsContinueFacts, AccountsCleanNext
  <2>6. mfa' \in [secret : Nat, enabled : BOOLEAN]
    BY <1>0, <2>1, <2>2 DEF AccountsTypes, AccountsFlagging
  <2>7. AccountsTypes' /\ AccountsBornActive'
    BY <1>0, <2>1, <2>6, AccountsContinueFacts DEF AccountsTypes, AccountsBornActive
  <2>8. QED
    BY <2>5, <2>7 DEF AccountsIInv
<1>20. ASSUME NEW c \in Caller, AccountsPart!Abandon(c)
       PROVE  AccountsIInv'
  BY <1>0, <1>20
  DEF AccountsPart!Abandon, AccountsPart!rowVars, AccountsIInv, AccountsTypes,
      AccountsBornActive, AccountsClean
<1>21. CASE UNCHANGED accountVars
  BY <1>0, <1>21
  DEF accountVars, AccountsPart!rowVars, AccountsIInv, AccountsTypes,
      AccountsBornActive, AccountsClean, AccountsSound, AccountsProven, AccountsSettled
<1>22. ASSUME NEW suspended \in BOOLEAN, AccountsPart!ToggleLock(suspended)
       PROVE  AccountsIInv'
  BY <1>10, <1>22 DEF AccountsPart!ToggleLock, AccountsPart!AllowedStatus
<1>23. ASSUME NEW c \in Caller, AccountsPart!JoinPartner(c)
       PROVE  AccountsIInv'
  <2>1. /\ request[c] # Nil /\ request[c].op = "JOIN_PARTNER" /\ AccountsPart!Continue(c, Nil)
        /\ member' = [member EXCEPT !["Partner"] = "PARTNER_USER"]
        /\ UNCHANGED <<kind, userStatus, mfa, asked, proven>>
    BY <1>23 DEF AccountsPart!JoinPartner, AccountsPart!Doing, AccountsPart!Finish
  <2>2. request[c] \notin AccountsAssignment
    BY <1>0, <2>1, AccountsCallKinds DEF AccountsTypes
  <2>3. member'["Kemraa"] = member["Kemraa"]
    BY <1>0, <2>1 DEF AccountsTypes, AccountsPart!Org
  <2>4. ~crossed' => AccountsSettled' /\ AccountsProven'
    BY <2>1, <2>2, <2>3, AccountsContinueFacts
    DEF AccountsSound, AccountsSettled, AccountsProven
  <2>5. AccountsClean'
    BY <2>1, <2>4, AccountsContinueFacts, AccountsCleanNext
  <2>6. AccountsTypes' /\ AccountsBornActive'
    BY <1>0, <2>1, AccountsContinueFacts
    DEF AccountsTypes, AccountsPart!Org, AccountsPart!PartnerRole, AccountsBornActive
  <2>7. QED
    BY <2>5, <2>6 DEF AccountsIInv
<1>24. QED
  BY <1>1, <1>2, <1>3, <1>4, <1>5, <1>6, <1>7, <1>8, <1>9, <1>10, <1>11, <1>12, <1>13,
     <1>14, <1>15, <1>16, <1>17, <1>18, <1>19, <1>20, <1>21, <1>22, <1>23
  DEF AccountsPart!Next, AccountsInserts

\* What else the rows and the ghosts hold.
AccountsRows ==
    /\ userStatus \in AccountsPart!AllowedStatus
    /\ mfa.secret \in 0..MaxSecrets
    /\ granted[1] \in AccountsPart!LoginPath \cup {"NONE"}
    /\ asked \subseteq Role \cup {"ADMIN"}
    /\ proven \subseteq 1..MaxSecrets

AccountsFlags == trusted \in BOOLEAN /\ holdsRefresh \in BOOLEAN /\ crossed \in BOOLEAN

LEMMA AccountsRowsStep ==
    ASSUME MaxSecrets \in Nat, AccountsIInv, AccountsRows,
           AccountsPart!Next \/ UNCHANGED accountVars
    PROVE  AccountsRows'
<1>0. /\ request \in [Caller -> AccountsCalls \cup {Nil}]
      /\ mfa \in [secret : Nat, enabled : BOOLEAN]
  BY DEF AccountsIInv, AccountsTypes
<1>1. ASSUME NEW c \in Caller, AccountsPart!Issue(c) PROVE AccountsRows'
  <2>1. request[c] \in AccountsLogin
    BY <1>0, <1>1, AccountsCallKinds DEF AccountsPart!Issue, AccountsPart!Doing
  <2>2. granted'[1] = request[c].path /\ UNCHANGED <<userStatus, mfa, asked, proven>>
    BY <1>1 DEF AccountsPart!Issue
  <2>3. QED
    BY <2>1, <2>2 DEF AccountsRows, AccountsLogin
<1>2. ASSUME NEW c \in Caller, AccountsPart!RolesAssigned(c) PROVE AccountsRows'
  <2>1. request[c] \in AccountsAssignment
    BY <1>0, <1>2, AccountsCallKinds DEF AccountsPart!RolesAssigned, AccountsPart!Doing
  <2>2. asked' = request[c].all /\ UNCHANGED <<userStatus, mfa, granted, proven>>
    BY <1>2 DEF AccountsPart!RolesAssigned, AccountsPart!rowVars
  <2>3. QED
    BY <2>1, <2>2 DEF AccountsRows, AccountsAssignment
<1>3. ASSUME NEW c \in Caller, AccountsPart!FlagMfa(c) PROVE AccountsRows'
  <2>1. /\ mfa' = [mfa EXCEPT !.enabled = request[c].enable]
        /\ UNCHANGED <<userStatus, granted, asked, proven>>
    BY <1>3 DEF AccountsPart!FlagMfa
  <2>2. QED
    BY <1>0, <2>1 DEF AccountsRows
<1>4. CASE AccountsPart!MfaSetup
  <2>1. /\ mfa.secret < MaxSecrets /\ mfa' = [secret |-> mfa.secret + 1, enabled |-> FALSE]
        /\ UNCHANGED <<userStatus, granted, asked, proven>>
    BY <1>4 DEF AccountsPart!MfaSetup
  <2>2. QED
    BY <1>0, <2>1 DEF AccountsRows
<1>5. ASSUME NEW c \in Caller, NEW s \in 1..MaxSecrets, NEW enable \in BOOLEAN,
             AccountsPart!CheckMfa(c, s, enable)
      PROVE  AccountsRows'
  BY <1>5 DEF AccountsPart!CheckMfa, AccountsPart!rowVars, AccountsRows
<1>6. ASSUME NEW c \in Caller, AccountsPart!JoinStaff(c) PROVE AccountsRows'
  BY <1>6 DEF AccountsPart!JoinStaff, AccountsRows
<1>7. ASSUME NEW r \in Role, AccountsPart!UpdateStaffRole(r) PROVE AccountsRows'
  BY <1>7 DEF AccountsPart!UpdateStaffRole, AccountsRows
<1>8. ASSUME userStatus' \in AccountsPart!AllowedStatus,
             UNCHANGED <<mfa, granted, asked, proven>>
      PROVE  AccountsRows'
  BY <1>8 DEF AccountsRows
<1>9. ASSUME NEW c \in Caller, AccountsInserts(c) \/ AccountsPart!DeleteStaff(c)
      PROVE  AccountsRows'
  BY <1>8, <1>9
  DEF AccountsInserts, AccountsPart!Insert, AccountsPart!InsertTraveler, AccountsPart!InsertDriver,
      AccountsPart!InsertPartner, AccountsPart!InsertStaff, AccountsPart!InsertPortalUser,
      AccountsPart!DeleteStaff, AccountsPart!AllowedStatus
<1>10. ASSUME NEW to \in AccountsPart!AllowedStatus, AccountsPart!SetStatus(to)
       PROVE  AccountsRows'
  BY <1>8, <1>10 DEF AccountsPart!SetStatus
<1>10a. ASSUME NEW suspended \in BOOLEAN, AccountsPart!ToggleLock(suspended)
        PROVE  AccountsRows'
  BY <1>10, <1>10a DEF AccountsPart!ToggleLock, AccountsPart!AllowedStatus
<1>11. ASSUME UNCHANGED <<userStatus, mfa, granted, asked, proven>> PROVE AccountsRows'
  BY <1>11 DEF AccountsRows
<1>12. ASSUME NEW c, NEW x, NEW y,
              \/ AccountsPart!Register(c, x) \/ AccountsPart!LoginOtp(c)
              \/ AccountsPart!LoginAccess(c) \/ AccountsPart!LoginRefresh(c)
              \/ AccountsPart!LoginPassword(c) \/ AccountsPart!LoginPartner(c, x)
              \/ AccountsPart!LoginMfa(c, x, y) \/ AccountsPart!TrustDevice(c)
              \/ AccountsPart!RegenerateCode(c) \/ AccountsPart!ForgetDevices(c)
              \/ AccountsPart!RevokeDevice \/ AccountsPart!SetRoles(c, x, y)
              \/ AccountsPart!AssignRole(c, x) \/ AccountsPart!Abandon(c)
              \/ AccountsPart!JoinPartner(c) \/ AccountsPart!LoginDriver(c)
              \/ AccountsPart!LoginPortal(c)
       PROVE  AccountsRows'
  BY <1>11, <1>12
  DEF AccountsPart!Register, AccountsPart!LoginOtp, AccountsPart!LoginAccess,
      AccountsPart!LoginRefresh, AccountsPart!LoginPassword, AccountsPart!LoginPartner,
      AccountsPart!LoginMfa, AccountsPart!TrustDevice, AccountsPart!RegenerateCode,
      AccountsPart!ForgetDevices, AccountsPart!RevokeDevice, AccountsPart!SetRoles,
      AccountsPart!AssignRole, AccountsPart!Abandon, AccountsPart!rowVars,
      AccountsPart!JoinPartner, AccountsPart!LoginDriver, AccountsPart!LoginPortal
<1>13. CASE UNCHANGED accountVars
  BY <1>11, <1>13 DEF accountVars
<1>14. QED
  BY <1>1, <1>2, <1>3, <1>4, <1>5, <1>6, <1>7, <1>9, <1>10, <1>10a, <1>12, <1>13
  DEF AccountsPart!Next, AccountsInserts

\* A step leaves a flag as it is or writes a truth value.
LEMMA AccountsFlagsStep ==
    ASSUME AccountsFlags, AccountsPart!Next \/ UNCHANGED accountVars
    PROVE  AccountsFlags'
<1>1. crossed' \in BOOLEAN
  <2>1. ASSUME AccountsPart!Cross PROVE crossed' \in BOOLEAN
    BY <2>1 DEF AccountsPart!Cross
  <2>2. ASSUME crossed' = crossed \/ crossed' = TRUE PROVE crossed' \in BOOLEAN
    BY <2>2 DEF AccountsFlags
  <2>3. AccountsPart!Cross \/ crossed' = crossed \/ crossed' = TRUE
    BY DEF AccountsPart!Next, AccountsPart!Begin, AccountsPart!Continue,
           AccountsPart!Finish, AccountsPart!Register, AccountsPart!Insert, AccountsPart!InsertTraveler,
           AccountsPart!InsertDriver, AccountsPart!InsertPartner, AccountsPart!InsertStaff,
           AccountsPart!InsertPortalUser, AccountsPart!JoinPartner, AccountsPart!LoginDriver,
           AccountsPart!LoginPortal, AccountsPart!ToggleLock,
           AccountsPart!JoinStaff, AccountsPart!LoginOtp, AccountsPart!LoginAccess,
           AccountsPart!LoginRefresh, AccountsPart!LoginPassword,
           AccountsPart!LoginPartner, AccountsPart!LoginMfa, AccountsPart!TrustDevice,
           AccountsPart!Issue, AccountsPart!SetStatus, AccountsPart!DeleteStaff,
           AccountsPart!RegenerateCode, AccountsPart!ForgetDevices,
           AccountsPart!RevokeDevice, AccountsPart!SetRoles, AccountsPart!AssignRole,
           AccountsPart!RolesAssigned, AccountsPart!UpdateStaffRole,
           AccountsPart!MfaSetup, AccountsPart!CheckMfa, AccountsPart!FlagMfa,
           AccountsPart!Abandon, accountVars
  <2>4. QED
    BY <2>1, <2>2, <2>3
<1>2. trusted' \in BOOLEAN
  <2>1. trusted' = trusted \/ trusted' = TRUE \/ trusted' = FALSE
    BY DEF AccountsPart!Next, AccountsPart!rowVars, AccountsPart!Register,
           AccountsPart!Insert, AccountsPart!InsertTraveler,
           AccountsPart!InsertDriver, AccountsPart!InsertPartner, AccountsPart!InsertStaff,
           AccountsPart!InsertPortalUser, AccountsPart!JoinPartner, AccountsPart!LoginDriver,
           AccountsPart!LoginPortal, AccountsPart!ToggleLock, AccountsPart!JoinStaff, AccountsPart!LoginOtp,
           AccountsPart!LoginAccess, AccountsPart!LoginRefresh,
           AccountsPart!LoginPassword, AccountsPart!LoginPartner,
           AccountsPart!LoginMfa, AccountsPart!TrustDevice, AccountsPart!Issue,
           AccountsPart!SetStatus, AccountsPart!DeleteStaff,
           AccountsPart!RegenerateCode, AccountsPart!ForgetDevices,
           AccountsPart!RevokeDevice, AccountsPart!SetRoles, AccountsPart!AssignRole,
           AccountsPart!RolesAssigned, AccountsPart!UpdateStaffRole,
           AccountsPart!MfaSetup, AccountsPart!CheckMfa, AccountsPart!FlagMfa,
           AccountsPart!Abandon, accountVars
  <2>2. QED
    BY <2>1 DEF AccountsFlags
<1>3. holdsRefresh' \in BOOLEAN
  <2>1. ASSUME NEW c, AccountsPart!Issue(c) PROVE holdsRefresh' \in BOOLEAN
    BY <2>1 DEF AccountsPart!Issue
  <2>2. UNCHANGED holdsRefresh \/ \E c \in Caller : AccountsPart!Issue(c)
    BY DEF AccountsPart!Next, AccountsPart!rowVars, AccountsPart!Register,
           AccountsPart!Insert, AccountsPart!InsertTraveler,
           AccountsPart!InsertDriver, AccountsPart!InsertPartner, AccountsPart!InsertStaff,
           AccountsPart!InsertPortalUser, AccountsPart!JoinPartner, AccountsPart!LoginDriver,
           AccountsPart!LoginPortal, AccountsPart!ToggleLock, AccountsPart!JoinStaff, AccountsPart!LoginOtp,
           AccountsPart!LoginAccess, AccountsPart!LoginRefresh,
           AccountsPart!LoginPassword, AccountsPart!LoginPartner,
           AccountsPart!LoginMfa, AccountsPart!TrustDevice,
           AccountsPart!SetStatus, AccountsPart!DeleteStaff,
           AccountsPart!RegenerateCode, AccountsPart!ForgetDevices,
           AccountsPart!RevokeDevice, AccountsPart!SetRoles, AccountsPart!AssignRole,
           AccountsPart!RolesAssigned, AccountsPart!UpdateStaffRole,
           AccountsPart!MfaSetup, AccountsPart!CheckMfa, AccountsPart!FlagMfa,
           AccountsPart!Abandon, accountVars
  <2>3. QED
    BY <2>1, <2>2 DEF AccountsFlags
<1>4. QED
  BY <1>1, <1>2, <1>3 DEF AccountsFlags

LEMMA AccountsSuffice ==
    ASSUME AccountsIInv, AccountsRows, AccountsFlags
    PROVE  AccountsPart!TypeOK /\ AccountsPart!AsProvenAndAsked
<1>1. AccountsPart!AsProvenAndAsked
  BY DEF AccountsIInv, AccountsClean, AccountsProven, AccountsSettled,
         AccountsPart!AsProvenAndAsked
<1>2. mfa \in [secret : 0..MaxSecrets, enabled : BOOLEAN]
  BY DEF AccountsIInv, AccountsTypes, AccountsRows
<1>3. {trusted, holdsRefresh, crossed} \subseteq BOOLEAN
  BY DEF AccountsFlags
<1>4. AccountsPart!TypeOK
  BY <1>2, <1>3 DEF AccountsIInv, AccountsTypes, AccountsRows, AccountsPart!TypeOK
<1>5. QED
  BY <1>1, <1>4

LEMMA AccountsInitRows ==
    ASSUME AccountsPart!Init, MaxSecrets \in Nat
    PROVE  AccountsRows
<1>1. mfa = [secret |-> 0, enabled |-> FALSE]
  BY DEF AccountsPart!Init
<1>2. 0 \in 0..MaxSecrets
  OBVIOUS
<1>3. mfa \in [secret : 0..MaxSecrets, enabled : BOOLEAN]
  BY <1>1, <1>2
<1>4. QED
  BY <1>3 DEF AccountsPart!Init, AccountsRows, AccountsPart!AllowedStatus,
              AccountsPart!LoginPath

LEMMA AccountsInitFlags ==
    ASSUME AccountsPart!Init
    PROVE  AccountsFlags
BY DEF AccountsPart!Init, AccountsFlags

\* The inductive invariant with the types holds in every reachable state.
LEMMA AccountsInvariant ==
    ASSUME AccountsDistinct, MaxSecrets \in Nat
    PROVE  Spec => [](AccountsIInv /\ AccountsRows /\ AccountsFlags)
<1>1. Init => AccountsIInv
  BY AccountsInitIInv DEF Init
<1>2. Init => AccountsRows /\ AccountsFlags
  BY AccountsInitRows, AccountsInitFlags DEF Init
<1>3. AccountsIInv /\ AccountsRows /\ AccountsFlags /\ [Next]_vars
        => AccountsIInv' /\ AccountsRows' /\ AccountsFlags'
  <2>1. ASSUME AccountsIInv, AccountsRows, AccountsFlags, [Next]_vars
        PROVE  AccountsIInv' /\ AccountsRows' /\ AccountsFlags'
    <3>1. AccountsPart!Next \/ UNCHANGED accountVars
      BY <2>1, OnePart
    <3>2. AccountsIInv'
      BY <2>1, <3>1, AccountsStepIInv
    <3>3. AccountsRows'
      BY <2>1, <3>1, AccountsRowsStep
    <3>4. AccountsFlags'
      BY <2>1, <3>1, AccountsFlagsStep
    <3>5. QED
      BY <3>2, <3>3, <3>4
  <2>2. QED
    BY <2>1
<1>4. QED
  BY <1>1, <1>2, <1>3, PTL DEF Spec

\* mfaSetup, mfaVerify, setRoles and updateStaff: until calls overlap or die
\* an enabled second factor was proved, and the role is the one asked for.
THEOREM AsProvenAndAskedCorrect ==
    ASSUME AccountsDistinct, MaxSecrets \in Nat
    PROVE  Spec => []AsProvenAndAsked
<1>1. AccountsIInv /\ AccountsRows /\ AccountsFlags => AsProvenAndAsked
  BY AccountsSuffice DEF AsProvenAndAsked
<1>2. QED
  BY <1>1, AccountsInvariant, PTL

\* What IssuedToActive asks of one step.
AccountsIssuesToActive ==
    ~crossed /\ granted' # granted =>
        /\ granted'[1] \in {"OTP", "ACCESS", "REFRESH"} => userStatus = "ACTIVE"
        /\ granted'[1] = "PARTNER" => (mfa.enabled => trusted)

LEMMA AccountsStepIssues ==
    ASSUME AccountsIInv, AccountsPart!Next \/ UNCHANGED accountVars
    PROVE  [AccountsIssuesToActive]_(AccountsPart!accountVars)
<1>1. ASSUME NEW c \in Caller, AccountsPart!Issue(c), ~crossed
      PROVE  AccountsIssuesToActive
  <2>1. /\ request[c] # Nil /\ request[c].op = "ISSUE"
        /\ granted'[1] = request[c].path
    BY <1>1 DEF AccountsPart!Issue, AccountsPart!Doing
  <2>2. request[c] \in AccountsLogin /\ AccountsSound(request[c])
    BY <1>1, <2>1, AccountsCallKinds DEF AccountsIInv, AccountsTypes, AccountsClean
  <2>3. QED
    BY <2>1, <2>2 DEF AccountsSound, AccountsIssuesToActive
<1>2. ASSUME ~\E c \in Caller : AccountsPart!Issue(c)
      PROVE  granted' = granted
  BY <1>2
  DEF AccountsPart!Next, AccountsPart!Register, AccountsPart!Insert, AccountsPart!InsertTraveler,
           AccountsPart!InsertDriver, AccountsPart!InsertPartner, AccountsPart!InsertStaff,
           AccountsPart!InsertPortalUser, AccountsPart!JoinPartner, AccountsPart!LoginDriver,
           AccountsPart!LoginPortal, AccountsPart!ToggleLock,
      AccountsPart!JoinStaff, AccountsPart!LoginOtp, AccountsPart!LoginAccess,
      AccountsPart!LoginRefresh, AccountsPart!LoginPassword, AccountsPart!LoginPartner,
      AccountsPart!LoginMfa, AccountsPart!TrustDevice, AccountsPart!SetStatus,
      AccountsPart!DeleteStaff, AccountsPart!RegenerateCode, AccountsPart!ForgetDevices,
      AccountsPart!RevokeDevice, AccountsPart!SetRoles, AccountsPart!AssignRole,
      AccountsPart!RolesAssigned, AccountsPart!UpdateStaffRole, AccountsPart!MfaSetup,
      AccountsPart!CheckMfa, AccountsPart!FlagMfa, AccountsPart!Abandon, accountVars
<1>3. QED
  BY <1>1, <1>2 DEF AccountsIssuesToActive

-----------------------------------------------------------------------------
(* Desk: for any calls and keys, its types, that nothing is undone and that *)
(* what is closed stays so, until calls overlap.                            *)

DeskStatus == DeskPart!TicketStatus \cup DeskPart!IncidentStatus \cup DeskPart!ContentStatus \cup {"NONE"}

DeskRows ==
    [kind : {"TICKET", "INCIDENT", "CONTENT", "SETTINGS", "DELETED"}, status : DeskStatus,
     mark : BOOLEAN, moved : BOOLEAN, keys : SUBSET Keys]

\* The calls, by what they have read.
DeskStaffReplies == [op : {"STAFF_REPLY"}, status : DeskStatus]
DeskMoves == [op : {"MOVE_ON"}]
DeskReplies == [op : {"REPLY"}, careful : BOOLEAN]
DeskIncidentCalls == [op : {"INCIDENT"}, to : DeskPart!IncidentStatus, mark : BOOLEAN]
DeskContentCalls == [op : {"CONTENT"}, to : DeskPart!ContentStatus, date : {"SET", "CLEAR", "KEEP"}]
DeskSettingsCalls == [op : {"SETTINGS"}, key : Keys, keys : SUBSET Keys]
DeskCalls ==
    DeskStaffReplies \cup DeskMoves \cup DeskReplies \cup DeskIncidentCalls
        \cup DeskContentCalls \cup DeskSettingsCalls

DeskTypes ==
    /\ row \in DeskRows \cup {Nil}
    /\ doing \in [Caller -> DeskCalls \cup {Nil}]
    /\ \A c \in Caller : doing[c] # Nil => row # Nil
    /\ answered \subseteq Keys

\* What a call has read is still so.
DeskSound(call) ==
    /\ row # Nil
    /\ call.op = "STAFF_REPLY" => row.kind = "TICKET" /\ call.status = row.status
    /\ call.op = "MOVE_ON" => row.kind = "TICKET" /\ row.status = "OPEN"
    /\ call.op = "REPLY" => row.kind = "TICKET" /\ (call.careful => row.status # "CLOSED")
    /\ call.op = "INCIDENT" => /\ row.kind = "INCIDENT"
                               /\ call.to \in DeskPart!Transitions[row.status]
                               /\ call.to \in {"RESOLVED", "CLOSED"} => call.mark
    /\ call.op = "CONTENT" => /\ row.kind = "CONTENT"
                              /\ call.date = "SET" => call.to = "PUBLISHED"
                              /\ call.date = "CLEAR" => call.to # "PUBLISHED"
                              /\ call.date = "KEEP" => call.to = "PUBLISHED" /\ row.status = "PUBLISHED"
    /\ call.op = "SETTINGS" => row.kind = "SETTINGS" /\ call.keys = row.keys \cup {call.key}

\* What NothingUndone says of the row, with its statuses, and that only the
\* settings answer with keys.
DeskSettled ==
    /\ answered # {} => row # Nil /\ row.kind = "SETTINGS"
    /\ row # Nil =>
         /\ row.kind = "TICKET" => ~row.mark
         /\ row.kind = "INCIDENT" /\ row.moved /\ row.status \in {"RESOLVED", "CLOSED"} => row.mark
         /\ row.kind = "CONTENT" => (row.mark <=> row.status = "PUBLISHED")
         /\ row.kind = "SETTINGS" => answered \subseteq row.keys
         /\ row.status = "CLOSED" => row.kind \in {"TICKET", "INCIDENT"}

\* Until calls overlap there is one at most, and it is sound.
DeskClean ==
    ~overlapped =>
        /\ DeskSettled
        /\ \A c \in Caller : doing[c] # Nil => DeskSound(doing[c])
        /\ \A c \in Caller, d \in Caller : doing[c] # Nil /\ doing[d] # Nil => c = d

DeskIInv == DeskTypes /\ DeskClean

\* Neither a row nor a call is the mark for none.
DeskDistinct == Nil \notin DeskRows \cup DeskCalls

-----------------------------------------------------------------------------
LEMMA DeskInitIInv ==
    ASSUME DeskPart!Init
    PROVE  DeskIInv
BY DEF DeskPart!Init, DeskIInv, DeskTypes, DeskClean, DeskSettled

\* The kinds of calls are told apart by their names.
LEMMA DeskCallKinds ==
    ASSUME NEW call \in DeskCalls
    PROVE  /\ call.op = "STAFF_REPLY" <=> call \in DeskStaffReplies
           /\ call.op = "MOVE_ON" <=> call \in DeskMoves
           /\ call.op = "REPLY" <=> call \in DeskReplies
           /\ call.op = "INCIDENT" <=> call \in DeskIncidentCalls
           /\ call.op = "CONTENT" <=> call \in DeskContentCalls
           /\ call.op = "SETTINGS" <=> call \in DeskSettingsCalls
BY DEF DeskCalls, DeskStaffReplies, DeskMoves, DeskReplies, DeskIncidentCalls,
       DeskContentCalls, DeskSettingsCalls

\* A call begins with what it has read, and changes nothing else.
LEMMA DeskBegins ==
    ASSUME DeskIInv, NEW c \in Caller, NEW call \in DeskCalls,
           DeskPart!Begin(c, call), DeskSound(call)
    PROVE  DeskIInv'
<1>1. /\ doing' = [doing EXCEPT ![c] = call] /\ UNCHANGED <<row, answered>>
      /\ overlapped' = (overlapped \/ \E d \in Caller : doing[d] # Nil)
  BY DEF DeskPart!Begin, DeskPart!Overlap
<1>2. DeskTypes'
  BY <1>1 DEF DeskIInv, DeskTypes, DeskSound
<1>3. ASSUME ~overlapped' PROVE DeskSettled' /\ \A d \in Caller : d # c => doing'[d] = Nil
  BY <1>1, <1>3 DEF DeskIInv, DeskTypes, DeskClean, DeskSettled
<1>4. DeskSound(call)' /\ doing'[c] = call
  BY <1>1 DEF DeskSound, DeskIInv, DeskTypes
<1>5. DeskClean'
  BY <1>3, <1>4 DEF DeskClean
<1>6. QED
  BY <1>2, <1>5 DEF DeskIInv

\* A call writes and ends: there was no other.
LEMMA DeskEnds ==
    ASSUME DeskDistinct, DeskIInv, NEW c \in Caller, doing[c] # Nil, DeskPart!End(c),
           row' \in DeskRows, answered' \subseteq Keys,
           ~overlapped /\ DeskSettled /\ DeskSound(doing[c]) => DeskSettled'
    PROVE  DeskIInv'
<1>1. doing' = [doing EXCEPT ![c] = Nil] /\ overlapped' = overlapped
  BY DEF DeskPart!End
<1>2. DeskTypes'
  BY <1>1 DEF DeskIInv, DeskTypes, DeskDistinct
<1>3. ASSUME ~overlapped' PROVE DeskSettled' /\ \A d \in Caller : doing'[d] = Nil
  BY <1>1, <1>3 DEF DeskIInv, DeskTypes, DeskClean
<1>4. DeskClean'
  BY <1>3 DEF DeskClean
<1>5. QED
  BY <1>2, <1>4 DEF DeskIInv

\* A statement that is a whole call: no other was in progress.
LEMMA DeskStatement ==
    ASSUME DeskDistinct, DeskIInv, row' \in DeskRows,
           UNCHANGED <<doing, answered>>,
           overlapped' = (overlapped \/ \E c \in Caller : doing[c] # Nil),
           DeskSettled => DeskSettled'
    PROVE  DeskIInv'
BY DEF DeskIInv, DeskTypes, DeskClean, DeskDistinct

\* The first row: nothing was read before.
LEMMA DeskInserts ==
    ASSUME DeskDistinct, DeskIInv, NEW k \in {"TICKET", "INCIDENT", "CONTENT", "SETTINGS"},
           NEW s \in DeskStatus, NEW m \in BOOLEAN,
           DeskPart!Insert(DeskPart!NewRow(k, s, m)),
           k = "TICKET" => ~m,
           k = "CONTENT" => (m <=> s = "PUBLISHED"),
           s = "CLOSED" => k \in {"TICKET", "INCIDENT"}
    PROVE  DeskIInv'
<1> DEFINE r == DeskPart!NewRow(k, s, m)
<1>1. /\ r \in DeskRows /\ r.kind = k /\ r.status = s /\ r.mark = m /\ ~r.moved /\ r.keys = {}
  BY DEF DeskPart!NewRow, DeskRows
<1>2. row = Nil /\ row' = r /\ UNCHANGED <<doing, answered, overlapped>>
  BY DEF DeskPart!Insert
<1> HIDE DEF r
<1>3. DeskTypes'
  BY <1>1, <1>2 DEF DeskIInv, DeskTypes, DeskDistinct
<1>4. ASSUME ~overlapped PROVE DeskSettled' /\ \A c \in Caller : doing[c] = Nil
  BY <1>1, <1>2, <1>4 DEF DeskIInv, DeskClean, DeskSettled, DeskSound
<1>5. DeskClean'
  BY <1>2, <1>4 DEF DeskClean
<1>6. QED
  BY <1>3, <1>5 DEF DeskIInv

LEMMA DeskStepIInv ==
    ASSUME DeskDistinct, DeskIInv, DeskPart!Next \/ UNCHANGED deskVars
    PROVE  DeskIInv'
<1>0. /\ row \in DeskRows \cup {Nil} /\ answered \subseteq Keys
      /\ doing \in [Caller -> DeskCalls \cup {Nil}]
      /\ \A c \in Caller : doing[c] # Nil => row # Nil
  BY DEF DeskIInv, DeskTypes
<1>1. CASE DeskPart!CreateTicket
  BY <1>1, DeskInserts DEF DeskPart!CreateTicket, DeskStatus, DeskPart!TicketStatus
<1>2. ASSUME NEW c \in Caller, DeskPart!StaffReply(c)
      PROVE  DeskIInv'
  <2> DEFINE call == [op |-> "STAFF_REPLY", status |-> row.status]
  <2>1. /\ row # Nil /\ row.kind = "TICKET" /\ DeskPart!Begin(c, call)
        /\ row.status \in DeskStatus
    BY <1>0, <1>2 DEF DeskPart!StaffReply, DeskPart!Is, DeskRows
  <2>2. call \in DeskCalls /\ DeskSound(call)
    BY <2>1 DEF DeskCalls, DeskStaffReplies, DeskSound
  <2>3. QED
    BY <2>1, <2>2, DeskBegins
<1>3. ASSUME NEW c \in Caller, DeskPart!InsertStaffReply(c)
      PROVE  DeskIInv'
  <2>1. /\ doing[c] # Nil /\ doing[c].op = "STAFF_REPLY" /\ UNCHANGED <<row, answered>>
        /\ \/ /\ doing[c].status = "OPEN" /\ overlapped' = overlapped
              /\ doing' = [doing EXCEPT ![c] = [op |-> "MOVE_ON"]]
           \/ DeskPart!End(c)
    BY <1>3 DEF DeskPart!InsertStaffReply, DeskPart!Doing
  <2>2. CASE DeskPart!End(c)
    BY <1>0, <2>1, <2>2, DeskEnds DEF DeskSettled
  <2>3. CASE /\ doing[c].status = "OPEN" /\ overlapped' = overlapped
             /\ doing' = [doing EXCEPT ![c] = [op |-> "MOVE_ON"]]
    <3>1. [op |-> "MOVE_ON"] \in DeskCalls
      BY DEF DeskCalls, DeskMoves
    <3>2. DeskTypes'
      BY <1>0, <2>1, <2>3, <3>1 DEF DeskTypes
    <3>3. ASSUME ~overlapped'
          PROVE  /\ DeskSettled' /\ \A d \in Caller : d # c => doing'[d] = Nil
                 /\ DeskSound([op |-> "MOVE_ON"])'
      BY <1>0, <2>1, <2>3, <3>3 DEF DeskIInv, DeskClean, DeskSettled, DeskSound
    <3>4. doing'[c] = [op |-> "MOVE_ON"]
      BY <1>0, <2>3
    <3>5. DeskClean'
      BY <3>3, <3>4 DEF DeskClean
    <3>6. QED
      BY <3>2, <3>5 DEF DeskIInv
  <2>4. QED
    BY <2>1, <2>2, <2>3
<1>4. ASSUME NEW c \in Caller, DeskPart!MoveOn(c)
      PROVE  DeskIInv'
  <2>1. /\ doing[c] # Nil /\ doing[c].op = "MOVE_ON" /\ answered' = answered
        /\ row' = [row EXCEPT !.status = "IN_PROGRESS"] /\ DeskPart!End(c)
    BY <1>4 DEF DeskPart!MoveOn, DeskPart!Doing
  <2>2. row' \in DeskRows
    BY <1>0, <2>1 DEF DeskRows, DeskStatus, DeskPart!TicketStatus
  <2>3. QED
    BY <1>0, <2>1, <2>2, DeskEnds DEF DeskSettled, DeskSound, DeskRows
<1>5. ASSUME NEW c \in Caller, DeskPart!CustomerReply(c) \/ DeskPart!OtherReply(c)
      PROVE  DeskIInv'
  <2>1. PICK careful \in BOOLEAN :
          /\ DeskPart!Begin(c, [op |-> "REPLY", careful |-> careful])
          /\ row # Nil /\ row.kind = "TICKET"
          /\ careful => row.status # "CLOSED"
    BY <1>5 DEF DeskPart!CustomerReply, DeskPart!OtherReply, DeskPart!Is
  <2> DEFINE call == [op |-> "REPLY", careful |-> careful]
  <2>2. call \in DeskCalls /\ DeskSound(call)
    BY <2>1 DEF DeskCalls, DeskReplies, DeskSound
  <2>3. QED
    BY <2>1, <2>2, DeskBegins
<1>6. ASSUME NEW c \in Caller, DeskPart!InsertReply(c)
      PROVE  DeskIInv'
  <2>1. /\ doing[c] # Nil /\ doing[c].op = "REPLY" /\ answered' = answered
        /\ row' = [row EXCEPT !.mark = @ \/ (doing[c].careful /\ row.status = "CLOSED")]
        /\ DeskPart!End(c)
    BY <1>6 DEF DeskPart!InsertReply, DeskPart!Doing
  <2>2. row' \in DeskRows
    BY <1>0, <2>1 DEF DeskRows
  <2>3. QED
    BY <1>0, <2>1, <2>2, DeskEnds DEF DeskSettled, DeskSound, DeskRows
<1>7. ASSUME NEW to \in DeskPart!TicketStatus, DeskPart!AdminUpdate(to)
      PROVE  DeskIInv'
  <2>1. /\ row # Nil /\ row.kind = "TICKET" /\ row' = [row EXCEPT !.status = to]
        /\ UNCHANGED <<doing, answered>>
        /\ overlapped' = (overlapped \/ \E c \in Caller : doing[c] # Nil)
    BY <1>7 DEF DeskPart!AdminUpdate, DeskPart!Is, DeskPart!Overlap
  <2>2. row' \in DeskRows
    BY <1>0, <2>1 DEF DeskRows, DeskStatus
  <2>3. QED
    BY <1>0, <2>1, <2>2, DeskStatement DEF DeskSettled, DeskRows
<1>8. ASSUME NEW s \in DeskPart!IncidentStatus, DeskPart!CreateIncident(s)
      PROVE  DeskIInv'
  BY <1>8, DeskInserts DEF DeskPart!CreateIncident, DeskStatus
<1>9. ASSUME NEW c \in Caller, NEW to \in DeskPart!IncidentStatus, NEW resolution \in BOOLEAN,
             DeskPart!UpdateStatus(c, to, resolution)
      PROVE  DeskIInv'
  <2> DEFINE call == [op |-> "INCIDENT", to |-> to, mark |-> resolution \/ row.mark]
  <2>1. /\ row # Nil /\ row.kind = "INCIDENT" /\ DeskPart!Begin(c, call)
        /\ to \in DeskPart!Transitions[row.status]
        /\ to \in {"RESOLVED", "CLOSED"} => resolution
    BY <1>9 DEF DeskPart!UpdateStatus, DeskPart!Is
  <2>2. call \in DeskCalls /\ DeskSound(call)
    BY <2>1 DEF DeskCalls, DeskIncidentCalls, DeskSound
  <2>3. QED
    BY <2>1, <2>2, DeskBegins
<1>10. ASSUME NEW c \in Caller, DeskPart!WriteStatus(c)
       PROVE  DeskIInv'
  <2>1. /\ doing[c] # Nil /\ doing[c].op = "INCIDENT" /\ answered' = answered
        /\ row' = [row EXCEPT !.status = doing[c].to, !.mark = doing[c].mark, !.moved = TRUE]
        /\ DeskPart!End(c)
    BY <1>10 DEF DeskPart!WriteStatus, DeskPart!Doing
  <2>2. doing[c].to \in DeskStatus /\ doing[c].mark \in BOOLEAN
    BY <1>0, <2>1, DeskCallKinds DEF DeskIncidentCalls, DeskStatus
  <2>3. row' \in DeskRows
    BY <1>0, <2>1, <2>2 DEF DeskRows
  <2>4. QED
    BY <1>0, <2>1, <2>3, DeskEnds DEF DeskSettled, DeskSound, DeskRows
<1>11. ASSUME NEW s \in DeskPart!ContentStatus, DeskPart!CreateContent(s)
       PROVE  DeskIInv'
  <2>1. s \in DeskStatus /\ s # "CLOSED"
    BY DEF DeskStatus, DeskPart!ContentStatus
  <2>2. QED
    BY <1>11, <2>1, DeskInserts DEF DeskPart!CreateContent
<1>12. ASSUME NEW c \in Caller, NEW to \in DeskPart!ContentStatus, DeskPart!UpdateContent(c, to)
       PROVE  DeskIInv'
  <2>1. PICK date \in {"SET", "CLEAR", "KEEP"} :
          /\ DeskPart!Begin(c, [op |-> "CONTENT", to |-> to, date |-> date])
          /\ row # Nil /\ row.kind = "CONTENT"
          /\ date = "CLEAR" <=> to # "PUBLISHED"
          /\ date = "KEEP" => row.status = "PUBLISHED"
    BY <1>12 DEF DeskPart!UpdateContent, DeskPart!Is
  <2> DEFINE call == [op |-> "CONTENT", to |-> to, date |-> date]
  <2>2. call \in DeskCalls /\ DeskSound(call)
    BY <2>1 DEF DeskCalls, DeskContentCalls, DeskSound
  <2>3. QED
    BY <2>1, <2>2, DeskBegins
<1>13. ASSUME NEW c \in Caller, DeskPart!WriteContent(c)
       PROVE  DeskIInv'
  <2>1. /\ doing[c] # Nil /\ doing[c].op = "CONTENT" /\ answered' = answered
        /\ row # Nil /\ row.kind = "CONTENT" /\ DeskPart!End(c)
        /\ row' = [row EXCEPT !.status = doing[c].to,
                              !.mark = CASE doing[c].date = "SET" -> TRUE
                                         [] doing[c].date = "CLEAR" -> FALSE
                                         [] OTHER -> @]
    BY <1>13 DEF DeskPart!WriteContent, DeskPart!Doing, DeskPart!Is
  <2>2. doing[c].to \in DeskPart!ContentStatus /\ doing[c].date \in {"SET", "CLEAR", "KEEP"}
    BY <1>0, <2>1, DeskCallKinds DEF DeskContentCalls
  <2>3. /\ row' \in DeskRows /\ row'.kind = "CONTENT" /\ row'.status = doing[c].to
        /\ doing[c].date = "SET" => row'.mark
        /\ doing[c].date = "CLEAR" => ~row'.mark
        /\ doing[c].date = "KEEP" => (row'.mark <=> row.mark)
    <3>1. row \in DeskRows /\ doing[c].to \in DeskStatus
      BY <1>0, <2>1, <2>2 DEF DeskStatus
    <3>2. CASE doing[c].date = "SET"
      <4>1. row' = [row EXCEPT !.status = doing[c].to, !.mark = TRUE]
        BY <2>1, <3>2
      <4>2. QED
        BY <2>1, <3>1, <3>2, <4>1 DEF DeskRows
    <3>3. CASE doing[c].date = "CLEAR"
      <4>1. row' = [row EXCEPT !.status = doing[c].to, !.mark = FALSE]
        BY <2>1, <3>3
      <4>2. QED
        BY <2>1, <3>1, <3>3, <4>1 DEF DeskRows
    <3>4. CASE doing[c].date = "KEEP"
      <4>1. row' = [row EXCEPT !.status = doing[c].to]
        BY <2>1, <3>1, <3>4 DEF DeskRows
      <4>2. QED
        BY <2>1, <3>1, <3>4, <4>1 DEF DeskRows
    <3>5. QED
      BY <2>2, <3>2, <3>3, <3>4
  <2>4. doing[c].to # "CLOSED"
    BY <2>2 DEF DeskPart!ContentStatus
  <2>5. DeskSettled /\ DeskSound(doing[c]) => DeskSettled'
    BY <2>1, <2>2, <2>3, <2>4 DEF DeskSettled, DeskSound
  <2>6. QED
    BY <1>0, <2>1, <2>3, <2>5, DeskEnds
<1>14. CASE DeskPart!DeleteContent
  <2>1. /\ row # Nil /\ row.kind = "CONTENT" /\ UNCHANGED <<doing, answered>>
        /\ row' = DeskPart!NewRow("DELETED", "NONE", FALSE)
        /\ overlapped' = (overlapped \/ \E c \in Caller : doing[c] # Nil)
    BY <1>14 DEF DeskPart!DeleteContent, DeskPart!Is, DeskPart!Overlap
  <2>2. row' \in DeskRows /\ row'.kind = "DELETED" /\ row'.status = "NONE"
    BY <2>1 DEF DeskPart!NewRow, DeskRows, DeskStatus
  <2>3. QED
    BY <2>1, <2>2, DeskStatement DEF DeskSettled
<1>15. CASE DeskPart!EmptySettings
  BY <1>15, DeskInserts DEF DeskPart!EmptySettings, DeskStatus
<1>16. ASSUME NEW c \in Caller, NEW k \in Keys, DeskPart!UpdateSettings(c, k)
       PROVE  DeskIInv'
  <2> DEFINE call == [op |-> "SETTINGS", key |-> k, keys |-> row.keys \cup {k}]
  <2>1. /\ row # Nil /\ row.kind = "SETTINGS" /\ DeskPart!Begin(c, call)
        /\ row.keys \subseteq Keys
    BY <1>0, <1>16 DEF DeskPart!UpdateSettings, DeskPart!Is, DeskRows
  <2>2. call \in DeskCalls /\ DeskSound(call)
    BY <2>1 DEF DeskCalls, DeskSettingsCalls, DeskSound
  <2>3. QED
    BY <2>1, <2>2, DeskBegins
<1>17. ASSUME NEW c \in Caller, DeskPart!WriteSettings(c)
       PROVE  DeskIInv'
  <2>1. /\ doing[c] # Nil /\ doing[c].op = "SETTINGS" /\ DeskPart!End(c)
        /\ row' = [row EXCEPT !.keys = doing[c].keys]
        /\ answered' = answered \cup {doing[c].key}
    BY <1>17 DEF DeskPart!WriteSettings, DeskPart!Doing
  <2>2. doing[c].key \in Keys /\ doing[c].keys \subseteq Keys
    BY <1>0, <2>1, DeskCallKinds DEF DeskSettingsCalls
  <2>3. row' \in DeskRows /\ answered' \subseteq Keys
    BY <1>0, <2>1, <2>2 DEF DeskRows
  <2>4. ASSUME DeskSettled, DeskSound(doing[c]) PROVE DeskSettled'
    <3>1. row \in DeskRows /\ row.kind = "SETTINGS" /\ answered \subseteq row.keys
          /\ doing[c].keys = row.keys \cup {doing[c].key}
      BY <1>0, <2>1, <2>4 DEF DeskSettled, DeskSound
    <3>2. /\ row'.kind = "SETTINGS" /\ row'.status = row.status
          /\ row'.keys = doing[c].keys /\ row' \in DeskRows
      BY <2>1, <2>2, <3>1 DEF DeskRows
    <3>3. row' # Nil /\ row.status # "CLOSED"
      BY <2>4, <3>1, <3>2 DEF DeskDistinct, DeskSettled
    <3>4. QED
      BY <2>1, <3>1, <3>2, <3>3 DEF DeskSettled
  <2>5. QED
    BY <2>1, <2>3, <2>4, DeskEnds
<1>18. ASSUME NEW c \in Caller, DeskPart!Die(c)
       PROVE  DeskIInv'
  BY <1>0, <1>18 DEF DeskPart!Die, DeskIInv, DeskTypes, DeskClean
<1>19. CASE UNCHANGED deskVars
  BY <1>19 DEF deskVars, DeskIInv, DeskTypes, DeskClean, DeskSettled, DeskSound
<1>20. QED
  BY <1>1, <1>2, <1>3, <1>4, <1>5, <1>6, <1>7, <1>8, <1>9, <1>10, <1>11, <1>12, <1>13,
     <1>14, <1>15, <1>16, <1>17, <1>18, <1>19
  DEF DeskPart!Next

\* Call c begins.
DeskBegun(c) ==
    \/ DeskPart!StaffReply(c) \/ DeskPart!CustomerReply(c) \/ DeskPart!OtherReply(c)
    \/ \E to \in DeskPart!IncidentStatus, resolution \in BOOLEAN :
         DeskPart!UpdateStatus(c, to, resolution)
    \/ \E to \in DeskPart!ContentStatus : DeskPart!UpdateContent(c, to)
    \/ \E k \in Keys : DeskPart!UpdateSettings(c, k)

\* A step leaves the ghost as it is or writes a truth value.
LEMMA DeskFlagStep ==
    ASSUME overlapped \in BOOLEAN, DeskPart!Next \/ UNCHANGED deskVars
    PROVE  overlapped' \in BOOLEAN
<1> DEFINE Writes == \/ overlapped' = overlapped \/ overlapped' = TRUE
                     \/ overlapped' = (overlapped \/ \E c \in Caller : doing[c] # Nil)
<1>1. CASE \/ DeskPart!CreateTicket \/ DeskPart!EmptySettings
           \/ \E s \in DeskPart!IncidentStatus : DeskPart!CreateIncident(s)
           \/ \E z \in DeskPart!ContentStatus : DeskPart!CreateContent(z)
           \/ \E to \in DeskPart!TicketStatus : DeskPart!AdminUpdate(to)
           \/ DeskPart!DeleteContent \/ UNCHANGED deskVars
  <2>1. Writes
    BY <1>1 DEF DeskPart!CreateTicket, DeskPart!EmptySettings, DeskPart!CreateIncident,
                DeskPart!CreateContent, DeskPart!AdminUpdate, DeskPart!DeleteContent,
                DeskPart!Insert, DeskPart!Overlap, deskVars
  <2>2. QED
    BY <2>1
<1>2. ASSUME NEW c \in Caller, DeskBegun(c)
      PROVE  overlapped' \in BOOLEAN
  <2>1. Writes
    BY <1>2 DEF DeskBegun, DeskPart!StaffReply, DeskPart!CustomerReply, DeskPart!OtherReply,
                DeskPart!UpdateStatus, DeskPart!UpdateContent, DeskPart!UpdateSettings,
                DeskPart!Begin, DeskPart!Overlap
  <2>2. QED
    BY <2>1
<1>3. ASSUME NEW c \in Caller,
             \/ DeskPart!InsertStaffReply(c) \/ DeskPart!MoveOn(c) \/ DeskPart!InsertReply(c)
             \/ DeskPart!WriteStatus(c) \/ DeskPart!WriteContent(c)
             \/ DeskPart!WriteSettings(c) \/ DeskPart!Die(c)
      PROVE  overlapped' \in BOOLEAN
  BY <1>3 DEF DeskPart!InsertStaffReply, DeskPart!MoveOn, DeskPart!InsertReply,
              DeskPart!WriteStatus, DeskPart!WriteContent, DeskPart!WriteSettings,
              DeskPart!Die, DeskPart!End
<1>4. QED
  BY <1>1, <1>2, <1>3 DEF DeskPart!Next, DeskBegun

LEMMA DeskSuffice ==
    ASSUME DeskIInv, overlapped \in BOOLEAN
    PROVE  DeskPart!TypeOK /\ DeskPart!NothingUndone
<1>1. DeskPart!NothingUndone
  BY DEF DeskIInv, DeskClean, DeskSettled, DeskPart!NothingUndone
<1>2. DeskPart!TypeOK
  BY DEF DeskIInv, DeskTypes, DeskRows, DeskStatus, DeskPart!TypeOK
<1>3. QED
  BY <1>1, <1>2

\* The inductive invariant holds in every reachable state.
LEMMA DeskInvariant ==
    ASSUME DeskDistinct
    PROVE  Spec => [](DeskIInv /\ overlapped \in BOOLEAN)
<1>1. Init => DeskIInv /\ overlapped \in BOOLEAN
  <2>1. DeskPart!Init => overlapped \in BOOLEAN
    BY DEF DeskPart!Init
  <2>2. QED
    BY <2>1, DeskInitIInv DEF Init
<1>2. DeskIInv /\ overlapped \in BOOLEAN /\ [Next]_vars => (DeskIInv /\ overlapped \in BOOLEAN)'
  <2>1. ASSUME DeskIInv, overlapped \in BOOLEAN, [Next]_vars
        PROVE  DeskIInv' /\ overlapped' \in BOOLEAN
    <3>1. DeskPart!Next \/ UNCHANGED deskVars
      BY <2>1, OnePart
    <3>2. QED
      BY <2>1, <3>1, DeskStepIInv, DeskFlagStep
  <2>2. QED
    BY <2>1
<1>3. QED
  BY <1>1, <1>2, PTL DEF Spec

\* What ClosedStays asks of one step.
DeskStaysClosed ==
    row # Nil /\ row.status = "CLOSED" /\ ~overlapped' =>
        row'.status = "CLOSED" \/ (row.kind = "TICKET" /\ UNCHANGED doing)

LEMMA DeskStepStays ==
    ASSUME DeskIInv, DeskPart!Next \/ UNCHANGED deskVars
    PROVE  [DeskStaysClosed]_(DeskPart!deskVars)
<1>0. SUFFICES ASSUME row # Nil, row.status = "CLOSED", ~overlapped', DeskPart!Next
               PROVE  row'.status = "CLOSED" \/ (row.kind = "TICKET" /\ UNCHANGED doing)
  BY DEF DeskStaysClosed, deskVars, DeskPart!deskVars
<1>1. row \in DeskRows
  BY <1>0 DEF DeskIInv, DeskTypes
<1>2. ~overlapped => /\ row.kind \in {"TICKET", "INCIDENT"}
                     /\ \A c \in Caller : doing[c] # Nil => DeskSound(doing[c])
  BY <1>0 DEF DeskIInv, DeskClean, DeskSettled
<1>3. CASE row' = row
  BY <1>0, <1>3
<1>4. ASSUME NEW c \in Caller, DeskPart!MoveOn(c) \/ DeskPart!WriteStatus(c)
      PROVE  FALSE
  <2>1. /\ doing[c] # Nil /\ overlapped' = overlapped
        /\ doing[c].op \in {"MOVE_ON", "INCIDENT"}
    BY <1>4 DEF DeskPart!MoveOn, DeskPart!WriteStatus, DeskPart!Doing, DeskPart!End
  <2>2. DeskSound(doing[c])
    BY <1>0, <1>2, <2>1
  <2>3. QED
    BY <1>0, <2>1, <2>2 DEF DeskSound, DeskPart!Transitions
<1>5. ASSUME NEW c \in Caller, DeskPart!InsertReply(c) \/ DeskPart!WriteSettings(c)
      PROVE  row'.status = "CLOSED"
  BY <1>0, <1>1, <1>5 DEF DeskPart!InsertReply, DeskPart!WriteSettings, DeskRows
<1>6. ASSUME NEW to \in DeskPart!TicketStatus, DeskPart!AdminUpdate(to)
      PROVE  row.kind = "TICKET" /\ UNCHANGED doing
  BY <1>6 DEF DeskPart!AdminUpdate, DeskPart!Is
<1>7. ASSUME NEW c \in Caller, DeskPart!WriteContent(c)
      PROVE  FALSE
  <2>1. row.kind = "CONTENT" /\ overlapped' = overlapped
    BY <1>7 DEF DeskPart!WriteContent, DeskPart!Is, DeskPart!End
  <2>2. QED
    BY <1>0, <1>2, <2>1
<1>8. CASE \/ DeskPart!CreateTicket \/ DeskPart!EmptySettings
           \/ \E s \in DeskPart!IncidentStatus : DeskPart!CreateIncident(s)
           \/ \E z \in DeskPart!ContentStatus : DeskPart!CreateContent(z)
  BY <1>0, <1>8 DEF DeskPart!CreateTicket, DeskPart!EmptySettings, DeskPart!CreateIncident,
                    DeskPart!CreateContent, DeskPart!Insert
<1>9. ASSUME NEW c \in Caller,
             DeskBegun(c) \/ DeskPart!InsertStaffReply(c) \/ DeskPart!Die(c)
      PROVE  row' = row
  BY <1>9 DEF DeskBegun, DeskPart!StaffReply, DeskPart!InsertStaffReply,
              DeskPart!CustomerReply, DeskPart!OtherReply, DeskPart!Die,
              DeskPart!UpdateStatus, DeskPart!UpdateContent, DeskPart!UpdateSettings,
              DeskPart!Begin
<1>10. ASSUME DeskPart!DeleteContent
       PROVE  FALSE
  <2>1. /\ row.kind = "CONTENT"
        /\ overlapped' = (overlapped \/ \E d \in Caller : doing[d] # Nil)
    BY <1>10 DEF DeskPart!DeleteContent, DeskPart!Is, DeskPart!Overlap
  <2>2. QED
    BY <1>0, <1>2, <2>1
<1>11. QED
  BY <1>0, <1>3, <1>4, <1>5, <1>6, <1>7, <1>8, <1>9, <1>10 DEF DeskPart!Next, DeskBegun

\* issueTokens of the login routes, updateStatus of incidents, addReply of
\* tickets: until calls cross, the routes that look at the status issue tokens
\* to active users, the partners' route passes no second factor unproved, and
\* what is closed stays so but by staff's own update.
THEOREM IssuedAndClosedCorrect ==
    ASSUME AccountsDistinct, MaxSecrets \in Nat, DeskDistinct
    PROVE  Spec => IssuedAndClosed
<1>1. AccountsIInv /\ DeskIInv /\ [Next]_vars
        => /\ [AccountsIssuesToActive]_(AccountsPart!accountVars)
           /\ [DeskStaysClosed]_(DeskPart!deskVars)
  <2>1. ASSUME AccountsIInv, DeskIInv, [Next]_vars
        PROVE  /\ [AccountsIssuesToActive]_(AccountsPart!accountVars)
               /\ [DeskStaysClosed]_(DeskPart!deskVars)
    <3>1. /\ AccountsPart!Next \/ UNCHANGED accountVars
          /\ DeskPart!Next \/ UNCHANGED deskVars
      BY <2>1, OnePart
    <3>2. QED
      BY <2>1, <3>1, AccountsStepIssues, DeskStepStays
  <2>2. QED
    BY <2>1
<1>2. Spec => /\ [][AccountsIssuesToActive]_(AccountsPart!accountVars)
              /\ [][DeskStaysClosed]_(DeskPart!deskVars)
  BY <1>1, AccountsInvariant, DeskInvariant, PTL DEF Spec
<1>3. QED
  BY <1>2 DEF IssuedAndClosed, AccountsPart!IssuedToActive, DeskPart!ClosedStays,
              AccountsIssuesToActive, DeskStaysClosed

-----------------------------------------------------------------------------
(* THOTH: for any chats, staff, actions, topics and risks, its types, that  *)
(* tools run as the policy allows and that an action is decided once.       *)

ThothToolRows ==
    [risk : Risk \cup {"LOW", "MEDIUM", "HIGH"}, gated : BOOLEAN, enabled : BOOLEAN]
ThothChats ==
    [tool : ThothPart!Tool, user : BOOLEAN, super : BOOLEAN, stage : ThothPart!Stage]
ThothActions == [tool : ThothPart!Tool, status : {"PENDING", "APPROVED", "REJECTED"}]
ThothSimulations == [op : {"SIMULATE"}, tool : ThothPart!Tool]
ThothDecisions == [op : {"DECIDE"}, action : Action, to : {"APPROVED", "REJECTED"}]

ThothTypes ==
    /\ tool \in [ThothPart!Tool -> ThothToolRows \cup {Nil}]
    /\ chat \in [Chat -> ThothChats \cup {Nil}]
    /\ action \in [Action -> ThothActions \cup {Nil}]
    /\ handling \in [Caller -> ThothSimulations \cup ThothDecisions \cup {Nil}]
    /\ written \subseteq {"TRIP", "TICKET"} \X Chat
    /\ decided \in [Action -> SUBSET {"APPROVED", "REJECTED"}]
    /\ overtaken \subseteq Chat

\* Who is about to run a tool that nobody changed may run it.
ThothAllowed ==
    \A c \in Chat \ overtaken :
        chat[c] # Nil /\ chat[c].stage = "RUN" => ThothPart!Allowed(chat[c].tool, chat[c].super)

\* A row that a tool wrote has a chat with a user, which is past its tool.
ThothWritten ==
    \A w \in written : /\ chat[w[2]] # Nil /\ chat[w[2]].user
                       /\ w[1] = ThothPart!RowOf(chat[w[2]].tool)
                       /\ chat[w[2]].stage \in {"RAN", "COMPLETED", "DEAD"}

\* Who waits for approval has an action of his tool.
ThothWaiting(c) == chat[c] # Nil /\ chat[c].stage \in {"FILED", "AWAITING_APPROVAL"}
ThothFiledFor(t) == \E a \in Action : action[a] # Nil /\ action[a].tool = t
ThothAsked == \A c \in Chat : ThothWaiting(c) => ThothFiledFor(chat[c].tool)

ThothDeciding(s, a) == handling[s] # Nil /\ handling[s].op = "DECIDE" /\ handling[s].action = a

\* An action that is being decided was found pending and, until decisions
\* race, is so still, and by one only.
ThothPending ==
    \A s \in Caller, a \in Action :
        ThothDeciding(s, a) =>
            /\ action[a] # Nil
            /\ ~raced => /\ action[a].status = "PENDING"
                         /\ \A o \in Caller : ThothDeciding(o, a) => o = s

ThothIInv ==
    ThothTypes /\ ThothAllowed /\ ThothWritten /\ ThothAsked /\ ThothPending /\ ThothPart!DecidedOnce

\* No row and no call is the mark for none, and the planner knows the topics.
ThothDistinct ==
    Nil \notin ThothToolRows \cup ThothChats \cup ThothActions \cup ThothSimulations \cup ThothDecisions
ThothTopics == Topic \subseteq {ThothPart!TopicOrder[i] : i \in 1..8}

-----------------------------------------------------------------------------
LEMMA ThothInitIInv ==
    ASSUME ThothPart!Init
    PROVE  ThothIInv
BY DEF ThothPart!Init, ThothIInv, ThothTypes, ThothAllowed, ThothWritten, ThothAsked, ThothWaiting,
       ThothPending, ThothDeciding, ThothPart!DecidedOnce

\* The planner picks a tool for every message that mentions a topic.
LEMMA ThothPlans ==
    ASSUME ThothTopics, NEW mentioned \in SUBSET Topic, mentioned # {}
    PROVE  ThothPart!Plan(mentioned) \in ThothPart!Tool
<1> DEFINE First(i) == /\ ThothPart!TopicOrder[i] \in mentioned
                       /\ \A k \in 1..i - 1 : ThothPart!TopicOrder[k] \notin mentioned
<1>1. DOMAIN ThothPart!TopicOrder = 1..8
  BY DEF ThothPart!TopicOrder
<1>2. \E i \in 1..8 : ThothPart!TopicOrder[i] \in mentioned
  BY DEF ThothTopics
<1>3. \E i \in 1..8 : First(i)
  <2> DEFINE Has(i) == ThothPart!TopicOrder[i] \in mentioned
  <2>1. \E i \in 1..8 : Has(i)
    BY <1>2
  <2> HIDE DEF Has
  <2>2. \E i \in 1..8 : Has(i) /\ \A k \in 1..i - 1 : ~Has(k)
    <3>1. Has(1) \/ Has(2) \/ Has(3) \/ Has(4) \/ Has(5) \/ Has(6) \/ Has(7) \/ Has(8)
      BY <2>1
    <3>2. QED
      BY <3>1
  <2>3. QED
    BY <2>2 DEF Has
<1> DEFINE i == CHOOSE j \in DOMAIN ThothPart!TopicOrder : First(j)
<1>4. i \in 1..8 /\ ThothPart!TopicOrder[i] \in Topic
  BY <1>1, <1>3
<1>5. ThothPart!PlannedTool[i] \in ThothPart!Tool
  BY <1>1, <1>4 DEF ThothPart!Tool
<1>6. QED
  BY <1>5 DEF ThothPart!Plan

\* An action that is filed is pending, and nobody has decided it.
LEMMA ThothFiles ==
    ASSUME ThothDistinct, ThothTypes, ThothPending, ThothPart!DecidedOnce,
           UNCHANGED <<decided, raced>>,
           \A s \in Caller : handling'[s] = handling[s] \/ handling'[s] = Nil,
           \/ action' = action
           \/ \E a \in Action, t \in ThothPart!Tool :
                action[a] = Nil /\ action' = [action EXCEPT ![a] = [tool |-> t, status |-> "PENDING"]]
    PROVE  ThothPending' /\ ThothPart!DecidedOnce' /\ action' \in [Action -> ThothActions \cup {Nil}]
<1>1. ASSUME NEW a \in Action
      PROVE  \/ action'[a] = action[a]
             \/ /\ action[a] = Nil /\ action'[a] # Nil /\ action'[a].status = "PENDING"
                /\ action'[a] \in ThothActions
  <2>1. CASE action' = action
    BY <2>1
  <2>2. ASSUME NEW b \in Action, NEW t \in ThothPart!Tool, action[b] = Nil,
               action' = [action EXCEPT ![b] = [tool |-> t, status |-> "PENDING"]]
        PROVE  \/ action'[a] = action[a]
               \/ /\ action[a] = Nil /\ action'[a] # Nil /\ action'[a].status = "PENDING"
                  /\ action'[a] \in ThothActions
    BY <2>2 DEF ThothTypes, ThothActions, ThothDistinct
  <2>3. QED
    BY <2>1, <2>2
<1>2. ASSUME NEW s \in Caller, NEW a \in Action, ThothDeciding(s, a)'
      PROVE  ThothDeciding(s, a)
  BY <1>2 DEF ThothDeciding
<1>3. ThothPending'
  BY <1>1, <1>2 DEF ThothPending
<1>4. ThothPart!DecidedOnce'
  BY <1>1 DEF ThothPart!DecidedOnce
<1>5. action' \in [Action -> ThothActions \cup {Nil}]
  BY <1>1 DEF ThothTypes
<1>6. QED
  BY <1>3, <1>4, <1>5

\* A chat goes on to a stage and keeps the rest; the others stay.
LEMMA ThothAdvances ==
    ASSUME ThothDistinct, ThothTypes, NEW c \in Chat, NEW stage \in ThothPart!Stage,
           chat[c] # Nil, ThothPart!Advance(c, stage)
    PROVE  /\ chat' \in [Chat -> ThothChats \cup {Nil}]
           /\ chat'[c] # Nil /\ chat'[c].stage = stage /\ chat'[c].tool = chat[c].tool
           /\ chat'[c].user = chat[c].user /\ chat'[c].super = chat[c].super
           /\ \A d \in Chat : d # c => chat'[d] = chat[d]
<1>1. chat' = [chat EXCEPT ![c].stage = stage] /\ chat[c] \in ThothChats
  BY DEF ThothPart!Advance, ThothTypes
<1>2. chat'[c] \in ThothChats
  BY <1>1 DEF ThothTypes, ThothChats
<1>3. QED
  BY <1>1, <1>2 DEF ThothTypes, ThothChats, ThothDistinct

\* The engine's verdict is a stage, and lets run only what is allowed.
LEMMA ThothVerdict ==
    ASSUME NEW t, NEW super
    PROVE  /\ ThothPart!Evaluate(tool[t], super) \in {"RUN", "ASK", "BLOCK"}
           /\ ThothPart!Evaluate(tool[t], super) = "RUN" => ThothPart!Allowed(t, super)
BY DEF ThothPart!Evaluate, ThothPart!Allowed

LEMMA ThothStages ==
    {"CHECK", "RUN", "ASK", "BLOCK", "RAN", "FILED", "DEAD", "COMPLETED", "AWAITING_APPROVAL", "BLOCKED"}
        \subseteq ThothPart!Stage
BY DEF ThothPart!Stage

\* Staff write a tool: who had checked it is overtaken.
LEMMA ThothToolWritten ==
    ASSUME ThothIInv, NEW t \in ThothPart!Tool, NEW r \in ThothToolRows, ThothPart!WriteTool(t, r),
           UNCHANGED <<chat, action, handling, written, decided, raced>>
    PROVE  ThothIInv'
<1>1. /\ tool' = [tool EXCEPT ![t] = r]
      /\ overtaken' = overtaken \cup {c \in Chat : chat[c] # Nil /\ chat[c].tool = t
                                                    /\ chat[c].stage = "RUN"}
  BY DEF ThothPart!WriteTool
<1>2. ThothTypes'
  BY <1>1 DEF ThothIInv, ThothTypes
<1>3. ThothAllowed'
  BY <1>1 DEF ThothIInv, ThothTypes, ThothAllowed, ThothPart!Allowed
<1>4. ThothWritten' /\ ThothAsked' /\ ThothPending' /\ ThothPart!DecidedOnce'
  BY DEF ThothIInv, ThothWritten, ThothAsked, ThothWaiting, ThothFiledFor, ThothPending, ThothDeciding,
         ThothPart!DecidedOnce
<1>5. QED
  BY <1>2, <1>3, <1>4 DEF ThothIInv

\* A chat goes on, and neither the list nor a decision changes.
LEMMA ThothChatStep ==
    ASSUME ThothDistinct, ThothIInv, NEW c \in Chat, NEW stage \in ThothPart!Stage,
           chat[c] # Nil, ThothPart!Advance(c, stage),
           UNCHANGED <<tool, handling, decided, overtaken, raced>>,
           stage = "RUN" => ThothPart!Allowed(chat[c].tool, chat[c].super),
           chat[c].stage \in {"RAN", "COMPLETED", "DEAD"} => stage \in {"RAN", "COMPLETED", "DEAD"},
           stage = "AWAITING_APPROVAL" => chat[c].stage = "FILED",
           stage = "FILED" => ThothFiledFor(chat[c].tool)',
           \/ written' = written
           \/ \E w \in {"TRIP", "TICKET"} : /\ written' = written \cup {<<w, c>>}
                                            /\ w = ThothPart!RowOf(chat[c].tool)
                                            /\ chat[c].user /\ stage = "RAN",
           \/ action' = action
           \/ \E a \in Action :
                action[a] = Nil /\ action' = [action EXCEPT ![a] = [tool |-> chat[c].tool, status |-> "PENDING"]]
    PROVE  ThothIInv'
<1>0. ThothTypes /\ ThothAllowed /\ ThothWritten /\ ThothAsked /\ ThothPending /\ ThothPart!DecidedOnce
  BY DEF ThothIInv
<1>1. /\ chat' \in [Chat -> ThothChats \cup {Nil}]
      /\ chat'[c] # Nil /\ chat'[c].stage = stage /\ chat'[c].tool = chat[c].tool
      /\ chat'[c].user = chat[c].user /\ chat'[c].super = chat[c].super
      /\ \A d \in Chat : d # c => chat'[d] = chat[d]
  BY <1>0, ThothAdvances
<1>2. ThothAllowed'
  BY <1>0, <1>1 DEF ThothAllowed, ThothPart!Allowed
<1>3. ThothWritten' /\ written' \subseteq {"TRIP", "TICKET"} \X Chat
  <2>1. ASSUME NEW w \in written'
        PROVE  /\ w \in {"TRIP", "TICKET"} \X Chat
               /\ chat'[w[2]] # Nil /\ chat'[w[2]].user
               /\ w[1] = ThothPart!RowOf(chat'[w[2]].tool)
               /\ chat'[w[2]].stage \in {"RAN", "COMPLETED", "DEAD"}
    <3>1. CASE w \in written
      <4>1. w \in {"TRIP", "TICKET"} \X Chat /\ w[2] \in Chat
        BY <1>0, <3>1 DEF ThothTypes
      <4>2. QED
        BY <1>0, <1>1, <3>1, <4>1 DEF ThothWritten
    <3>2. CASE w \notin written
      <4>1. PICK k \in {"TRIP", "TICKET"} : /\ w = <<k, c>> /\ chat[c].user /\ stage = "RAN"
                                            /\ k = ThothPart!RowOf(chat[c].tool)
        BY <2>1, <3>2
      <4>2. QED
        BY <1>1, <4>1
    <3>3. QED
      BY <3>1, <3>2
  <2>2. QED
    BY <2>1 DEF ThothWritten
<1>4. ThothPending' /\ ThothPart!DecidedOnce' /\ action' \in [Action -> ThothActions \cup {Nil}]
  <2>1. chat[c].tool \in ThothPart!Tool
    BY <1>0 DEF ThothTypes, ThothChats
  <2>2. \/ action' = action
        \/ \E a \in Action, t \in ThothPart!Tool :
             action[a] = Nil /\ action' = [action EXCEPT ![a] = [tool |-> t, status |-> "PENDING"]]
    BY <2>1
  <2>3. \A s \in Caller : handling'[s] = handling[s]
    OBVIOUS
  <2>4. QED
    BY <1>0, <2>2, <2>3, ThothFiles
<1>5. ThothTypes'
  BY <1>0, <1>1, <1>3, <1>4 DEF ThothTypes
<1>6. ThothAsked'
  <2>1. ASSUME NEW a \in Action, action[a] # Nil PROVE action'[a] = action[a]
    BY <1>0, <2>1 DEF ThothTypes
  <2>2. ASSUME NEW d \in Chat, ThothWaiting(d) PROVE ThothFiledFor(chat[d].tool)'
    BY <1>0, <1>1, <2>1, <2>2 DEF ThothAsked, ThothFiledFor
  <2>4. ASSUME NEW d \in Chat, ThothWaiting(d)' PROVE ThothFiledFor(chat[d].tool)'
    <3>1. CASE d # c
      BY <1>1, <2>2, <2>4, <3>1 DEF ThothWaiting
    <3>2. CASE d = c
      BY <1>1, <2>2, <2>4, <3>2 DEF ThothWaiting
    <3>3. QED
      BY <3>1, <3>2
  <2>5. QED
    BY <2>4 DEF ThothAsked
<1>7. QED
  BY <1>2, <1>3, <1>4, <1>5, <1>6 DEF ThothIInv

LEMMA ThothStepIInv ==
    ASSUME ThothDistinct, ThothTopics, ThothIInv, ThothPart!Next \/ UNCHANGED thothVars
    PROVE  ThothIInv'
<1>0. ThothTypes /\ ThothAllowed /\ ThothWritten /\ ThothAsked /\ ThothPending /\ ThothPart!DecidedOnce
  BY DEF ThothIInv
<1>1. ASSUME NEW t \in ThothPart!Tool, ThothPart!Boot(t)
      PROVE  ThothIInv'
  <2>1. ThothPart!Seeded(t) \in ThothToolRows
    BY DEF ThothPart!Seeded, ThothToolRows
  <2>2. QED
    BY <1>1, <2>1, ThothToolWritten DEF ThothPart!Boot
<1>2. ASSUME NEW t \in ThothPart!Tool, NEW risk \in Risk, NEW gated \in BOOLEAN,
             NEW enabled \in BOOLEAN,
             ThothPart!CreateTool(t, risk, gated) \/ ThothPart!UpdateTool(t, risk, gated, enabled)
      PROVE  ThothIInv'
  <2>1. /\ [risk |-> risk, gated |-> gated, enabled |-> enabled] \in ThothToolRows
        /\ [risk |-> risk, gated |-> gated, enabled |-> TRUE] \in ThothToolRows
    BY DEF ThothToolRows
  <2>2. QED
    BY <1>2, <2>1, ThothToolWritten DEF ThothPart!CreateTool, ThothPart!UpdateTool
<1>3. ASSUME NEW c \in Chat, NEW known \in BOOLEAN, NEW super \in BOOLEAN,
             NEW mentioned \in SUBSET Topic, ThothPart!Say(c, known, super, mentioned)
      PROVE  ThothIInv'
  <2> DEFINE new == [tool |-> ThothPart!Plan(mentioned), user |-> known, super |-> super, stage |-> "CHECK"]
  <2>1. /\ chat[c] = Nil /\ mentioned # {} /\ chat' = [chat EXCEPT ![c] = new]
        /\ UNCHANGED <<tool, action, handling, written, decided, overtaken, raced>>
    BY <1>3 DEF ThothPart!Say
  <2>2. new \in ThothChats /\ new.stage = "CHECK"
    BY <2>1, ThothPlans DEF ThothChats, ThothPart!Stage
  <2> HIDE DEF new
  <2>3. ThothTypes'
    BY <1>0, <2>1, <2>2 DEF ThothTypes
  <2>4. chat'[c] = new /\ \A d \in Chat : d # c => chat'[d] = chat[d]
    BY <1>0, <2>1 DEF ThothTypes
  <2>5. ThothAllowed'
    BY <1>0, <2>1, <2>2, <2>4 DEF ThothAllowed, ThothPart!Allowed
  <2>6. ThothWritten'
    <3>1. ASSUME NEW w \in written
          PROVE  w[2] \in Chat /\ w[2] # c
      BY <1>0, <2>1 DEF ThothTypes, ThothWritten
    <3>2. QED
      BY <1>0, <2>1, <2>4, <3>1 DEF ThothWritten
  <2>7. ThothPending' /\ ThothPart!DecidedOnce'
    BY <1>0, <2>1 DEF ThothPending, ThothDeciding, ThothPart!DecidedOnce
  <2>8. ThothAsked'
    BY <1>0, <2>1, <2>2, <2>4 DEF ThothAsked, ThothWaiting, ThothFiledFor
  <2>9. QED
    BY <2>3, <2>5, <2>6, <2>7, <2>8 DEF ThothIInv
<1>4. ASSUME NEW c \in Chat, ThothPart!Check(c)
      PROVE  ThothIInv'
  <2> DEFINE verdict == ThothPart!Evaluate(tool[chat[c].tool], chat[c].super)
  <2>1. /\ chat[c] # Nil /\ chat[c].stage = "CHECK" /\ ThothPart!Advance(c, verdict)
        /\ UNCHANGED <<tool, action, handling, written, decided, overtaken, raced>>
    BY <1>4 DEF ThothPart!Check
  <2>2. /\ verdict \in ThothPart!Stage /\ verdict \in {"RUN", "ASK", "BLOCK"}
        /\ verdict = "RUN" => ThothPart!Allowed(chat[c].tool, chat[c].super)
    BY ThothVerdict, ThothStages
  <2> HIDE DEF verdict
  <2>3. QED
    BY <2>1, <2>2, ThothChatStep
<1>5. ASSUME NEW c \in Chat, NEW a \in Action, ThothPart!AskApproval(c, a)
      PROVE  ThothIInv'
  <2>1. /\ chat[c] # Nil /\ chat[c].stage = "ASK" /\ ThothPart!Advance(c, "FILED") /\ action[a] = Nil
        /\ action' = [action EXCEPT ![a] = [tool |-> chat[c].tool, status |-> "PENDING"]]
        /\ UNCHANGED <<tool, handling, written, decided, overtaken, raced>>
    BY <1>5 DEF ThothPart!AskApproval
  <2>2. /\ chat[c].tool \in ThothPart!Tool /\ chat'[c].tool = chat[c].tool
        /\ [tool |-> chat[c].tool, status |-> "PENDING"] \in ThothActions
    BY <1>0, <2>1, ThothAdvances, ThothStages DEF ThothTypes, ThothChats, ThothActions
  <2>3. ThothFiledFor(chat[c].tool)'
    BY <1>0, <2>1, <2>2 DEF ThothTypes, ThothDistinct, ThothFiledFor
  <2>4. QED
    BY <2>1, <2>3, ThothChatStep, ThothStages
<1>6. ASSUME NEW c \in Chat, ThothPart!Execute(c)
      PROVE  ThothIInv'
  <2>1. /\ chat[c] # Nil /\ chat[c].stage = "RUN" /\ ThothPart!Advance(c, "RAN")
        /\ UNCHANGED <<tool, action, handling, decided, overtaken, raced>>
        /\ \/ /\ ThothPart!RowOf(chat[c].tool) # "NONE"
              /\ ThothPart!Succeeds(chat[c].tool, chat[c].user)
              /\ written' = written \cup {<<ThothPart!RowOf(chat[c].tool), c>>}
           \/ written' = written
    BY <1>6 DEF ThothPart!Execute
  <2>2. \/ written' = written
        \/ \E w \in {"TRIP", "TICKET"} : /\ written' = written \cup {<<w, c>>} /\ chat[c].user
                                         /\ w = ThothPart!RowOf(chat[c].tool)
    BY <2>1 DEF ThothPart!RowOf, ThothPart!Succeeds
  <2>3. QED
    BY <2>1, <2>2, ThothChatStep, ThothStages
<1>7. ASSUME NEW c \in Chat, ThothPart!Answer(c)
      PROVE  ThothIInv'
  BY <1>7, ThothChatStep, ThothStages DEF ThothPart!Answer
<1>8. ASSUME NEW c \in Chat, ThothPart!Die(c)
      PROVE  ThothIInv'
  BY <1>8, ThothChatStep, ThothStages DEF ThothPart!Die
<1>9. ASSUME NEW s \in Caller, NEW t \in ThothPart!Tool, ThothPart!Simulate(s, t)
      PROVE  ThothIInv'
  <2> DEFINE call == [op |-> "SIMULATE", tool |-> t]
  <2>1. /\ handling[s] = Nil /\ handling' = [handling EXCEPT ![s] = call]
        /\ UNCHANGED <<tool, chat, action, written, decided, overtaken, raced>>
        /\ call \in ThothSimulations /\ call.op = "SIMULATE"
    BY <1>9 DEF ThothPart!Simulate, ThothSimulations
  <2> HIDE DEF call
  <2>2. ThothTypes' /\ ThothAllowed' /\ ThothWritten' /\ ThothAsked' /\ ThothPart!DecidedOnce'
    BY <1>0, <2>1
    DEF ThothTypes, ThothAllowed, ThothPart!Allowed, ThothWritten, ThothAsked, ThothWaiting,
        ThothFiledFor, ThothPart!DecidedOnce
  <2>3. ASSUME NEW o \in Caller, NEW a \in Action, ThothDeciding(o, a)'
        PROVE  ThothDeciding(o, a)
    BY <1>0, <2>1, <2>3 DEF ThothTypes, ThothDeciding
  <2>4. ThothPending'
    BY <1>0, <2>1, <2>3 DEF ThothPending
  <2>5. QED
    BY <2>2, <2>4 DEF ThothIInv
<1>10. ASSUME NEW s \in Caller, NEW a \in Action, ThothPart!FileSimulated(s, a)
       PROVE  ThothIInv'
  <2>1. /\ handling[s] # Nil /\ handling[s].op = "SIMULATE" /\ action[a] = Nil
        /\ action' = [action EXCEPT ![a] = [tool |-> handling[s].tool, status |-> "PENDING"]]
        /\ handling' = [handling EXCEPT ![s] = Nil]
        /\ UNCHANGED <<tool, chat, written, decided, overtaken, raced>>
    BY <1>10 DEF ThothPart!FileSimulated
  <2>2. handling[s].tool \in ThothPart!Tool
    BY <1>0, <2>1 DEF ThothTypes, ThothSimulations, ThothDecisions
  <2>3. \A o \in Caller : handling'[o] = handling[o] \/ handling'[o] = Nil
    BY <1>0, <2>1 DEF ThothTypes
  <2>4. ThothPending' /\ ThothPart!DecidedOnce' /\ action' \in [Action -> ThothActions \cup {Nil}]
    BY <1>0, <2>1, <2>2, <2>3, ThothFiles
  <2>5. ThothTypes'
    BY <1>0, <2>1, <2>4 DEF ThothTypes
  <2>6. ThothAllowed' /\ ThothWritten'
    BY <1>0, <2>1 DEF ThothAllowed, ThothPart!Allowed, ThothWritten
  <2>7. ThothAsked'
    <3>1. \A b \in Action : action[b] # Nil => action'[b] = action[b]
      BY <1>0, <2>1 DEF ThothTypes
    <3>2. \A t \in ThothPart!Tool : ThothFiledFor(t) => ThothFiledFor(t)'
      BY <3>1 DEF ThothFiledFor
    <3>3. \A c \in Chat : chat[c] # Nil => chat[c].tool \in ThothPart!Tool
      BY <1>0 DEF ThothTypes, ThothChats
    <3>4. QED
      BY <1>0, <2>1, <3>2, <3>3 DEF ThothAsked, ThothWaiting
  <2>8. QED
    BY <2>4, <2>5, <2>6, <2>7 DEF ThothIInv
<1>11. ASSUME NEW s \in Caller, NEW a \in Action, NEW to \in {"APPROVED", "REJECTED"},
              ThothPart!Decide(s, a, to)
       PROVE  ThothIInv'
  <2> DEFINE call == [op |-> "DECIDE", action |-> a, to |-> to]
  <2>1. /\ handling[s] = Nil /\ action[a] # Nil /\ action[a].status = "PENDING"
        /\ handling' = [handling EXCEPT ![s] = call]
        /\ raced' = (raced \/ \E o \in Caller : ThothDeciding(o, a))
        /\ UNCHANGED <<tool, chat, action, written, decided, overtaken>>
        /\ call \in ThothDecisions /\ call.action = a
    BY <1>11 DEF ThothPart!Decide, ThothDecisions, ThothDeciding
  <2> HIDE DEF call
  <2>2. ThothTypes' /\ ThothAllowed' /\ ThothWritten' /\ ThothAsked'
    BY <1>0, <2>1
    DEF ThothTypes, ThothAllowed, ThothPart!Allowed, ThothWritten, ThothAsked, ThothWaiting, ThothFiledFor
  <2>3. ThothPart!DecidedOnce'
    BY <1>0, <2>1 DEF ThothPart!DecidedOnce
  <2>4. ASSUME NEW o \in Caller, NEW b \in Action, ThothDeciding(o, b)'
        PROVE  (o = s /\ b = a) \/ (o # s /\ ThothDeciding(o, b))
    BY <1>0, <2>1, <2>4 DEF ThothTypes, ThothDeciding
  <2>5. ASSUME NEW o \in Caller, NEW b \in Action, ThothDeciding(o, b)'
        PROVE  /\ action[b] # Nil
               /\ ~raced' => /\ action[b].status = "PENDING"
                             /\ \A p \in Caller : ThothDeciding(p, b)' => p = o
    <3>1. ~raced' => ~raced /\ \A p \in Caller : ~ThothDeciding(p, a)
      BY <2>1
    <3>2. CASE o = s /\ b = a
      BY <2>1, <2>4, <3>1, <3>2
    <3>3. CASE o # s /\ ThothDeciding(o, b)
      <4>1. /\ action[b] # Nil
            /\ ~raced' => /\ action[b].status = "PENDING" /\ b # a
                          /\ \A p \in Caller : ThothDeciding(p, b) => p = o
        BY <1>0, <3>1, <3>3 DEF ThothPending
      <4>2. QED
        BY <2>4, <4>1
    <3>4. QED
      BY <2>4, <2>5, <3>2, <3>3
  <2>6. ThothPending'
    BY <2>1, <2>5 DEF ThothPending
  <2>7. QED
    BY <2>2, <2>3, <2>6 DEF ThothIInv
<1>12. ASSUME NEW s \in Caller, ThothPart!WriteDecision(s)
       PROVE  ThothIInv'
  <2> DEFINE a == handling[s].action
             to == handling[s].to
  <2>1. /\ handling[s] # Nil /\ handling[s].op = "DECIDE"
        /\ action' = [action EXCEPT ![a].status = to]
        /\ decided' = [decided EXCEPT ![a] = @ \cup {to}]
        /\ handling' = [handling EXCEPT ![s] = Nil]
        /\ UNCHANGED <<tool, chat, written, overtaken, raced>>
    BY <1>12 DEF ThothPart!WriteDecision
  <2>2. a \in Action /\ to \in {"APPROVED", "REJECTED"}
    BY <1>0, <2>1 DEF ThothTypes, ThothSimulations, ThothDecisions
  <2>3. ThothDeciding(s, a)
    BY <2>1 DEF ThothDeciding
  <2> HIDE DEF a, to
  <2>4. /\ action[a] # Nil /\ action[a] \in ThothActions
        /\ ~raced => /\ action[a].status = "PENDING"
                     /\ \A o \in Caller : ThothDeciding(o, a) => o = s
    BY <1>0, <2>2, <2>3 DEF ThothPending, ThothTypes
  <2>5. /\ action'[a] \in ThothActions /\ action'[a].status = to
        /\ \A b \in Action : b # a => action'[b] = action[b] /\ decided'[b] = decided[b]
        /\ decided'[a] = decided[a] \cup {to}
    BY <1>0, <2>1, <2>2, <2>4 DEF ThothTypes, ThothActions
  <2>6. action'[a] # Nil
    BY <2>5 DEF ThothDistinct
  <2>7. ThothTypes'
    BY <1>0, <2>1, <2>2, <2>5 DEF ThothTypes
  <2>8. ThothAllowed' /\ ThothWritten'
    BY <1>0, <2>1 DEF ThothAllowed, ThothPart!Allowed, ThothWritten
  <2>9. ASSUME NEW o \in Caller, NEW b \in Action, ThothDeciding(o, b)'
        PROVE  o # s /\ ThothDeciding(o, b)
    BY <1>0, <2>1, <2>9 DEF ThothTypes, ThothDeciding
  <2>10. ThothPending'
    BY <1>0, <2>1, <2>4, <2>5, <2>6, <2>9 DEF ThothPending
  <2>11. ThothPart!DecidedOnce'
    <3>1. ~raced => decided[a] = {}
      BY <1>0, <2>2, <2>4 DEF ThothPart!DecidedOnce
    <3>2. QED
      BY <1>0, <2>1, <2>2, <2>5, <2>6, <3>1 DEF ThothPart!DecidedOnce
  <2>12. ThothAsked'
    <3>1. \A b \in Action : action[b] # Nil => action'[b] # Nil /\ action'[b].tool = action[b].tool
      BY <1>0, <2>1, <2>2, <2>4, <2>5, <2>6 DEF ThothTypes, ThothActions
    <3>2. \A t \in ThothPart!Tool : ThothFiledFor(t) => ThothFiledFor(t)'
      BY <3>1 DEF ThothFiledFor
    <3>3. \A c \in Chat : chat[c] # Nil => chat[c].tool \in ThothPart!Tool
      BY <1>0 DEF ThothTypes, ThothChats
    <3>4. QED
      BY <1>0, <2>1, <3>2, <3>3 DEF ThothAsked, ThothWaiting
  <2>13. QED
    BY <2>7, <2>8, <2>10, <2>11, <2>12 DEF ThothIInv
<1>13. ASSUME NEW s \in Caller, ThothPart!StaffFails(s)
       PROVE  ThothIInv'
  <2>1. /\ handling' = [handling EXCEPT ![s] = Nil]
        /\ UNCHANGED <<tool, chat, action, written, decided, overtaken, raced>>
    BY <1>13 DEF ThothPart!StaffFails
  <2>2. ThothTypes' /\ ThothAllowed' /\ ThothWritten' /\ ThothAsked'
    BY <1>0, <2>1
    DEF ThothTypes, ThothAllowed, ThothPart!Allowed, ThothWritten, ThothAsked, ThothWaiting, ThothFiledFor
  <2>3. \A o \in Caller : handling'[o] = handling[o] \/ handling'[o] = Nil
    BY <1>0, <2>1 DEF ThothTypes
  <2>4. ThothPending' /\ ThothPart!DecidedOnce'
    BY <1>0, <2>1, <2>3, ThothFiles
  <2>5. QED
    BY <2>2, <2>4 DEF ThothIInv
<1>14. CASE UNCHANGED thothVars
  BY <1>14 DEF thothVars, ThothIInv, ThothTypes, ThothAllowed, ThothPart!Allowed, ThothWritten,
               ThothAsked, ThothWaiting, ThothFiledFor, ThothPending, ThothDeciding, ThothPart!DecidedOnce
<1>15. QED
  BY <1>1, <1>2, <1>3, <1>4, <1>5, <1>6, <1>7, <1>8, <1>9, <1>10, <1>11, <1>12, <1>13, <1>14
  DEF ThothPart!Next

\* A step leaves the ghost as it is or writes a truth value.
LEMMA ThothFlagStep ==
    ASSUME raced \in BOOLEAN, ThothPart!Next \/ UNCHANGED thothVars
    PROVE  raced' \in BOOLEAN
<1>1. ASSUME NEW s \in Caller, NEW a \in Action, NEW to, ThothPart!Decide(s, a, to)
      PROVE  raced' \in BOOLEAN
  BY <1>1 DEF ThothPart!Decide
<1>2. ASSUME NEW t, NEW x, NEW y, NEW z,
             \/ ThothPart!Boot(t) \/ ThothPart!CreateTool(t, x, y)
             \/ ThothPart!UpdateTool(t, x, y, z)
      PROVE  raced' = raced
  BY <1>2 DEF ThothPart!Boot, ThothPart!CreateTool, ThothPart!UpdateTool
<1>3. ASSUME NEW c, NEW x, NEW y, NEW z,
             \/ ThothPart!Say(c, x, y, z) \/ ThothPart!Check(c) \/ ThothPart!AskApproval(c, x)
             \/ ThothPart!Execute(c) \/ ThothPart!Answer(c) \/ ThothPart!Die(c)
      PROVE  raced' = raced
  BY <1>3 DEF ThothPart!Say, ThothPart!Check, ThothPart!AskApproval, ThothPart!Execute,
              ThothPart!Answer, ThothPart!Die
<1>4. ASSUME NEW s, NEW x,
             \/ ThothPart!Simulate(s, x) \/ ThothPart!FileSimulated(s, x)
             \/ ThothPart!WriteDecision(s) \/ ThothPart!StaffFails(s)
      PROVE  raced' = raced
  BY <1>4 DEF ThothPart!Simulate, ThothPart!FileSimulated, ThothPart!WriteDecision,
              ThothPart!StaffFails
<1>5. CASE UNCHANGED thothVars
  BY <1>5 DEF thothVars
<1>6. QED
  BY <1>1, <1>2, <1>3, <1>4, <1>5 DEF ThothPart!Next

\* chat, evaluate and decideAction of THOTH: no tool runs past a gate that
\* nobody moved since the check, what was refused or waits for approval has
\* written nothing and what waits is on file, and an action is decided once
\* unless two decisions of it overlap.
THEOREM ToolsHoldCorrect ==
    ASSUME ThothDistinct, ThothTopics
    PROVE  Spec => []ToolsHold
<1>1. Init => ThothIInv /\ raced \in BOOLEAN
  <2>1. ThothPart!Init => raced \in BOOLEAN
    BY DEF ThothPart!Init
  <2>2. QED
    BY <2>1, ThothInitIInv DEF Init
<1>2. ThothIInv /\ raced \in BOOLEAN /\ [Next]_vars => (ThothIInv /\ raced \in BOOLEAN)'
  <2>1. ASSUME ThothIInv, raced \in BOOLEAN, [Next]_vars
        PROVE  ThothIInv' /\ raced' \in BOOLEAN
    <3>1. ThothPart!Next \/ UNCHANGED thothVars
      BY <2>1, OnePart
    <3>2. QED
      BY <2>1, <3>1, ThothStepIInv, ThothFlagStep
  <2>2. QED
    BY <2>1
<1>3. ThothIInv /\ raced \in BOOLEAN => ToolsHold
  <2>1. ThothIInv /\ raced \in BOOLEAN => ThothPart!TypeOK
    BY DEF ThothIInv, ThothTypes, ThothToolRows, ThothChats, ThothActions, ThothSimulations,
           ThothDecisions, ThothPart!TypeOK
  <2>2. ThothIInv => ThothPart!RunsAsAllowed /\ ThothPart!DecidedOnce
    BY DEF ThothIInv, ThothAllowed, ThothWritten, ThothAsked, ThothWaiting, ThothFiledFor,
           ThothPart!RunsAsAllowed
  <2>3. QED
    BY <2>1, <2>2 DEF ToolsHold
<1>4. QED
  BY <1>1, <1>2, <1>3, PTL DEF Spec

-----------------------------------------------------------------------------
(* One-time codes: for any numbers of calls, slips, codes and guesses, its  *)
(* types, that what a code, a token or a slip is for is done once, and that *)
(* wrong guesses are counted, until calls overlap or Redis is lost.         *)

CodesVerifications == [guess : 0..MaxCodes, entry : CodesPart!Entry]
CodesSlips == [kind : CodesPart!SlipKind, state : {"OPEN", "USED", "EXPIRED"}]
CodesRedemptions == [slip : Slip, marked : BOOLEAN]

CodesOtpTypes ==
    /\ redis \in CodesPart!Entry \cup {Nil}
    /\ memory \in CodesPart!Entry \cup {Nil}
    /\ issued \in 0..MaxCodes
    /\ verifying \in [Verifier -> CodesVerifications \cup {Nil}]
    /\ accepted \in [CodesPart!Code -> Nat]
    /\ wrong \in [CodesPart!Code -> 0..MaxWrong]

CodesSlipTypes ==
    /\ slip \in [Slip -> CodesSlips \cup {Nil}]
    /\ redeeming \in [Verifier -> CodesRedemptions \cup {Nil}]
    /\ redeemed \in [Slip -> Nat]

\* Until calls overlap there is one at most.
CodesBusy(v) == verifying[v] # Nil \/ redeeming[v] # Nil
CodesAlone ==
    ~disturbed => \A v \in Verifier, w \in Verifier : CodesBusy(v) /\ CodesBusy(w) => v = w

\* An entry of the newest code, which nobody was accepted with, and whose
\* attempts count every wrong guess.
CodesCurrent(e) == /\ e.code = issued
                   /\ accepted[e.code] = 0
                   /\ wrong[e.code] <= e.attempts

\* Until calls overlap or Redis is lost, what it keeps and what a call has
\* read of it is current, and the memory is not used.
CodesOtpClean ==
    ~disturbed =>
        /\ reachable /\ memory = Nil
        /\ \A c \in CodesPart!Code : /\ accepted[c] <= 1 /\ wrong[c] <= MaxGuesses
                                     /\ c > issued => accepted[c] = 0 /\ wrong[c] = 0
        /\ redis # Nil => CodesCurrent(redis)
        /\ \A v \in Verifier : verifying[v] # Nil => CodesCurrent(verifying[v].entry)

\* What a slip did comes after its mark.
CodesSlipMarked ==
    /\ \A s \in Slip : redeemed[s] > 0 => slip[s] # Nil /\ slip[s].state = "USED"
    /\ \A v \in Verifier :
         redeeming[v] # Nil =>
             /\ slip[redeeming[v].slip] # Nil
             /\ redeeming[v].marked => slip[redeeming[v].slip].state = "USED"

CodesSlipClean ==
    ~disturbed =>
        /\ \A s \in Slip : redeemed[s] <= 1
        /\ \A v \in Verifier : redeeming[v] # Nil => redeemed[redeeming[v].slip] = 0

CodesIInv ==
    /\ CodesOtpTypes /\ CodesSlipTypes
    /\ CodesAlone /\ CodesOtpClean
    /\ CodesSlipMarked /\ CodesSlipClean

CodesFlags == reachable \in BOOLEAN /\ disturbed \in BOOLEAN

\* Nothing is the mark for none, and the bounds are numbers.
CodesDistinct == Nil \notin CodesPart!Entry \cup CodesVerifications \cup CodesSlips \cup CodesRedemptions
CodesBounds == MaxGuesses \in Nat /\ MaxCodes \in Nat /\ MaxWrong \in Nat

-----------------------------------------------------------------------------
LEMMA CodesInitIInv ==
    ASSUME CodesPart!Init, CodesBounds
    PROVE  CodesIInv
<1>1. CodesOtpTypes /\ CodesSlipTypes
  BY DEF CodesPart!Init, CodesBounds, CodesOtpTypes, CodesSlipTypes
<1>2. CodesAlone /\ CodesOtpClean /\ CodesSlipMarked /\ CodesSlipClean
  BY DEF CodesPart!Init, CodesBounds, CodesAlone, CodesBusy, CodesOtpClean, CodesSlipMarked,
         CodesSlipClean
<1>3. QED
  BY <1>1, <1>2 DEF CodesIInv

\* A step on the codes leaves the slips.
LEMMA CodesSlipsStay ==
    ASSUME CodesIInv, UNCHANGED <<slip, redeeming, redeemed>>, disturbed => disturbed'
    PROVE  CodesSlipTypes' /\ CodesSlipMarked' /\ CodesSlipClean'
BY DEF CodesIInv, CodesSlipTypes, CodesSlipMarked, CodesSlipClean

\* A step on the slips leaves the codes.
LEMMA CodesOtpStays ==
    ASSUME CodesIInv, UNCHANGED CodesPart!otpVars, disturbed => disturbed'
    PROVE  CodesOtpTypes' /\ CodesOtpClean'
BY DEF CodesIInv, CodesOtpTypes, CodesOtpClean, CodesCurrent, CodesPart!otpVars

\* A call that ends, and a step without calls, overlap with nothing new.
LEMMA CodesFewer ==
    ASSUME CodesAlone, disturbed => disturbed', \A v \in Verifier : CodesBusy(v)' => CodesBusy(v)
    PROVE  CodesAlone'
BY DEF CodesAlone

\* A call that begins overlaps with every other.
LEMMA CodesBegins ==
    ASSUME CodesIInv, NEW v \in Verifier, disturbed' = (disturbed \/ CodesPart!Busy({v})),
           verifying[v] = Nil, redeeming[v] = Nil,
           \A w \in Verifier : w # v => (CodesBusy(w)' <=> CodesBusy(w))
    PROVE  /\ disturbed => disturbed'
           /\ ~disturbed' => \A w \in Verifier : ~CodesBusy(w)
           /\ CodesAlone'
<1>1. CodesPart!Busy({v}) <=> \E w \in Verifier \ {v} : CodesBusy(w)
  BY DEF CodesPart!Busy, CodesBusy
<1>2. ~CodesBusy(v)
  BY DEF CodesBusy
<1>3. QED
  BY <1>1, <1>2 DEF CodesIInv, CodesAlone

\* One attempt more, of an entry that has one left.
LEMMA CodesCounted ==
    ASSUME CodesBounds, NEW e \in CodesPart!Entry, e.attempts < MaxGuesses
    PROVE  /\ CodesPart!Counted(e) \in CodesPart!Entry
           /\ CodesPart!Counted(e).code = e.code
           /\ CodesPart!Counted(e).attempts = e.attempts + 1
<1>1. e.attempts + 1 \in 0..MaxGuesses
  BY DEF CodesPart!Entry, CodesBounds
<1>2. QED
  BY <1>1 DEF CodesPart!Entry, CodesPart!Counted

\* The fallback's memory, its acceptances and its guesses stay of their types.
LEMMA CodesFallback ==
    ASSUME CodesBounds, CodesOtpTypes, NEW guess, CodesPart!Fallback(guess)
    PROVE  /\ memory' \in CodesPart!Entry \cup {Nil}
           /\ accepted' \in [CodesPart!Code -> Nat]
           /\ wrong' \in [CodesPart!Code -> 0..MaxWrong]
           /\ memory = Nil => UNCHANGED <<memory, accepted, wrong>>
<1>1. CASE memory = Nil
  BY <1>1 DEF CodesPart!Fallback, CodesOtpTypes
<1>2. CASE memory # Nil /\ memory' = Nil /\ UNCHANGED <<accepted, wrong>>
  BY <1>2 DEF CodesOtpTypes
<1>3. CASE memory # Nil /\ memory.attempts < MaxGuesses /\ memory.code = guess
  BY <1>3 DEF CodesPart!Fallback, CodesPart!Accept, CodesOtpTypes, CodesPart!Entry
<1>4. CASE memory # Nil /\ memory.attempts < MaxGuesses /\ memory.code # guess
  <2>1. memory \in CodesPart!Entry /\ memory.attempts \in Nat /\ MaxGuesses \in Nat
    BY <1>4 DEF CodesOtpTypes, CodesPart!Entry, CodesBounds
  <2>2. memory' = CodesPart!Counted(memory) /\ CodesPart!Reject(memory.code)
    BY <1>4, <2>1 DEF CodesPart!Fallback
  <2>3. memory' \in CodesPart!Entry
    BY <1>4, <2>1, <2>2, CodesCounted
  <2>4. QED
    BY <1>4, <2>1, <2>2, <2>3
    DEF CodesPart!Reject, CodesOtpTypes, CodesPart!Entry, CodesBounds
<1>5. QED
  BY <1>1, <1>2, <1>3, <1>4 DEF CodesPart!Fallback

\* The invariant of the codes while calls overlap or Redis is lost.
LEMMA CodesOtpDirty ==
    ASSUME disturbed'
    PROVE  CodesOtpClean'
BY DEF CodesOtpClean

LEMMA CodesGenerates ==
    ASSUME CodesBounds, CodesIInv, CodesPart!Generate
    PROVE  CodesIInv'
<1> DEFINE new == [code |-> issued + 1, attempts |-> 0]
<1>1. /\ issued < MaxCodes /\ issued' = issued + 1
      /\ \/ reachable /\ redis' = new /\ memory' = memory
         \/ ~reachable /\ memory' = new /\ redis' = redis
      /\ disturbed' = (disturbed \/ CodesPart!Busy({}))
      /\ UNCHANGED <<reachable, verifying, accepted, wrong, slip, redeeming, redeemed>>
  BY DEF CodesPart!Generate, CodesPart!slipVars
<1>2. /\ CodesOtpTypes /\ CodesAlone /\ CodesOtpClean
      /\ issued + 1 \in 1..MaxCodes /\ issued \in Nat
  BY <1>1 DEF CodesIInv, CodesOtpTypes, CodesBounds
<1>3. new \in CodesPart!Entry /\ new.code = issued + 1 /\ new.attempts = 0
  BY <1>2 DEF CodesPart!Entry, CodesPart!Code, CodesBounds
<1> HIDE DEF new
<1>4. CodesOtpTypes'
  BY <1>1, <1>2, <1>3 DEF CodesOtpTypes
<1>5. CodesAlone'
  BY <1>1, <1>2, CodesFewer DEF CodesBusy
<1>6. ASSUME ~disturbed' PROVE CodesOtpClean'
  <2>1. ~disturbed /\ \A v \in Verifier : verifying[v] = Nil
    BY <1>1, <1>6 DEF CodesPart!Busy
  <2>2. /\ reachable /\ memory = Nil
        /\ \A c \in CodesPart!Code : /\ accepted[c] <= 1 /\ wrong[c] <= MaxGuesses
                                     /\ c > issued => accepted[c] = 0 /\ wrong[c] = 0
    BY <1>2, <2>1 DEF CodesOtpClean
  <2>3. accepted[issued + 1] = 0 /\ wrong[issued + 1] = 0
    BY <1>2, <2>2 DEF CodesPart!Code
  <2>4. CodesCurrent(redis)'
    BY <1>1, <1>3, <2>2, <2>3 DEF CodesCurrent
  <2>5. \A c \in CodesPart!Code : c > issued' => c > issued
    BY <1>1, <1>2 DEF CodesPart!Code, CodesBounds
  <2>6. QED
    BY <1>1, <2>1, <2>2, <2>4, <2>5 DEF CodesOtpClean
<1>7. CodesOtpClean'
  BY <1>6, CodesOtpDirty
<1>8. CodesSlipTypes' /\ CodesSlipMarked' /\ CodesSlipClean'
  BY <1>1, CodesSlipsStay
<1>9. QED
  BY <1>4, <1>5, <1>7, <1>8 DEF CodesIInv

LEMMA CodesVerifies ==
    ASSUME CodesBounds, CodesDistinct, CodesIInv, NEW v \in Verifier, NEW guess \in 0..issued,
           CodesPart!Verify(v, guess)
    PROVE  CodesIInv'
<1> DEFINE call == [guess |-> guess, entry |-> redis]
<1>1. /\ verifying[v] = Nil /\ redeeming[v] = Nil
      /\ \/ /\ ~reachable \/ redis = Nil
            /\ CodesPart!Fallback(guess) /\ verifying' = verifying
         \/ /\ reachable /\ redis # Nil /\ verifying' = [verifying EXCEPT ![v] = call]
            /\ UNCHANGED <<memory, accepted, wrong>>
      /\ disturbed' = (disturbed \/ CodesPart!Busy({v}))
      /\ UNCHANGED <<redis, reachable, issued, slip, redeeming, redeemed>>
  BY DEF CodesPart!Verify, CodesPart!slipVars
<1>2. CodesOtpTypes /\ CodesOtpClean /\ guess \in 0..MaxCodes
  BY DEF CodesIInv, CodesOtpTypes, CodesBounds
<1>3. redis # Nil => call \in CodesVerifications /\ call.entry = redis
  BY <1>2 DEF CodesOtpTypes, CodesVerifications
<1> HIDE DEF call
<1>4. \A w \in Verifier : w # v => (CodesBusy(w)' <=> CodesBusy(w))
  BY <1>1, <1>2 DEF CodesBusy, CodesOtpTypes
<1>5. /\ disturbed => disturbed'
      /\ ~disturbed' => \A w \in Verifier : ~CodesBusy(w)
      /\ CodesAlone'
  BY <1>1, <1>4, CodesBegins
<1>6. CodesOtpTypes'
  BY <1>1, <1>2, <1>3, CodesFallback DEF CodesOtpTypes
<1>7. ASSUME ~disturbed' PROVE CodesOtpClean'
  <2>1. ~disturbed /\ reachable /\ memory = Nil /\ \A w \in Verifier : verifying[w] = Nil
    BY <1>2, <1>5, <1>7 DEF CodesOtpClean, CodesBusy
  <2>2. UNCHANGED <<memory, accepted, wrong, redis, issued, reachable>>
    BY <1>1, <1>2, <2>1, CodesFallback
  <2>3. redis # Nil => CodesCurrent(redis)
    BY <1>2, <2>1 DEF CodesOtpClean
  <2>4. \A w \in Verifier : verifying'[w] # Nil => redis # Nil /\ verifying'[w].entry = redis
    BY <1>1, <1>2, <1>3, <2>1 DEF CodesOtpTypes
  <2>5. \A w \in Verifier : verifying'[w] # Nil => CodesCurrent(verifying[w].entry)'
    BY <2>2, <2>3, <2>4 DEF CodesCurrent
  <2>6. QED
    BY <1>2, <2>1, <2>2, <2>3, <2>5 DEF CodesOtpClean, CodesCurrent
<1>8. CodesOtpClean'
  BY <1>7, CodesOtpDirty
<1>9. CodesSlipTypes' /\ CodesSlipMarked' /\ CodesSlipClean'
  BY <1>1, <1>5, CodesSlipsStay
<1>10. QED
  BY <1>5, <1>6, <1>8, <1>9 DEF CodesIInv

LEMMA CodesConcludes ==
    ASSUME CodesBounds, CodesDistinct, CodesIInv, NEW v \in Verifier, CodesPart!Conclude(v)
    PROVE  CodesIInv'
<1> DEFINE guess == verifying[v].guess
           entry == verifying[v].entry
<1>1. /\ verifying[v] # Nil /\ verifying' = [verifying EXCEPT ![v] = Nil]
      /\ \/ reachable /\ redis' = Nil /\ UNCHANGED <<memory, accepted, wrong>>
         \/ /\ reachable /\ entry.attempts < MaxGuesses /\ redis' = CodesPart!Counted(entry)
            /\ CodesPart!Reject(entry.code) /\ memory' = memory
         \/ /\ reachable /\ entry.code = guess /\ redis' = Nil
            /\ CodesPart!Accept(guess) /\ memory' = memory
         \/ ~reachable /\ CodesPart!Fallback(guess) /\ redis' = redis
      /\ UNCHANGED <<reachable, issued, slip, redeeming, redeemed, disturbed>>
  BY DEF CodesPart!Conclude, CodesPart!slipVars
<1>2. /\ CodesOtpTypes /\ CodesAlone /\ CodesOtpClean
      /\ entry \in CodesPart!Entry /\ entry.code \in CodesPart!Code /\ entry.attempts \in Nat
  BY <1>1 DEF CodesIInv, CodesOtpTypes, CodesVerifications, CodesPart!Entry, CodesBounds
<1> HIDE DEF guess, entry
<1>3. CodesAlone' /\ (~disturbed => \A w \in Verifier : verifying'[w] = Nil)
  BY <1>1, <1>2 DEF CodesAlone, CodesBusy, CodesOtpTypes
<1>4. CASE reachable /\ redis' = Nil /\ UNCHANGED <<memory, accepted, wrong>>
  <2>1. CodesOtpTypes'
    BY <1>1, <1>2, <1>4 DEF CodesOtpTypes
  <2>2. CodesOtpClean'
    BY <1>1, <1>2, <1>3, <1>4 DEF CodesOtpClean
  <2>3. QED
    BY <1>1, <1>3, <2>1, <2>2, CodesSlipsStay DEF CodesIInv
<1>5. CASE /\ reachable /\ entry.attempts < MaxGuesses /\ redis' = CodesPart!Counted(entry)
           /\ CodesPart!Reject(entry.code) /\ memory' = memory
  <2>1. /\ redis' \in CodesPart!Entry /\ redis'.code = entry.code
        /\ redis'.attempts = entry.attempts + 1
    BY <1>2, <1>5, CodesCounted
  <2>2. /\ wrong[entry.code] < MaxWrong /\ accepted' = accepted
        /\ wrong' = [wrong EXCEPT ![entry.code] = @ + 1]
    BY <1>5 DEF CodesPart!Reject
  <2>3. wrong' \in [CodesPart!Code -> 0..MaxWrong]
    BY <1>2, <2>2 DEF CodesOtpTypes, CodesBounds
  <2>4. CodesOtpTypes'
    BY <1>1, <1>2, <1>5, <2>1, <2>2, <2>3 DEF CodesOtpTypes
  <2>5. ASSUME ~disturbed' PROVE CodesOtpClean'
    <3>1. /\ entry.code = issued /\ accepted[issued] = 0 /\ wrong[issued] <= entry.attempts
          /\ reachable /\ memory = Nil
      BY <1>1, <1>2, <2>5 DEF CodesOtpClean, CodesCurrent, entry
    <3>2. \A c \in CodesPart!Code : /\ accepted[c] <= 1 /\ wrong[c] <= MaxGuesses
                                    /\ c > issued => accepted[c] = 0 /\ wrong[c] = 0
      BY <1>1, <1>2, <2>5 DEF CodesOtpClean
    <3>3. /\ wrong'[issued] = wrong[issued] + 1 /\ issued \in CodesPart!Code
          /\ \A c \in CodesPart!Code : c # issued => wrong'[c] = wrong[c]
          /\ wrong[issued] \in Nat
      BY <1>2, <2>2, <3>1 DEF CodesOtpTypes, CodesBounds
    <3>4. CodesCurrent(redis)' /\ wrong'[issued] <= MaxGuesses
      BY <1>1, <1>2, <1>5, <2>1, <2>2, <3>1, <3>3 DEF CodesCurrent, CodesBounds
    <3>5. \A c \in CodesPart!Code : /\ accepted'[c] <= 1 /\ wrong'[c] <= MaxGuesses
                                    /\ c > issued => accepted'[c] = 0 /\ wrong'[c] = 0
      BY <1>2, <2>2, <3>2, <3>3, <3>4 DEF CodesPart!Code, CodesOtpTypes, CodesBounds
    <3>6. QED
      BY <1>1, <1>3, <1>5, <2>5, <3>1, <3>4, <3>5 DEF CodesOtpClean
  <2>6. CodesOtpClean'
    BY <2>5, CodesOtpDirty
  <2>7. QED
    BY <1>1, <1>3, <2>4, <2>6, CodesSlipsStay DEF CodesIInv
<1>6. CASE /\ reachable /\ entry.code = guess /\ redis' = Nil
           /\ CodesPart!Accept(guess) /\ memory' = memory
  <2>1. accepted' = [accepted EXCEPT ![entry.code] = @ + 1] /\ wrong' = wrong
    BY <1>6 DEF CodesPart!Accept
  <2>2. CodesOtpTypes'
    BY <1>1, <1>2, <1>6, <2>1 DEF CodesOtpTypes
  <2>3. ASSUME ~disturbed' PROVE CodesOtpClean'
    <3>1. entry.code = issued /\ accepted[issued] = 0 /\ reachable /\ memory = Nil
      BY <1>1, <1>2, <2>3 DEF CodesOtpClean, CodesCurrent, entry
    <3>2. \A c \in CodesPart!Code : /\ accepted[c] <= 1 /\ wrong[c] <= MaxGuesses
                                    /\ c > issued => accepted[c] = 0 /\ wrong[c] = 0
      BY <1>1, <1>2, <2>3 DEF CodesOtpClean
    <3>3. /\ accepted'[issued] = 1
          /\ \A c \in CodesPart!Code : c # issued => accepted'[c] = accepted[c]
      BY <1>2, <2>1, <3>1 DEF CodesOtpTypes
    <3>4. ASSUME NEW c \in CodesPart!Code
          PROVE  /\ accepted'[c] <= 1 /\ wrong'[c] <= MaxGuesses
                 /\ c > issued => accepted'[c] = 0 /\ wrong'[c] = 0
      <4>1. c \in Int /\ issued \in Int
        BY <1>2 DEF CodesPart!Code, CodesOtpTypes, CodesBounds
      <4>2. CASE c = issued
        BY <2>1, <3>2, <3>3, <4>1, <4>2
      <4>3. CASE c # issued
        BY <2>1, <3>2, <3>3, <4>3
      <4>4. QED
        BY <4>2, <4>3
    <3>5. QED
      BY <1>1, <1>3, <1>6, <2>3, <3>1, <3>4 DEF CodesOtpClean
  <2>4. CodesOtpClean'
    BY <2>3, CodesOtpDirty
  <2>5. QED
    BY <1>1, <1>3, <2>2, <2>4, CodesSlipsStay DEF CodesIInv
<1>7. CASE ~reachable /\ CodesPart!Fallback(guess) /\ redis' = redis
  <2>1. CodesOtpTypes'
    BY <1>1, <1>2, <1>7, CodesFallback DEF CodesOtpTypes
  <2>2. disturbed'
    BY <1>1, <1>2, <1>7 DEF CodesOtpClean
  <2>3. QED
    BY <1>1, <1>3, <2>1, <2>2, CodesOtpDirty, CodesSlipsStay DEF CodesIInv
<1>8. QED
  BY <1>1, <1>4, <1>5, <1>6, <1>7

\* A slip changes its state and a call goes on or ends, on that slip.
LEMMA CodesSlipTaken ==
    ASSUME CodesDistinct, CodesIInv, NEW v \in Verifier, NEW s \in Slip, NEW marked \in BOOLEAN,
           redeeming[v] # Nil, redeeming[v].slip = s,
           UNCHANGED <<CodesPart!otpVars, disturbed>>,
           slip' = slip \/ slip' = [slip EXCEPT ![s].state = "USED"],
           slip'[s].state = "USED",
           \/ /\ redeeming' = [redeeming EXCEPT ![v].marked = TRUE] /\ redeemed' = redeemed
           \/ /\ redeeming' = [redeeming EXCEPT ![v] = Nil]
              /\ redeemed' = [redeemed EXCEPT ![s] = @ + 1]
    PROVE  CodesIInv'
<1>0. /\ CodesSlipTypes /\ CodesAlone /\ CodesSlipMarked /\ CodesSlipClean
      /\ redeeming[v] \in CodesRedemptions /\ slip[s] # Nil /\ slip[s] \in CodesSlips
  BY DEF CodesIInv, CodesSlipTypes, CodesSlipMarked
<1>1. /\ slip' \in [Slip -> CodesSlips \cup {Nil}] /\ slip'[s] # Nil
      /\ \A z \in Slip : z # s => slip'[z] = slip[z]
      /\ \A z \in Slip : slip[z] # Nil /\ slip[z].state = "USED" =>
                             slip'[z] # Nil /\ slip'[z].state = "USED"
      /\ \A z \in Slip : slip[z] # Nil => slip'[z] # Nil
  <2>1. CASE slip' = slip
    BY <1>0, <2>1 DEF CodesSlipTypes
  <2>2. CASE slip' = [slip EXCEPT ![s].state = "USED"]
    <3>1. slip'[s] \in CodesSlips /\ \A z \in Slip : z # s => slip'[z] = slip[z]
      BY <1>0, <2>2 DEF CodesSlipTypes, CodesSlips
    <3>2. slip'[s] # Nil
      BY <3>1 DEF CodesDistinct
    <3>3. QED
      BY <1>0, <2>2, <3>1, <3>2 DEF CodesSlipTypes
  <2>3. QED
    BY <2>1, <2>2
<1>2. CodesOtpTypes' /\ CodesOtpClean'
  BY CodesOtpStays
<1>3. CASE redeeming' = [redeeming EXCEPT ![v].marked = TRUE] /\ redeemed' = redeemed
  <2>1. /\ redeeming'[v] \in CodesRedemptions /\ redeeming'[v].slip = s
        /\ \A w \in Verifier : w # v => redeeming'[w] = redeeming[w]
    BY <1>0, <1>3 DEF CodesSlipTypes, CodesRedemptions
  <2>2. CodesSlipTypes'
    BY <1>0, <1>1, <1>3, <2>1 DEF CodesSlipTypes
  <2>3. CodesAlone'
    <3>1. \A w \in Verifier : CodesBusy(w)' => CodesBusy(w)
      BY <2>1 DEF CodesBusy, CodesPart!otpVars
    <3>2. QED
      BY <1>0, <3>1, CodesFewer
  <2>4. CodesSlipMarked'
    <3>1. ASSUME NEW w \in Verifier, redeeming'[w] # Nil
          PROVE  /\ slip'[redeeming'[w].slip] # Nil
                 /\ redeeming'[w].marked => slip'[redeeming'[w].slip].state = "USED"
      <4>1. CASE w = v
        BY <1>1, <2>1, <4>1
      <4>2. CASE w # v
        <5>1. /\ redeeming'[w] = redeeming[w] /\ redeeming[w].slip \in Slip
              /\ slip[redeeming[w].slip] # Nil
              /\ redeeming[w].marked => slip[redeeming[w].slip].state = "USED"
          BY <1>0, <2>1, <3>1, <4>2 DEF CodesSlipTypes, CodesRedemptions, CodesSlipMarked
        <5>2. QED
          BY <1>1, <5>1
      <4>3. QED
        BY <4>1, <4>2
    <3>2. QED
      BY <1>0, <1>1, <1>3, <3>1 DEF CodesSlipMarked
  <2>5. CodesSlipClean'
    BY <1>0, <1>3, <2>1 DEF CodesSlipClean
  <2>6. QED
    BY <1>2, <2>2, <2>3, <2>4, <2>5 DEF CodesIInv
<1>4. CASE /\ redeeming' = [redeeming EXCEPT ![v] = Nil]
           /\ redeemed' = [redeemed EXCEPT ![s] = @ + 1]
  <2>1. /\ redeeming'[v] = Nil
        /\ \A w \in Verifier : w # v => redeeming'[w] = redeeming[w]
    BY <1>0, <1>4 DEF CodesSlipTypes
  <2>2. CodesSlipTypes'
    BY <1>0, <1>1, <1>4 DEF CodesSlipTypes
  <2>3. CodesAlone'
    <3>1. \A w \in Verifier : CodesBusy(w)' => CodesBusy(w)
      BY <2>1 DEF CodesBusy, CodesPart!otpVars
    <3>2. QED
      BY <1>0, <3>1, CodesFewer
  <2>4. CodesSlipMarked'
    <3>1. ASSUME NEW w \in Verifier, redeeming'[w] # Nil
          PROVE  /\ slip'[redeeming'[w].slip] # Nil
                 /\ redeeming'[w].marked => slip'[redeeming'[w].slip].state = "USED"
      <4>1. /\ redeeming'[w] = redeeming[w] /\ redeeming[w].slip \in Slip
            /\ slip[redeeming[w].slip] # Nil
            /\ redeeming[w].marked => slip[redeeming[w].slip].state = "USED"
        BY <1>0, <2>1, <3>1 DEF CodesSlipTypes, CodesRedemptions, CodesSlipMarked
      <4>2. QED
        BY <1>1, <4>1
    <3>2. \A z \in Slip : z # s => redeemed'[z] = redeemed[z]
      BY <1>0, <1>4 DEF CodesSlipTypes
    <3>3. QED
      BY <1>0, <1>1, <3>1, <3>2 DEF CodesSlipMarked
  <2>5. ASSUME ~disturbed' PROVE CodesSlipClean'
    <3>1. redeemed[s] = 0 /\ \A w \in Verifier : redeeming'[w] = Nil
      BY <1>0, <2>1, <2>5 DEF CodesSlipClean, CodesAlone, CodesBusy
    <3>2. redeemed'[s] = 1 /\ \A z \in Slip : z # s => redeemed'[z] = redeemed[z]
      BY <1>0, <1>4, <3>1 DEF CodesSlipTypes
    <3>3. QED
      BY <1>0, <2>5, <3>1, <3>2 DEF CodesSlipClean
  <2>6. CodesSlipClean'
    BY <2>5 DEF CodesSlipClean
  <2>7. QED
    BY <1>2, <2>2, <2>3, <2>4, <2>6 DEF CodesIInv
<1>5. QED
  BY <1>3, <1>4

LEMMA CodesStepIInv ==
    ASSUME CodesBounds, CodesDistinct, CodesIInv, CodesPart!Next \/ UNCHANGED codeVars
    PROVE  CodesIInv'
<1>0. /\ CodesOtpTypes /\ CodesSlipTypes /\ CodesAlone
      /\ CodesOtpClean /\ CodesSlipMarked /\ CodesSlipClean
  BY DEF CodesIInv
<1>1. CASE CodesPart!Generate
  BY <1>1, CodesGenerates
<1>2. ASSUME NEW v \in Verifier, NEW guess \in 0..issued, CodesPart!Verify(v, guess)
      PROVE  CodesIInv'
  BY <1>2, CodesVerifies
<1>3. ASSUME NEW v \in Verifier, CodesPart!Conclude(v)
      PROVE  CodesIInv'
  BY <1>3, CodesConcludes
<1>4. CASE CodesPart!Outage
  <2>1. /\ disturbed'
        /\ UNCHANGED <<redis, memory, issued, verifying, accepted, wrong, slip, redeeming, redeemed>>
    BY <1>4 DEF CodesPart!Outage, CodesPart!slipVars
  <2>2. CodesOtpTypes' /\ CodesOtpClean' /\ CodesAlone'
    BY <1>0, <2>1 DEF CodesOtpTypes, CodesOtpClean, CodesAlone
  <2>3. QED
    BY <2>1, <2>2, CodesSlipsStay DEF CodesIInv
<1>5. CASE CodesPart!Expire
  <2>1. /\ (redis' = Nil /\ memory' = memory) \/ (memory' = Nil /\ redis' = redis)
        /\ UNCHANGED <<reachable, issued, verifying, accepted, wrong, slip, redeeming, redeemed, disturbed>>
    BY <1>5 DEF CodesPart!Expire, CodesPart!slipVars
  <2>2. CodesOtpTypes' /\ CodesAlone'
    BY <1>0, <2>1 DEF CodesOtpTypes, CodesAlone, CodesBusy
  <2>3. CodesOtpClean'
    BY <1>0, <2>1 DEF CodesOtpClean, CodesCurrent
  <2>4. QED
    BY <2>1, <2>2, <2>3, CodesSlipsStay DEF CodesIInv
<1>6. ASSUME NEW s \in Slip, NEW r \in CodesSlips,
             slip' = [slip EXCEPT ![s] = r],
             slip[s] = Nil \/ (slip[s] # Nil /\ slip[s].state = "OPEN"),
             UNCHANGED <<CodesPart!otpVars, redeeming, redeemed, disturbed>>
      PROVE  CodesIInv'
  <2>1. slip'[s] = r /\ r # Nil /\ \A z \in Slip : z # s => slip'[z] = slip[z]
    BY <1>0, <1>6 DEF CodesSlipTypes, CodesDistinct
  <2>2. CodesSlipTypes' /\ CodesSlipClean' /\ CodesAlone'
    BY <1>0, <1>6 DEF CodesSlipTypes, CodesSlipClean, CodesAlone, CodesBusy, CodesPart!otpVars
  <2>3. \A z \in Slip : z = s => ~(redeemed[z] > 0)
    BY <1>0, <1>6 DEF CodesSlipMarked
  <2>4. ASSUME NEW v \in Verifier, redeeming'[v] # Nil
        PROVE  /\ slip'[redeeming'[v].slip] # Nil
               /\ redeeming'[v].marked => slip'[redeeming'[v].slip].state = "USED"
    <3>1. /\ redeeming'[v] = redeeming[v] /\ redeeming[v].slip \in Slip
          /\ slip[redeeming[v].slip] # Nil
          /\ redeeming[v].marked => slip[redeeming[v].slip].state = "USED"
      BY <1>0, <1>6, <2>4 DEF CodesSlipTypes, CodesRedemptions, CodesSlipMarked
    <3>2. QED
      BY <1>6, <2>1, <3>1
  <2>5. CodesSlipMarked'
    BY <1>0, <1>6, <2>1, <2>3, <2>4 DEF CodesSlipMarked
  <2>6. QED
    BY <1>6, <2>2, <2>5, CodesOtpStays DEF CodesIInv
<1>7. ASSUME NEW s \in Slip, NEW k \in CodesPart!SlipKind, CodesPart!IssueSlip(s, k)
      PROVE  CodesIInv'
  <2>1. [kind |-> k, state |-> "OPEN"] \in CodesSlips
    BY DEF CodesSlips
  <2>2. QED
    BY <1>6, <1>7, <2>1 DEF CodesPart!IssueSlip
<1>8. ASSUME NEW s \in Slip, CodesPart!ExpireSlip(s)
      PROVE  CodesIInv'
  <2> DEFINE r == [slip[s] EXCEPT !.state = "EXPIRED"]
  <2>1. /\ slip[s] # Nil /\ slip[s].state = "OPEN" /\ slip' = [slip EXCEPT ![s] = r]
        /\ UNCHANGED <<CodesPart!otpVars, redeeming, redeemed, disturbed>>
    BY <1>8 DEF CodesPart!ExpireSlip
  <2>2. r \in CodesSlips
    BY <1>0, <2>1 DEF CodesSlipTypes, CodesSlips
  <2>3. QED
    BY <1>6, <2>1, <2>2
<1>9. ASSUME NEW v \in Verifier, NEW s \in Slip, CodesPart!Present(v, s)
      PROVE  CodesIInv'
  <2> DEFINE call == [slip |-> s, marked |-> FALSE]
  <2>1. /\ verifying[v] = Nil /\ redeeming[v] = Nil /\ slip[s] # Nil /\ slip[s].state = "OPEN"
        /\ redeeming' = [redeeming EXCEPT ![v] = call]
        /\ disturbed' = (disturbed \/ CodesPart!Busy({v}))
        /\ UNCHANGED <<CodesPart!otpVars, slip, redeemed>>
    BY <1>9 DEF CodesPart!Present
  <2>2. call \in CodesRedemptions /\ call.slip = s /\ ~call.marked
    BY DEF CodesRedemptions
  <2> HIDE DEF call
  <2>3. redeeming'[v] = call /\ \A w \in Verifier : w # v => redeeming'[w] = redeeming[w]
    BY <1>0, <2>1 DEF CodesSlipTypes
  <2>4. \A w \in Verifier : w # v => (CodesBusy(w)' <=> CodesBusy(w))
    BY <2>1, <2>3 DEF CodesBusy, CodesPart!otpVars
  <2>5. /\ disturbed => disturbed'
        /\ ~disturbed' => \A w \in Verifier : ~CodesBusy(w)
        /\ CodesAlone'
    BY <2>1, <2>4, CodesBegins
  <2>6. CodesSlipTypes'
    BY <1>0, <2>1, <2>2 DEF CodesSlipTypes
  <2>7. CodesSlipMarked'
    BY <1>0, <2>1, <2>2, <2>3 DEF CodesSlipMarked
  <2>8. redeemed[s] = 0
    BY <1>0, <2>1 DEF CodesSlipMarked, CodesSlipTypes
  <2>9. CodesSlipClean'
    BY <1>0, <2>1, <2>2, <2>3, <2>5, <2>8 DEF CodesSlipClean
  <2>10. QED
    BY <2>1, <2>5, <2>6, <2>7, <2>9, CodesOtpStays DEF CodesIInv
<1>10. ASSUME NEW v \in Verifier, CodesPart!Reset(v) \/ CodesPart!MarkUsed(v) \/ CodesPart!SetVerified(v)
       PROVE  CodesIInv'
  <2> DEFINE s == redeeming[v].slip
  <2>1. redeeming[v] # Nil /\ UNCHANGED <<CodesPart!otpVars, disturbed>>
    BY <1>10 DEF CodesPart!Reset, CodesPart!MarkUsed, CodesPart!SetVerified
  <2>2. s \in Slip /\ slip[s] # Nil /\ (redeeming[v].marked => slip[s].state = "USED")
    BY <1>0, <2>1 DEF CodesSlipTypes, CodesRedemptions, CodesSlipMarked
  <2>3. slip' = [slip EXCEPT ![s].state = "USED"] => slip'[s].state = "USED"
    BY <1>0, <2>2 DEF CodesSlipTypes, CodesSlips
  <2>4. \/ slip' = [slip EXCEPT ![s].state = "USED"]
        \/ slip' = slip /\ slip[s].state = "USED"
    BY <1>10, <2>2 DEF CodesPart!Reset, CodesPart!MarkUsed, CodesPart!SetVerified
  <2>5. \/ /\ redeeming' = [redeeming EXCEPT ![v].marked = TRUE] /\ redeemed' = redeemed
        \/ /\ redeeming' = [redeeming EXCEPT ![v] = Nil]
           /\ redeemed' = [redeemed EXCEPT ![s] = @ + 1]
    BY <1>10 DEF CodesPart!Reset, CodesPart!MarkUsed, CodesPart!SetVerified, CodesPart!Serve
  <2>6. QED
    BY <2>1, <2>2, <2>3, <2>4, <2>5, CodesSlipTaken
<1>11. CASE CodesPart!Restart
  <2>1. /\ memory' = Nil /\ verifying' = [v \in Verifier |-> Nil]
        /\ redeeming' = [v \in Verifier |-> Nil]
        /\ UNCHANGED <<redis, reachable, issued, accepted, wrong, slip, redeemed, disturbed>>
    BY <1>11 DEF CodesPart!Restart
  <2>2. CodesOtpTypes' /\ CodesSlipTypes'
    BY <1>0, <2>1 DEF CodesOtpTypes, CodesSlipTypes
  <2>3. CodesAlone' /\ CodesOtpClean' /\ CodesSlipMarked' /\ CodesSlipClean'
    BY <1>0, <2>1
    DEF CodesAlone, CodesBusy, CodesOtpClean, CodesCurrent, CodesSlipMarked, CodesSlipClean
  <2>4. QED
    BY <2>2, <2>3 DEF CodesIInv
<1>12. CASE UNCHANGED codeVars
  <2>1. /\ UNCHANGED <<redis, memory, reachable, issued, verifying, accepted, wrong>>
        /\ UNCHANGED <<slip, redeeming, redeemed, disturbed>>
    BY <1>12 DEF codeVars
  <2>2. CodesAlone'
    BY <1>0, <2>1 DEF CodesAlone, CodesBusy
  <2>3. QED
    BY <2>1, <2>2, CodesOtpStays, CodesSlipsStay DEF CodesIInv, CodesPart!otpVars
<1>13. QED
  BY <1>1, <1>2, <1>3, <1>4, <1>5, <1>7, <1>8, <1>9, <1>10, <1>11, <1>12 DEF CodesPart!Next

\* A step leaves the flags as they are or writes a truth value.
LEMMA CodesFlagsStep ==
    ASSUME CodesFlags, CodesPart!Next \/ UNCHANGED codeVars
    PROVE  CodesFlags'
<1>1. ASSUME disturbed' = disturbed \/ disturbed' = TRUE, reachable' = reachable
      PROVE  CodesFlags'
  BY <1>1 DEF CodesFlags
<1>2. ASSUME NEW W, disturbed' = (disturbed \/ CodesPart!Busy(W)), reachable' = reachable
      PROVE  CodesFlags'
  BY <1>2 DEF CodesFlags
<1>3. CASE CodesPart!Outage
  BY <1>3 DEF CodesPart!Outage, CodesFlags
<1>4. CASE \/ CodesPart!Generate
           \/ \E v \in Verifier, guess \in 0..issued : CodesPart!Verify(v, guess)
           \/ \E v \in Verifier, s \in Slip : CodesPart!Present(v, s)
  BY <1>2, <1>4 DEF CodesPart!Generate, CodesPart!Verify, CodesPart!Present, CodesPart!otpVars
<1>5. CASE \/ \E v \in Verifier : CodesPart!Conclude(v) \/ CodesPart!Reset(v)
                                   \/ CodesPart!MarkUsed(v) \/ CodesPart!SetVerified(v)
           \/ CodesPart!Expire \/ CodesPart!Restart \/ UNCHANGED codeVars
           \/ \E s \in Slip, k \in CodesPart!SlipKind : CodesPart!IssueSlip(s, k)
           \/ \E s \in Slip : CodesPart!ExpireSlip(s)
  BY <1>1, <1>5
  DEF CodesPart!Conclude, CodesPart!Reset, CodesPart!MarkUsed, CodesPart!SetVerified,
      CodesPart!Expire, CodesPart!Restart, CodesPart!IssueSlip, CodesPart!ExpireSlip,
      CodesPart!otpVars, codeVars
<1>6. QED
  BY <1>3, <1>4, <1>5 DEF CodesPart!Next

LEMMA CodesSuffice ==
    ASSUME CodesBounds, CodesDistinct, CodesIInv, CodesFlags
    PROVE  CodesPart!TypeOK /\ CodesPart!UsedOnce /\ CodesPart!GuessesCounted
<1>1. CodesPart!TypeOK
  BY DEF CodesIInv, CodesFlags, CodesOtpTypes, CodesSlipTypes, CodesVerifications, CodesSlips,
         CodesRedemptions, CodesPart!TypeOK
<1>2. CodesPart!UsedOnce
  BY DEF CodesIInv, CodesSlipMarked, CodesSlipClean, CodesOtpClean, CodesCurrent,
         CodesPart!UsedOnce
<1>3. CodesPart!GuessesCounted
  BY DEF CodesIInv, CodesOtpClean, CodesPart!GuessesCounted
<1>4. QED
  BY <1>1, <1>2, <1>3

\* OtpService and the slips of verify-otp and reset-password: each serves
\* once, after its mark, and wrong guesses are counted, until calls overlap.
THEOREM CodesHoldCorrect ==
    ASSUME CodesBounds, CodesDistinct
    PROVE  Spec => []CodesHold
<1>1. Init => CodesIInv /\ CodesFlags
  <2>1. CodesPart!Init => CodesFlags
    BY DEF CodesPart!Init, CodesFlags
  <2>2. QED
    BY <2>1, CodesInitIInv DEF Init
<1>2. CodesIInv /\ CodesFlags /\ [Next]_vars => (CodesIInv /\ CodesFlags)'
  <2>1. ASSUME CodesIInv, CodesFlags, [Next]_vars
        PROVE  CodesIInv' /\ CodesFlags'
    <3>1. CodesPart!Next \/ UNCHANGED codeVars
      BY <2>1, OnePart
    <3>2. QED
      BY <2>1, <3>1, CodesStepIInv, CodesFlagsStep
  <2>2. QED
    BY <2>1
<1>3. CodesIInv /\ CodesFlags => CodesHold
  BY CodesSuffice DEF CodesHold
<1>4. QED
  BY <1>1, <1>2, <1>3, PTL DEF Spec

-----------------------------------------------------------------------------
(* The sums of the parts are those of SumLemmas.                            *)

LEMMA SettlementsSums ==
    ASSUME NEW f
    PROVE  SettlementsPart!SumFunction(f) = SumFunctionOnSet(f, DOMAIN f)
BY DEF SettlementsPart!SumFunction, SettlementsPart!SumFunctionOnSet,
       SettlementsPart!FoldFunctionOnSet, SettlementsPart!MapThenFoldSet,
       SumFunctionOnSet, FoldFunctionOnSet, MapThenFoldSet

LEMMA SettlementsCounts ==
    ASSUME NEW S
    PROVE  SettlementsPart!Cardinality(S) = Cardinality(S)
BY DEF SettlementsPart!Cardinality, SettlementsPart!IsFiniteSet, Cardinality, IsFiniteSet

LEMMA ReportsSums ==
    ASSUME NEW f
    PROVE  ReportsPart!SumFunction(f) = SumFunctionOnSet(f, DOMAIN f)
BY DEF ReportsPart!SumFunction, ReportsPart!SumFunctionOnSet,
       ReportsPart!FoldFunctionOnSet, ReportsPart!MapThenFoldSet,
       SumFunctionOnSet, FoldFunctionOnSet, MapThenFoldSet

-----------------------------------------------------------------------------
(* Settlements: for any finite sets of partners and periods and any amounts, *)
(* their types and that totals read while nothing changed add up.            *)

SettlementsRows == [net : Net, status : SettlementsPart!Status]

SettlementsTypes ==
    /\ settlement \in [SettlementsPart!Key -> SettlementsRows \cup {Nil}]
    /\ \E n \in 0 .. 6 : DOMAIN stats = {SettlementsPart!Queries[i] : i \in 1 .. n}

\* What was read is so still, if no settlement has changed since.
SettlementsRead ==
    ~moved => \A q \in DOMAIN stats : stats[q] = SettlementsPart!Answers[q]

SettlementsIInv == SettlementsTypes /\ SettlementsRead

SettlementsFinite ==
    IsFiniteSet(Employer) /\ IsFiniteSet(Period) /\ Net \subseteq Int /\ Nil \notin SettlementsRows

-----------------------------------------------------------------------------
\* What is still to be paid and what was paid make all, in money and number.
LEMMA SettlementsAddUp ==
    ASSUME SettlementsFinite, SettlementsTypes
    PROVE  /\ SettlementsPart!NetOf({"OPEN", "APPROVED"}) + SettlementsPart!NetOf({"PAID"})
                = SettlementsPart!NetOf(SettlementsPart!Status)
           /\ SettlementsPart!Count({"OPEN"}) + SettlementsPart!Count({"APPROVED"})
                + SettlementsPart!Count({"PAID"}) = SettlementsPart!Count(SettlementsPart!Status)
<1> DEFINE All == SettlementsPart!Having(SettlementsPart!Status)
           Due == SettlementsPart!Having({"OPEN", "APPROVED"})
           Done == SettlementsPart!Having({"PAID"})
           net == [k \in All |-> settlement[k].net]
<1>1. All = Due \cup Done /\ Due \cap Done = {}
  BY DEF SettlementsPart!Having, SettlementsPart!Status
<1>2. \A k \in All : net[k] \in Int
  BY DEF SettlementsTypes, SettlementsRows, SettlementsFinite, SettlementsPart!Having
<1>3. IsFiniteSet(All) /\ IsFiniteSet(Due) /\ IsFiniteSet(Done)
  <2>1. IsFiniteSet(SettlementsPart!Key)
    BY FS_Product DEF SettlementsPart!Key, SettlementsFinite
  <2>2. All \subseteq SettlementsPart!Key
    BY DEF SettlementsPart!Having
  <2> HIDE DEF All, Due, Done
  <2>3. QED
    BY <1>1, <2>1, <2>2, FS_Subset
<1>4. ASSUME NEW statuses, SettlementsPart!Having(statuses) \subseteq All
      PROVE  SettlementsPart!NetOf(statuses) = SumFunctionOnSet(net, SettlementsPart!Having(statuses))
  <2> DEFINE own == [k \in SettlementsPart!Having(statuses) |-> settlement[k].net]
  <2>1. SettlementsPart!NetOf(statuses) = SumFunctionOnSet(own, SettlementsPart!Having(statuses))
    BY SettlementsSums DEF SettlementsPart!NetOf
  <2>2. IsFiniteSet(SettlementsPart!Having(statuses))
    BY <1>3, <1>4, FS_Subset
  <2>3. \A k \in SettlementsPart!Having(statuses) : own[k] = net[k]
    BY <1>4
  <2> HIDE DEF own, net
  <2>4. QED
    BY <2>1, <2>2, <2>3, SumSame
<1>5. /\ SettlementsPart!NetOf({"OPEN", "APPROVED"}) = SumFunctionOnSet(net, Due)
      /\ SettlementsPart!NetOf({"PAID"}) = SumFunctionOnSet(net, Done)
      /\ SettlementsPart!NetOf(SettlementsPart!Status) = SumFunctionOnSet(net, All)
  BY <1>1, <1>4
<1> HIDE DEF All, Due, Done, net
<1>6. SumFunctionOnSet(net, Due \cup Done) = SumFunctionOnSet(net, Due) + SumFunctionOnSet(net, Done)
  BY <1>1, <1>2, <1>3, SumUnion
<1>7. ASSUME NEW S, NEW T, S \cup T \subseteq All, S \cap T = {}
      PROVE  /\ Cardinality(S \cup T) = Cardinality(S) + Cardinality(T)
             /\ Cardinality(S) \in Nat /\ Cardinality(T) \in Nat
  <2>1. IsFiniteSet(S) /\ IsFiniteSet(T)
    BY <1>3, <1>7, FS_Subset
  <2>2. /\ Cardinality(S \cup T) = Cardinality(S) + Cardinality(T) - Cardinality(S \cap T)
        /\ Cardinality(S \cap T) = 0
        /\ Cardinality(S) \in Nat /\ Cardinality(T) \in Nat
    BY <1>7, <2>1, FS_Union, FS_EmptySet, FS_CardinalityType
  <2>3. QED
    BY <2>2
<1>8. SettlementsPart!Count({"OPEN"}) + SettlementsPart!Count({"APPROVED"})
        + SettlementsPart!Count({"PAID"}) = SettlementsPart!Count(SettlementsPart!Status)
  <2> DEFINE Open == SettlementsPart!Having({"OPEN"})
             Approved == SettlementsPart!Having({"APPROVED"})
  <2>1. Open \cup Approved = Due /\ Open \cap Approved = {}
    BY DEF Due, SettlementsPart!Having
  <2>2. \A statuses : SettlementsPart!Count(statuses) = Cardinality(SettlementsPart!Having(statuses))
    BY SettlementsCounts DEF SettlementsPart!Count
  <2>3. /\ SettlementsPart!Count({"OPEN"}) = Cardinality(Open)
        /\ SettlementsPart!Count({"APPROVED"}) = Cardinality(Approved)
        /\ SettlementsPart!Count({"PAID"}) = Cardinality(Done)
        /\ SettlementsPart!Count(SettlementsPart!Status) = Cardinality(All)
    BY <2>2 DEF Done, All
  <2> HIDE DEF Open, Approved
  <2>4. /\ Cardinality(Due) = Cardinality(Open) + Cardinality(Approved)
        /\ Cardinality(Open) \in Nat /\ Cardinality(Approved) \in Nat
    BY <1>1, <1>7, <2>1
  <2>5. Cardinality(All) = Cardinality(Due) + Cardinality(Done) /\ Cardinality(Done) \in Nat
    BY <1>1, <1>7
  <2>6. QED
    BY <2>3, <2>4, <2>5
<1>9. QED
  BY <1>1, <1>5, <1>6, <1>8

LEMMA SettlementsStepIInv ==
    ASSUME SettlementsIInv, SettlementsPart!Next \/ UNCHANGED settlementVars
    PROVE  SettlementsIInv'
<1>1. ASSUME NEW k \in SettlementsPart!Key, NEW r \in SettlementsRows, SettlementsPart!Set(k, r)
      PROVE  SettlementsIInv'
  <2>1. /\ settlement' = [settlement EXCEPT ![k] = r]
        /\ moved' = (moved \/ DOMAIN stats # {}) /\ stats' = stats
    BY <1>1 DEF SettlementsPart!Set
  <2>2. SettlementsTypes'
    BY <2>1 DEF SettlementsIInv, SettlementsTypes
  <2>3. ~moved' => DOMAIN stats' = {}
    BY <2>1
  <2>4. SettlementsRead'
    BY <2>3 DEF SettlementsRead
  <2>5. QED
    BY <2>2, <2>4 DEF SettlementsIInv
<1>2. ASSUME NEW k \in SettlementsPart!Key, NEW net \in Net, SettlementsPart!CreateSettlement(k, net)
      PROVE  SettlementsIInv'
  <2>1. [net |-> net, status |-> "OPEN"] \in SettlementsRows
    BY DEF SettlementsRows, SettlementsPart!Status
  <2>2. QED
    BY <1>1, <1>2, <2>1 DEF SettlementsPart!CreateSettlement
<1>3. ASSUME NEW k \in SettlementsPart!Key,
             SettlementsPart!ApproveSettlement(k) \/ SettlementsPart!PaySettlement(k)
      PROVE  SettlementsIInv'
  <2>1. settlement[k] \in SettlementsRows
    BY <1>3 DEF SettlementsPart!ApproveSettlement, SettlementsPart!PaySettlement,
                SettlementsIInv, SettlementsTypes
  <2>2. /\ [settlement[k] EXCEPT !.status = "APPROVED"] \in SettlementsRows
        /\ [settlement[k] EXCEPT !.status = "PAID"] \in SettlementsRows
    BY <2>1 DEF SettlementsRows, SettlementsPart!Status
  <2>3. QED
    BY <1>1, <1>3, <2>2 DEF SettlementsPart!ApproveSettlement, SettlementsPart!PaySettlement
<1>4. ASSUME SettlementsPart!ReadStats
      PROVE  SettlementsIInv'
  <2>1. UNCHANGED <<settlement, moved>>
    BY <1>4 DEF SettlementsPart!ReadStats
  <2>2. PICK n \in 1 .. 6 :
          /\ DOMAIN stats = {SettlementsPart!Queries[i] : i \in 1 .. n - 1}
          /\ stats' = [q \in DOMAIN stats \cup {SettlementsPart!Queries[n]} |->
                          IF q \in DOMAIN stats THEN stats[q] ELSE SettlementsPart!Answers[q]]
    <3>1. DOMAIN SettlementsPart!Queries = 1 .. 6
      BY DEF SettlementsPart!Queries
    <3>2. QED
      BY <1>4, <3>1 DEF SettlementsPart!ReadStats
  <2>3. SettlementsTypes'
    <3>1. DOMAIN stats' = {SettlementsPart!Queries[i] : i \in 1 .. n}
      BY <2>2
    <3>2. SettlementsPart!Queries' = SettlementsPart!Queries
      BY DEF SettlementsPart!Queries
    <3>3. QED
      BY <2>1, <3>1, <3>2 DEF SettlementsIInv, SettlementsTypes
  <2>4. SettlementsRead'
    <3>1. SettlementsPart!Answers' = SettlementsPart!Answers
      BY <2>1 DEF SettlementsPart!Answers, SettlementsPart!Count, SettlementsPart!NetOf,
                  SettlementsPart!Having, SettlementsPart!Status
    <3>2. QED
      BY <2>1, <2>2, <3>1 DEF SettlementsIInv, SettlementsRead
  <2>5. QED
    BY <2>3, <2>4 DEF SettlementsIInv
<1>5. CASE SettlementsPart!StatsShown
  <2>1. stats' = << >> /\ settlement' = settlement /\ DOMAIN stats' = {}
    BY <1>5 DEF SettlementsPart!StatsShown
  <2>2. DOMAIN stats' = {SettlementsPart!Queries[i] : i \in 1 .. 0}
    BY <2>1
  <2>3. QED
    BY <2>1, <2>2 DEF SettlementsIInv, SettlementsTypes, SettlementsRead, SettlementsPart!Queries
<1>6. CASE UNCHANGED settlementVars
  BY <1>6 DEF settlementVars, SettlementsIInv, SettlementsTypes, SettlementsRead,
              SettlementsPart!Queries, SettlementsPart!Answers, SettlementsPart!Count,
              SettlementsPart!Having, SettlementsPart!NetOf
<1>7. QED
  BY <1>2, <1>3, <1>4, <1>5, <1>6 DEF SettlementsPart!Next

LEMMA SettlementsInitIInv ==
    ASSUME SettlementsPart!Init
    PROVE  SettlementsIInv /\ moved \in BOOLEAN
<1>1. moved = FALSE /\ DOMAIN stats = {}
  BY DEF SettlementsPart!Init
<1>2. SettlementsTypes
  <2>1. DOMAIN stats = {SettlementsPart!Queries[i] : i \in 1 .. 0}
    BY <1>1
  <2>2. QED
    BY <2>1 DEF SettlementsPart!Init, SettlementsTypes
<1>3. SettlementsRead
  BY <1>1 DEF SettlementsRead
<1>4. moved \in BOOLEAN
  BY <1>1
<1>5. QED
  BY <1>2, <1>3, <1>4 DEF SettlementsIInv

LEMMA SettlementsFlagStep ==
    ASSUME moved \in BOOLEAN, SettlementsPart!Next \/ UNCHANGED settlementVars
    PROVE  moved' \in BOOLEAN
<1>1. ASSUME NEW k, NEW r, SettlementsPart!Set(k, r) PROVE moved' \in BOOLEAN
  BY <1>1 DEF SettlementsPart!Set
<1>2. CASE SettlementsPart!ReadStats \/ SettlementsPart!StatsShown \/ UNCHANGED settlementVars
  BY <1>2 DEF SettlementsPart!ReadStats, SettlementsPart!StatsShown, settlementVars
<1>3. QED
  BY <1>1, <1>2
  DEF SettlementsPart!Next, SettlementsPart!CreateSettlement,
      SettlementsPart!ApproveSettlement, SettlementsPart!PaySettlement

LEMMA SettlementsSuffice ==
    ASSUME SettlementsFinite, SettlementsIInv, moved \in BOOLEAN
    PROVE  SettlementsPart!TypeOK /\ SettlementsPart!TotalsAddUp
<1> DEFINE names == {"total", "open", "approved", "paid", "pendingSum", "paidSum"}
<1>1. PICK n \in 0 .. 6 : DOMAIN stats = {SettlementsPart!Queries[i] : i \in 1 .. n}
  BY DEF SettlementsIInv, SettlementsTypes
<1>2. DOMAIN stats \subseteq names
  BY <1>1 DEF SettlementsPart!Queries
<1>3. "paidSum" \in DOMAIN stats => n = 6
  BY <1>1 DEF SettlementsPart!Queries
<1>4. n = 6 => names \subseteq DOMAIN stats
  BY <1>1 DEF SettlementsPart!Queries
<1>5. SettlementsPart!TypeOK
  BY <1>2 DEF SettlementsIInv, SettlementsTypes, SettlementsRows, SettlementsPart!TypeOK
<1>6. ASSUME "paidSum" \in DOMAIN stats, ~moved
      PROVE  /\ stats.pendingSum + stats.paidSum = SettlementsPart!NetOf(SettlementsPart!Status)
             /\ stats.open + stats.approved + stats.paid = stats.total
  <2>1. \A q \in names : stats[q] = SettlementsPart!Answers[q]
    BY <1>3, <1>4, <1>6 DEF SettlementsIInv, SettlementsRead
  <2>2. /\ stats.total = SettlementsPart!Count(SettlementsPart!Status)
        /\ stats.open = SettlementsPart!Count({"OPEN"})
        /\ stats.approved = SettlementsPart!Count({"APPROVED"})
        /\ stats.paid = SettlementsPart!Count({"PAID"})
        /\ stats.pendingSum = SettlementsPart!NetOf({"OPEN", "APPROVED"})
        /\ stats.paidSum = SettlementsPart!NetOf({"PAID"})
    BY <2>1 DEF SettlementsPart!Answers
  <2>3. QED
    BY <2>2, SettlementsAddUp DEF SettlementsIInv
<1>7. QED
  BY <1>5, <1>6 DEF SettlementsPart!TotalsAddUp

-----------------------------------------------------------------------------
(* The reports: for any finite sets of sales and days, any amounts and any   *)
(* length of a month, that they agree and that a payment is filed once.      *)

ReportsFinite ==
    /\ IsFiniteSet(Sale) /\ IsFiniteSet(Day)
    /\ Amount \subseteq Int
    /\ MonthDays \in Nat \ {0} /\ Months \in Nat /\ Day \subseteq 1 .. Months * MonthDays
    /\ Nil \notin ReportsPart!SaleRow

ReportsTypes == sale \in [Sale -> ReportsPart!SaleRow \cup {Nil}]

\* An entry has its rule: the rule is not deleted while it has entries.
ReportsRuled == (\E s \in ReportsPart!Sales : sale[s].commission # "NONE") => rulePresent

ReportsIInv == ReportsTypes /\ ReportsRuled
ReportsFlags == rulePresent \in BOOLEAN /\ deletingRule \in BOOLEAN

\* What the sums are made of.
ReportsTotals == [s \in ReportsPart!Sales |-> sale[s].total]
ReportsEntries == [s \in ReportsPart!Sales |-> ReportsPart!CommissionOf(s)]

-----------------------------------------------------------------------------
LEMMA ReportsRow ==
    ASSUME ReportsFinite, ReportsTypes, NEW s \in ReportsPart!Sales
    PROVE  /\ sale[s] \in ReportsPart!SaleRow
           /\ s \in Sale
           /\ sale[s].total \in Int
           /\ sale[s].day \in Day
           /\ sale[s].payment \in ReportsPart!PaymentStatus
           /\ sale[s].booking \in ReportsPart!BookingStatus
           /\ sale[s].commission \in ReportsPart!EntryStatus \cup {"NONE"}
<1>1. s \in Sale /\ sale[s] \in ReportsPart!SaleRow
  BY DEF ReportsTypes, ReportsPart!Sales
<1>2. QED
  BY <1>1 DEF ReportsPart!SaleRow, ReportsFinite

LEMMA ReportsEntryType ==
    ASSUME ReportsFinite, ReportsTypes, NEW s \in ReportsPart!Sales
    PROVE  ReportsPart!CommissionOf(s) \in Int
<1>1. sale[s].total \in Int
  BY ReportsRow
<1>2. ASSUME NEW n \in Int PROVE ReportsPart!RoundedBps(n, 1000) \in Int
  BY DEF ReportsPart!RoundedBps
<1>3. QED
  BY <1>1, <1>2 DEF ReportsPart!CommissionOf

LEMMA ReportsSalesFinite ==
    ASSUME ReportsFinite, NEW S \in SUBSET ReportsPart!Sales
    PROVE  IsFiniteSet(S)
<1>1. S \subseteq Sale
  BY DEF ReportsPart!Sales
<1>2. QED
  BY <1>1, FS_Subset DEF ReportsFinite

\* The totals of some sales, and the commissions of some, are sums of the
\* same two functions.
LEMMA ReportsTotal ==
    ASSUME ReportsFinite, ReportsTypes, NEW S \in SUBSET ReportsPart!Sales
    PROVE  /\ ReportsPart!Total(S) = SumFunctionOnSet(ReportsTotals, S)
           /\ ReportsPart!Total(S) \in Int
<1> DEFINE own == [s \in S |-> sale[s].total]
<1>1. ReportsPart!Total(S) = SumFunctionOnSet(own, S)
  BY ReportsSums DEF ReportsPart!Total
<1>2. IsFiniteSet(S)
  BY ReportsSalesFinite
<1>3. \A s \in S : own[s] = ReportsTotals[s] /\ own[s] \in Int
  BY ReportsRow DEF ReportsTotals
<1> HIDE DEF own
<1>4. SumFunctionOnSet(own, S) = SumFunctionOnSet(ReportsTotals, S)
  BY <1>2, <1>3, SumSame
<1>5. SumFunctionOnSet(own, S) \in Int
  BY <1>2, <1>3, SumInt
<1>6. QED
  BY <1>1, <1>4, <1>5

LEMMA ReportsCommission ==
    ASSUME ReportsFinite, ReportsTypes, NEW S \in SUBSET ReportsPart!Sales
    PROVE  /\ ReportsPart!Commission(S) = SumFunctionOnSet(ReportsEntries, S)
           /\ ReportsPart!Commission(S) \in Int
<1> DEFINE own == [s \in S |-> ReportsPart!CommissionOf(s)]
<1>1. ReportsPart!Commission(S) = SumFunctionOnSet(own, S)
  BY ReportsSums DEF ReportsPart!Commission
<1>2. IsFiniteSet(S)
  BY ReportsSalesFinite
<1>3. \A s \in S : own[s] = ReportsEntries[s] /\ own[s] \in Int
  BY ReportsEntryType DEF ReportsEntries
<1> HIDE DEF own
<1>4. SumFunctionOnSet(own, S) = SumFunctionOnSet(ReportsEntries, S)
  BY <1>2, <1>3, SumSame
<1>5. SumFunctionOnSet(own, S) \in Int
  BY <1>2, <1>3, SumInt
<1>6. QED
  BY <1>1, <1>4, <1>5

LEMMA ReportsValues ==
    ASSUME ReportsFinite, ReportsTypes
    PROVE  \A s \in ReportsPart!Sales : ReportsTotals[s] \in Int /\ ReportsEntries[s] \in Int
BY ReportsRow, ReportsEntryType DEF ReportsTotals, ReportsEntries

LEMMA ReportsKinds ==
    /\ IsFiniteSet(ReportsPart!PaymentStatus)
    /\ IsFiniteSet(ReportsPart!EntryStatus)
<1>2. IsFiniteSet(ReportsPart!EntryStatus)
  <2>1. IsFiniteSet({"PENDING"} \cup {"PAID"})
    BY FS_Singleton, FS_AddElement
  <2>2. IsFiniteSet(({"PENDING"} \cup {"PAID"}) \cup {"REVERSED"})
    BY <2>1, FS_AddElement
  <2>3. ReportsPart!EntryStatus = ({"PENDING"} \cup {"PAID"}) \cup {"REVERSED"}
    BY DEF ReportsPart!EntryStatus
  <2>4. QED
    BY <2>2, <2>3
<1>3. IsFiniteSet(ReportsPart!PaymentStatus)
  <2>1. IsFiniteSet({"CAPTURED"} \cup {"SETTLED"})
    BY FS_Singleton, FS_AddElement
  <2>2. IsFiniteSet(({"CAPTURED"} \cup {"SETTLED"}) \cup {"PARTIALLY_REFUNDED"})
    BY <2>1, FS_AddElement
  <2>3. IsFiniteSet((({"CAPTURED"} \cup {"SETTLED"}) \cup {"PARTIALLY_REFUNDED"}) \cup {"OTHER"})
    BY <2>2, FS_AddElement
  <2>4. ReportsPart!PaymentStatus =
          (({"CAPTURED"} \cup {"SETTLED"}) \cup {"PARTIALLY_REFUNDED"}) \cup {"OTHER"}
    BY DEF ReportsPart!PaymentStatus
  <2>5. QED
    BY <2>3, <2>4
<1>4. QED
  BY <1>2, <1>3

-----------------------------------------------------------------------------
\* The administrators' totals by status make their gross.
LEMMA ReportsSummaryAgrees ==
    ASSUME ReportsFinite, ReportsTypes
    PROVE  ReportsPart!SumFunction(ReportsPart!AdminSummary.byStatus)
             = ReportsPart!AdminSummary.gross
<1> DEFINE all == ReportsPart!Sales
           byStatus == [p \in ReportsPart!PaymentStatus |-> ReportsPart!Total(ReportsPart!Paid(all, {p}))]
           statusOf == [s \in all |-> sale[s].payment]
<1>1. /\ ReportsPart!AdminSummary.byStatus = byStatus
      /\ ReportsPart!AdminSummary.gross = ReportsPart!Total(all)
  BY DEF ReportsPart!AdminSummary
<1>2. ReportsPart!SumFunction(byStatus) = SumFunctionOnSet(byStatus, ReportsPart!PaymentStatus)
  BY ReportsSums
<1>3. IsFiniteSet(all) /\ ReportsPart!Total(all) = SumFunctionOnSet(ReportsTotals, all)
  BY ReportsSalesFinite, ReportsTotal
<1>4. ASSUME NEW p \in ReportsPart!PaymentStatus
      PROVE  byStatus[p] = SumFunctionOnSet(ReportsTotals, {s \in all : statusOf[s] = p})
  <2>1. ReportsPart!Paid(all, {p}) = {s \in all : statusOf[s] = p}
    BY DEF ReportsPart!Paid
  <2>2. ReportsPart!Paid(all, {p}) \in SUBSET all
    BY DEF ReportsPart!Paid
  <2>3. ReportsPart!Total(ReportsPart!Paid(all, {p})) =
          SumFunctionOnSet(ReportsTotals, ReportsPart!Paid(all, {p}))
    BY <2>2, ReportsTotal
  <2>4. QED
    BY <2>1, <2>3
<1>5. \A s \in all : statusOf[s] \in ReportsPart!PaymentStatus /\ ReportsTotals[s] \in Int
  BY ReportsRow, ReportsValues
<1> HIDE DEF all, byStatus, statusOf
<1>6. SumsOfClasses(ReportsTotals, all, statusOf, byStatus, ReportsPart!PaymentStatus)
  BY <1>3, <1>4, <1>5, ReportsKinds DEF SumsOfClasses
<1>7. SumFunctionOnSet(byStatus, ReportsPart!PaymentStatus) = SumFunctionOnSet(ReportsTotals, all)
  BY <1>6, SumByClass
<1>8. QED
  BY <1>1, <1>2, <1>3, <1>7

\* The dashboard's revenue is the sum of the days', and the captured but for
\* what was refunded in part.
LEMMA ReportsRevenueAgrees ==
    ASSUME ReportsFinite, ReportsTypes
    PROVE  /\ ReportsPart!SumFunction(ReportsPart!RevenueByDay) = ReportsPart!DashboardRevenue
           /\ ReportsPart!AdminSummary.captured =
                ReportsPart!DashboardRevenue
                  + ReportsPart!Total(ReportsPart!Paid(ReportsPart!Sales, {"PARTIALLY_REFUNDED"}))
<1> DEFINE paid == ReportsPart!Paid(ReportsPart!Sales, {"CAPTURED", "SETTLED"})
           seen == ReportsPart!Paid(ReportsPart!Sales, {"CAPTURED", "SETTLED", "PARTIALLY_REFUNDED"})
           partly == ReportsPart!Paid(ReportsPart!Sales, {"PARTIALLY_REFUNDED"})
           byDay == [d \in Day |-> ReportsPart!Total({s \in paid : sale[s].day = d})]
           dayOf == [s \in paid |-> sale[s].day]
<1>1. /\ ReportsPart!RevenueByDay = byDay
      /\ ReportsPart!DashboardRevenue = ReportsPart!Total(paid)
      /\ ReportsPart!AdminSummary.captured = ReportsPart!Total(seen)
  BY DEF ReportsPart!RevenueByDay, ReportsPart!DashboardRevenue, ReportsPart!AdminSummary
<1>2. ReportsPart!SumFunction(byDay) = SumFunctionOnSet(byDay, Day)
  BY ReportsSums
<1>3. /\ paid \in SUBSET ReportsPart!Sales /\ partly \in SUBSET ReportsPart!Sales
      /\ seen \in SUBSET ReportsPart!Sales /\ seen = paid \cup partly /\ paid \cap partly = {}
  BY DEF ReportsPart!Paid
<1>4. ASSUME NEW d \in Day
      PROVE  byDay[d] = SumFunctionOnSet(ReportsTotals, {s \in paid : dayOf[s] = d})
  <2>1. {s \in paid : sale[s].day = d} = {s \in paid : dayOf[s] = d}
    OBVIOUS
  <2>2. {s \in paid : sale[s].day = d} \in SUBSET ReportsPart!Sales
    BY <1>3
  <2>3. ReportsPart!Total({s \in paid : sale[s].day = d}) =
          SumFunctionOnSet(ReportsTotals, {s \in paid : sale[s].day = d})
    BY <2>2, ReportsTotal
  <2>4. QED
    BY <2>1, <2>3
<1>5. \A s \in paid : dayOf[s] \in Day
  BY <1>3, ReportsRow
<1>6. /\ \A s \in paid : ReportsTotals[s] \in Int
      /\ \A s \in paid \cup partly : ReportsTotals[s] \in Int
  BY <1>3, ReportsValues
<1>7. IsFiniteSet(paid) /\ IsFiniteSet(partly) /\ IsFiniteSet(Day)
  BY <1>3, ReportsSalesFinite DEF ReportsFinite
<1>8. /\ ReportsPart!Total(paid) = SumFunctionOnSet(ReportsTotals, paid)
      /\ ReportsPart!Total(seen) = SumFunctionOnSet(ReportsTotals, seen)
      /\ ReportsPart!Total(partly) = SumFunctionOnSet(ReportsTotals, partly)
  BY <1>3, ReportsTotal
<1> HIDE DEF paid, seen, partly, byDay, dayOf
<1>9. SumFunctionOnSet(byDay, Day) = SumFunctionOnSet(ReportsTotals, paid)
  <2>1. SumsOfClasses(ReportsTotals, paid, dayOf, byDay, Day)
    BY <1>4, <1>5, <1>6, <1>7 DEF SumsOfClasses
  <2>2. QED
    BY <2>1, SumByClass
<1>10. SumFunctionOnSet(ReportsTotals, seen) =
         SumFunctionOnSet(ReportsTotals, paid) + SumFunctionOnSet(ReportsTotals, partly)
  BY <1>3, <1>6, <1>7, SumUnion
<1>11. QED
  BY <1>1, <1>2, <1>8, <1>9, <1>10 DEF partly

\* The partner's own reports: the lines of its earnings add up to its net,
\* its entries by status to its commission, its analytics to its gross.
LEMMA ReportsPartnerAgrees ==
    ASSUME ReportsFinite, ReportsTypes
    PROVE  /\ ReportsPart!SumFunction(ReportsPart!EarningsReport) = ReportsPart!PartnerSummary.net
           /\ ReportsPart!OverviewGross = ReportsPart!PartnerSummary.gross
           /\ ReportsPart!SumFunction(ReportsPart!PartnerSummary.byStatus)
                = ReportsPart!PartnerSummary.commission
           /\ ReportsPart!CommissionPayout =
                ReportsPart!PartnerSummary.commission + ReportsPart!Commission(ReportsPart!OnlyPaidOut)
<1> DEFINE off == ReportsPart!InBooking({"CANCELLED", "FAILED"})
           own == ReportsPart!Sales \ off
           entries == {s \in own : sale[s].commission # "REVERSED"}
           byStatus == [e \in ReportsPart!EntryStatus |->
                           ReportsPart!Commission({s \in entries : sale[s].commission = e})]
           charged == {s \in entries : sale[s].commission # "NONE"}
           rest == ReportsPart!OnlyPaidOut
           statusOf == [s \in charged |-> sale[s].commission]
           lines == [s \in own |-> ReportsPart!EarningsLine(s)]
           taken == [s \in own |->
                        IF sale[s].commission = "REVERSED" THEN 0 ELSE ReportsPart!CommissionOf(s)]
<1>1. /\ ReportsPart!EarningsReport = lines
      /\ ReportsPart!PartnerSummary.net = ReportsPart!Total(own) - ReportsPart!Commission(entries)
      /\ ReportsPart!PartnerSummary.gross = ReportsPart!Total(own)
      /\ ReportsPart!PartnerSummary.byStatus = byStatus
      /\ ReportsPart!PartnerSummary.commission = ReportsPart!Commission(entries)
      /\ ReportsPart!OverviewGross = ReportsPart!Total(ReportsPart!Sales) - ReportsPart!Total(off)
      /\ ReportsPart!CommissionPayout = ReportsPart!Commission(ReportsPart!Sales)
  BY DEF ReportsPart!EarningsReport, ReportsPart!PartnerSummary, ReportsPart!OverviewGross,
         ReportsPart!CommissionPayout
<1>2. /\ ReportsPart!SumFunction(lines) = SumFunctionOnSet(lines, own)
      /\ ReportsPart!SumFunction(byStatus) = SumFunctionOnSet(byStatus, ReportsPart!EntryStatus)
  BY ReportsSums
<1>3. /\ off \in SUBSET ReportsPart!Sales /\ own \in SUBSET ReportsPart!Sales
      /\ entries \in SUBSET own /\ entries \in SUBSET ReportsPart!Sales
      /\ off \cup own = ReportsPart!Sales /\ off \cap own = {}
      /\ rest \in SUBSET ReportsPart!Sales
  BY DEF ReportsPart!InBooking, ReportsPart!OnlyPaidOut
<1>0. entries \cup rest = ReportsPart!Sales /\ entries \cap rest = {}
  BY ReportsRow DEF ReportsPart!InBooking, ReportsPart!OnlyPaidOut, ReportsPart!BookingStatus
<1>4. /\ charged \in SUBSET entries /\ charged \in SUBSET ReportsPart!Sales
      /\ charged \cup (entries \ charged) = entries /\ charged \cap (entries \ charged) = {}
      /\ entries \cup (own \ entries) = own /\ entries \cap (own \ entries) = {}
  BY <1>3
<1>5. /\ IsFiniteSet(ReportsPart!Sales) /\ IsFiniteSet(off) /\ IsFiniteSet(own) /\ IsFiniteSet(rest)
      /\ IsFiniteSet(entries) /\ IsFiniteSet(charged)
      /\ IsFiniteSet(entries \ charged) /\ IsFiniteSet(own \ entries)
  BY <1>3, <1>4, ReportsSalesFinite, FS_Difference
<1>6. ASSUME NEW e \in ReportsPart!EntryStatus
      PROVE  byStatus[e] = SumFunctionOnSet(ReportsEntries, {s \in charged : statusOf[s] = e})
  <2>1. {s \in entries : sale[s].commission = e} = {s \in charged : statusOf[s] = e}
    BY DEF ReportsPart!EntryStatus
  <2>2. {s \in entries : sale[s].commission = e} \in SUBSET ReportsPart!Sales
    BY <1>3
  <2>3. ReportsPart!Commission({s \in entries : sale[s].commission = e}) =
          SumFunctionOnSet(ReportsEntries, {s \in entries : sale[s].commission = e})
    BY <2>2, ReportsCommission
  <2>4. QED
    BY <2>1, <2>3
<1>7. \A s \in charged : statusOf[s] \in ReportsPart!EntryStatus
  BY <1>4, ReportsRow
<1>8. \A s \in entries \ charged : ReportsEntries[s] = 0
  BY <1>3 DEF ReportsEntries, ReportsPart!CommissionOf
<1>9. /\ \A s \in own : taken[s] \in Int /\ lines[s] \in Int /\ ReportsTotals[s] \in Int
      /\ \A s \in own : ReportsTotals[s] = lines[s] + taken[s]
  <2>1. ASSUME NEW s \in own
        PROVE  /\ taken[s] \in Int /\ lines[s] \in Int /\ ReportsTotals[s] \in Int
               /\ ReportsTotals[s] = lines[s] + taken[s]
    <3>1. s \in ReportsPart!Sales
      BY <1>3
    <3>2. sale[s].total \in Int /\ ReportsPart!CommissionOf(s) \in Int
      BY <3>1, ReportsRow, ReportsEntryType
    <3>3. ReportsTotals[s] = sale[s].total
      BY <3>1 DEF ReportsTotals
    <3>4. taken[s] \in Int
      BY <3>2
    <3>5. lines[s] = sale[s].total - taken[s]
      BY DEF ReportsPart!EarningsLine
    <3> HIDE DEF taken, lines
    <3>6. QED
      BY <3>2, <3>3, <3>4, <3>5
  <2>2. QED
    BY <2>1
<1>10. /\ \A s \in entries : taken[s] = ReportsEntries[s]
       /\ \A s \in own \ entries : taken[s] = 0
  BY <1>3 DEF ReportsEntries
<1>11. /\ ReportsPart!Total(own) = SumFunctionOnSet(ReportsTotals, own)
       /\ ReportsPart!Total(own) \in Int
       /\ ReportsPart!Total(off) = SumFunctionOnSet(ReportsTotals, off)
       /\ ReportsPart!Total(off) \in Int
       /\ ReportsPart!Total(ReportsPart!Sales) = SumFunctionOnSet(ReportsTotals, ReportsPart!Sales)
       /\ ReportsPart!Commission(entries) = SumFunctionOnSet(ReportsEntries, entries)
       /\ ReportsPart!Commission(entries) \in Int
       /\ ReportsPart!Commission(ReportsPart!Sales) =
            SumFunctionOnSet(ReportsEntries, ReportsPart!Sales)
       /\ ReportsPart!Commission(rest) = SumFunctionOnSet(ReportsEntries, rest)
  BY <1>3, ReportsTotal, ReportsCommission
<1>12. \A s \in ReportsPart!Sales : ReportsTotals[s] \in Int /\ ReportsEntries[s] \in Int
  BY ReportsValues
<1> HIDE DEF off, own, entries, byStatus, charged, statusOf, lines, taken, rest
<1>13. SumFunctionOnSet(byStatus, ReportsPart!EntryStatus) = ReportsPart!Commission(entries)
  <2>1. \A s \in charged : ReportsEntries[s] \in Int
    BY <1>4, <1>12
  <2>2. IsFiniteSet(charged)
    BY <1>5
  <2>3. SumsOfClasses(ReportsEntries, charged, statusOf, byStatus, ReportsPart!EntryStatus)
    BY <1>6, <1>7, <2>1, <2>2, ReportsKinds DEF SumsOfClasses
  <2>4. SumFunctionOnSet(byStatus, ReportsPart!EntryStatus) = SumFunctionOnSet(ReportsEntries, charged)
    BY <2>3, SumByClass
  <2>5. \A s \in charged \cup (entries \ charged) : ReportsEntries[s] \in Int
    BY <1>3, <1>4, <1>12
  <2>6. SumFunctionOnSet(ReportsEntries, charged \cup (entries \ charged)) =
          SumFunctionOnSet(ReportsEntries, charged) + SumFunctionOnSet(ReportsEntries, entries \ charged)
    BY <1>4, <1>5, <2>5, SumUnion
  <2>7. SumFunctionOnSet(ReportsEntries, entries \ charged) = 0
    BY <1>5, <1>8, SumZero
  <2>8. SumFunctionOnSet(ReportsEntries, charged) \in Int
    BY <2>1, <2>2, SumInt
  <2>9. SumFunctionOnSet(ReportsEntries, entries) =
          SumFunctionOnSet(ReportsEntries, charged) + SumFunctionOnSet(ReportsEntries, entries \ charged)
    <3>1. charged \cup (entries \ charged) = entries
      BY <1>4
    <3>2. QED
      BY <2>6, <3>1
  <2>10. SumFunctionOnSet(ReportsEntries, entries) = SumFunctionOnSet(ReportsEntries, charged)
    BY <2>7, <2>8, <2>9
  <2>11. QED
    BY <1>11, <2>4, <2>10
<1>14. SumFunctionOnSet(taken, own) = ReportsPart!Commission(entries)
  <2>1. \A s \in entries \cup (own \ entries) : taken[s] \in Int
    BY <1>4, <1>9
  <2>2. SumFunctionOnSet(taken, entries \cup (own \ entries)) =
          SumFunctionOnSet(taken, entries) + SumFunctionOnSet(taken, own \ entries)
    BY <1>4, <1>5, <2>1, SumUnion
  <2>3. SumFunctionOnSet(taken, own \ entries) = 0
    BY <1>5, <1>10, SumZero
  <2>4. SumFunctionOnSet(taken, entries) = SumFunctionOnSet(ReportsEntries, entries)
    BY <1>5, <1>10, SumSame
  <2>5. QED
    BY <1>4, <1>11, <2>2, <2>3, <2>4
<1>15. SumFunctionOnSet(lines, own) = ReportsPart!Total(own) - ReportsPart!Commission(entries)
  <2>1. SumFunctionOnSet(ReportsTotals, own) =
          SumFunctionOnSet(lines, own) + SumFunctionOnSet(taken, own)
    BY <1>5, <1>9, SumPlus
  <2>2. SumFunctionOnSet(lines, own) \in Int
    BY <1>5, <1>9, SumInt
  <2>3. QED
    BY <1>11, <1>14, <2>1, <2>2
<1>16. ReportsPart!Total(ReportsPart!Sales) = ReportsPart!Total(off) + ReportsPart!Total(own)
  <2>1. \A s \in off \cup own : ReportsTotals[s] \in Int
    BY <1>3, <1>12
  <2>2. SumFunctionOnSet(ReportsTotals, off \cup own) =
          SumFunctionOnSet(ReportsTotals, off) + SumFunctionOnSet(ReportsTotals, own)
    BY <1>3, <1>5, <2>1, SumUnion
  <2>3. QED
    BY <1>3, <1>11, <2>2
<1>17. ReportsPart!Commission(ReportsPart!Sales) =
         ReportsPart!Commission(entries) + ReportsPart!Commission(rest)
  <2>1. \A s \in entries \cup rest : ReportsEntries[s] \in Int
    BY <1>0, <1>12
  <2>2. SumFunctionOnSet(ReportsEntries, entries \cup rest) =
          SumFunctionOnSet(ReportsEntries, entries) + SumFunctionOnSet(ReportsEntries, rest)
    BY <1>0, <1>5, <2>1, SumUnion
  <2>3. QED
    BY <1>0, <1>11, <2>2
<1>18. ReportsPart!Total(ReportsPart!Sales) - ReportsPart!Total(off) = ReportsPart!Total(own)
  BY <1>11, <1>16
<1>19. QED
  BY <1>1, <1>2, <1>13, <1>15, <1>17, <1>18 DEF rest

\* A booking is in the earnings or in the cancellations, unless it failed.
LEMMA ReportsPartition ==
    /\ ReportsPart!BookingsReport \ ReportsPart!InBooking({"FAILED"})
          = DOMAIN ReportsPart!EarningsReport \cup ReportsPart!CancellationsReport
    /\ DOMAIN ReportsPart!EarningsReport \cap ReportsPart!CancellationsReport = {}
BY DEF ReportsPart!BookingsReport, ReportsPart!EarningsReport, ReportsPart!CancellationsReport,
       ReportsPart!InBooking

\* Entries that are paid out have their rule.
LEMMA ReportsPayoutRuled ==
    ASSUME ReportsFinite, ReportsTypes, ReportsRuled
    PROVE  ReportsPart!CommissionPayout # 0 => rulePresent
<1>1. ASSUME \A s \in ReportsPart!Sales : sale[s].commission = "NONE"
      PROVE  ~(ReportsPart!CommissionPayout # 0)
  <2>1. ReportsPart!CommissionPayout = SumFunctionOnSet(ReportsEntries, ReportsPart!Sales)
    BY ReportsCommission DEF ReportsPart!CommissionPayout
  <2>2. \A s \in ReportsPart!Sales : ReportsEntries[s] = 0
    BY <1>1 DEF ReportsEntries, ReportsPart!CommissionOf
  <2>3. IsFiniteSet(ReportsPart!Sales)
    BY ReportsSalesFinite
  <2>4. SumFunctionOnSet(ReportsEntries, ReportsPart!Sales) = 0
    BY <2>2, <2>3, SumZero
  <2>5. QED
    BY <2>1, <2>4
<1>2. QED
  BY <1>1 DEF ReportsRuled

LEMMA ReportsFiled ==
    ASSUME ReportsFinite, ReportsTypes
    PROVE  ReportsPart!FiledOnce
<1>1. ASSUME NEW s \in ReportsPart!Paid(ReportsPart!Sales, {"CAPTURED"})
      PROVE  /\ \A m \in 1 .. Months : s \in ReportsPart!Filed(m) => m = ReportsPart!Month(sale[s].day)
             /\ sale[s].day % MonthDays # 0 => s \in ReportsPart!Filed(ReportsPart!Month(sale[s].day))
  <2>1. sale[s].day \in Day
    BY ReportsRow DEF ReportsPart!Paid
  <2>2. MonthDays \in Nat \ {0} /\ Months \in Nat /\ Months * MonthDays \in Nat
    BY DEF ReportsFinite
  <2>3. sale[s].day \in Nat /\ sale[s].day <= Months * MonthDays
    <3>1. sale[s].day \in 1 .. Months * MonthDays
      BY <2>1 DEF ReportsFinite
    <3>2. QED
      BY <2>2, <3>1
  <2>4. {m \in 1 .. Months : sale[s].day \in (m - 1) * MonthDays + 1 .. m * MonthDays - 1} =
          IF sale[s].day % MonthDays = 0 THEN {} ELSE {(sale[s].day \div MonthDays) + 1}
    BY <2>2, <2>3, InsideOneMonth
  <2>5. sale[s].day % MonthDays # 0 => ReportsPart!Month(sale[s].day) = (sale[s].day \div MonthDays) + 1
    BY <2>2, <2>3, DayBefore DEF ReportsPart!Month
  <2>6. \A m : s \in ReportsPart!Filed(m) <=>
                   sale[s].day \in (m - 1) * MonthDays + 1 .. m * MonthDays - 1
    BY <1>1 DEF ReportsPart!Filed, ReportsPart!FiledDays
  <2>7. QED
    BY <2>4, <2>5, <2>6
<1>2. QED
  BY <1>1 DEF ReportsPart!FiledOnce

-----------------------------------------------------------------------------
LEMMA ReportsStepIInv ==
    ASSUME ReportsFinite, ReportsIInv, ReportsPart!Next \/ UNCHANGED reportVars
    PROVE  ReportsIInv'
<1>1. ASSUME NEW s \in Sale, NEW r \in ReportsPart!SaleRow, ReportsPart!Book(s, r)
      PROVE  ReportsIInv'
  <2>1. /\ sale[s] = Nil /\ (r.commission # "NONE" => rulePresent)
        /\ sale' = [sale EXCEPT ![s] = r] /\ rulePresent' = rulePresent
    BY <1>1 DEF ReportsPart!Book
  <2>2. ReportsTypes'
    BY <2>1 DEF ReportsIInv, ReportsTypes
  <2>3. ASSUME NEW z \in ReportsPart!Sales', sale'[z].commission # "NONE"
        PROVE  rulePresent'
    <3>1. z \in Sale /\ sale'[z] # Nil
      BY DEF ReportsPart!Sales
    <3>2. CASE z = s
      BY <2>1, <2>3, <3>1, <3>2 DEF ReportsIInv, ReportsTypes
    <3>3. CASE z # s
      <4>1. sale'[z] = sale[z]
        BY <2>1, <3>1, <3>3 DEF ReportsIInv, ReportsTypes
      <4>2. z \in ReportsPart!Sales
        BY <3>1, <4>1 DEF ReportsPart!Sales
      <4>3. QED
        BY <2>1, <2>3, <4>1, <4>2 DEF ReportsIInv, ReportsRuled
    <3>4. QED
      BY <3>2, <3>3
  <2>4. ReportsRuled'
    BY <2>3 DEF ReportsRuled
  <2>5. QED
    BY <2>2, <2>4 DEF ReportsIInv
<1>2. CASE ReportsPart!CreateRule \/ ReportsPart!CountEntries \/ UNCHANGED reportVars
  <2>1. sale' = sale /\ (rulePresent => rulePresent')
    BY <1>2 DEF ReportsPart!CreateRule, ReportsPart!CountEntries, reportVars
  <2>2. QED
    BY <2>1 DEF ReportsIInv, ReportsTypes, ReportsRuled, ReportsPart!Sales
<1>3. CASE ReportsPart!DeleteRule
  <2>1. /\ sale' = sale
        /\ rulePresent' = (rulePresent /\ \E s \in ReportsPart!Sales : sale[s].commission # "NONE")
    BY <1>3 DEF ReportsPart!DeleteRule
  <2>2. ReportsPart!Sales' = ReportsPart!Sales
    BY <2>1 DEF ReportsPart!Sales
  <2>3. (\E s \in ReportsPart!Sales : sale[s].commission # "NONE") => rulePresent'
    BY <2>1 DEF ReportsIInv, ReportsRuled
  <2>4. QED
    BY <2>1, <2>2, <2>3 DEF ReportsIInv, ReportsTypes, ReportsRuled
<1>4. QED
  BY <1>1, <1>2, <1>3 DEF ReportsPart!Next

LEMMA ReportsFlagStep ==
    ASSUME ReportsFlags, ReportsPart!Next \/ UNCHANGED reportVars
    PROVE  ReportsFlags'
BY DEF ReportsFlags, ReportsPart!Next, ReportsPart!Book, ReportsPart!CreateRule,
       ReportsPart!CountEntries, ReportsPart!DeleteRule, reportVars

LEMMA ReportsInitIInv ==
    ASSUME ReportsFinite, ReportsPart!Init
    PROVE  ReportsIInv /\ ReportsFlags
<1>1. ReportsPart!Sales = {}
  BY DEF ReportsPart!Init, ReportsPart!Sales
<1>2. ReportsTypes
  BY DEF ReportsPart!Init, ReportsTypes
<1>3. ReportsRuled
  BY <1>1 DEF ReportsRuled
<1>4. ReportsFlags
  BY DEF ReportsPart!Init, ReportsFlags
<1>5. QED
  BY <1>2, <1>3, <1>4 DEF ReportsIInv

LEMMA ReportsSuffice ==
    ASSUME ReportsFinite, ReportsIInv, ReportsFlags
    PROVE  ReportsPart!TypeOK /\ ReportsPart!ReportsAgree /\ ReportsPart!FiledOnce
<1>1. ReportsTypes /\ ReportsRuled
  BY DEF ReportsIInv
<1>2. ReportsPart!TypeOK
  BY <1>1 DEF ReportsTypes, ReportsFlags, ReportsPart!TypeOK
<1>3. ReportsPart!ReportsAgree
  BY <1>1, ReportsSummaryAgrees, ReportsRevenueAgrees, ReportsPartnerAgrees, ReportsPartition,
     ReportsPayoutRuled
  DEF ReportsPart!ReportsAgree
<1>4. ReportsPart!FiledOnce
  BY <1>1, ReportsFiled
<1>5. QED
  BY <1>2, <1>3, <1>4

\* AdminService, FinanceService, AnalyticsService, CommissionService, and the
\* partner's reports: for any books, their sums agree, a payment is filed in
\* its own month unless made on its last day, and in no other, and totals of
\* settlements read in peace add up.
THEOREM BooksAgreeCorrect ==
    ASSUME ReportsFinite, SettlementsFinite
    PROVE  Spec => []BooksAgree
<1> DEFINE Books == /\ ReportsIInv /\ ReportsFlags
                    /\ SettlementsIInv /\ moved \in BOOLEAN
<1>1. Init => Books
  BY ReportsInitIInv, SettlementsInitIInv DEF Init
<1>2. Books /\ [Next]_vars => Books'
  <2>1. ASSUME Books, [Next]_vars
        PROVE  Books'
    <3>1. ReportsPart!Next \/ UNCHANGED reportVars
      BY <2>1, OnePart
    <3>2. SettlementsPart!Next \/ UNCHANGED settlementVars
      BY <2>1, OnePart
    <3>3. ReportsIInv' /\ ReportsFlags'
      BY <2>1, <3>1, ReportsStepIInv, ReportsFlagStep
    <3>4. SettlementsIInv' /\ moved' \in BOOLEAN
      BY <2>1, <3>2, SettlementsStepIInv, SettlementsFlagStep
    <3>5. QED
      BY <3>3, <3>4
  <2>2. QED
    BY <2>1
<1>3. Books => BooksAgree
  BY ReportsSuffice, SettlementsSuffice DEF BooksAgree
<1> HIDE DEF Books
<1>4. QED
  BY <1>1, <1>2, <1>3, PTL DEF Spec

-----------------------------------------------------------------------------
(* Vehicles: for any partners, drivers, vehicles and plates, that a          *)
(* partner's vehicles are driven by its drivers and plates tell them apart.  *)

FleetFields == FleetPart!VehicleRow \cup FleetPart!Patch
FleetCalls == [vehicle : Vehicle, fields : FleetFields, checked : BOOLEAN]

FleetTypes ==
    /\ employer \in [Driver -> Employer \cup {Nil}]
    /\ vehicle \in [Vehicle -> FleetPart!VehicleRow \cup {Nil}]
    /\ editing \in [Caller -> FleetCalls \cup {Nil}]
    /\ unchecked \subseteq Vehicle /\ scrapped \subseteq Vehicle
    /\ transferred \subseteq Driver

\* The driver may drive for the partner, or staff have moved him.
FleetMayDrive(p, d) == p # Nil /\ d \notin transferred => FleetPart!Employs(p, d)

\* A row that is to be inserted is a new one; one that is to be updated is
\* there, or was deleted.
FleetPlaced ==
    /\ \A v \in scrapped : vehicle[v] = Nil
    /\ \A c \in Caller : editing[c] # Nil =>
         IF "partner" \in DOMAIN editing[c].fields
         THEN /\ vehicle[editing[c].vehicle] = Nil /\ editing[c].vehicle \notin scrapped
              /\ \A d \in Caller \ {c} :
                   editing[d] # Nil => editing[d].vehicle # editing[c].vehicle
         ELSE vehicle[editing[c].vehicle] # Nil \/ editing[c].vehicle \in scrapped

\* Of a row, and of what is about to be written.
FleetDriven ==
    /\ \A v \in Vehicle : vehicle[v] # Nil => FleetMayDrive(vehicle[v].partner, vehicle[v].driver)
    /\ \A c \in Caller : editing[c] # Nil /\ "driver" \in DOMAIN editing[c].fields =>
         IF "partner" \in DOMAIN editing[c].fields
         THEN FleetMayDrive(editing[c].fields.partner, editing[c].fields.driver)
         ELSE vehicle[editing[c].vehicle] # Nil =>
                FleetMayDrive(vehicle[editing[c].vehicle].partner, editing[c].fields.driver)

\* No vehicle of the partner, other than v and than those nobody checked, has
\* the plate.
FleetPlateFree(v, p, x) ==
    \A w \in Vehicle \ unchecked :
        w # v /\ vehicle[w] # Nil /\ vehicle[w].partner # Nil /\ vehicle[w].partner = p
            => vehicle[w].plate # x

\* While one call at a time is in progress: of a row, and of what is about to
\* be written and passed a check.
FleetPlates ==
    ~jammed =>
        /\ \A c, d \in Caller : editing[c] # Nil /\ editing[d] # Nil => c = d
        /\ \A v \in Vehicle \ unchecked :
               vehicle[v] # Nil => FleetPlateFree(v, vehicle[v].partner, vehicle[v].plate)
        /\ \A c \in Caller : editing[c] # Nil /\ editing[c].checked /\ "plate" \in DOMAIN editing[c].fields =>
               /\ "partner" \in DOMAIN editing[c].fields
               /\ FleetPlateFree(editing[c].vehicle, editing[c].fields.partner,
                                 editing[c].fields.plate)

FleetIInv == FleetTypes /\ FleetPlaced /\ FleetDriven /\ FleetPlates

FleetDistinct == Nil \notin FleetPart!VehicleRow \cup FleetCalls

-----------------------------------------------------------------------------
LEMMA FleetInitIInv ==
    ASSUME FleetPart!Init
    PROVE  FleetIInv /\ jammed \in BOOLEAN
<1>1. FleetTypes
  BY DEF FleetPart!Init, FleetTypes
<1>2. FleetPlaced /\ FleetDriven /\ FleetPlates
  BY DEF FleetPart!Init, FleetPlaced, FleetDriven, FleetPlates
<1>3. QED
  BY <1>1, <1>2 DEF FleetIInv, FleetPart!Init

\* The fields of rows and of updates.
LEMMA FleetFieldsOf ==
    /\ \A r \in FleetPart!VehicleRow :
           /\ DOMAIN r = {"partner", "driver", "plate"}
           /\ r.partner \in Employer \cup {Nil} /\ r.driver \in Driver \cup {Nil} /\ r.plate \in Plate
    /\ \A r \in FleetPart!Patch :
           /\ DOMAIN r \in {{"driver", "plate"}, {"driver"}, {"plate"}}
           /\ "driver" \in DOMAIN r => r.driver \in Driver \cup {Nil}
           /\ "plate" \in DOMAIN r => r.plate \in Plate
<1>1. \A r \in FleetPart!VehicleRow :
           /\ DOMAIN r = {"partner", "driver", "plate"}
           /\ r.partner \in Employer \cup {Nil} /\ r.driver \in Driver \cup {Nil} /\ r.plate \in Plate
  BY DEF FleetPart!VehicleRow
<1>2. ASSUME NEW r \in FleetPart!Patch
      PROVE  /\ DOMAIN r \in {{"driver", "plate"}, {"driver"}, {"plate"}}
             /\ "driver" \in DOMAIN r => r.driver \in Driver \cup {Nil}
             /\ "plate" \in DOMAIN r => r.plate \in Plate
  <2>1. CASE r \in [driver : Driver \cup {Nil}, plate : Plate]
    BY <2>1
  <2>2. CASE r \in [driver : Driver \cup {Nil}]
    BY <2>2
  <2>3. CASE r \in [plate : Plate]
    BY <2>3
  <2>4. QED
    BY <2>1, <2>2, <2>3 DEF FleetPart!Patch
<1>3. QED
  BY <1>1, <1>2

\* A call begins with fields that its checks have passed.
LEMMA FleetBegins ==
    ASSUME FleetDistinct, FleetIInv,
           NEW c \in Caller, NEW v \in Vehicle, NEW fields \in FleetFields,
           NEW checked \in BOOLEAN, FleetPart!Begin(c, v, fields, checked),
           IF "partner" \in DOMAIN fields
           THEN FleetPart!Fresh(v) /\ FleetMayDrive(fields.partner, fields.driver)
           ELSE /\ vehicle[v] # Nil
                /\ "driver" \in DOMAIN fields => FleetMayDrive(vehicle[v].partner, fields.driver),
           checked /\ "plate" \in DOMAIN fields =>
               "partner" \in DOMAIN fields /\ FleetPlateFree(v, fields.partner, fields.plate)
    PROVE  FleetIInv'
<1> DEFINE new == [vehicle |-> v, fields |-> fields, checked |-> checked]
<1>1. /\ editing' = [editing EXCEPT ![c] = new]
      /\ editing[c] = Nil
      /\ ~jammed' => ~jammed /\ \A d \in Caller : editing[d] = Nil
      /\ UNCHANGED <<employer, vehicle, scrapped, unchecked, transferred>>
  BY DEF FleetPart!Begin
<1>2. new \in FleetCalls /\ new # Nil /\ new.vehicle = v /\ new.fields = fields
      /\ new.checked = checked
  BY DEF FleetCalls, FleetDistinct
<1> HIDE DEF new
<1>3. /\ editing'[c] = new
      /\ \A d \in Caller \ {c} : editing'[d] = editing[d]
  BY <1>1 DEF FleetIInv, FleetTypes
<1>4. FleetTypes'
  BY <1>1, <1>2 DEF FleetIInv, FleetTypes
<1>5. FleetPlaced'
  <2>1. \A x \in scrapped' : vehicle'[x] = Nil
    BY <1>1 DEF FleetIInv, FleetPlaced
  <2>2. ASSUME NEW d \in Caller, editing'[d] # Nil
        PROVE  IF "partner" \in DOMAIN editing'[d].fields
               THEN /\ vehicle'[editing'[d].vehicle] = Nil /\ editing'[d].vehicle \notin scrapped'
                    /\ \A e \in Caller \ {d} :
                         editing'[e] # Nil => editing'[e].vehicle # editing'[d].vehicle
               ELSE vehicle'[editing'[d].vehicle] # Nil \/ editing'[d].vehicle \in scrapped'
    <3>1. CASE d = c
      BY <1>1, <1>2, <1>3, <3>1 DEF FleetPart!Fresh
    <3>2. CASE d # c
      <4>1. editing'[d] = editing[d]
        BY <1>3, <3>2
      <4>2. "partner" \in DOMAIN editing[d].fields => editing[d].vehicle # v
        BY <2>2, <4>1 DEF FleetIInv, FleetPlaced, FleetPart!Fresh
      <4>3. QED
        BY <1>1, <1>2, <1>3, <2>2, <4>1, <4>2 DEF FleetIInv, FleetPlaced
    <3>3. QED
      BY <3>1, <3>2
  <2>3. QED
    BY <2>1, <2>2 DEF FleetPlaced
<1>6. FleetDriven'
  <2>1. \A p, d : FleetMayDrive(p, d)' = FleetMayDrive(p, d)
    BY <1>1 DEF FleetMayDrive, FleetPart!Employs
  <2>2. ASSUME NEW d \in Caller, editing'[d] # Nil, "driver" \in DOMAIN editing'[d].fields
        PROVE  IF "partner" \in DOMAIN editing'[d].fields
               THEN FleetMayDrive(editing'[d].fields.partner, editing'[d].fields.driver)
               ELSE vehicle'[editing'[d].vehicle] # Nil =>
                      FleetMayDrive(vehicle'[editing'[d].vehicle].partner, editing'[d].fields.driver)
    BY <1>1, <1>2, <1>3, <2>2 DEF FleetIInv, FleetDriven
  <2>3. QED
    BY <1>1, <2>1, <2>2 DEF FleetIInv, FleetDriven
<1>7. FleetPlates'
  <2>1. \A w, p, x : FleetPlateFree(w, p, x)' = FleetPlateFree(w, p, x)
    BY <1>1 DEF FleetPlateFree
  <2>2. ASSUME ~jammed'
        PROVE  \A d \in Caller : editing'[d] # Nil => d = c
    BY <1>1, <1>3, <2>2
  <2>3. QED
    BY <1>1, <1>2, <1>3, <2>1, <2>2 DEF FleetIInv, FleetPlates
<1>8. QED
  BY <1>4, <1>5, <1>6, <1>7 DEF FleetIInv

\* A call ends: what is true of all others stays.
LEMMA FleetEnds ==
    ASSUME FleetIInv, NEW c \in Caller,
           editing' = [editing EXCEPT ![c] = Nil],
           UNCHANGED <<employer, vehicle, scrapped, unchecked, transferred, jammed>>
    PROVE  FleetIInv'
<1>1. \A d \in Caller : editing'[d] # Nil => d # c /\ editing'[d] = editing[d]
  BY DEF FleetIInv, FleetTypes
<1>2. FleetTypes'
  BY DEF FleetIInv, FleetTypes
<1>3. FleetPlaced'
  BY <1>1 DEF FleetIInv, FleetPlaced
<1>4. \A p, d : FleetMayDrive(p, d)' = FleetMayDrive(p, d)
  BY DEF FleetMayDrive, FleetPart!Employs
<1>5. FleetDriven'
  BY <1>1, <1>4 DEF FleetIInv, FleetDriven
<1>6. \A w, p, x : FleetPlateFree(w, p, x)' = FleetPlateFree(w, p, x)
  BY DEF FleetPlateFree
<1>7. FleetPlates'
  BY <1>1, <1>6 DEF FleetIInv, FleetPlates
<1>8. QED
  BY <1>2, <1>3, <1>5, <1>7 DEF FleetIInv

\* A call writes its row.
LEMMA FleetWrites ==
    ASSUME FleetDistinct, FleetIInv, NEW c \in Caller, FleetPart!Write(c)
    PROVE  FleetIInv'
<1> DEFINE v == editing[c].vehicle
           fields == editing[c].fields
           new == IF "partner" \in DOMAIN fields THEN fields
                  ELSE [f \in DOMAIN vehicle[v] |->
                            IF f \in DOMAIN fields THEN fields[f] ELSE vehicle[v][f]]
<1>1. /\ editing[c] # Nil /\ v \notin scrapped
      /\ vehicle' = [vehicle EXCEPT ![v] = new]
      /\ unchecked' = IF editing[c].checked THEN unchecked ELSE unchecked \cup {v}
      /\ editing' = [editing EXCEPT ![c] = Nil]
      /\ UNCHANGED <<employer, scrapped, transferred, jammed>>
  BY DEF FleetPart!Write
<1>2. v \in Vehicle /\ fields \in FleetFields
  BY <1>1 DEF FleetIInv, FleetTypes, FleetCalls
<1>3. "partner" \notin DOMAIN fields => vehicle[v] \in FleetPart!VehicleRow /\ vehicle[v] # Nil
  BY <1>1, <1>2 DEF FleetIInv, FleetPlaced, FleetTypes
<1>4. "partner" \in DOMAIN fields => fields \in FleetPart!VehicleRow
  BY <1>2, FleetFieldsOf DEF FleetFields
<1>5. ASSUME "partner" \notin DOMAIN fields
      PROVE  /\ new \in FleetPart!VehicleRow
             /\ new.partner = vehicle[v].partner
             /\ new.driver = IF "driver" \in DOMAIN fields THEN fields.driver ELSE vehicle[v].driver
             /\ new.plate = IF "plate" \in DOMAIN fields THEN fields.plate ELSE vehicle[v].plate
  <2>1. fields \in FleetPart!Patch
    BY <1>2, <1>5, FleetFieldsOf DEF FleetFields
  <2>2. /\ DOMAIN vehicle[v] = {"partner", "driver", "plate"}
        /\ vehicle[v].partner \in Employer \cup {Nil} /\ vehicle[v].driver \in Driver \cup {Nil}
        /\ vehicle[v].plate \in Plate
    BY <1>3, <1>5, FleetFieldsOf
  <2>3. /\ "driver" \in DOMAIN fields => fields.driver \in Driver \cup {Nil}
        /\ "plate" \in DOMAIN fields => fields.plate \in Plate
    BY <2>1, FleetFieldsOf
  <2>4. new = [f \in {"partner", "driver", "plate"} |->
                  IF f \in DOMAIN fields THEN fields[f] ELSE vehicle[v][f]]
    BY <1>5, <2>2
  <2> HIDE DEF new, v, fields
  <2>5. /\ new.partner = vehicle[v].partner
        /\ new.driver = IF "driver" \in DOMAIN fields THEN fields.driver ELSE vehicle[v].driver
        /\ new.plate = IF "plate" \in DOMAIN fields THEN fields.plate ELSE vehicle[v].plate
    BY <1>5, <2>4
  <2>6. new = [partner |-> new.partner, driver |-> new.driver, plate |-> new.plate]
    BY <2>4
  <2>7. new.partner \in Employer \cup {Nil} /\ new.driver \in Driver \cup {Nil} /\ new.plate \in Plate
    BY <2>2, <2>3, <2>5
  <2>8. new \in FleetPart!VehicleRow
    BY <2>6, <2>7 DEF FleetPart!VehicleRow
  <2>9. QED
    BY <2>5, <2>8
<1>6. new \in FleetPart!VehicleRow /\ new # Nil
  BY <1>4, <1>5 DEF FleetDistinct
<1>7. /\ vehicle'[v] = new
      /\ \A w \in Vehicle : w # v => vehicle'[w] = vehicle[w]
  BY <1>1, <1>2 DEF FleetIInv, FleetTypes
<1>8. \A d \in Caller : editing'[d] # Nil => d # c /\ editing'[d] = editing[d] /\ editing[d] # Nil
  BY <1>1 DEF FleetIInv, FleetTypes
<1>9. \A d \in Caller : editing[d] # Nil => editing[d].vehicle \in Vehicle
  BY DEF FleetIInv, FleetTypes, FleetCalls
<1>10. FleetTypes'
  BY <1>1, <1>2, <1>6 DEF FleetIInv, FleetTypes
<1>11. FleetPlaced'
  <2>1. \A x \in scrapped' : vehicle'[x] = Nil
    BY <1>1, <1>7 DEF FleetIInv, FleetPlaced, FleetTypes
  <2>2. ASSUME NEW d \in Caller, editing'[d] # Nil
        PROVE  IF "partner" \in DOMAIN editing'[d].fields
               THEN /\ vehicle'[editing'[d].vehicle] = Nil /\ editing'[d].vehicle \notin scrapped'
                    /\ \A e \in Caller \ {d} :
                         editing'[e] # Nil => editing'[e].vehicle # editing'[d].vehicle
               ELSE vehicle'[editing'[d].vehicle] # Nil \/ editing'[d].vehicle \in scrapped'
    <3>1. d # c /\ editing'[d] = editing[d] /\ editing[d] # Nil /\ editing[d].vehicle \in Vehicle
      BY <1>8, <1>9, <2>2
    <3>2. "partner" \in DOMAIN editing[d].fields => editing[d].vehicle # v
      BY <1>1, <3>1 DEF FleetIInv, FleetPlaced
    <3> HIDE DEF v, fields, new
    <3>3. CASE "partner" \in DOMAIN editing[d].fields
      BY <1>1, <1>7, <1>8, <3>1, <3>2, <3>3 DEF FleetIInv, FleetPlaced
    <3>4. CASE "partner" \notin DOMAIN editing[d].fields
      BY <1>1, <1>6, <1>7, <3>1, <3>4 DEF FleetIInv, FleetPlaced
    <3>5. QED
      BY <3>3, <3>4
  <2>3. QED
    BY <2>1, <2>2 DEF FleetPlaced
<1>12. FleetDriven'
  <2>1. \A p, d : FleetMayDrive(p, d)' = FleetMayDrive(p, d)
    BY <1>1 DEF FleetMayDrive, FleetPart!Employs
  <2>2. FleetMayDrive(new.partner, new.driver)
    <3>1. CASE "partner" \in DOMAIN fields
      <4>1. new = fields /\ "driver" \in DOMAIN fields
        BY <1>4, <3>1, FleetFieldsOf
      <4>2. QED
        BY <1>1, <3>1, <4>1 DEF FleetIInv, FleetDriven
    <3>2. CASE "partner" \notin DOMAIN fields
      <4>1. FleetMayDrive(vehicle[v].partner, vehicle[v].driver)
        BY <1>2, <1>3, <3>2 DEF FleetIInv, FleetDriven
      <4>2. "driver" \in DOMAIN fields => FleetMayDrive(vehicle[v].partner, fields.driver)
        BY <1>1, <1>3, <3>2 DEF FleetIInv, FleetDriven
      <4> HIDE DEF new
      <4>3. QED
        BY <1>5, <3>2, <4>1, <4>2
    <3>3. QED
      BY <3>1, <3>2
  <2>3. ASSUME NEW d \in Caller, editing'[d] # Nil, "driver" \in DOMAIN editing'[d].fields
        PROVE  IF "partner" \in DOMAIN editing'[d].fields
               THEN FleetMayDrive(editing'[d].fields.partner, editing'[d].fields.driver)
               ELSE vehicle'[editing'[d].vehicle] # Nil =>
                      FleetMayDrive(vehicle'[editing'[d].vehicle].partner, editing'[d].fields.driver)
    <3>1. d # c /\ editing'[d] = editing[d] /\ editing[d] # Nil /\ editing[d].vehicle \in Vehicle
      BY <1>8, <1>9, <2>3
    <3>2. "partner" \in DOMAIN fields => editing[d].vehicle # v
      BY <1>1, <3>1 DEF FleetIInv, FleetPlaced
    <3>3. CASE editing[d].vehicle = v
      <4>1. new.partner = vehicle[v].partner /\ vehicle[v] # Nil
        BY <1>3, <1>5, <3>2, <3>3
      <4> HIDE DEF new, v, fields
      <4>2. QED
        BY <1>7, <2>3, <3>1, <3>3, <4>1 DEF FleetIInv, FleetDriven
    <3>4. CASE editing[d].vehicle # v
      <4>1. vehicle'[editing[d].vehicle] = vehicle[editing[d].vehicle]
        BY <1>7, <3>1, <3>4
      <4> HIDE DEF new, v, fields
      <4>2. QED
        BY <2>3, <3>1, <4>1 DEF FleetIInv, FleetDriven
    <3>5. QED
      BY <3>3, <3>4
  <2> HIDE DEF v, fields, new
  <2>4. \A w \in Vehicle : vehicle'[w] # Nil => FleetMayDrive(vehicle'[w].partner, vehicle'[w].driver)
    BY <1>7, <2>2 DEF FleetIInv, FleetDriven
  <2>5. QED
    BY <2>1, <2>3, <2>4 DEF FleetDriven
<1>13. FleetPlates'
  <2>1. SUFFICES ASSUME ~jammed PROVE FleetPlates'
    BY <1>1 DEF FleetPlates
  <2>2. \A d \in Caller : editing'[d] = Nil
    BY <1>1, <1>8, <2>1 DEF FleetIInv, FleetPlates
  <2>3. ASSUME v \notin unchecked'
        PROVE  FleetPlateFree(v, new.partner, new.plate)
    <3>1. editing[c].checked /\ v \notin unchecked
      BY <1>1, <2>3
    <3>2. CASE "plate" \in DOMAIN fields
      <4>1. "partner" \in DOMAIN fields /\ FleetPlateFree(v, fields.partner, fields.plate)
        BY <1>1, <2>1, <3>1, <3>2 DEF FleetIInv, FleetPlates
      <4>2. QED
        BY <4>1
    <3>3. CASE "plate" \notin DOMAIN fields
      <4>1. "partner" \notin DOMAIN fields
        BY <1>4, <3>3, FleetFieldsOf
      <4>2. FleetPlateFree(v, vehicle[v].partner, vehicle[v].plate)
        BY <1>2, <1>3, <2>1, <3>1, <4>1 DEF FleetIInv, FleetPlates
      <4> HIDE DEF new
      <4>3. QED
        BY <1>5, <3>3, <4>1, <4>2
    <3>4. QED
      BY <3>2, <3>3
  <2> HIDE DEF v, fields, new
  <2>4. \A w \in Vehicle \ unchecked' : w \in Vehicle \ unchecked
    BY <1>1
  <2>5. ASSUME NEW w \in Vehicle \ unchecked', NEW z \in Vehicle \ unchecked', w # z,
               vehicle'[w] # Nil, vehicle'[z] # Nil,
               vehicle'[z].partner # Nil, vehicle'[z].partner = vehicle'[w].partner
        PROVE  vehicle'[z].plate # vehicle'[w].plate
    <3>1. CASE w = v
      BY <1>6, <1>7, <2>3, <2>4, <2>5, <3>1 DEF FleetPlateFree
    <3>2. CASE z = v
      BY <1>6, <1>7, <2>3, <2>4, <2>5, <3>2 DEF FleetPlateFree
    <3>3. CASE w # v /\ z # v
      <4>1. vehicle'[w] = vehicle[w] /\ vehicle'[z] = vehicle[z]
        BY <1>7, <3>3
      <4>2. FleetPlateFree(w, vehicle[w].partner, vehicle[w].plate)
        BY <2>1, <2>4, <2>5, <4>1 DEF FleetIInv, FleetPlates
      <4>3. QED
        BY <2>4, <2>5, <4>1, <4>2 DEF FleetPlateFree
    <3>4. QED
      BY <3>1, <3>2, <3>3
  <2>6. \A w \in Vehicle \ unchecked' :
            vehicle'[w] # Nil => FleetPlateFree(w, vehicle[w].partner, vehicle[w].plate)'
    BY <2>5 DEF FleetPlateFree
  <2>7. QED
    BY <2>2, <2>6 DEF FleetPlates
<1>14. QED
  BY <1>10, <1>11, <1>12, <1>13 DEF FleetIInv

\* A row is deleted, or added without a look at its plate.
LEMMA FleetRowChanges ==
    ASSUME FleetDistinct, FleetIInv, NEW v \in Vehicle,
           \/ FleetPart!DeleteVehicle(v)
           \/ \E p \in Employer, plate \in Plate : FleetPart!AddVehicle(v, p, plate)
    PROVE  FleetIInv'
<1>1. /\ UNCHANGED <<employer, editing, transferred, jammed>>
      /\ \/ /\ vehicle[v] # Nil
            /\ vehicle' = [vehicle EXCEPT ![v] = Nil]
            /\ scrapped' = scrapped \cup {v} /\ unchecked' = unchecked
         \/ \E p \in Employer, plate \in Plate :
            /\ FleetPart!Fresh(v)
            /\ vehicle' = [vehicle EXCEPT ![v] = [partner |-> p, driver |-> Nil, plate |-> plate]]
            /\ unchecked' = unchecked \cup {v} /\ scrapped' = scrapped
  BY DEF FleetPart!DeleteVehicle, FleetPart!AddVehicle
<1>2. /\ \A w \in Vehicle : w # v => vehicle'[w] = vehicle[w]
      /\ \/ vehicle[v] # Nil /\ vehicle'[v] = Nil /\ scrapped' = scrapped \cup {v}
            /\ unchecked' = unchecked
         \/ /\ FleetPart!Fresh(v) /\ vehicle'[v] \in FleetPart!VehicleRow
            /\ vehicle'[v].driver = Nil
            /\ unchecked' = unchecked \cup {v} /\ scrapped' = scrapped
  <2>1. CASE /\ vehicle[v] # Nil
             /\ vehicle' = [vehicle EXCEPT ![v] = Nil]
             /\ scrapped' = scrapped \cup {v} /\ unchecked' = unchecked
    BY <2>1 DEF FleetIInv, FleetTypes
  <2>2. ASSUME NEW p \in Employer, NEW plate \in Plate, FleetPart!Fresh(v),
               vehicle' = [vehicle EXCEPT ![v] = [partner |-> p, driver |-> Nil, plate |-> plate]],
               unchecked' = unchecked \cup {v}, scrapped' = scrapped
        PROVE  /\ \A w \in Vehicle : w # v => vehicle'[w] = vehicle[w]
               /\ vehicle'[v] \in FleetPart!VehicleRow /\ vehicle'[v].driver = Nil
    BY <2>2 DEF FleetIInv, FleetTypes, FleetPart!VehicleRow
  <2>3. QED
    BY <1>1, <2>1, <2>2
<1>3. \A d \in Caller : editing[d] # Nil => editing[d].vehicle \in Vehicle
  BY DEF FleetIInv, FleetTypes, FleetCalls
<1>4. FleetTypes'
  <2>1. vehicle' \in [Vehicle -> FleetPart!VehicleRow \cup {Nil}]
    <3>1. \E z : vehicle' = [vehicle EXCEPT ![v] = z]
      BY <1>1
    <3>2. \A w \in Vehicle : vehicle'[w] \in FleetPart!VehicleRow \cup {Nil}
      BY <1>2 DEF FleetIInv, FleetTypes
    <3>3. QED
      BY <3>1, <3>2 DEF FleetIInv, FleetTypes
  <2>2. QED
    BY <1>1, <1>2, <2>1 DEF FleetIInv, FleetTypes
<1>5. FleetPlaced'
  <2>1. \A x \in scrapped' : vehicle'[x] = Nil
    BY <1>2 DEF FleetIInv, FleetPlaced, FleetTypes, FleetPart!Fresh
  <2>2. ASSUME NEW d \in Caller, editing[d] # Nil
        PROVE  IF "partner" \in DOMAIN editing[d].fields
               THEN vehicle'[editing[d].vehicle] = Nil /\ editing[d].vehicle \notin scrapped'
               ELSE vehicle'[editing[d].vehicle] # Nil \/ editing[d].vehicle \in scrapped'
    <3>1. CASE editing[d].vehicle = v
      BY <1>2, <2>2, <3>1 DEF FleetIInv, FleetPlaced, FleetPart!Fresh
    <3>2. CASE editing[d].vehicle # v
      BY <1>2, <1>3, <2>2, <3>2 DEF FleetIInv, FleetPlaced
    <3>3. QED
      BY <3>1, <3>2
  <2>3. QED
    BY <1>1, <2>1, <2>2 DEF FleetIInv, FleetPlaced
<1>6. FleetDriven'
  <2>1. \A p, d : FleetMayDrive(p, d)' = FleetMayDrive(p, d)
    BY <1>1 DEF FleetMayDrive, FleetPart!Employs
  <2>2. ASSUME NEW w \in Vehicle, vehicle'[w] # Nil
        PROVE  FleetMayDrive(vehicle'[w].partner, vehicle'[w].driver)
    <3>1. CASE w = v
      BY <1>2, <2>2, <3>1 DEF FleetMayDrive, FleetPart!Employs
    <3>2. CASE w # v
      BY <1>2, <2>2, <3>2 DEF FleetIInv, FleetDriven
    <3>3. QED
      BY <3>1, <3>2
  <2>3. ASSUME NEW d \in Caller, editing[d] # Nil, "driver" \in DOMAIN editing[d].fields
        PROVE  IF "partner" \in DOMAIN editing[d].fields
               THEN FleetMayDrive(editing[d].fields.partner, editing[d].fields.driver)
               ELSE vehicle'[editing[d].vehicle] # Nil =>
                      FleetMayDrive(vehicle'[editing[d].vehicle].partner, editing[d].fields.driver)
    <3>1. CASE editing[d].vehicle = v
      BY <1>2, <2>3, <3>1 DEF FleetIInv, FleetDriven, FleetPart!Fresh
    <3>2. CASE editing[d].vehicle # v
      BY <1>2, <1>3, <2>3, <3>2 DEF FleetIInv, FleetDriven
    <3>3. QED
      BY <3>1, <3>2
  <2>4. QED
    BY <1>1, <2>1, <2>2, <2>3 DEF FleetDriven
<1>7. FleetPlates'
  <2>1. \A w \in Vehicle \ unchecked' :
            w \in Vehicle \ unchecked /\ (vehicle'[w] # Nil => vehicle'[w] = vehicle[w])
    BY <1>2
  <2>2. \A w, p, x : FleetPlateFree(w, p, x) => FleetPlateFree(w, p, x)'
    BY <2>1 DEF FleetPlateFree
  <2>3. ASSUME NEW w \in Vehicle \ unchecked', vehicle'[w] # Nil, ~jammed
        PROVE  FleetPlateFree(w, vehicle[w].partner, vehicle[w].plate)'
    <3>1. FleetPlateFree(w, vehicle[w].partner, vehicle[w].plate)
      BY <2>1, <2>3 DEF FleetIInv, FleetPlates
    <3>2. vehicle'[w] = vehicle[w]
      BY <2>1, <2>3
    <3>3. QED
      BY <2>1, <3>1, <3>2 DEF FleetPlateFree
  <2>4. QED
    BY <1>1, <2>2, <2>3 DEF FleetIInv, FleetPlates
<1>8. QED
  BY <1>4, <1>5, <1>6, <1>7 DEF FleetIInv

\* Staff move a driver: what he drives is no longer said of him.
LEMMA FleetTransfers ==
    ASSUME FleetIInv, NEW d \in Driver, NEW p \in Employer \cup {Nil}, FleetPart!Transfer(d, p)
    PROVE  FleetIInv'
<1>1. /\ employer' = [employer EXCEPT ![d] = p]
      /\ transferred' = transferred \cup {d}
      /\ UNCHANGED <<vehicle, scrapped, editing, unchecked, jammed>>
  BY DEF FleetPart!Transfer
<1>2. FleetTypes' /\ FleetPlaced'
  BY <1>1 DEF FleetIInv, FleetTypes, FleetPlaced
<1>3. FleetDriven'
  <2>1. ASSUME NEW v \in Vehicle, vehicle[v] # Nil
        PROVE  FleetMayDrive(vehicle[v].partner, vehicle[v].driver)'
    <3>1. vehicle[v].driver \in Driver \cup {Nil}
      BY <2>1, FleetFieldsOf DEF FleetIInv, FleetTypes
    <3>2. FleetMayDrive(vehicle[v].partner, vehicle[v].driver)
      BY <2>1 DEF FleetIInv, FleetDriven
    <3>3. QED
      BY <1>1, <3>1, <3>2 DEF FleetIInv, FleetTypes, FleetMayDrive, FleetPart!Employs
  <2>2. ASSUME NEW c \in Caller, editing[c] # Nil, "driver" \in DOMAIN editing[c].fields
        PROVE  /\ editing[c].fields.driver \in Driver \cup {Nil}
    <3>1. editing[c].fields \in FleetFields
      BY <2>2 DEF FleetIInv, FleetTypes, FleetCalls
    <3>2. QED
      BY <2>2, <3>1, FleetFieldsOf DEF FleetFields
  <2>3. ASSUME NEW c \in Caller, editing'[c] # Nil, "driver" \in DOMAIN editing'[c].fields
        PROVE  IF "partner" \in DOMAIN editing'[c].fields
               THEN FleetMayDrive(editing[c].fields.partner, editing[c].fields.driver)'
               ELSE vehicle'[editing'[c].vehicle] # Nil =>
                      FleetMayDrive(vehicle[editing[c].vehicle].partner, editing[c].fields.driver)'
    <3>1. editing[c].fields.driver \in Driver \cup {Nil}
      BY <1>1, <2>2, <2>3
    <3>2. IF "partner" \in DOMAIN editing[c].fields
          THEN FleetMayDrive(editing[c].fields.partner, editing[c].fields.driver)
          ELSE vehicle[editing[c].vehicle] # Nil =>
                 FleetMayDrive(vehicle[editing[c].vehicle].partner, editing[c].fields.driver)
      BY <1>1, <2>3 DEF FleetIInv, FleetDriven
    <3>3. QED
      BY <1>1, <3>1, <3>2 DEF FleetIInv, FleetTypes, FleetMayDrive, FleetPart!Employs
  <2>4. QED
    BY <1>1, <2>1, <2>3 DEF FleetDriven
<1>4. \A w, q, x : FleetPlateFree(w, q, x)' = FleetPlateFree(w, q, x)
  BY <1>1 DEF FleetPlateFree
<1>5. FleetPlates'
  BY <1>1, <1>4 DEF FleetIInv, FleetPlates
<1>6. QED
  BY <1>2, <1>3, <1>5 DEF FleetIInv

LEMMA FleetStepIInv ==
    ASSUME FleetDistinct, FleetIInv, FleetPart!Next \/ UNCHANGED fleetVars
    PROVE  FleetIInv'
<1>1. ASSUME NEW c \in Caller, NEW v \in Vehicle, NEW p \in Employer,
             NEW d \in Driver \cup {Nil}, NEW plate \in Plate,
             FleetPart!Create(c, v, p, d, plate)
      PROVE  FleetIInv'
  <2> DEFINE new == [partner |-> p, driver |-> d, plate |-> plate]
  <2>1. /\ FleetPart!Fresh(v) /\ FleetPart!Employs(p, d)
        /\ \A w \in Vehicle : FleetPart!Owned(w, p) => vehicle[w].plate # plate
        /\ FleetPart!Begin(c, v, new, TRUE)
    BY <1>1 DEF FleetPart!Create
  <2>2. /\ new \in FleetFields /\ "partner" \in DOMAIN new
        /\ new.partner = p /\ new.driver = d /\ new.plate = plate
    BY DEF FleetFields, FleetPart!VehicleRow
  <2>3. FleetMayDrive(p, d)
    BY <2>1 DEF FleetMayDrive
  <2>4. FleetPlateFree(v, p, plate)
    BY <2>1 DEF FleetPlateFree, FleetPart!Owned
  <2> HIDE DEF new
  <2>5. QED
    BY <2>1, <2>2, <2>3, <2>4, FleetBegins
<1>2. ASSUME NEW c \in Caller, NEW v \in Vehicle, NEW p \in Employer,
             NEW fields \in FleetPart!Patch, FleetPart!Update(c, v, p, fields)
      PROVE  FleetIInv'
  <2>1. /\ vehicle[v] # Nil /\ vehicle[v].partner = p
        /\ "driver" \in DOMAIN fields => FleetPart!Employs(p, fields.driver)
        /\ FleetPart!Begin(c, v, fields, "plate" \notin DOMAIN fields)
    BY <1>2 DEF FleetPart!Update, FleetPart!Owned
  <2>2. fields \in FleetFields /\ "partner" \notin DOMAIN fields
    BY FleetFieldsOf DEF FleetFields
  <2>3. "driver" \in DOMAIN fields => FleetMayDrive(vehicle[v].partner, fields.driver)
    BY <2>1 DEF FleetMayDrive
  <2>4. CASE "plate" \in DOMAIN fields
    <3>1. FleetPart!Begin(c, v, fields, FALSE)
      <4>1. ("plate" \notin DOMAIN fields) = FALSE
        BY <2>4
      <4>2. QED
        BY <2>1, <4>1
    <3>2. QED
      BY <2>1, <2>2, <2>3, <3>1, FleetBegins
  <2>5. CASE "plate" \notin DOMAIN fields
    <3>1. FleetPart!Begin(c, v, fields, TRUE)
      <4>1. ("plate" \notin DOMAIN fields) = TRUE
        BY <2>5
      <4>2. QED
        BY <2>1, <4>1
    <3>2. QED
      BY <2>1, <2>2, <2>3, <2>5, <3>1, FleetBegins
  <2>6. QED
    BY <2>4, <2>5
<1>3. ASSUME NEW c \in Caller, NEW v \in Vehicle, NEW p \in Employer, NEW d \in Driver,
             FleetPart!AssignDriver(c, v, p, d)
      PROVE  FleetIInv'
  <2> DEFINE new == [driver |-> d]
  <2>1. /\ vehicle[v] # Nil /\ vehicle[v].partner = p /\ employer[d] = p
        /\ FleetPart!Begin(c, v, new, TRUE)
    BY <1>3 DEF FleetPart!AssignDriver, FleetPart!Owned
  <2>2. /\ new \in FleetFields /\ "partner" \notin DOMAIN new /\ "plate" \notin DOMAIN new
        /\ new.driver = d
    BY DEF FleetFields, FleetPart!Patch
  <2>3. FleetMayDrive(vehicle[v].partner, d)
    BY <2>1 DEF FleetMayDrive, FleetPart!Employs
  <2> HIDE DEF new
  <2>4. QED
    BY <2>1, <2>2, <2>3, FleetBegins
<1>4. ASSUME NEW c \in Caller, NEW v \in Vehicle, NEW d \in Driver, NEW plate \in Plate,
             FleetPart!CreateOwn(c, v, d, plate)
      PROVE  FleetIInv'
  <2> DEFINE new == [partner |-> Nil, driver |-> d, plate |-> plate]
  <2>1. FleetPart!Fresh(v) /\ FleetPart!Begin(c, v, new, FALSE)
    BY <1>4 DEF FleetPart!CreateOwn
  <2>2. /\ new \in FleetFields /\ "partner" \in DOMAIN new
        /\ new.partner = Nil /\ new.driver = d
    BY DEF FleetFields, FleetPart!VehicleRow
  <2>3. FleetMayDrive(Nil, d)
    BY DEF FleetMayDrive
  <2> HIDE DEF new
  <2>4. QED
    BY <2>1, <2>2, <2>3, FleetBegins
<1>5. ASSUME NEW c \in Caller, NEW v \in Vehicle, NEW d \in Driver, NEW plate \in Plate,
             FleetPart!UpdateOwn(c, v, d, plate)
      PROVE  FleetIInv'
  <2> DEFINE new == [plate |-> plate]
  <2>1. vehicle[v] # Nil /\ FleetPart!Begin(c, v, new, FALSE)
    BY <1>5 DEF FleetPart!UpdateOwn
  <2>2. new \in FleetFields /\ "partner" \notin DOMAIN new /\ "driver" \notin DOMAIN new
    BY DEF FleetFields, FleetPart!Patch
  <2> HIDE DEF new
  <2>3. QED
    BY <2>1, <2>2, FleetBegins
<1>6. ASSUME NEW c \in Caller, FleetPart!EditDies(c) PROVE FleetIInv'
  BY <1>6, FleetEnds DEF FleetPart!EditDies
<1>7. CASE UNCHANGED fleetVars
  <2>1. UNCHANGED <<employer, vehicle, scrapped, editing, unchecked, transferred, jammed>>
    BY <1>7 DEF fleetVars
  <2>2. /\ \A p, d : FleetMayDrive(p, d)' = FleetMayDrive(p, d)
        /\ \A w, p, x : FleetPlateFree(w, p, x)' = FleetPlateFree(w, p, x)
    BY <2>1 DEF FleetMayDrive, FleetPart!Employs, FleetPlateFree
  <2>3. QED
    BY <2>1, <2>2 DEF FleetIInv, FleetTypes, FleetPlaced, FleetDriven, FleetPlates
<1>8. QED
  BY <1>1, <1>2, <1>3, <1>4, <1>5, <1>6, <1>7, FleetWrites, FleetRowChanges, FleetTransfers
  DEF FleetPart!Next

LEMMA FleetFlagStep ==
    ASSUME jammed \in BOOLEAN, FleetPart!Next \/ UNCHANGED fleetVars
    PROVE  jammed' \in BOOLEAN
<1>1. ASSUME NEW c, NEW v, NEW fields, NEW checked, FleetPart!Begin(c, v, fields, checked)
      PROVE  jammed' \in BOOLEAN
  BY <1>1 DEF FleetPart!Begin
<1>2. ASSUME jammed' = jammed PROVE jammed' \in BOOLEAN
  BY <1>2
<1>3. CASE \E c \in Caller, v \in Vehicle :
             \/ \E p \in Employer, d \in Driver \cup {Nil}, plate \in Plate :
                   FleetPart!Create(c, v, p, d, plate)
             \/ \E p \in Employer, fields \in FleetPart!Patch : FleetPart!Update(c, v, p, fields)
             \/ \E p \in Employer, d \in Driver : FleetPart!AssignDriver(c, v, p, d)
             \/ \E d \in Driver, plate \in Plate : FleetPart!CreateOwn(c, v, d, plate)
             \/ \E d \in Driver, plate \in Plate : FleetPart!UpdateOwn(c, v, d, plate)
  BY <1>1, <1>3 DEF FleetPart!Create, FleetPart!Update, FleetPart!AssignDriver,
                    FleetPart!CreateOwn, FleetPart!UpdateOwn
<1>4. CASE \/ \E c \in Caller : FleetPart!Write(c) \/ FleetPart!EditDies(c)
           \/ \E v \in Vehicle : FleetPart!DeleteVehicle(v)
           \/ \E v \in Vehicle, p \in Employer, plate \in Plate : FleetPart!AddVehicle(v, p, plate)
           \/ \E d \in Driver, p \in Employer \cup {Nil} : FleetPart!Transfer(d, p)
           \/ UNCHANGED fleetVars
  BY <1>2, <1>4 DEF FleetPart!Write, FleetPart!EditDies, FleetPart!DeleteVehicle,
                    FleetPart!AddVehicle, FleetPart!Transfer, fleetVars
<1>5. QED
  BY <1>3, <1>4 DEF FleetPart!Next

LEMMA FleetSuffice ==
    ASSUME FleetIInv, jammed \in BOOLEAN
    PROVE  FleetPart!TypeOK /\ FleetPart!FleetHolds
<1>1. FleetPart!TypeOK
  BY DEF FleetIInv, FleetTypes, FleetCalls, FleetFields, FleetPart!TypeOK
<1>2. FleetPart!FleetHolds
  BY DEF FleetIInv, FleetDriven, FleetMayDrive, FleetPlates, FleetPlateFree, FleetPart!FleetHolds
<1>3. QED
  BY <1>1, <1>2

-----------------------------------------------------------------------------
(* What a partner runs of its own: for any members, events and bound of      *)
(* referral events, that its team keeps an administrator, that the counters  *)
(* of its link are right and that its events are emitted once.               *)

PortalMembers == [role : PortalPart!TeamRole, status : PortalPart!MemberStatus]
PortalLinks == [active : BOOLEAN, expired : BOOLEAN, clicks : Nat, converts : Nat]
PortalEdits == [op : {"TEAM"}, member : Member, fields : PortalPart!MemberFields]
PortalTracks == [op : {"TRACK"}, type : PortalPart!TrackedType]
PortalEvents == [op : {"EMIT", "DELIVER"}, event : EventId]
PortalCalls == PortalEdits \cup PortalTracks \cup PortalEvents

PortalTypes ==
    /\ team \in [Member -> PortalMembers \cup {Nil}]
    /\ link \in PortalLinks \cup {Nil}
    /\ tracked \in [PortalPart!TrackedType -> Nat]
    /\ emitted \in [EventId -> {"NONE", "STORED", "PROCESSED"}]
    /\ fresh \in [EventId -> Nat]
    /\ busy \in [Caller -> PortalCalls \cup {Nil}]

\* A member who is edited is there, and so is a link that is tracked.
PortalThere ==
    \A c \in Caller :
        /\ PortalPart!Doing(c, "TEAM") => team[busy[c].member] # Nil
        /\ PortalPart!Doing(c, "TRACK") => link # Nil

\* There is an administrator, and while one edits a member, one beside him.
PortalRun ==
    ~stepped =>
        /\ \E u \in Member : PortalPart!Admin(u)
        /\ \A c \in Caller : PortalPart!Doing(c, "TEAM") =>
               /\ \E a \in Member \ {busy[c].member} : PortalPart!Admin(a)
               /\ \A d \in Caller : PortalPart!Doing(d, "TEAM") => d = c

PortalCounted ==
    /\ link # Nil => link.clicks = tracked["CLICK"] /\ link.converts = tracked["BOOKING"]
    /\ link = Nil => tracked["CLICK"] = 0 /\ tracked["BOOKING"] = 0
    /\ tracked["CLICK"] + tracked["BOOKING"] <= MaxTracked

\* One call delivers an event, and then nobody does.
PortalEmitted ==
    /\ \A e \in EventId : fresh[e] \in {0, 1} /\ (fresh[e] = 1 => emitted[e] = "PROCESSED")
    /\ \A c \in Caller : PortalPart!Doing(c, "DELIVER") =>
           /\ fresh[busy[c].event] = 0 /\ emitted[busy[c].event] # "NONE"
           /\ \A d \in Caller \ {c} :
                  PortalPart!Doing(d, "DELIVER") => busy[d].event # busy[c].event

PortalIInv == PortalTypes /\ PortalThere /\ PortalRun /\ PortalCounted /\ PortalEmitted

PortalDistinct == Nil \notin PortalMembers \cup PortalLinks \cup PortalCalls
PortalBounds == MaxTracked \in Nat

-----------------------------------------------------------------------------
LEMMA PortalInitIInv ==
    ASSUME PortalBounds, PortalDistinct, PortalPart!Init
    PROVE  PortalIInv /\ stepped \in BOOLEAN
<1>1. PICK u \in Member :
          team = [m \in Member |-> IF m = u THEN [role |-> "PARTNER_ADMIN", status |-> "ACTIVE"] ELSE Nil]
  BY DEF PortalPart!Init
<1>2. [role |-> "PARTNER_ADMIN", status |-> "ACTIVE"] \in PortalMembers
  BY DEF PortalMembers, PortalPart!TeamRole, PortalPart!MemberStatus
<1>3. PortalTypes
  BY <1>1, <1>2 DEF PortalPart!Init, PortalTypes, PortalPart!TrackedType
<1>4. PortalPart!Admin(u)
  BY <1>1, <1>2 DEF PortalPart!Admin, PortalDistinct
<1>5. \A c \in Caller : busy[c] = Nil
  BY DEF PortalPart!Init
<1>6. PortalThere /\ PortalRun
  BY <1>4, <1>5 DEF PortalThere, PortalRun, PortalPart!Doing
<1>7. PortalCounted
  BY DEF PortalPart!Init, PortalCounted, PortalPart!TrackedType, PortalBounds
<1>8. PortalEmitted
  BY <1>5 DEF PortalPart!Init, PortalEmitted, PortalPart!Doing
<1>9. QED
  BY <1>3, <1>6, <1>7, <1>8 DEF PortalIInv, PortalPart!Init

\* The kinds of calls are told apart by their names.
LEMMA PortalKinds ==
    ASSUME PortalTypes, NEW c \in Caller
    PROVE  /\ PortalPart!Doing(c, "TEAM") => busy[c] \in PortalEdits /\ busy[c] # Nil
           /\ PortalPart!Doing(c, "TRACK") => busy[c] \in PortalTracks /\ busy[c] # Nil
           /\ PortalPart!Doing(c, "EMIT") => busy[c] \in PortalEvents /\ busy[c] # Nil
           /\ PortalPart!Doing(c, "DELIVER") => busy[c] \in PortalEvents /\ busy[c] # Nil
<1>1. ASSUME busy[c] # Nil PROVE busy[c] \in PortalEdits \cup PortalTracks \cup PortalEvents
  BY <1>1 DEF PortalTypes, PortalCalls
<1>2. /\ \A r \in PortalEdits : r.op = "TEAM"
      /\ \A r \in PortalTracks : r.op = "TRACK"
      /\ \A r \in PortalEvents : r.op \in {"EMIT", "DELIVER"}
  BY DEF PortalEdits, PortalTracks, PortalEvents
<1>3. QED
  BY <1>1, <1>2 DEF PortalPart!Doing

\* A call begins, ends, or goes on to its next stage: nothing else changes.
LEMMA PortalOthers ==
    ASSUME PortalTypes, NEW c \in Caller, NEW z, busy' = [busy EXCEPT ![c] = z]
    PROVE  /\ busy'[c] = z
           /\ \A d \in Caller \ {c} : busy'[d] = busy[d]
           /\ \A d \in Caller \ {c}, op \in {"TEAM", "TRACK", "EMIT", "DELIVER"} :
                  PortalPart!Doing(d, op)' <=> PortalPart!Doing(d, op)
           /\ \A op \in {"TEAM", "TRACK", "EMIT", "DELIVER"} :
                  PortalPart!Doing(c, op)' <=> (z # Nil /\ z.op = op)
BY DEF PortalTypes, PortalPart!Doing

\* No call does op that did not, on the same, before.
PortalNoneNew(op) ==
    \A d \in Caller : PortalPart!Doing(d, op)' => PortalPart!Doing(d, op) /\ busy'[d] = busy[d]

LEMMA PortalThereStays ==
    ASSUME PortalTypes, PortalThere, PortalNoneNew("TEAM"), PortalNoneNew("TRACK"),
           \A m \in Member : team[m] # Nil => team'[m] # Nil,
           link # Nil => link' # Nil
    PROVE  PortalThere'
<1>1. ASSUME NEW d \in Caller, PortalPart!Doing(d, "TEAM")'
      PROVE  team'[busy'[d].member] # Nil
  <2>1. PortalPart!Doing(d, "TEAM") /\ busy'[d] = busy[d]
    BY <1>1 DEF PortalNoneNew
  <2>2. busy[d].member \in Member
    BY <2>1, PortalKinds DEF PortalEdits
  <2>3. QED
    BY <2>1, <2>2 DEF PortalThere
<1>2. ASSUME NEW d \in Caller, PortalPart!Doing(d, "TRACK")'
      PROVE  link' # Nil
  BY <1>2 DEF PortalNoneNew, PortalThere
<1>3. QED
  BY <1>1, <1>2 DEF PortalThere

LEMMA PortalRunStays ==
    ASSUME PortalRun, PortalNoneNew("TEAM"), ~stepped' => ~stepped,
           \A m \in Member : PortalPart!Admin(m) => PortalPart!Admin(m)'
    PROVE  PortalRun'
<1>1. SUFFICES ASSUME ~stepped' PROVE PortalRun'
  BY DEF PortalRun
<1>2. \E u \in Member : PortalPart!Admin(u)'
  BY <1>1 DEF PortalRun
<1>3. ASSUME NEW d \in Caller, PortalPart!Doing(d, "TEAM")'
      PROVE  /\ \E a \in Member \ {busy'[d].member} : PortalPart!Admin(a)'
             /\ \A e \in Caller : PortalPart!Doing(e, "TEAM")' => e = d
  <2>1. PortalPart!Doing(d, "TEAM") /\ busy'[d] = busy[d]
    BY <1>3 DEF PortalNoneNew
  <2>2. \E a \in Member \ {busy[d].member} : PortalPart!Admin(a)
    BY <1>1, <2>1 DEF PortalRun
  <2>3. \A e \in Caller : PortalPart!Doing(e, "TEAM") => e = d
    BY <1>1, <2>1 DEF PortalRun
  <2>4. QED
    BY <2>1, <2>2, <2>3 DEF PortalNoneNew
<1>4. QED
  BY <1>2, <1>3 DEF PortalRun

LEMMA PortalEmittedStays ==
    ASSUME PortalEmitted, PortalNoneNew("DELIVER"), fresh' = fresh,
           \A e \in EventId : emitted'[e] # emitted[e] => emitted'[e] = "PROCESSED",
           \A c \in Caller : PortalPart!Doing(c, "DELIVER") => busy[c].event \in EventId
    PROVE  PortalEmitted'
<1>1. ASSUME NEW e \in EventId
      PROVE  fresh'[e] \in {0, 1} /\ (fresh'[e] = 1 => emitted'[e] = "PROCESSED")
  BY DEF PortalEmitted
<1>2. ASSUME NEW c \in Caller, PortalPart!Doing(c, "DELIVER")'
      PROVE  /\ fresh'[busy'[c].event] = 0 /\ emitted'[busy'[c].event] # "NONE"
             /\ \A d \in Caller \ {c} :
                    PortalPart!Doing(d, "DELIVER")' => busy'[d].event # busy'[c].event
  <2>1. PortalPart!Doing(c, "DELIVER") /\ busy'[c] = busy[c]
    BY <1>2 DEF PortalNoneNew
  <2>2. fresh[busy[c].event] = 0 /\ emitted[busy[c].event] # "NONE" /\ busy[c].event \in EventId
    BY <2>1 DEF PortalEmitted
  <2>3. emitted'[busy[c].event] # "NONE"
    BY <2>2
  <2>4. QED
    BY <2>1, <2>2, <2>3 DEF PortalEmitted, PortalNoneNew
<1>3. QED
  BY <1>1, <1>2 DEF PortalEmitted

LEMMA PortalEventTypes ==
    ASSUME PortalTypes
    PROVE  \A c \in Caller : PortalPart!Doing(c, "DELIVER") => busy[c].event \in EventId
BY PortalKinds DEF PortalEvents

\* A call begins that edits no member, or ends, and nothing else changes.
LEMMA PortalCallsChange ==
    ASSUME PortalIInv, NEW c \in Caller, NEW z \in PortalTracks \cup PortalEvents \cup {Nil},
           z # Nil => z.op # "DELIVER" /\ (z.op = "TRACK" => link # Nil),
           busy' = [busy EXCEPT ![c] = z],
           UNCHANGED <<team, link, tracked, emitted, fresh, stepped>>
    PROVE  PortalIInv'
<1>1. PortalTypes
  BY DEF PortalIInv
<1>2. z # Nil => z.op \in {"TRACK", "EMIT"}
  BY DEF PortalTracks, PortalEvents
<1>3. PortalTypes'
  BY <1>1 DEF PortalTypes, PortalCalls
<1>4. PortalNoneNew("TEAM") /\ PortalNoneNew("DELIVER")
  BY <1>1, <1>2, PortalOthers DEF PortalNoneNew
<1>5. PortalThere'
  <2>1. ASSUME NEW d \in Caller, PortalPart!Doing(d, "TEAM")' PROVE team'[busy'[d].member] # Nil
    BY <1>4, <2>1 DEF PortalIInv, PortalThere, PortalNoneNew
  <2>2. ASSUME NEW d \in Caller, PortalPart!Doing(d, "TRACK")' PROVE link' # Nil
    <3>1. CASE d = c
      BY <1>1, <2>2, <3>1, PortalOthers
    <3>2. CASE d # c
      BY <1>1, <2>2, <3>2, PortalOthers DEF PortalIInv, PortalThere
    <3>3. QED
      BY <3>1, <3>2
  <2>3. QED
    BY <2>1, <2>2 DEF PortalThere
<1>6. PortalRun'
  <2>1. \A m \in Member : PortalPart!Admin(m) => PortalPart!Admin(m)'
    BY DEF PortalPart!Admin
  <2>2. QED
    BY <1>4, <2>1, PortalRunStays DEF PortalIInv
<1>7. PortalCounted'
  BY DEF PortalIInv, PortalCounted
<1>8. PortalEmitted'
  BY <1>1, <1>4, PortalEmittedStays, PortalEventTypes DEF PortalIInv
<1>9. QED
  BY <1>3, <1>5, <1>6, <1>7, <1>8 DEF PortalIInv

LEMMA PortalEditBegins ==
    ASSUME PortalDistinct, PortalIInv, NEW c \in Caller, NEW a \in Member, NEW u \in Member,
           NEW fields \in PortalPart!MemberFields, PortalPart!BeginEdit(c, a, u, fields)
    PROVE  PortalIInv'
<1> DEFINE z == [op |-> "TEAM", member |-> u, fields |-> fields]
<1>1. /\ team[u] # Nil /\ busy' = [busy EXCEPT ![c] = z]
      /\ ~stepped' => /\ ~stepped /\ a # u /\ PortalPart!Admin(a)
                      /\ \A d \in Caller : ~PortalPart!Doing(d, "TEAM")
      /\ UNCHANGED <<team, link, tracked, emitted, fresh>>
  BY DEF PortalPart!BeginEdit, PortalPart!Begin
<1>2. z \in PortalEdits /\ z.op = "TEAM" /\ z.member = u /\ z # Nil
  BY DEF PortalEdits, PortalDistinct, PortalCalls
<1> HIDE DEF z
<1>3. PortalTypes
  BY DEF PortalIInv
<1>4. PortalTypes'
  BY <1>1, <1>2, <1>3 DEF PortalTypes, PortalCalls
<1>5. /\ busy'[c] = z
      /\ \A d \in Caller \ {c} : busy'[d] = busy[d]
      /\ \A d \in Caller \ {c}, op \in {"TEAM", "TRACK", "EMIT", "DELIVER"} :
             PortalPart!Doing(d, op)' <=> PortalPart!Doing(d, op)
      /\ ~PortalPart!Doing(c, "TRACK")' /\ ~PortalPart!Doing(c, "DELIVER")'
  BY <1>1, <1>2, <1>3, PortalOthers
<1>6. PortalThere'
  BY <1>1, <1>2, <1>5 DEF PortalIInv, PortalThere
<1>7. PortalRun'
  <2>1. SUFFICES ASSUME ~stepped' PROVE PortalRun'
    BY DEF PortalRun
  <2>2. \A d \in Caller : PortalPart!Doing(d, "TEAM")' => d = c
    BY <1>1, <1>5, <2>1
  <2>3. PortalPart!Admin(a)' /\ a \in Member \ {busy'[c].member}
    BY <1>1, <1>2, <1>5, <2>1 DEF PortalPart!Admin
  <2>4. QED
    BY <2>2, <2>3 DEF PortalRun
<1>8. PortalCounted'
  BY <1>1 DEF PortalIInv, PortalCounted
<1>9. PortalEmitted'
  <2>1. PortalNoneNew("DELIVER")
    BY <1>5 DEF PortalNoneNew
  <2>2. QED
    BY <1>1, <1>3, <2>1, PortalEmittedStays, PortalEventTypes DEF PortalIInv
<1>10. QED
  BY <1>4, <1>6, <1>7, <1>8, <1>9 DEF PortalIInv

\* The edit is written: another administrator stands by.
LEMMA PortalEditWritten ==
    ASSUME PortalDistinct, PortalIInv, NEW c \in Caller, PortalPart!WriteMember(c)
    PROVE  PortalIInv'
<1> DEFINE m == busy[c].member
           fields == busy[c].fields
           new == [f \in DOMAIN team[m] |-> IF f \in DOMAIN fields THEN fields[f] ELSE team[m][f]]
<1>1. /\ PortalPart!Doing(c, "TEAM")
      /\ team' = [team EXCEPT ![m] = new]
      /\ busy' = [busy EXCEPT ![c] = Nil]
      /\ UNCHANGED <<link, tracked, emitted, fresh, stepped>>
  BY DEF PortalPart!WriteMember, PortalPart!End
<1>2. PortalTypes
  BY DEF PortalIInv
<1>3. m \in Member /\ fields \in PortalPart!MemberFields
  BY <1>1, <1>2, PortalKinds DEF PortalEdits
<1>4. team[m] \in PortalMembers
  BY <1>1, <1>2, <1>3 DEF PortalTypes, PortalIInv, PortalThere
<1>5. new \in PortalMembers
  <2>1. /\ "role" \in DOMAIN fields => fields.role \in PortalPart!TeamRole
        /\ "status" \in DOMAIN fields => fields.status \in PortalPart!MemberStatus
    <3>1. CASE fields \in [role : PortalPart!TeamRole]
      BY <3>1
    <3>2. CASE fields \in [status : PortalPart!MemberStatus]
      BY <3>2
    <3>3. CASE fields \in [role : PortalPart!TeamRole, status : PortalPart!MemberStatus]
      BY <3>3
    <3>4. QED
      BY <1>3, <3>1, <3>2, <3>3 DEF PortalPart!MemberFields
  <2>2. /\ DOMAIN team[m] = {"role", "status"}
        /\ team[m].role \in PortalPart!TeamRole /\ team[m].status \in PortalPart!MemberStatus
    BY <1>4 DEF PortalMembers
  <2>3. new = [f \in {"role", "status"} |-> IF f \in DOMAIN fields THEN fields[f] ELSE team[m][f]]
    BY <2>2
  <2> HIDE DEF new, m, fields
  <2>4. new.role \in PortalPart!TeamRole /\ new.status \in PortalPart!MemberStatus
    BY <2>1, <2>2, <2>3
  <2>5. new = [role |-> new.role, status |-> new.status]
    BY <2>3
  <2>6. QED
    BY <2>4, <2>5 DEF PortalMembers
<1> HIDE DEF new, fields
<1>6. /\ team'[m] = new /\ new # Nil
      /\ \A x \in Member : x # m => team'[x] = team[x]
  BY <1>1, <1>2, <1>3, <1>5 DEF PortalTypes, PortalDistinct
<1>7. /\ PortalNoneNew("TEAM") /\ PortalNoneNew("TRACK") /\ PortalNoneNew("DELIVER")
      /\ ~PortalPart!Doing(c, "TEAM")'
  BY <1>1, <1>2, PortalOthers DEF PortalNoneNew
<1>8. PortalTypes'
  BY <1>1, <1>2, <1>3, <1>5 DEF PortalTypes
<1>9. PortalThere'
  <2>1. \A x \in Member : team[x] # Nil => team'[x] # Nil
    BY <1>6
  <2>2. QED
    BY <1>1, <1>2, <1>7, <2>1, PortalThereStays DEF PortalIInv
<1>10. PortalRun'
  <2>1. SUFFICES ASSUME ~stepped' PROVE PortalRun'
    BY DEF PortalRun
  <2>2. PICK a \in Member \ {m} : PortalPart!Admin(a)
    BY <1>1, <2>1 DEF PortalIInv, PortalRun
  <2>3. PortalPart!Admin(a)'
    BY <1>6, <2>2 DEF PortalPart!Admin
  <2>4. \A d \in Caller : ~PortalPart!Doing(d, "TEAM")'
    BY <1>1, <1>7, <2>1 DEF PortalIInv, PortalRun, PortalNoneNew
  <2>5. QED
    BY <2>2, <2>3, <2>4 DEF PortalRun
<1>11. PortalCounted'
  BY <1>1 DEF PortalIInv, PortalCounted
<1>12. PortalEmitted'
  BY <1>1, <1>2, <1>7, PortalEmittedStays, PortalEventTypes DEF PortalIInv
<1>13. QED
  BY <1>8, <1>9, <1>10, <1>11, <1>12 DEF PortalIInv

LEMMA PortalMemberAdded ==
    ASSUME PortalDistinct, PortalIInv, NEW a \in Member, NEW u \in Member,
           NEW role \in PortalPart!TeamRole, PortalPart!CreateMember(a, u, role)
    PROVE  PortalIInv'
<1> DEFINE new == [role |-> role, status |-> "ACTIVE"]
<1>1. /\ team[u] = Nil /\ team' = [team EXCEPT ![u] = new]
      /\ UNCHANGED <<link, tracked, emitted, fresh, busy, stepped>>
  BY DEF PortalPart!CreateMember
<1>2. new \in PortalMembers /\ new # Nil
  BY DEF PortalMembers, PortalPart!MemberStatus, PortalDistinct
<1> HIDE DEF new
<1>3. PortalTypes
  BY DEF PortalIInv
<1>4. team'[u] = new /\ \A x \in Member : x # u => team'[x] = team[x]
  BY <1>1, <1>3 DEF PortalTypes
<1>5. PortalTypes'
  BY <1>1, <1>2, <1>3 DEF PortalTypes
<1>6. PortalNoneNew("TEAM") /\ PortalNoneNew("TRACK") /\ PortalNoneNew("DELIVER")
  BY <1>1 DEF PortalNoneNew, PortalPart!Doing
<1>7. PortalThere'
  <2>1. \A x \in Member : team[x] # Nil => team'[x] # Nil
    BY <1>1, <1>4
  <2>2. QED
    BY <1>1, <1>3, <1>6, <2>1, PortalThereStays DEF PortalIInv
<1>8. PortalRun'
  <2>1. \A x \in Member : PortalPart!Admin(x) => PortalPart!Admin(x)'
    BY <1>1, <1>4 DEF PortalPart!Admin
  <2>2. QED
    BY <1>1, <1>6, <2>1, PortalRunStays DEF PortalIInv
<1>9. PortalCounted'
  BY <1>1 DEF PortalIInv, PortalCounted
<1>10. PortalEmitted'
  BY <1>1, <1>3, <1>6, PortalEmittedStays, PortalEventTypes DEF PortalIInv
<1>11. QED
  BY <1>5, <1>7, <1>8, <1>9, <1>10 DEF PortalIInv

\* The link is made, or its marks change, not its counters.
LEMMA PortalLinkChanges ==
    ASSUME PortalDistinct, PortalIInv,
           PortalPart!CreateLink \/ PortalPart!ExpireLink \/ PortalPart!Deactivate
    PROVE  PortalIInv'
<1>1. /\ UNCHANGED <<team, tracked, emitted, fresh, busy, stepped>>
      /\ \/ /\ link = Nil
            /\ link' = [active |-> TRUE, expired |-> FALSE, clicks |-> 0, converts |-> 0]
         \/ /\ link # Nil
            /\ link' = [link EXCEPT !.expired = TRUE] \/ link' = [link EXCEPT !.active = FALSE]
  BY DEF PortalPart!CreateLink, PortalPart!ExpireLink, PortalPart!Deactivate
<1>2. PortalTypes
  BY DEF PortalIInv
<1>3. /\ link' \in PortalLinks /\ link' # Nil
      /\ link = Nil => link'.clicks = 0 /\ link'.converts = 0
      /\ link # Nil => link'.clicks = link.clicks /\ link'.converts = link.converts
  <2>1. CASE /\ link = Nil
             /\ link' = [active |-> TRUE, expired |-> FALSE, clicks |-> 0, converts |-> 0]
    <3>1. link' \in PortalLinks
      BY <2>1 DEF PortalLinks
    <3>2. QED
      BY <2>1, <3>1 DEF PortalDistinct
  <2>2. CASE link # Nil /\ link' = [link EXCEPT !.expired = TRUE]
    <3>1. link \in PortalLinks
      BY <1>2, <2>2 DEF PortalTypes
    <3>2. link' \in PortalLinks /\ link'.clicks = link.clicks /\ link'.converts = link.converts
      BY <2>2, <3>1 DEF PortalLinks
    <3>3. QED
      BY <2>2, <3>2 DEF PortalDistinct
  <2>3. CASE link # Nil /\ link' = [link EXCEPT !.active = FALSE]
    <3>1. link \in PortalLinks
      BY <1>2, <2>3 DEF PortalTypes
    <3>2. link' \in PortalLinks /\ link'.clicks = link.clicks /\ link'.converts = link.converts
      BY <2>3, <3>1 DEF PortalLinks
    <3>3. QED
      BY <2>3, <3>2 DEF PortalDistinct
  <2>4. QED
    BY <1>1, <2>1, <2>2, <2>3
<1>4. PortalTypes'
  BY <1>1, <1>2, <1>3 DEF PortalTypes
<1>5. PortalNoneNew("TEAM") /\ PortalNoneNew("TRACK") /\ PortalNoneNew("DELIVER")
  BY <1>1 DEF PortalNoneNew, PortalPart!Doing
<1>6. PortalThere'
  BY <1>1, <1>2, <1>3, <1>5, PortalThereStays DEF PortalIInv
<1>7. PortalRun'
  <2>1. \A x \in Member : PortalPart!Admin(x) => PortalPart!Admin(x)'
    BY <1>1 DEF PortalPart!Admin
  <2>2. QED
    BY <1>1, <1>5, <2>1, PortalRunStays DEF PortalIInv
<1>8. PortalCounted'
  BY <1>1, <1>3 DEF PortalIInv, PortalCounted
<1>9. PortalEmitted'
  BY <1>1, <1>2, <1>5, PortalEmittedStays, PortalEventTypes DEF PortalIInv
<1>10. QED
  BY <1>4, <1>6, <1>7, <1>8, <1>9 DEF PortalIInv

\* A referral is recorded, and counted with it.
LEMMA PortalCounts ==
    ASSUME PortalBounds, PortalDistinct, PortalIInv, NEW c \in Caller, PortalPart!Count(c)
    PROVE  PortalIInv'
<1> DEFINE t == busy[c].type
<1>1. /\ PortalPart!Doing(c, "TRACK")
      /\ tracked["CLICK"] + tracked["BOOKING"] < MaxTracked
      /\ tracked' = [tracked EXCEPT ![t] = tracked[t] + 1]
      /\ link' = [link EXCEPT !.clicks = link.clicks + IF t = "CLICK" THEN 1 ELSE 0,
                              !.converts = link.converts + IF t = "BOOKING" THEN 1 ELSE 0]
      /\ busy' = [busy EXCEPT ![c] = Nil]
      /\ UNCHANGED <<team, emitted, fresh, stepped>>
  BY DEF PortalPart!Count, PortalPart!End
<1>2. PortalTypes
  BY DEF PortalIInv
<1>3. t \in {"CLICK", "BOOKING"}
  BY <1>1, <1>2, PortalKinds DEF PortalTracks, PortalPart!TrackedType
<1>4. link # Nil /\ link \in PortalLinks
  BY <1>1, <1>2 DEF PortalIInv, PortalThere, PortalTypes
<1>5. tracked["CLICK"] \in Nat /\ tracked["BOOKING"] \in Nat
  BY <1>2 DEF PortalTypes, PortalPart!TrackedType
<1> HIDE DEF t
<1>6. /\ link' \in PortalLinks /\ link' # Nil
      /\ link'.clicks = link.clicks + IF t = "CLICK" THEN 1 ELSE 0
      /\ link'.converts = link.converts + IF t = "BOOKING" THEN 1 ELSE 0
  <2> DEFINE m == IF t = "CLICK" THEN 1 ELSE 0
             n == IF t = "BOOKING" THEN 1 ELSE 0
  <2>1. m \in Nat /\ n \in Nat
    OBVIOUS
  <2>2. link' = [link EXCEPT !.clicks = link.clicks + m, !.converts = link.converts + n]
    BY <1>1
  <2> HIDE DEF m, n
  <2>3. /\ link \in PortalLinks
        /\ link.clicks + m \in Nat /\ link.converts + n \in Nat
    BY <1>4, <2>1 DEF PortalLinks
  <2>4. /\ link' \in PortalLinks
        /\ link'.clicks = link.clicks + m /\ link'.converts = link.converts + n
    BY <2>2, <2>3 DEF PortalLinks
  <2>5. QED
    BY <2>4 DEF PortalDistinct, m, n
<1>7. /\ tracked'["CLICK"] = tracked["CLICK"] + IF t = "CLICK" THEN 1 ELSE 0
      /\ tracked'["BOOKING"] = tracked["BOOKING"] + IF t = "BOOKING" THEN 1 ELSE 0
  BY <1>1, <1>2, <1>3, <1>5 DEF PortalTypes, PortalPart!TrackedType
<1>8. tracked' \in [PortalPart!TrackedType -> Nat]
  BY <1>1, <1>2, <1>3 DEF PortalTypes, PortalPart!TrackedType
<1>9. /\ PortalNoneNew("TEAM") /\ PortalNoneNew("TRACK") /\ PortalNoneNew("DELIVER")
  BY <1>1, <1>2, PortalOthers DEF PortalNoneNew
<1>10. PortalTypes'
  BY <1>1, <1>2, <1>6, <1>8 DEF PortalTypes
<1>11. PortalThere'
  BY <1>1, <1>2, <1>6, <1>9, PortalThereStays DEF PortalIInv
<1>12. PortalRun'
  <2>1. \A x \in Member : PortalPart!Admin(x) => PortalPart!Admin(x)'
    BY <1>1 DEF PortalPart!Admin
  <2>2. QED
    BY <1>1, <1>9, <2>1, PortalRunStays DEF PortalIInv
<1>13. PortalCounted'
  <2>1. link.clicks = tracked["CLICK"] /\ link.converts = tracked["BOOKING"]
    BY <1>4 DEF PortalIInv, PortalCounted
  <2>2. link'.clicks = tracked'["CLICK"] /\ link'.converts = tracked'["BOOKING"]
    BY <1>6, <1>7, <2>1
  <2>3. tracked'["CLICK"] + tracked'["BOOKING"] <= MaxTracked
    BY <1>1, <1>3, <1>5, <1>7 DEF PortalBounds
  <2>4. QED
    BY <1>6, <2>2, <2>3 DEF PortalCounted
<1>14. PortalEmitted'
  BY <1>1, <1>2, <1>9, PortalEmittedStays, PortalEventTypes DEF PortalIInv
<1>15. QED
  BY <1>10, <1>11, <1>12, <1>13, <1>14 DEF PortalIInv

\* The row of an event is inserted by one call, which delivers it.
LEMMA PortalInserts ==
    ASSUME PortalDistinct, PortalIInv, NEW c \in Caller, PortalPart!InsertEvent(c)
    PROVE  PortalIInv'
<1> DEFINE e == busy[c].event
           new == [busy[c] EXCEPT !.op = "DELIVER"]
<1>1. /\ PortalPart!Doing(c, "EMIT") /\ emitted[e] = "NONE"
      /\ emitted' = [emitted EXCEPT ![e] = "STORED"]
      /\ busy' = [busy EXCEPT ![c] = new]
      /\ UNCHANGED <<team, link, tracked, fresh, stepped>>
  BY DEF PortalPart!InsertEvent
<1>2. PortalTypes
  BY DEF PortalIInv
<1>3. busy[c] \in PortalEvents /\ e \in EventId
  BY <1>1, <1>2, PortalKinds DEF PortalEvents
<1>4. new \in PortalEvents /\ new.op = "DELIVER" /\ new.event = e /\ new # Nil
  <2>1. new \in PortalEvents /\ new.op = "DELIVER" /\ new.event = e
    BY <1>3 DEF PortalEvents
  <2>2. QED
    BY <2>1 DEF PortalDistinct, PortalCalls
<1>5. \A d \in Caller : PortalPart!Doing(d, "DELIVER") => busy[d].event # e
  BY <1>1 DEF PortalIInv, PortalEmitted
<1>6. fresh[e] = 0
  BY <1>1, <1>3 DEF PortalIInv, PortalEmitted
<1> HIDE DEF e, new
<1>7. /\ busy'[c] = new
      /\ \A d \in Caller \ {c} : busy'[d] = busy[d]
      /\ \A d \in Caller \ {c} : PortalPart!Doing(d, "DELIVER")' => PortalPart!Doing(d, "DELIVER")
  BY <1>1, <1>2, PortalOthers
<1>8. PortalNoneNew("TEAM") /\ PortalNoneNew("TRACK")
  BY <1>1, <1>2, <1>4, PortalOthers DEF PortalNoneNew
<1>9. emitted'[e] = "STORED" /\ \A x \in EventId : x # e => emitted'[x] = emitted[x]
  BY <1>1, <1>2, <1>3 DEF PortalTypes
<1>10. PortalTypes'
  BY <1>1, <1>2, <1>3, <1>4 DEF PortalTypes, PortalCalls
<1>11. PortalThere'
  BY <1>1, <1>2, <1>8, PortalThereStays DEF PortalIInv
<1>12. PortalRun'
  <2>1. \A x \in Member : PortalPart!Admin(x) => PortalPart!Admin(x)'
    BY <1>1 DEF PortalPart!Admin
  <2>2. QED
    BY <1>1, <1>8, <2>1, PortalRunStays DEF PortalIInv
<1>13. PortalCounted'
  BY <1>1 DEF PortalIInv, PortalCounted
<1>14. PortalEmitted'
  <2>1. ASSUME NEW x \in EventId
        PROVE  fresh'[x] \in {0, 1} /\ (fresh'[x] = 1 => emitted'[x] = "PROCESSED")
    BY <1>1, <1>6, <1>9 DEF PortalIInv, PortalEmitted
  <2>2. ASSUME NEW d \in Caller, PortalPart!Doing(d, "DELIVER")'
        PROVE  /\ fresh'[busy'[d].event] = 0 /\ emitted'[busy'[d].event] # "NONE"
               /\ \A o \in Caller \ {d} :
                      PortalPart!Doing(o, "DELIVER")' => busy'[o].event # busy'[d].event
    <3>1. CASE d = c
      BY <1>1, <1>4, <1>5, <1>6, <1>7, <1>9, <3>1
    <3>2. CASE d # c
      <4>1. PortalPart!Doing(d, "DELIVER") /\ busy'[d] = busy[d] /\ busy[d].event \in EventId
        BY <1>2, <1>7, <2>2, <3>2, PortalEventTypes
      <4>2. fresh[busy[d].event] = 0 /\ emitted[busy[d].event] # "NONE" /\ busy[d].event # e
        BY <1>5, <4>1 DEF PortalIInv, PortalEmitted
      <4>3. emitted'[busy[d].event] # "NONE"
        BY <1>9, <4>1, <4>2
      <4>4. ASSUME NEW o \in Caller \ {d}, PortalPart!Doing(o, "DELIVER")'
            PROVE  busy'[o].event # busy'[d].event
        <5>1. CASE o = c
          BY <1>4, <1>7, <4>1, <4>2, <5>1
        <5>2. CASE o # c
          BY <1>7, <4>1, <4>4, <5>2 DEF PortalIInv, PortalEmitted
        <5>3. QED
          BY <5>1, <5>2
      <4>5. QED
        BY <1>1, <4>1, <4>2, <4>3, <4>4
    <3>3. QED
      BY <3>1, <3>2
  <2>3. QED
    BY <2>1, <2>2 DEF PortalEmitted
<1>15. QED
  BY <1>10, <1>11, <1>12, <1>13, <1>14 DEF PortalIInv

\* The event is delivered, and the call told so.
LEMMA PortalDelivers ==
    ASSUME PortalDistinct, PortalIInv, NEW c \in Caller, PortalPart!Deliver(c)
    PROVE  PortalIInv'
<1> DEFINE e == busy[c].event
<1>1. /\ PortalPart!Doing(c, "DELIVER")
      /\ emitted' = [emitted EXCEPT ![e] = "PROCESSED"]
      /\ fresh' = [fresh EXCEPT ![e] = fresh[e] + 1]
      /\ busy' = [busy EXCEPT ![c] = Nil]
      /\ UNCHANGED <<team, link, tracked, stepped>>
  BY DEF PortalPart!Deliver, PortalPart!End
<1>2. PortalTypes
  BY DEF PortalIInv
<1>3. e \in EventId
  BY <1>1, <1>2, PortalKinds DEF PortalEvents
<1>4. /\ fresh[e] = 0
      /\ \A d \in Caller \ {c} : PortalPart!Doing(d, "DELIVER") => busy[d].event # e
  BY <1>1 DEF PortalIInv, PortalEmitted
<1> HIDE DEF e
<1>5. /\ ~PortalPart!Doing(c, "DELIVER")'
      /\ \A d \in Caller \ {c} : busy'[d] = busy[d]
      /\ PortalNoneNew("TEAM") /\ PortalNoneNew("TRACK") /\ PortalNoneNew("DELIVER")
  BY <1>1, <1>2, PortalOthers DEF PortalNoneNew
<1>6. /\ emitted'[e] = "PROCESSED" /\ fresh'[e] = 1
      /\ \A x \in EventId : x # e => emitted'[x] = emitted[x] /\ fresh'[x] = fresh[x]
  BY <1>1, <1>2, <1>3, <1>4 DEF PortalTypes
<1>7. PortalTypes'
  BY <1>1, <1>2, <1>3, <1>4 DEF PortalTypes
<1>8. PortalThere'
  BY <1>1, <1>2, <1>5, PortalThereStays DEF PortalIInv
<1>9. PortalRun'
  <2>1. \A x \in Member : PortalPart!Admin(x) => PortalPart!Admin(x)'
    BY <1>1 DEF PortalPart!Admin
  <2>2. QED
    BY <1>1, <1>5, <2>1, PortalRunStays DEF PortalIInv
<1>10. PortalCounted'
  BY <1>1 DEF PortalIInv, PortalCounted
<1>11. PortalEmitted'
  <2>1. ASSUME NEW x \in EventId
        PROVE  fresh'[x] \in {0, 1} /\ (fresh'[x] = 1 => emitted'[x] = "PROCESSED")
    BY <1>6 DEF PortalIInv, PortalEmitted
  <2>2. ASSUME NEW d \in Caller, PortalPart!Doing(d, "DELIVER")'
        PROVE  /\ fresh'[busy'[d].event] = 0 /\ emitted'[busy'[d].event] # "NONE"
               /\ \A o \in Caller \ {d} :
                      PortalPart!Doing(o, "DELIVER")' => busy'[o].event # busy'[d].event
    <3>1. /\ d # c /\ PortalPart!Doing(d, "DELIVER") /\ busy'[d] = busy[d]
          /\ busy[d].event \in EventId /\ busy[d].event # e
      BY <1>2, <1>4, <1>5, <2>2, PortalEventTypes DEF PortalNoneNew
    <3>2. fresh[busy[d].event] = 0 /\ emitted[busy[d].event] # "NONE"
      BY <3>1 DEF PortalIInv, PortalEmitted
    <3>3. ASSUME NEW o \in Caller \ {d}, PortalPart!Doing(o, "DELIVER")'
          PROVE  busy'[o].event # busy'[d].event
      BY <1>5, <3>1, <3>3 DEF PortalNoneNew, PortalIInv, PortalEmitted
    <3>4. QED
      BY <1>6, <3>1, <3>2, <3>3
  <2>3. QED
    BY <2>1, <2>2 DEF PortalEmitted
<1>12. QED
  BY <1>7, <1>8, <1>9, <1>10, <1>11 DEF PortalIInv

LEMMA PortalAcked ==
    ASSUME PortalIInv, NEW e \in EventId, PortalPart!Ack(e)
    PROVE  PortalIInv'
<1>1. /\ emitted' = [emitted EXCEPT ![e] = "PROCESSED"]
      /\ UNCHANGED <<team, link, tracked, fresh, busy, stepped>>
  BY DEF PortalPart!Ack
<1>2. PortalTypes
  BY DEF PortalIInv
<1>3. PortalNoneNew("TEAM") /\ PortalNoneNew("TRACK") /\ PortalNoneNew("DELIVER")
  BY <1>1 DEF PortalNoneNew, PortalPart!Doing
<1>4. PortalTypes'
  BY <1>1, <1>2 DEF PortalTypes
<1>5. PortalThere'
  BY <1>1, <1>2, <1>3, PortalThereStays DEF PortalIInv
<1>6. PortalRun'
  <2>1. \A x \in Member : PortalPart!Admin(x) => PortalPart!Admin(x)'
    BY <1>1 DEF PortalPart!Admin
  <2>2. QED
    BY <1>1, <1>3, <2>1, PortalRunStays DEF PortalIInv
<1>7. PortalCounted'
  BY <1>1 DEF PortalIInv, PortalCounted
<1>8. PortalEmitted'
  <2>1. \A x \in EventId : emitted'[x] # emitted[x] => emitted'[x] = "PROCESSED"
    BY <1>1, <1>2 DEF PortalTypes
  <2>2. QED
    BY <1>1, <1>2, <1>3, <2>1, PortalEmittedStays, PortalEventTypes DEF PortalIInv
<1>9. QED
  BY <1>4, <1>5, <1>6, <1>7, <1>8 DEF PortalIInv

LEMMA PortalStepIInv ==
    ASSUME PortalBounds, PortalDistinct, PortalIInv, PortalPart!Next \/ UNCHANGED portalVars
    PROVE  PortalIInv'
<1>1. ASSUME NEW c \in Caller, PortalPart!CallDies(c) PROVE PortalIInv'
  <2>1. Nil \in PortalTracks \cup PortalEvents \cup {Nil}
    OBVIOUS
  <2>2. QED
    BY <1>1, <2>1, PortalCallsChange DEF PortalPart!CallDies, PortalPart!End
<1>2. ASSUME NEW c \in Caller, NEW a \in Member, NEW u \in Member,
             \/ \E fields \in PortalPart!MemberFields : PortalPart!UpdateMember(c, a, u, fields)
             \/ PortalPart!RemoveMember(c, a, u)
      PROVE  PortalIInv'
  <2>1. [status |-> "SUSPENDED"] \in PortalPart!MemberFields
    BY DEF PortalPart!MemberFields, PortalPart!MemberStatus
  <2>2. QED
    BY <1>2, <2>1, PortalEditBegins DEF PortalPart!UpdateMember, PortalPart!RemoveMember
<1>3. ASSUME NEW c \in Caller, NEW t \in PortalPart!TrackedType, PortalPart!Track(c, t)
      PROVE  PortalIInv'
  <2> DEFINE z == [op |-> "TRACK", type |-> t]
  <2>1. z \in PortalTracks \cup PortalEvents \cup {Nil} /\ z.op = "TRACK"
    BY DEF PortalTracks
  <2>2. /\ link # Nil /\ busy' = [busy EXCEPT ![c] = z]
        /\ UNCHANGED <<team, link, tracked, emitted, fresh, stepped>>
    BY <1>3 DEF PortalPart!Track, PortalPart!Begin
  <2> HIDE DEF z
  <2>3. QED
    BY <2>1, <2>2, PortalCallsChange
<1>4. ASSUME NEW c \in Caller, NEW e \in EventId, PortalPart!EmitEvent(c, e)
      PROVE  PortalIInv'
  <2> DEFINE z == [op |-> "EMIT", event |-> e]
  <2>1. z \in PortalTracks \cup PortalEvents \cup {Nil} /\ z.op = "EMIT"
    BY DEF PortalEvents
  <2>2. /\ busy' = [busy EXCEPT ![c] = z]
        /\ UNCHANGED <<team, link, tracked, emitted, fresh, stepped>>
    BY <1>4 DEF PortalPart!EmitEvent, PortalPart!Begin
  <2> HIDE DEF z
  <2>3. QED
    BY <2>1, <2>2, PortalCallsChange
<1>5. CASE UNCHANGED portalVars
  <2>1. UNCHANGED <<team, link, tracked, emitted, fresh, busy, stepped>>
    BY <1>5 DEF portalVars
  <2>2. PortalTypes
    BY DEF PortalIInv
  <2>3. PortalNoneNew("TEAM") /\ PortalNoneNew("TRACK") /\ PortalNoneNew("DELIVER")
    BY <2>1 DEF PortalNoneNew, PortalPart!Doing
  <2>4. \A x \in Member : PortalPart!Admin(x) => PortalPart!Admin(x)'
    BY <2>1 DEF PortalPart!Admin
  <2>5. PortalTypes' /\ PortalCounted'
    BY <2>1 DEF PortalIInv, PortalTypes, PortalCounted
  <2>6. PortalThere' /\ PortalRun' /\ PortalEmitted'
    BY <2>1, <2>2, <2>3, <2>4, PortalThereStays, PortalRunStays, PortalEmittedStays,
       PortalEventTypes DEF PortalIInv
  <2>7. QED
    BY <2>5, <2>6 DEF PortalIInv
<1>6. QED
  BY <1>1, <1>2, <1>3, <1>4, <1>5, PortalMemberAdded, PortalEditWritten, PortalLinkChanges,
     PortalCounts, PortalInserts, PortalDelivers, PortalAcked DEF PortalPart!Next

LEMMA PortalFlagStep ==
    ASSUME stepped \in BOOLEAN, PortalPart!Next \/ UNCHANGED portalVars
    PROVE  stepped' \in BOOLEAN
<1>1. ASSUME NEW c, NEW a, NEW u, NEW fields, PortalPart!BeginEdit(c, a, u, fields)
      PROVE  stepped' \in BOOLEAN
  BY <1>1 DEF PortalPart!BeginEdit
<1>2. CASE \E c \in Caller, a, u \in Member, fields \in PortalPart!MemberFields :
             PortalPart!UpdateMember(c, a, u, fields)
  BY <1>1, <1>2 DEF PortalPart!UpdateMember
<1>3. CASE \E c \in Caller, a, u \in Member : PortalPart!RemoveMember(c, a, u)
  BY <1>1, <1>3 DEF PortalPart!RemoveMember
<1>4. CASE \E c \in Caller : PortalPart!CallDies(c) \/ PortalPart!WriteMember(c)
  BY <1>4 DEF PortalPart!CallDies, PortalPart!WriteMember
<1>5. CASE \E c \in Caller : \/ PortalPart!Count(c)
                              \/ \E t \in PortalPart!TrackedType : PortalPart!Track(c, t)
  BY <1>5 DEF PortalPart!Count, PortalPart!Track
<1>6. CASE \E c \in Caller : \/ PortalPart!InsertEvent(c) \/ PortalPart!Deliver(c)
                              \/ \E e \in EventId : PortalPart!EmitEvent(c, e)
  BY <1>6 DEF PortalPart!InsertEvent, PortalPart!Deliver, PortalPart!EmitEvent
<1>7. CASE \E a, u \in Member, role \in PortalPart!TeamRole : PortalPart!CreateMember(a, u, role)
  BY <1>7 DEF PortalPart!CreateMember
<1>8. CASE \/ PortalPart!CreateLink \/ PortalPart!ExpireLink \/ PortalPart!Deactivate
           \/ \E e \in EventId : PortalPart!Ack(e)
  BY <1>8 DEF PortalPart!CreateLink, PortalPart!ExpireLink, PortalPart!Deactivate, PortalPart!Ack
<1>9. CASE UNCHANGED portalVars
  BY <1>9 DEF portalVars
<1>10. QED
  BY <1>2, <1>3, <1>4, <1>5, <1>6, <1>7, <1>8, <1>9 DEF PortalPart!Next

LEMMA PortalSuffice ==
    ASSUME PortalBounds, PortalIInv, stepped \in BOOLEAN
    PROVE  PortalPart!TypeOK /\ PortalPart!PortalHolds
<1>1. PortalTypes /\ PortalCounted
  BY DEF PortalIInv
<1>2. \A n \in PortalPart!TrackedType : tracked[n] \in 0 .. MaxTracked
  <2>1. tracked["CLICK"] \in Nat /\ tracked["BOOKING"] \in Nat
    BY <1>1 DEF PortalTypes, PortalPart!TrackedType
  <2>2. QED
    BY <1>1, <2>1 DEF PortalCounted, PortalPart!TrackedType, PortalBounds
<1>3. tracked \in [PortalPart!TrackedType -> 0 .. MaxTracked]
  BY <1>1, <1>2 DEF PortalTypes
<1>4. link # Nil => link.clicks + link.converts \in 0 .. MaxTracked
  <2>1. ASSUME link # Nil
        PROVE  link.clicks \in Nat /\ link.converts \in Nat /\ link.clicks + link.converts <= MaxTracked
    BY <1>1, <2>1 DEF PortalTypes, PortalLinks, PortalCounted
  <2>2. QED
    BY <2>1 DEF PortalBounds
<1>5. /\ team \in [Member -> [role : PortalPart!TeamRole, status : {"ACTIVE", "SUSPENDED"}] \cup {Nil}]
      /\ emitted \in [EventId -> {"NONE", "STORED", "PROCESSED"}]
      /\ DOMAIN busy = Caller
  BY <1>1 DEF PortalTypes, PortalMembers, PortalPart!MemberStatus
<1>6. PortalPart!TypeOK
  BY <1>3, <1>4, <1>5 DEF PortalPart!TypeOK
<1>7. PortalPart!PortalHolds
  <2>1. ~stepped => \E u \in Member : PortalPart!Admin(u)
    BY DEF PortalIInv, PortalRun
  <2>2. link # Nil => link.clicks = tracked["CLICK"] /\ link.converts = tracked["BOOKING"]
    BY DEF PortalIInv, PortalCounted
  <2>3. \A e \in EventId : fresh[e] <= 1 /\ (fresh[e] = 1 => emitted[e] = "PROCESSED")
    <3>1. \A e \in EventId : fresh[e] \in {0, 1} /\ (fresh[e] = 1 => emitted[e] = "PROCESSED")
      BY DEF PortalIInv, PortalEmitted
    <3>2. QED
      BY <3>1
  <2>4. QED
    BY <2>1, <2>2, <2>3 DEF PortalPart!PortalHolds
<1>8. QED
  BY <1>6, <1>7

\* The partner's routes for vehicles, drivers, team, referrals and webhooks:
\* vehicles are driven by the partner's drivers and told apart by their
\* plates, the team keeps an administrator, referrals are counted and events
\* emitted once, whatever calls cross, up to what the ghosts mark.
THEOREM AssetsHoldCorrect ==
    ASSUME FleetDistinct, PortalDistinct, PortalBounds
    PROVE  Spec => []AssetsHold
<1> DEFINE Assets == /\ FleetIInv /\ jammed \in BOOLEAN
                     /\ PortalIInv /\ stepped \in BOOLEAN
<1>1. Init => Assets
  BY FleetInitIInv, PortalInitIInv DEF Init
<1>2. Assets /\ [Next]_vars => Assets'
  <2>1. ASSUME Assets, [Next]_vars
        PROVE  Assets'
    <3>1. FleetPart!Next \/ UNCHANGED fleetVars
      BY <2>1, OnePart
    <3>2. PortalPart!Next \/ UNCHANGED portalVars
      BY <2>1, OnePart
    <3>3. FleetIInv' /\ jammed' \in BOOLEAN
      BY <2>1, <3>1, FleetStepIInv, FleetFlagStep
    <3>4. PortalIInv' /\ stepped' \in BOOLEAN
      BY <2>1, <3>2, PortalStepIInv, PortalFlagStep
    <3>5. QED
      BY <3>3, <3>4
  <2>2. QED
    BY <2>1
<1>3. Assets => AssetsHold
  BY FleetSuffice, PortalSuffice DEF AssetsHold
<1> HIDE DEF Assets
<1>4. QED
  BY <1>1, <1>2, <1>3, PTL DEF Spec

-----------------------------------------------------------------------------
(* Whole trips: for any plans, direct bookings and deliveries, that a stored *)
(* plan tells what the adapters hold for it.                                 *)

PlansTrips ==
    [asked   : SUBSET TripPlansPart!Legs,
     known   : SUBSET TripPlansPart!Legs,
     answers : UNION {[legs -> TripPlansPart!Answer] : legs \in SUBSET TripPlansPart!Legs},
     next    : 0 .. 4]

\* What is booked directly is no plan.
PlansBounds == Plans \cap Direct = {}
PlansDistinct == Nil \notin PlansTrips

PlansTypes ==
    /\ trip \in [Plans -> PlansTrips \cup {Nil}]
    /\ DOMAIN stored = Plans
    /\ reserved \in [TripPlansPart!Booking -> {"NONE", "CONFIRMED", "PENDING", "CANCELLED"}]
    /\ hook \in [Delivery -> {"NONE", "RECEIVED", "PROCESSED", "STUCK"}]
    /\ acked \subseteq Delivery

\* The legs before the n-th.
PlansBefore(n) == {TripPlansPart!Leg[i] : i \in 1 .. n - 1}

\* A leg that was answered as booked is held so, or cancelled.
PlansHeld(p) ==
    \A leg \in DOMAIN trip[p].answers : trip[p].answers[leg] \in TripPlansPart!Booked =>
        reserved[<<p, leg>>] \in {trip[p].answers[leg], "CANCELLED"}

\* A trip has answers of legs that were asked for and whose provider is known;
\* of all of them that are behind it, and the adapters hold what they answered,
\* unless its call was cut off; nothing is held of a leg without an answer.
PlansBooked(p) ==
    IF trip[p] = Nil
    THEN \A leg \in TripPlansPart!Legs : reserved[<<p, leg>>] = "NONE"
    ELSE /\ DOMAIN trip[p].answers \subseteq trip[p].asked \cap trip[p].known
         /\ \A leg \in TripPlansPart!Legs \ DOMAIN trip[p].answers : reserved[<<p, leg>>] = "NONE"
         /\ trip[p].next # 0 =>
              /\ DOMAIN trip[p].answers =
                   trip[p].asked \cap trip[p].known \cap PlansBefore(trip[p].next)
              /\ PlansHeld(p)

\* What is stored is what came of the trip.
PlansStored(p) ==
    stored[p] # Nil =>
        /\ trip[p] # Nil /\ trip[p].next = 4
        /\ stored[p] = [status  |-> IF TripPlansPart!AllConfirmed(trip[p].answers)
                                    THEN "CONFIRMED" ELSE "CONFIRMING",
                        answers |-> trip[p].answers]

PlansIInv ==
    /\ PlansTypes
    /\ \A p \in Plans : PlansBooked(p) /\ PlansStored(p)
    /\ \A d \in acked : hook[d] = "PROCESSED"

-----------------------------------------------------------------------------
\* The legs and their order.
LEMMA PlansLegs ==
    /\ TripPlansPart!Legs = {"FLIGHT", "HOTEL", "ACTIVITY"}
    /\ Len(TripPlansPart!Leg) = 3 /\ DOMAIN TripPlansPart!Leg = 1 .. 3
    /\ TripPlansPart!Leg[1] = "FLIGHT" /\ TripPlansPart!Leg[2] = "HOTEL"
    /\ TripPlansPart!Leg[3] = "ACTIVITY"
    /\ PlansBefore(1) = {} /\ PlansBefore(4) = TripPlansPart!Legs
<1>1. /\ Len(TripPlansPart!Leg) = 3 /\ DOMAIN TripPlansPart!Leg = 1 .. 3
      /\ TripPlansPart!Leg[1] = "FLIGHT" /\ TripPlansPart!Leg[2] = "HOTEL"
      /\ TripPlansPart!Leg[3] = "ACTIVITY"
  BY DEF TripPlansPart!Leg
<1>2. TripPlansPart!Legs = {"FLIGHT", "HOTEL", "ACTIVITY"}
  BY <1>1 DEF TripPlansPart!Legs
<1>3. PlansBefore(1) = {} /\ PlansBefore(4) = {"FLIGHT", "HOTEL", "ACTIVITY"}
  BY <1>1 DEF PlansBefore
<1>4. QED
  BY <1>1, <1>2, <1>3

\* The leg that is next, and those behind it then.
LEMMA PlansNextLeg ==
    ASSUME NEW n \in 1 .. 3
    PROVE  /\ TripPlansPart!Leg[n] \in TripPlansPart!Legs
           /\ TripPlansPart!Leg[n] \notin PlansBefore(n)
           /\ PlansBefore(n + 1) = PlansBefore(n) \cup {TripPlansPart!Leg[n]}
<1>1. CASE n = 1
  BY <1>1, PlansLegs DEF PlansBefore
<1>2. CASE n = 2
  BY <1>2, PlansLegs DEF PlansBefore
<1>3. CASE n = 3
  BY <1>3, PlansLegs DEF PlansBefore
<1>4. QED
  BY <1>1, <1>2, <1>3

LEMMA PlansInitIInv ==
    ASSUME TripPlansPart!Init
    PROVE  PlansIInv
<1>1. PlansTypes
  BY DEF TripPlansPart!Init, PlansTypes
<1>2. \A p \in Plans, leg \in TripPlansPart!Legs : <<p, leg>> \in TripPlansPart!Booking
  BY DEF TripPlansPart!Booking
<1>3. \A p \in Plans : PlansBooked(p) /\ PlansStored(p)
  BY <1>2 DEF TripPlansPart!Init, PlansBooked, PlansStored
<1>4. QED
  BY <1>1, <1>3 DEF PlansIInv, TripPlansPart!Init

\* A trip that nothing is done for stays as it is booked and stored.
LEMMA PlansOthers ==
    ASSUME NEW p \in Plans, trip[p] \in PlansTrips \cup {Nil}, PlansBooked(p), PlansStored(p),
           trip'[p] = trip[p], stored'[p] = stored[p],
           \A leg \in TripPlansPart!Legs : reserved'[<<p, leg>>] = reserved[<<p, leg>>]
    PROVE  PlansBooked(p)' /\ PlansStored(p)'
<1>1. PlansStored(p)'
  BY DEF PlansStored
<1>2. trip[p] # Nil => DOMAIN trip[p].answers \subseteq TripPlansPart!Legs
  BY DEF PlansBooked, PlansTrips
<1>3. PlansBooked(p)'
  <2>1. CASE trip[p] = Nil
    BY <2>1 DEF PlansBooked
  <2>2. CASE trip[p] # Nil
    <3>1. PlansHeld(p) => PlansHeld(p)'
      BY <1>2, <2>2 DEF PlansHeld
    <3>2. QED
      BY <2>2, <3>1 DEF PlansBooked
  <2>3. QED
    BY <2>1, <2>2
<1>4. QED
  BY <1>1, <1>3

\* A traveller asks: nothing is answered or booked yet.
LEMMA PlansAsked ==
    ASSUME PlansDistinct, PlansIInv,
           NEW p \in Plans, NEW asked0 \in SUBSET TripPlansPart!Legs,
           NEW known \in SUBSET asked0, TripPlansPart!BookTrip(p, asked0, known)
    PROVE  PlansIInv'
<1> DEFINE z == [asked |-> asked0, known |-> known, answers |-> << >>, next |-> 1]
<1>1. /\ trip[p] = Nil /\ trip' = [trip EXCEPT ![p] = z]
      /\ UNCHANGED <<stored, reserved, hook, acked>>
  BY DEF TripPlansPart!BookTrip
<1>2. z \in PlansTrips /\ DOMAIN z.answers = {} /\ z.next = 1 /\ z # Nil
  <2>1. << >> \in [{} -> TripPlansPart!Answer] /\ DOMAIN << >> = {}
    OBVIOUS
  <2>2. << >> \in UNION {[legs -> TripPlansPart!Answer] : legs \in SUBSET TripPlansPart!Legs}
    BY <2>1
  <2>3. known \in SUBSET TripPlansPart!Legs /\ 1 \in 0 .. 4
    OBVIOUS
  <2>4. z \in PlansTrips
    <3> DEFINE A == UNION {[legs -> TripPlansPart!Answer] : legs \in SUBSET TripPlansPart!Legs}
    <3>1. << >> \in A
      BY <2>2
    <3> HIDE DEF A
    <3>2. z \in [asked : SUBSET TripPlansPart!Legs, known : SUBSET TripPlansPart!Legs,
                 answers : A, next : 0 .. 4]
      BY <2>3, <3>1
    <3>3. QED
      BY <3>2 DEF PlansTrips, A
  <2>5. QED
    BY <2>1, <2>4 DEF PlansDistinct
<1> HIDE DEF z
<1>3. PlansTypes'
  BY <1>1, <1>2 DEF PlansIInv, PlansTypes
<1>4. trip'[p] = z /\ \A q \in Plans \ {p} : trip'[q] = trip[q]
  BY <1>1 DEF PlansIInv, PlansTypes
<1>5. PlansBooked(p)' /\ PlansStored(p)'
  <2>1. PlansBooked(p) /\ PlansStored(p)
    BY DEF PlansIInv
  <2>2. stored[p] = Nil
    BY <1>1, <2>1 DEF PlansStored
  <2>3. \A leg \in TripPlansPart!Legs : reserved[<<p, leg>>] = "NONE"
    BY <1>1, <2>1 DEF PlansBooked
  <2>4. PlansHeld(p)'
    BY <1>2, <1>4 DEF PlansHeld
  <2>5. PlansBooked(p)'
    BY <1>1, <1>2, <1>4, <2>3, <2>4, PlansLegs DEF PlansBooked
  <2>6. QED
    BY <1>1, <2>2, <2>5 DEF PlansStored
<1>6. \A q \in Plans \ {p} : PlansBooked(q)' /\ PlansStored(q)'
  BY <1>1, <1>4, PlansOthers DEF PlansIInv, PlansTypes
<1>7. QED
  BY <1>1, <1>3, <1>5, <1>6 DEF PlansIInv

\* A trip that is at a leg has no answer of it yet, and is not stored.
LEMMA PlansAtLeg ==
    ASSUME PlansIInv, NEW p \in Plans, trip[p] # Nil,
           trip[p].next \in DOMAIN TripPlansPart!Leg
    PROVE  LET n == trip[p].next IN
           /\ trip[p] \in PlansTrips /\ n \in 1 .. 3 /\ stored[p] = Nil
           /\ TripPlansPart!Leg[n] \in TripPlansPart!Legs \ DOMAIN trip[p].answers
           /\ PlansBefore(n + 1) = PlansBefore(n) \cup {TripPlansPart!Leg[n]}
           /\ DOMAIN trip[p].answers = trip[p].asked \cap trip[p].known \cap PlansBefore(n)
           /\ \A leg \in TripPlansPart!Legs \ DOMAIN trip[p].answers :
                 reserved[<<p, leg>>] = "NONE"
           /\ PlansHeld(p)
<1>1. trip[p] \in PlansTrips /\ PlansBooked(p) /\ PlansStored(p)
  BY DEF PlansIInv, PlansTypes
<1>2. trip[p].next \in 1 .. 3
  BY PlansLegs
<1>3. stored[p] = Nil
  BY <1>1, <1>2 DEF PlansStored
<1>4. /\ DOMAIN trip[p].answers = trip[p].asked \cap trip[p].known \cap PlansBefore(trip[p].next)
      /\ \A leg \in TripPlansPart!Legs \ DOMAIN trip[p].answers : reserved[<<p, leg>>] = "NONE"
      /\ PlansHeld(p)
  BY <1>1, <1>2 DEF PlansBooked
<1>5. QED
  BY <1>1, <1>2, <1>3, <1>4, PlansNextLeg

\* A leg is skipped.
LEMMA PlansSkipped ==
    ASSUME PlansDistinct, PlansIInv, NEW p \in Plans, TripPlansPart!SkipLeg(p)
    PROVE  PlansIInv'
<1> DEFINE t == trip[p]
           n == t.next
           leg == TripPlansPart!Leg[n]
           z == [t EXCEPT !.next = n + 1]
<1>1. t # Nil /\ n \in DOMAIN TripPlansPart!Leg /\ leg \notin t.asked \cap t.known
  BY DEF TripPlansPart!SkipLeg, TripPlansPart!Wanted
<1>2. /\ t \in PlansTrips /\ n \in 1 .. 3 /\ stored[p] = Nil
      /\ PlansBefore(n + 1) = PlansBefore(n) \cup {leg}
      /\ DOMAIN t.answers = t.asked \cap t.known \cap PlansBefore(n)
      /\ \A l \in TripPlansPart!Legs \ DOMAIN t.answers : reserved[<<p, l>>] = "NONE"
      /\ PlansHeld(p)
  BY <1>1, PlansAtLeg
<1>3. trip' = [trip EXCEPT ![p] = z] /\ UNCHANGED <<stored, reserved, hook, acked>>
  BY DEF TripPlansPart!SkipLeg
<1>4. /\ z \in PlansTrips /\ z # Nil /\ z.next = n + 1 /\ z.answers = t.answers
      /\ z.asked = t.asked /\ z.known = t.known
  <2> DEFINE A == UNION {[legs -> TripPlansPart!Answer] : legs \in SUBSET TripPlansPart!Legs}
  <2>1. t \in [asked : SUBSET TripPlansPart!Legs, known : SUBSET TripPlansPart!Legs,
               answers : A, next : 0 .. 4]
    BY <1>2 DEF PlansTrips
  <2> HIDE DEF A
  <2>2. n + 1 \in 0 .. 4
    BY <1>2
  <2>3. /\ z \in [asked : SUBSET TripPlansPart!Legs, known : SUBSET TripPlansPart!Legs,
                  answers : A, next : 0 .. 4]
        /\ z.next = n + 1 /\ z.answers = t.answers /\ z.asked = t.asked /\ z.known = t.known
    BY <2>1, <2>2
  <2>4. QED
    BY <2>3 DEF PlansTrips, PlansDistinct, A
<1> HIDE DEF z
<1>5. trip'[p] = z /\ \A q \in Plans \ {p} : trip'[q] = trip[q]
  BY <1>3 DEF PlansIInv, PlansTypes
<1>6. PlansTypes'
  BY <1>3, <1>4 DEF PlansIInv, PlansTypes
<1>7. PlansBooked(p)' /\ PlansStored(p)'
  <2>1. DOMAIN z.answers = z.asked \cap z.known \cap PlansBefore(z.next)
    BY <1>1, <1>2, <1>4
  <2>2. PlansHeld(p)'
    BY <1>2, <1>3, <1>4, <1>5 DEF PlansHeld
  <2>3. DOMAIN z.answers \subseteq z.asked \cap z.known
    BY <2>1
  <2>4. PlansBooked(p)'
    BY <1>2, <1>3, <1>4, <1>5, <2>1, <2>2, <2>3 DEF PlansBooked
  <2>5. QED
    BY <1>2, <1>3, <2>4 DEF PlansStored
<1>8. \A q \in Plans \ {p} : PlansBooked(q)' /\ PlansStored(q)'
  BY <1>3, <1>5, PlansOthers DEF PlansIInv, PlansTypes
<1>9. QED
  BY <1>3, <1>6, <1>7, <1>8 DEF PlansIInv

\* A leg is booked: if its answer says so, it is what the adapter holds.
LEMMA PlansLegBooked ==
    ASSUME PlansDistinct, PlansIInv, NEW p \in Plans,
           NEW answer \in TripPlansPart!Answer, NEW held \in TripPlansPart!Held,
           TripPlansPart!BookLeg(p, answer, held)
    PROVE  PlansIInv'
<1> DEFINE t == trip[p]
           n == t.next
           leg == TripPlansPart!Leg[n]
           answers == [l \in DOMAIN t.answers \cup {leg} |-> IF l = leg THEN answer ELSE t.answers[l]]
           z == [t EXCEPT !.next = n + 1, !.answers = answers]
<1>1. t # Nil /\ n \in DOMAIN TripPlansPart!Leg /\ leg \in t.asked \cap t.known
  BY DEF TripPlansPart!BookLeg, TripPlansPart!Wanted
<1>2. /\ t \in PlansTrips /\ n \in 1 .. 3 /\ stored[p] = Nil
      /\ leg \in TripPlansPart!Legs \ DOMAIN t.answers
      /\ PlansBefore(n + 1) = PlansBefore(n) \cup {leg}
      /\ DOMAIN t.answers = t.asked \cap t.known \cap PlansBefore(n)
      /\ \A l \in TripPlansPart!Legs \ DOMAIN t.answers : reserved[<<p, l>>] = "NONE"
      /\ PlansHeld(p)
  BY <1>1, PlansAtLeg
<1>3. /\ trip' = [trip EXCEPT ![p] = z]
      /\ reserved' = [reserved EXCEPT ![<<p, leg>>] = held]
      /\ UNCHANGED <<stored, hook, acked>>
      /\ answer \in TripPlansPart!Booked => held = answer
  <2>1. DOMAIN trip = Plans
    BY DEF PlansIInv, PlansTypes
  <2>2. QED
    BY <1>2, <2>1 DEF TripPlansPart!BookLeg, PlansTrips
<1>4. PICK legs \in SUBSET TripPlansPart!Legs : t.answers \in [legs -> TripPlansPart!Answer]
  BY <1>2 DEF PlansTrips
<1>5. /\ DOMAIN answers = DOMAIN t.answers \cup {leg}
      /\ DOMAIN answers \in SUBSET TripPlansPart!Legs
      /\ answers \in [DOMAIN answers -> TripPlansPart!Answer]
      /\ \A l \in DOMAIN t.answers \ {leg} : answers[l] = t.answers[l]
      /\ answers[leg] = answer
  BY <1>2, <1>4
<1> HIDE DEF answers, leg
<1>6. /\ z \in PlansTrips /\ z # Nil /\ z.next = n + 1 /\ z.answers = answers
      /\ z.asked = t.asked /\ z.known = t.known
  <2> DEFINE A == UNION {[legs2 -> TripPlansPart!Answer] : legs2 \in SUBSET TripPlansPart!Legs}
  <2>1. answers \in A
    BY <1>5
  <2>2. t \in [asked : SUBSET TripPlansPart!Legs, known : SUBSET TripPlansPart!Legs,
               answers : A, next : 0 .. 4]
    BY <1>2 DEF PlansTrips
  <2> HIDE DEF A
  <2>3. n + 1 \in 0 .. 4
    BY <1>2
  <2>4. /\ z \in [asked : SUBSET TripPlansPart!Legs, known : SUBSET TripPlansPart!Legs,
                  answers : A, next : 0 .. 4]
        /\ z.next = n + 1 /\ z.answers = answers /\ z.asked = t.asked /\ z.known = t.known
    BY <2>1, <2>2, <2>3
  <2>5. QED
    BY <2>4 DEF PlansTrips, PlansDistinct, A
<1> HIDE DEF z
<1>7. trip'[p] = z /\ \A q \in Plans \ {p} : trip'[q] = trip[q]
  BY <1>3 DEF PlansIInv, PlansTypes
<1>8. /\ \A q \in Plans, l \in TripPlansPart!Legs :
            <<q, l>> # <<p, leg>> => reserved'[<<q, l>>] = reserved[<<q, l>>]
      /\ reserved'[<<p, leg>>] = held
  <2>1. \A q \in Plans, l \in TripPlansPart!Legs : <<q, l>> \in TripPlansPart!Booking
    BY DEF TripPlansPart!Booking
  <2>2. DOMAIN reserved = TripPlansPart!Booking
    BY DEF PlansIInv, PlansTypes
  <2>3. QED
    BY <1>2, <1>3, <2>1, <2>2
<1>9. PlansTypes'
  <2>1. held \in {"NONE", "CONFIRMED", "PENDING", "CANCELLED"}
    BY DEF TripPlansPart!Held, TripPlansPart!Booked
  <2>2. reserved' \in [TripPlansPart!Booking -> {"NONE", "CONFIRMED", "PENDING", "CANCELLED"}]
    BY <1>3, <2>1 DEF PlansIInv, PlansTypes
  <2>3. QED
    BY <1>3, <1>6, <2>2 DEF PlansIInv, PlansTypes
<1>10. PlansBooked(p)' /\ PlansStored(p)'
  <2>1. DOMAIN z.answers = z.asked \cap z.known \cap PlansBefore(z.next)
    BY <1>1, <1>2, <1>5, <1>6 DEF leg
  <2>2. \A l \in TripPlansPart!Legs \ DOMAIN z.answers : reserved'[<<p, l>>] = "NONE"
    BY <1>2, <1>5, <1>6, <1>8
  <2>3. ASSUME NEW l \in DOMAIN z.answers, z.answers[l] \in TripPlansPart!Booked
        PROVE  reserved'[<<p, l>>] \in {z.answers[l], "CANCELLED"}
    <3>1. CASE l = leg
      BY <1>3, <1>5, <1>6, <1>8, <2>3, <3>1
    <3>2. CASE l # leg
      <4>1. l \in DOMAIN t.answers /\ l \in TripPlansPart!Legs
        BY <1>5, <1>6, <3>2
      <4>2. z.answers[l] = t.answers[l] /\ reserved'[<<p, l>>] = reserved[<<p, l>>]
        BY <1>5, <1>6, <1>8, <3>2, <4>1
      <4>3. QED
        BY <1>2, <2>3, <4>1, <4>2 DEF PlansHeld
    <3>3. QED
      BY <3>1, <3>2
  <2>4. PlansHeld(p)'
    BY <1>7, <2>3 DEF PlansHeld
  <2>5. DOMAIN z.answers \subseteq z.asked \cap z.known
    BY <2>1
  <2>6. PlansBooked(p)'
    BY <1>6, <1>7, <2>1, <2>2, <2>4, <2>5 DEF PlansBooked
  <2>7. QED
    BY <1>2, <1>3, <2>6 DEF PlansStored
<1>11. ASSUME NEW q \in Plans \ {p}
       PROVE  PlansBooked(q)' /\ PlansStored(q)'
  <2>1. \A l \in TripPlansPart!Legs : reserved'[<<q, l>>] = reserved[<<q, l>>]
    BY <1>8
  <2>2. trip'[q] = trip[q] /\ stored'[q] = stored[q]
    BY <1>3, <1>7
  <2>3. PlansBooked(q) /\ PlansStored(q) /\ trip[q] \in PlansTrips \cup {Nil}
    BY DEF PlansIInv, PlansTypes
  <2>4. QED
    BY <2>1, <2>2, <2>3, PlansOthers
<1>12. QED
  BY <1>3, <1>9, <1>10, <1>11 DEF PlansIInv

\* A plan is stored when its legs are behind it.
LEMMA PlansKept ==
    ASSUME PlansIInv, NEW p \in Plans, TripPlansPart!StorePlan(p)
    PROVE  PlansIInv'
<1> DEFINE z == [status  |-> IF TripPlansPart!AllConfirmed(trip[p].answers)
                             THEN "CONFIRMED" ELSE "CONFIRMING",
                 answers |-> trip[p].answers]
<1>1. /\ trip[p] # Nil /\ trip[p].next = 4
      /\ stored' = [stored EXCEPT ![p] = z]
      /\ UNCHANGED <<trip, reserved, hook, acked>>
  BY PlansLegs DEF TripPlansPart!StorePlan
<1>2. PlansTypes'
  BY <1>1 DEF PlansIInv, PlansTypes
<1>3. stored'[p] = z /\ \A q \in Plans \ {p} : stored'[q] = stored[q]
  BY <1>1 DEF PlansIInv, PlansTypes
<1>4. PlansBooked(p)'
  BY <1>1 DEF PlansIInv, PlansBooked, PlansHeld
<1>5. PlansStored(p)'
  BY <1>1, <1>3 DEF PlansStored
<1>6. \A q \in Plans \ {p} : PlansBooked(q)' /\ PlansStored(q)'
  BY <1>1, <1>3, PlansOthers DEF PlansIInv, PlansTypes
<1>7. QED
  BY <1>1, <1>2, <1>4, <1>5, <1>6 DEF PlansIInv

\* A direct booking is no leg of a plan; what is cancelled was booked.
LEMMA PlansRoutes ==
    ASSUME PlansBounds, PlansIInv, NEW b \in TripPlansPart!Booking,
           TripPlansPart!Book(b) \/ TripPlansPart!CancelBooking(b)
    PROVE  PlansIInv'
<1>1. UNCHANGED <<trip, stored, hook, acked>>
  BY DEF TripPlansPart!Book, TripPlansPart!CancelBooking
<1>2. reserved' \in [TripPlansPart!Booking -> {"NONE", "CONFIRMED", "PENDING", "CANCELLED"}]
  BY DEF PlansIInv, PlansTypes, TripPlansPart!Book, TripPlansPart!CancelBooking
<1>3. PlansTypes'
  BY <1>1, <1>2 DEF PlansIInv, PlansTypes
<1>4. ASSUME NEW p \in Plans, NEW leg \in TripPlansPart!Legs
      PROVE  \/ reserved'[<<p, leg>>] = reserved[<<p, leg>>]
             \/ reserved[<<p, leg>>] # "NONE" /\ reserved'[<<p, leg>>] = "CANCELLED"
  <2>1. <<p, leg>> \in TripPlansPart!Booking
    BY DEF TripPlansPart!Booking
  <2>2. CASE TripPlansPart!Book(b)
    <3>1. <<p, leg>> # b
      <4>1. b[1] \in Direct
        BY <2>2 DEF TripPlansPart!Book
      <4>2. <<p, leg>>[1] = p
        OBVIOUS
      <4>3. QED
        BY <4>1, <4>2 DEF PlansBounds
    <3>2. QED
      BY <2>1, <2>2, <3>1 DEF TripPlansPart!Book, PlansIInv, PlansTypes
  <2>3. CASE TripPlansPart!CancelBooking(b)
    BY <2>1, <2>3 DEF TripPlansPart!CancelBooking, PlansIInv, PlansTypes
  <2>4. QED
    BY <2>2, <2>3
<1>5. ASSUME NEW p \in Plans
      PROVE  PlansBooked(p)' /\ PlansStored(p)'
  <2>1. PlansBooked(p) /\ PlansStored(p) /\ trip[p] \in PlansTrips \cup {Nil}
    BY DEF PlansIInv, PlansTypes
  <2>2. PlansStored(p)'
    BY <1>1, <2>1 DEF PlansStored
  <2>3. CASE trip[p] = Nil
    BY <1>1, <1>4, <2>1, <2>2, <2>3 DEF PlansBooked
  <2>4. CASE trip[p] # Nil
    <3>1. DOMAIN trip[p].answers \subseteq TripPlansPart!Legs
      BY <2>1, <2>4 DEF PlansBooked, PlansTrips
    <3>2. PlansHeld(p) => PlansHeld(p)'
      BY <1>1, <1>4, <3>1 DEF PlansHeld
    <3>3. PlansBooked(p)'
      BY <1>1, <1>4, <2>1, <2>4, <3>2 DEF PlansBooked
    <3>4. QED
      BY <2>2, <3>3
  <2>5. QED
    BY <2>3, <2>4
<1>6. QED
  BY <1>1, <1>3, <1>5 DEF PlansIInv

\* Nothing but rows and their marks come of webhooks.
LEMMA PlansWebhooks ==
    ASSUME PlansIInv, NEW d \in Delivery,
           TripPlansPart!ReceiveWebhook(d) \/ TripPlansPart!ProcessWebhook(d)
    PROVE  PlansIInv'
<1>1. UNCHANGED <<trip, stored, reserved>>
  BY DEF TripPlansPart!ReceiveWebhook, TripPlansPart!ProcessWebhook
<1>2. \A p \in Plans : PlansBooked(p)' /\ PlansStored(p)'
  BY <1>1, PlansOthers DEF PlansIInv, PlansTypes
<1>3. PlansTypes' /\ \A e \in acked' : hook'[e] = "PROCESSED"
  BY <1>1 DEF PlansIInv, PlansTypes, TripPlansPart!ReceiveWebhook, TripPlansPart!ProcessWebhook
<1>4. QED
  BY <1>2, <1>3 DEF PlansIInv

\* The process starts again: no plan is stored, no call goes on, and what is
\* held is what was held, or nothing.
LEMMA PlansLost ==
    ASSUME PlansDistinct, PlansIInv, NEW kept \in BOOLEAN, TripPlansPart!Restart(kept)
    PROVE  PlansIInv'
<1>1. /\ trip' = [p \in Plans |-> IF trip[p] = Nil THEN Nil ELSE [trip[p] EXCEPT !.next = 0]]
      /\ stored' = [p \in Plans |-> Nil]
      /\ reserved' = reserved \/ reserved' = [b \in TripPlansPart!Booking |-> "NONE"]
      /\ hook' = [d \in Delivery |-> IF hook[d] = "RECEIVED" THEN "STUCK" ELSE hook[d]]
      /\ acked' = acked
  BY DEF TripPlansPart!Restart
<1>2. ASSUME NEW p \in Plans, trip[p] # Nil
      PROVE  /\ trip'[p] \in PlansTrips /\ trip'[p] # Nil /\ trip'[p].next = 0
             /\ trip'[p].asked = trip[p].asked /\ trip'[p].known = trip[p].known
             /\ trip'[p].answers = trip[p].answers
  <2> DEFINE A == UNION {[legs -> TripPlansPart!Answer] : legs \in SUBSET TripPlansPart!Legs}
             T == [asked : SUBSET TripPlansPart!Legs, known : SUBSET TripPlansPart!Legs,
                   answers : A, next : 0 .. 4]
  <2>1. trip[p] \in PlansTrips
    BY <1>2 DEF PlansIInv, PlansTypes
  <2>2. trip[p] \in T
    BY <2>1 DEF PlansTrips
  <2> HIDE DEF A
  <2>3. trip'[p] = [trip[p] EXCEPT !.next = 0]
    BY <1>1, <1>2
  <2>4. /\ trip'[p] \in T /\ trip'[p].next = 0
        /\ trip'[p].asked = trip[p].asked /\ trip'[p].known = trip[p].known
        /\ trip'[p].answers = trip[p].answers
    BY <2>2, <2>3
  <2>5. trip'[p] \in PlansTrips
    BY <2>4 DEF PlansTrips, A
  <2>6. QED
    BY <2>4, <2>5 DEF PlansDistinct
<1>3. PlansTypes'
  <2>1. \A p \in Plans : trip'[p] \in PlansTrips \cup {Nil}
    BY <1>1, <1>2
  <2>2. trip' \in [Plans -> PlansTrips \cup {Nil}]
    BY <1>1, <2>1
  <2>3. QED
    BY <1>1, <2>2 DEF PlansIInv, PlansTypes
<1>4. \A p \in Plans, leg \in TripPlansPart!Legs :
          reserved[<<p, leg>>] = "NONE" => reserved'[<<p, leg>>] = "NONE"
  <2>1. \A p \in Plans, leg \in TripPlansPart!Legs : <<p, leg>> \in TripPlansPart!Booking
    BY DEF TripPlansPart!Booking
  <2>2. QED
    BY <1>1, <2>1
<1>5. ASSUME NEW p \in Plans
      PROVE  PlansBooked(p)' /\ PlansStored(p)'
  <2>1. PlansBooked(p)
    BY DEF PlansIInv
  <2>2. stored'[p] = Nil
    BY <1>1
  <2>3. CASE trip[p] = Nil
    <3>1. trip'[p] = Nil
      BY <1>1, <2>3
    <3>2. QED
      BY <1>4, <2>1, <2>2, <2>3, <3>1 DEF PlansBooked, PlansStored
  <2>4. CASE trip[p] # Nil
    BY <1>2, <1>4, <2>1, <2>2, <2>4 DEF PlansBooked, PlansStored
  <2>5. QED
    BY <2>3, <2>4
<1>6. \A d \in acked' : hook'[d] = "PROCESSED"
  BY <1>1 DEF PlansIInv, PlansTypes
<1>7. QED
  BY <1>3, <1>5, <1>6 DEF PlansIInv

LEMMA PlansStepIInv ==
    ASSUME PlansBounds, PlansDistinct, PlansIInv, TripPlansPart!Next \/ UNCHANGED planVars
    PROVE  PlansIInv'
<1>1. CASE \E p \in Plans, asked0 \in SUBSET TripPlansPart!Legs :
              \E known \in SUBSET asked0 : TripPlansPart!BookTrip(p, asked0, known)
  BY <1>1, PlansAsked
<1>2. CASE \E p \in Plans : TripPlansPart!SkipLeg(p)
  BY <1>2, PlansSkipped
<1>3. CASE \E p \in Plans, answer \in TripPlansPart!Answer, held \in TripPlansPart!Held :
              TripPlansPart!BookLeg(p, answer, held)
  BY <1>3, PlansLegBooked
<1>4. CASE \E p \in Plans : TripPlansPart!StorePlan(p)
  BY <1>4, PlansKept
<1>5. CASE \E b \in TripPlansPart!Booking : TripPlansPart!Book(b) \/ TripPlansPart!CancelBooking(b)
  BY <1>5, PlansRoutes
<1>6. CASE \E d \in Delivery : TripPlansPart!ReceiveWebhook(d) \/ TripPlansPart!ProcessWebhook(d)
  BY <1>6, PlansWebhooks
<1>7. CASE \E kept \in BOOLEAN : TripPlansPart!Restart(kept)
  BY <1>7, PlansLost
<1>8. CASE UNCHANGED planVars
  <2>1. UNCHANGED <<trip, stored, reserved, hook, acked>>
    BY <1>8 DEF planVars
  <2>2. \A p \in Plans : PlansBooked(p)' /\ PlansStored(p)'
    BY <2>1, PlansOthers DEF PlansIInv, PlansTypes
  <2>3. PlansTypes' /\ \A d \in acked' : hook'[d] = "PROCESSED"
    BY <2>1 DEF PlansIInv, PlansTypes
  <2>4. QED
    BY <2>2, <2>3 DEF PlansIInv
<1>9. QED
  BY <1>1, <1>2, <1>3, <1>4, <1>5, <1>6, <1>7, <1>8 DEF TripPlansPart!Next

\* The fields of a stored plan.
LEMMA PlansStoredFields ==
    ASSUME NEW p \in Plans, PlansStored(p), stored[p] # Nil
    PROVE  /\ trip[p] # Nil /\ trip[p].next = 4
           /\ stored[p].answers = trip[p].answers
           /\ stored[p].status = IF TripPlansPart!AllConfirmed(trip[p].answers)
                                 THEN "CONFIRMED" ELSE "CONFIRMING"
<1> DEFINE a == IF TripPlansPart!AllConfirmed(trip[p].answers) THEN "CONFIRMED" ELSE "CONFIRMING"
           c == trip[p].answers
<1>1. /\ trip[p] # Nil /\ trip[p].next = 4
      /\ stored[p] = [status |-> a, answers |-> c]
  BY DEF PlansStored
<1> HIDE DEF a, c
<1>2. stored[p].status = a /\ stored[p].answers = c
  BY <1>1
<1>3. QED
  BY <1>1, <1>2 DEF a, c

LEMMA PlansSuffice ==
    ASSUME PlansIInv
    PROVE  TripPlansPart!TypeOK /\ TripPlansPart!PlansMatchBookings
<1>1. PlansTypes /\ \A p \in Plans : PlansBooked(p) /\ PlansStored(p)
  BY DEF PlansIInv
<1>2. ASSUME NEW p \in Plans, trip[p] # Nil
      PROVE  /\ DOMAIN trip[p].answers \subseteq trip[p].asked \cap trip[p].known
             /\ trip[p].next \in 0 .. 4 /\ trip[p].asked \subseteq TripPlansPart!Legs
  <2>1. trip[p] \in PlansTrips
    BY <1>1, <1>2 DEF PlansTypes
  <2>2. QED
    BY <1>1, <1>2, <2>1 DEF PlansBooked, PlansTrips
<1>3. TripPlansPart!TypeOK
  <2>1. \A p \in Plans : trip[p] # Nil =>
           /\ DOMAIN trip[p].answers \subseteq trip[p].asked \cap trip[p].known
           /\ trip[p].next \in 0 .. Len(TripPlansPart!Leg) + 1
    BY <1>2, PlansLegs
  <2>2. \A p \in Plans : stored[p] # Nil => stored[p].status \in {"CONFIRMED", "CONFIRMING"}
    BY <1>1, PlansStoredFields
  <2>3. TripPlansPart!Held \cup {"CANCELLED"} = {"NONE", "CONFIRMED", "PENDING", "CANCELLED"}
    BY DEF TripPlansPart!Held, TripPlansPart!Booked
  <2>4. QED
    BY <1>1, <2>1, <2>2, <2>3 DEF TripPlansPart!TypeOK, PlansTypes
<1>4. ASSUME NEW p \in Plans, stored[p] # Nil
      PROVE  /\ \A leg \in DOMAIN stored[p].answers :
                  stored[p].answers[leg] \in TripPlansPart!Booked =>
                    reserved[<<p, leg>>] \in {stored[p].answers[leg], "CANCELLED"}
             /\ stored[p].status = "CONFIRMED" /\ trip[p].asked \subseteq trip[p].known =>
                  \A leg \in trip[p].asked : reserved[<<p, leg>>] \in {"CONFIRMED", "CANCELLED"}
  <2>1. /\ trip[p] # Nil /\ trip[p].next = 4
        /\ stored[p].answers = trip[p].answers
        /\ stored[p].status = "CONFIRMED" => TripPlansPart!AllConfirmed(trip[p].answers)
    BY <1>1, <1>4, PlansStoredFields
  <2>2. DOMAIN trip[p].answers = trip[p].asked \cap trip[p].known /\ PlansHeld(p)
    <3>1. /\ DOMAIN trip[p].answers = trip[p].asked \cap trip[p].known \cap PlansBefore(4)
          /\ PlansHeld(p)
      BY <1>1, <2>1 DEF PlansBooked
    <3>2. QED
      BY <1>2, <2>1, <3>1, PlansLegs
  <2>3. ASSUME stored[p].status = "CONFIRMED", trip[p].asked \subseteq trip[p].known,
               NEW leg \in trip[p].asked
        PROVE  reserved[<<p, leg>>] \in {"CONFIRMED", "CANCELLED"}
    <3>1. leg \in DOMAIN trip[p].answers
      BY <2>2, <2>3
    <3>2. trip[p].answers[leg] = "CONFIRMED"
      BY <2>1, <2>3, <3>1 DEF TripPlansPart!AllConfirmed
    <3>3. QED
      BY <2>2, <3>1, <3>2 DEF PlansHeld, TripPlansPart!Booked
  <2>4. QED
    BY <2>1, <2>2, <2>3 DEF PlansHeld
<1>5. ASSUME NEW p \in Plans, NEW leg \in TripPlansPart!Legs, reserved[<<p, leg>>] # "NONE"
      PROVE  trip[p] # Nil /\ TripPlansPart!Wanted(p, leg)
  <2>1. trip[p] # Nil
    BY <1>1, <1>5 DEF PlansBooked
  <2>2. leg \in DOMAIN trip[p].answers
    BY <1>1, <1>5, <2>1 DEF PlansBooked
  <2>3. QED
    BY <1>2, <2>1, <2>2 DEF TripPlansPart!Wanted
<1>6. \A d \in acked : hook[d] = "PROCESSED"
  BY DEF PlansIInv
<1>7. QED
  BY <1>3, <1>4, <1>5, <1>6 DEF TripPlansPart!PlansMatchBookings

\* bookTrip, the adapters' routes and the webhooks: a stored plan, the calls
\* that will store one and what the adapters hold agree, but for legs whose
\* adapter failed or threw, whenever the process restarts.
THEOREM PlansMatchBookingsCorrect ==
    ASSUME PlansBounds, PlansDistinct
    PROVE  Spec => []PlansMatchBookings
<1>1. Init => PlansIInv
  BY PlansInitIInv DEF Init
<1>2. PlansIInv /\ [Next]_vars => PlansIInv'
  <2>1. ASSUME PlansIInv, [Next]_vars
        PROVE  PlansIInv'
    <3>1. TripPlansPart!Next \/ UNCHANGED planVars
      BY <2>1, OnePart
    <3>2. QED
      BY <2>1, <3>1, PlansStepIInv
  <2>2. QED
    BY <2>1
<1>3. PlansIInv => PlansMatchBookings
  BY PlansSuffice DEF PlansMatchBookings
<1>4. QED
  BY <1>1, <1>2, <1>3, PTL DEF Spec

-----------------------------------------------------------------------------
(* The pages: for any that ask again or patch after a button's call, that    *)
(* they show what was asked and what their own call did.                     *)

\* The list is asked for again, or its row is patched.
ConsoleRefreshes(p, s) == s = "list" \/ (s = "patch" /\ p.drawer # "answer")

\* Of the records of pages.
ConsoleFit ==
    \A p \in Pages :
        /\ p.drawer \in {"none", "stub", "row", "answer"}
        /\ p.buttons \subseteq {"list", "drawer"}
        /\ p.after \in Seq({"list", "detail", "patch"})
        /\ \E i \in DOMAIN p.after : ConsoleRefreshes(p, p.after[i])
        /\ (\E i \in DOMAIN p.after : p.after[i] = "patch") /\ p.drawer = "answer" => "list" \notin p.buttons

\* Every status that a page offers or the API takes.
ConsoleStates ==
    {"ROW"} \cup UNION {UNION {{q[1], q[2]} : q \in p.offers \cup p.takes} : p \in Pages}

ConsoleAsks ==
    [view : {"list", "drawer"}, key : 1 .. 2, awaited : BOOLEAN, got : ConsoleStates \cup {Nil}]
ConsoleShown == [key : 1 .. 2, status : ConsoleStates \cup {Nil}]
ConsoleCalls ==
    [to : ConsoleStates, called : BOOLEAN, todo : Seq({"list", "detail", "patch"}), open : BOOLEAN]
ConsoleDistinct == Nil \notin ConsoleShown \cup ConsoleCalls

ConsoleTypes ==
    /\ page \in Pages
    /\ server \in ConsoleStates
    /\ filter \in 1 .. 2
    /\ asks \in Seq(ConsoleAsks)
    /\ list \in ConsoleShown \cup {Nil}
    /\ drawer \in ConsoleShown \cup {Nil}
    /\ acting \in ConsoleCalls \cup {Nil}
    /\ moves \in Nat
    /\ muddled \in BOOLEAN

\* The newest request for a list, or for a row, if there is one.
ConsoleNewestOf(s, view) ==
    {s[i] : i \in {j \in DOMAIN s : /\ s[j].view = view
                                   /\ \A k \in DOMAIN s : k > j => s[k].view # view}}
ConsoleNewest(view) == ConsoleNewestOf(asks, view)

\* Nothing is opened before there is a list.
ConsoleOpened ==
    list = Nil => drawer = Nil /\ acting = Nil /\ \A i \in DOMAIN asks : asks[i].view = "list"

\* At most one request is awaited, for the next thing to be done; the page
\* asks for a row by itself only when its drawer shows the answer.
ConsoleOneOf(s) == \A i, j \in DOMAIN s : s[i].awaited /\ s[j].awaited => i = j
ConsoleAwaited ==
  /\ ConsoleOneOf(asks)
  /\ \A i \in DOMAIN asks :
        /\ asks[i].awaited =>
             /\ acting # Nil /\ ~acting.called /\ acting.todo # << >>
             /\ Head(acting.todo) = IF asks[i].view = "list" THEN "list" ELSE "detail"
        /\ asks[i].view = "drawer" /\ ~asks[i].awaited => page.drawer \in {"stub", "answer"}

\* Until a call is taken all is to be done, and what patches a drawer was
\* pressed there.
ConsoleCalled ==
    acting # Nil =>
        /\ acting.called => acting.todo = page.after
        /\ ~acting.called /\ moves = 0 => server = acting.to
        /\ (\E i \in DOMAIN acting.todo : acting.todo[i] = "patch") /\ page.drawer = "answer" => acting.open

\* The newest requests are those for the filter and the row that are chosen,
\* and without a request they are shown.
ConsoleAsked ==
    ~muddled =>
        /\ page.lags \/ \A a \in ConsoleNewest("list") : a.key = filter
        /\ page.lags \/ ConsoleNewest("list") # {} \/ list.key = filter
        /\ \A a \in ConsoleNewest("drawer") : a.key = picked
        /\ ConsoleNewest("drawer") # {} \/ picked = (IF drawer = Nil THEN Nil ELSE drawer.key)
        /\ acting # Nil /\ acting.open => picked = 1

\* The list shows the row as it is, or the newest answer will.
ConsoleFresh ==
    /\ \A a \in ConsoleNewest("list") : a.got \in {Nil, server}
    /\ ConsoleNewest("list") # {} \/ (list # Nil /\ list.status = server)

\* Unless a call has moved the row and will refresh the list.
ConsoleOwnMove ==
    ~muddled /\ moves = 0 =>
        \/ ConsoleFresh
        \/ /\ acting # Nil /\ ~acting.called
           /\ \E i \in DOMAIN acting.todo : ConsoleRefreshes(page, acting.todo[i])
           /\ \A i \in DOMAIN asks : ~(asks[i].awaited /\ asks[i].view = "list")

ConsoleIInv ==
    /\ ConsoleTypes /\ ConsoleOpened /\ ConsoleAwaited /\ ConsoleCalled /\ ConsoleAsked
    /\ ConsoleOwnMove

-----------------------------------------------------------------------------
\* A sequence without its r-th member.
LEMMA ConsoleWithout ==
    ASSUME NEW S, NEW s \in Seq(S), NEW r \in 1 .. Len(s)
    PROVE  /\ ConsolePart!RemoveAt(s, r) \in Seq(S)
           /\ Len(ConsolePart!RemoveAt(s, r)) = Len(s) - 1
           /\ \A k \in 1 .. Len(s) - 1 :
                 ConsolePart!RemoveAt(s, r)[k] = s[IF k < r THEN k ELSE k + 1]
<1> DEFINE a == SubSeq(s, 1, r - 1)
           b == SubSeq(s, r + 1, Len(s))
<1>1. Len(s) \in Nat /\ r \in Nat
  OBVIOUS
<1>2. /\ a \in Seq(S) /\ Len(a) = r - 1
      /\ \A k \in 1 .. r - 1 : a[k] = s[k]
  <2>1. \A k \in 1 .. r - 1 : s[k] \in S
    BY <1>1
  <2>2. /\ a \in Seq(S) /\ Len(a) = IF 1 <= r - 1 THEN r - 1 - 1 + 1 ELSE 0
        /\ \A k \in 1 .. r - 1 - 1 + 1 : a[k] = s[1 + k - 1]
    BY <1>1, <2>1, SubSeqProperties
  <2> HIDE DEF a
  <2>3. QED
    BY <1>1, <2>2
<1>3. /\ b \in Seq(S) /\ Len(b) = Len(s) - r
      /\ \A k \in 1 .. Len(s) - r : b[k] = s[r + k]
  <2>1. \A k \in r + 1 .. Len(s) : s[k] \in S
    BY <1>1
  <2>2. /\ b \in Seq(S) /\ Len(b) = IF r + 1 <= Len(s) THEN Len(s) - (r + 1) + 1 ELSE 0
        /\ \A k \in 1 .. Len(s) - (r + 1) + 1 : b[k] = s[r + 1 + k - 1]
    BY <1>1, <2>1, SubSeqProperties
  <2> HIDE DEF b
  <2>3. QED
    BY <1>1, <2>2
<1>4. ConsolePart!RemoveAt(s, r) = a \o b
  BY DEF ConsolePart!RemoveAt
<1> HIDE DEF a, b
<1>5. /\ a \o b \in Seq(S) /\ Len(a \o b) = Len(a) + Len(b)
      /\ \A k \in 1 .. Len(a) + Len(b) : (a \o b)[k] = IF k <= Len(a) THEN a[k] ELSE b[k - Len(a)]
  BY <1>2, <1>3, ConcatProperties
<1>6. Len(a \o b) = Len(s) - 1
  BY <1>1, <1>2, <1>3, <1>5
<1>7. ASSUME NEW k \in 1 .. Len(s) - 1
      PROVE  (a \o b)[k] = s[IF k < r THEN k ELSE k + 1]
  <2>1. (a \o b)[k] = IF k <= r - 1 THEN a[k] ELSE b[k - (r - 1)]
    BY <1>1, <1>2, <1>3, <1>5
  <2>2. CASE k < r
    BY <1>1, <1>2, <2>1, <2>2
  <2>3. CASE ~(k < r)
    <3>1. k - (r - 1) \in 1 .. Len(s) - r /\ ~(k <= r - 1) /\ r + (k - (r - 1)) = k + 1
      BY <1>1, <2>3
    <3>2. b[k - (r - 1)] = s[k + 1]
      BY <1>3, <3>1
    <3>3. QED
      BY <2>1, <2>3, <3>1, <3>2
  <2>4. QED
    BY <2>2, <2>3
<1>8. QED
  BY <1>4, <1>5, <1>6, <1>7

\* A sequence with one more member.
LEMMA ConsoleWith ==
    ASSUME NEW S, NEW s \in Seq(S), NEW a \in S
    PROVE  /\ Append(s, a) \in Seq(S)
           /\ DOMAIN Append(s, a) = 1 .. Len(s) + 1 /\ DOMAIN s = 1 .. Len(s)
           /\ Len(s) \in Nat
           /\ \A k \in 1 .. Len(s) : Append(s, a)[k] = s[k]
           /\ Append(s, a)[Len(s) + 1] = a
BY AppendProperties

\* Of the view, t has what s has, in its order: m tells the place in s of what
\* stayed, K, and what did not stay is older than another and than all of K.
ConsoleKeeps(s, t, view, K, m) ==
    /\ DOMAIN s \subseteq Int /\ DOMAIN t \subseteq Int
    /\ K \subseteq DOMAIN t
    /\ m \in [K -> DOMAIN s]
    /\ \A k, l \in K : k < l => m[k] < m[l]
    /\ \A k \in K : t[k] = s[m[k]]
    /\ \A k \in DOMAIN t \ K : t[k].view # view
    /\ \A j \in DOMAIN s : s[j].view = view =>
          \/ \E k \in K : m[k] = j
          \/ /\ \E l \in DOMAIN s : l > j /\ s[l].view = view
             /\ \A k \in K : t[k].view = view => j < m[k]

\* Such a view keeps its newest request.
LEMMA ConsoleNewestStays ==
    ASSUME NEW s, NEW t, NEW view, NEW K, NEW m, ConsoleKeeps(s, t, view, K, m)
    PROVE  ConsoleNewestOf(t, view) = ConsoleNewestOf(s, view)
<1> USE DEF ConsoleKeeps
<1>1. /\ \A j \in DOMAIN s : j \in Int
      /\ \A k \in DOMAIN t : k \in Int
  OBVIOUS
<1>2. \A k, l \in K : m[k] < m[l] => k < l
  <2>1. ASSUME NEW k \in K, NEW l \in K, m[k] < m[l]
        PROVE  k < l
    <3>1. k \in Int /\ l \in Int /\ m[k] \in Int /\ m[l] \in Int
      BY <1>1
    <3>2. ~(l < k) /\ k # l
      BY <2>1, <3>1
    <3>3. QED
      BY <3>1, <3>2
  <2>2. QED
    BY <2>1
<1>3. ASSUME NEW b \in ConsoleNewestOf(t, view)
      PROVE  b \in ConsoleNewestOf(s, view)
  <2>1. PICK k \in DOMAIN t : /\ b = t[k] /\ t[k].view = view
                              /\ \A l \in DOMAIN t : l > k => t[l].view # view
    BY DEF ConsoleNewestOf
  <2>2. k \in K /\ m[k] \in DOMAIN s /\ s[m[k]] = b
    BY <2>1
  <2>3. ASSUME NEW l \in DOMAIN s, l > m[k], s[l].view = view
        PROVE  FALSE
    <3>1. CASE \E i \in K : m[i] = l
      <4>1. PICK i \in K : m[i] = l
        BY <3>1
      <4>2. k < i
        BY <1>1, <1>2, <2>2, <2>3, <4>1
      <4>3. QED
        BY <1>1, <2>1, <2>2, <2>3, <4>1, <4>2
    <3>2. CASE l < m[k]
      BY <1>1, <2>2, <2>3, <3>2
    <3>3. QED
      BY <2>1, <2>2, <2>3, <3>1, <3>2
  <2>4. QED
    BY <2>1, <2>2, <2>3 DEF ConsoleNewestOf
<1>4. ASSUME NEW b \in ConsoleNewestOf(s, view)
      PROVE  b \in ConsoleNewestOf(t, view)
  <2>1. PICK j \in DOMAIN s : /\ b = s[j] /\ s[j].view = view
                              /\ \A l \in DOMAIN s : l > j => s[l].view # view
    BY DEF ConsoleNewestOf
  <2>2. PICK k \in K : m[k] = j
    BY <2>1
  <2>3. ASSUME NEW l \in DOMAIN t, l > k
        PROVE  t[l].view # view
    <3>1. CASE l \in K
      <4>1. m[k] < m[l]
        BY <1>1, <2>3, <3>1
      <4>2. QED
        BY <1>1, <2>1, <2>2, <3>1, <4>1
    <3>2. CASE l \notin K
      BY <3>2
    <3>3. QED
      BY <3>1, <3>2
  <2>4. QED
    BY <2>1, <2>2, <2>3 DEF ConsoleNewestOf
<1>5. QED
  BY <1>3, <1>4

\* A request that is sent is the newest of its view; the one that is dropped
\* for it is of the same view.
LEMMA ConsoleSent ==
    ASSUME ConsoleTypes, NEW a \in ConsoleAsks, ConsolePart!Send(a)
    PROVE  /\ asks' \in Seq(ConsoleAsks)
           /\ ConsoleNewest(a.view)' = {a}
           /\ \A v : v # a.view => ConsoleNewest(v)' = ConsoleNewest(v)
           /\ \A k \in DOMAIN asks' : asks'[k] = a \/ \E j \in DOMAIN asks : asks'[k] = asks[j]
           /\ ConsoleOneOf(asks) /\ (~a.awaited \/ \A j \in DOMAIN asks : ~asks[j].awaited)
                  => ConsoleOneOf(asks')
<1>1. asks \in Seq(ConsoleAsks)
  BY DEF ConsoleTypes
<1>2. \E r \in 0 .. Len(asks), t \in Seq(ConsoleAsks) :
          /\ asks' = Append(t, a)
          /\ Len(t) = IF r = 0 THEN Len(asks) ELSE Len(asks) - 1
          /\ r # 0 => asks[r].view = a.view
          /\ \A k \in 1 .. Len(t) : t[k] = asks[IF r = 0 \/ k < r THEN k ELSE k + 1]
  <2>1. asks' = ConsolePart!Queue(asks, a)
    BY DEF ConsolePart!Send
  <2>2. CASE page.newest /\ ConsolePart!Of(asks, a.view) # {}
    <3> DEFINE r == CHOOSE i \in ConsolePart!Of(asks, a.view) : TRUE
    <3>1. r \in ConsolePart!Of(asks, a.view)
      BY <2>2
    <3>2. r \in 1 .. Len(asks) /\ asks[r].view = a.view
      BY <1>1, <3>1 DEF ConsolePart!Of
    <3>3. asks' = Append(ConsolePart!RemoveAt(asks, r), a)
      BY <2>1, <2>2 DEF ConsolePart!Queue
    <3> HIDE DEF r
    <3>4. /\ ConsolePart!RemoveAt(asks, r) \in Seq(ConsoleAsks)
          /\ Len(ConsolePart!RemoveAt(asks, r)) = Len(asks) - 1
          /\ \A k \in 1 .. Len(asks) - 1 :
                ConsolePart!RemoveAt(asks, r)[k] = asks[IF k < r THEN k ELSE k + 1]
      BY <1>1, <3>2, ConsoleWithout
    <3> DEFINE t == ConsolePart!RemoveAt(asks, r)
    <3>5. /\ r \in 0 .. Len(asks) /\ r # 0 /\ t \in Seq(ConsoleAsks)
          /\ asks' = Append(t, a) /\ Len(t) = Len(asks) - 1
          /\ asks[r].view = a.view
          /\ \A k \in 1 .. Len(t) : t[k] = asks[IF r = 0 \/ k < r THEN k ELSE k + 1]
      <4>1. Len(asks) \in Nat /\ r \in 0 .. Len(asks) /\ r # 0
        BY <1>1, <3>2
      <4>2. asks[r].view = a.view /\ asks' = Append(t, a)
        BY <2>2, <3>2, <3>3
      <4>3. t \in Seq(ConsoleAsks) /\ Len(t) = Len(asks) - 1
        BY <3>4
      <4>4. \A k \in 1 .. Len(asks) - 1 : t[k] = asks[IF r = 0 \/ k < r THEN k ELSE k + 1]
        BY <3>4, <4>1
      <4> HIDE DEF t
      <4>5. QED
        BY <4>1, <4>2, <4>3, <4>4
    <3> HIDE DEF t
    <3>6. QED
      BY <3>5
  <2>3. CASE ~(page.newest /\ ConsolePart!Of(asks, a.view) # {})
    <3>1. asks' = Append(asks, a)
      BY <2>1, <2>3 DEF ConsolePart!Queue
    <3>2. 0 \in 0 .. Len(asks) /\ \A k \in 1 .. Len(asks) : asks[k] = asks[IF 0 = 0 \/ k < 0 THEN k ELSE k + 1]
      BY <1>1
    <3>3. QED
      BY <1>1, <3>1, <3>2
  <2>4. QED
    BY <2>2, <2>3
<1>3. PICK r \in 0 .. Len(asks), t \in Seq(ConsoleAsks) :
          /\ asks' = Append(t, a)
          /\ Len(t) = IF r = 0 THEN Len(asks) ELSE Len(asks) - 1
          /\ r # 0 => asks[r].view = a.view
          /\ \A k \in 1 .. Len(t) : t[k] = asks[IF r = 0 \/ k < r THEN k ELSE k + 1]
  BY <1>2
<1> DEFINE n == Len(t)
           h == Len(asks)
           K == 1 .. n
           m == [k \in K |-> IF r = 0 \/ k < r THEN k ELSE k + 1]
<1>4. /\ asks' \in Seq(ConsoleAsks)
      /\ DOMAIN asks' = 1 .. n + 1 /\ n \in Nat /\ asks'[n + 1] = a
      /\ \A k \in K : asks'[k] = t[k]
  BY <1>3, ConsoleWith
<1>5. h \in Nat /\ DOMAIN asks = 1 .. h /\ r \in 0 .. h
  BY <1>1
<1>6. n = IF r = 0 THEN h ELSE h - 1
  BY <1>3
<1>7. r # 0 => asks[r].view = a.view
  BY <1>3
<1>8. \A k \in K : /\ m[k] = IF r = 0 \/ k < r THEN k ELSE k + 1
                   /\ asks'[k] = asks[m[k]]
  <2>1. \A k \in K : t[k] = asks[IF r = 0 \/ k < r THEN k ELSE k + 1]
    BY <1>3
  <2>2. QED
    BY <1>4, <2>1
<1>9. /\ DOMAIN m = K /\ m = [k \in K |-> m[k]]
      /\ \A k \in K : k \in 1 .. n
      /\ \A k \in 1 .. n : k \in K
  OBVIOUS
<1> HIDE DEF n, h, m, K
<1>9a. \A k \in K : k \in Nat /\ m[k] \in Nat /\ 1 <= m[k] /\ m[k] <= h /\ m[k] # r
  BY <1>4, <1>5, <1>6, <1>8, <1>9
<1>9b. \A k, l \in K : k < l => m[k] < m[l]
  BY <1>4, <1>5, <1>8, <1>9
<1>9c. m \in [K -> DOMAIN asks]
  BY <1>5, <1>9, <1>9a
<1>9d. \A j \in DOMAIN asks : j # r => \E k \in K : m[k] = j
  <2>1. ASSUME NEW j \in DOMAIN asks, j # r
        PROVE  \E k \in K : m[k] = j
    <3>1. CASE r = 0 \/ j < r
      <4>1. j \in K
        BY <1>4, <1>5, <1>6, <1>9, <2>1, <3>1
      <4>2. m[j] = j
        BY <1>8, <3>1, <4>1
      <4>3. QED
        BY <4>1, <4>2
    <3>2. CASE ~(r = 0 \/ j < r)
      <4>1. j - 1 \in K /\ ~(j - 1 < r) /\ (j - 1) + 1 = j
        <5>1. r \in Nat /\ j \in Nat /\ h \in Nat /\ 1 <= r /\ r < j /\ j <= h /\ n = h - 1
          BY <1>5, <1>6, <2>1, <3>2
        <5>2. j - 1 \in 1 .. n /\ ~(j - 1 < r) /\ (j - 1) + 1 = j
          BY <5>1
        <5>3. QED
          BY <1>9, <5>2
      <4>2. m[j - 1] = j
        BY <1>8, <3>2, <4>1
      <4>3. QED
        BY <4>1, <4>2
    <3>3. QED
      BY <3>1, <3>2
  <2>2. QED
    BY <2>1
<1>10. ConsoleNewest(a.view)' = {a}
  BY <1>4 DEF ConsoleNewest, ConsoleNewestOf
<1>11. ASSUME NEW v, v # a.view
       PROVE  ConsoleNewest(v)' = ConsoleNewest(v)
  <2>1. ASSUME NEW j \in DOMAIN asks, asks[j].view = v
        PROVE  \E k \in K : m[k] = j
    <3>1. j # r
      BY <1>5, <1>7, <1>11, <2>1
    <3>2. QED
      BY <1>9d, <3>1
  <2>2. K \in SUBSET DOMAIN asks' /\ \A k \in DOMAIN asks' \ K : asks'[k].view # v
    BY <1>4, <1>9, <1>11
  <2>3. /\ \A k \in K : asks'[k] = asks[m[k]]
        /\ \A j \in DOMAIN asks : asks[j].view = v =>
              \/ \E k \in K : m[k] = j
              \/ /\ \E l \in DOMAIN asks : l > j /\ asks[l].view = v
                 /\ \A k \in K : asks'[k].view = v => j < m[k]
    BY <1>8, <2>1
  <2>4. ConsoleNewestOf(asks', v) = ConsoleNewestOf(asks, v)
    <3>1. DOMAIN asks \subseteq Int /\ DOMAIN asks' \subseteq Int
      BY <1>4, <1>5
    <3>2. ConsoleKeeps(asks, asks', v, K, m)
      BY <1>9c, <1>9b, <2>2, <2>3, <3>1 DEF ConsoleKeeps
    <3>3. QED
      BY <3>2, ConsoleNewestStays
  <2>5. QED
    BY <2>4 DEF ConsoleNewest
<1>12. \A k \in DOMAIN asks' : asks'[k] = a \/ \E j \in DOMAIN asks : asks'[k] = asks[j]
  BY <1>4, <1>8, <1>9, <1>9c
<1>13. ASSUME ConsoleOneOf(asks), ~a.awaited \/ \A j \in DOMAIN asks : ~asks[j].awaited
       PROVE  ConsoleOneOf(asks')
  <2>1. ASSUME NEW i \in DOMAIN asks', NEW j \in DOMAIN asks', asks'[i].awaited, asks'[j].awaited
        PROVE  i = j
    <3>1. CASE i \in K /\ j \in K
      <4>1. m[i] = m[j]
        BY <1>8, <1>9c, <1>13, <2>1, <3>1 DEF ConsoleOneOf
      <4>2. i \in Nat /\ j \in Nat /\ m[i] \in Nat /\ ~(i < j) /\ ~(j < i)
        BY <1>9a, <1>9b, <3>1, <4>1
      <4>3. QED
        BY <4>2
    <3>2. CASE i = n + 1 /\ j \in K
      BY <1>4, <1>8, <1>9c, <1>13, <2>1, <3>2
    <3>3. CASE j = n + 1 /\ i \in K
      BY <1>4, <1>8, <1>9c, <1>13, <2>1, <3>3
    <3>4. CASE i = n + 1 /\ j = n + 1
      BY <3>4
    <3>5. QED
      BY <1>4, <1>9, <3>1, <3>2, <3>3, <3>4
  <2>2. QED
    BY <2>1 DEF ConsoleOneOf
<1>14. QED
  BY <1>4, <1>10, <1>11, <1>12, <1>13

\* Of the requests of a view, if there are any, one is the newest: the set of
\* those that are no older is the least.
LEMMA ConsoleSomeNewest ==
    ASSUME NEW S, NEW s \in Seq(S), NEW i \in DOMAIN s
    PROVE  ConsoleNewestOf(s, s[i].view) # {}
<1> DEFINE v == s[i].view
           I == 1 .. Len(s)
           T == {u \in SUBSET I : \E j \in I : s[j].view = v /\ u = j .. Len(s)}
<1>1. DOMAIN s = I /\ Len(s) \in Nat /\ i \in I
  OBVIOUS
<1>2. IsFiniteSet(I)
  BY <1>1, FS_Interval
<1>3. T \in SUBSET (SUBSET I) /\ T # {}
  <2>1. i .. Len(s) \in SUBSET I
    BY <1>1
  <2>2. i .. Len(s) \in T
    BY <1>1, <2>1
  <2>3. QED
    BY <2>2
<1>4. PICK u \in T : \A w \in T : ~(w \subseteq u /\ w # u)
  <2> HIDE DEF I, T
  <2>1. QED
    BY <1>2, <1>3, LeastSet
<1>5. PICK j \in I : s[j].view = v /\ u = j .. Len(s)
  BY <1>4
<1>6. ASSUME NEW l \in I, l > j, s[l].view = v
      PROVE  FALSE
  <2>1. l .. Len(s) \subseteq j .. Len(s) /\ j \in j .. Len(s) /\ j \notin l .. Len(s)
    BY <1>1, <1>6
  <2>2. l .. Len(s) \subseteq I
    BY <1>1
  <2>3. l .. Len(s) \in T
    BY <1>6, <2>2
  <2>4. QED
    BY <1>4, <1>5, <2>1, <2>3
<1>7. s[j] \in ConsoleNewestOf(s, v)
  BY <1>1, <1>5, <1>6 DEF ConsoleNewestOf
<1>8. QED
  BY <1>7

\* A request that is gone leaves the others; if none of its view was older,
\* the newest stays, or was this one.
LEMMA ConsoleGone ==
    ASSUME ConsoleTypes, NEW i \in DOMAIN asks, asks' = ConsolePart!RemoveAt(asks, i)
    PROVE  /\ asks' \in Seq(ConsoleAsks)
           /\ \A k \in DOMAIN asks' : \E j \in DOMAIN asks : j # i /\ asks'[k] = asks[j]
           /\ ConsoleOneOf(asks) => ConsoleOneOf(asks')
           /\ ConsoleOneOf(asks) /\ asks[i].awaited => \A k \in DOMAIN asks' : ~asks'[k].awaited
           /\ \A v : v # asks[i].view => ConsoleNewest(v)' = ConsoleNewest(v)
           /\ \A v : v = asks[i].view /\ (\A j \in 1 .. i - 1 : asks[j].view # v) =>
                \/ ConsoleNewest(v)' = ConsoleNewest(v) /\ ConsoleNewest(v) # {}
                \/ ConsoleNewest(v)' = {} /\ ConsoleNewest(v) = {asks[i]}
<1>1. asks \in Seq(ConsoleAsks)
  BY DEF ConsoleTypes
<1>0. /\ i \in 1 .. Len(asks)
      /\ ConsolePart!RemoveAt(asks, i) \in Seq(ConsoleAsks)
      /\ Len(ConsolePart!RemoveAt(asks, i)) = Len(asks) - 1
      /\ \A k \in 1 .. Len(asks) - 1 :
            ConsolePart!RemoveAt(asks, i)[k] = asks[IF k < i THEN k ELSE k + 1]
  <2>1. i \in 1 .. Len(asks)
    BY <1>1
  <2>2. QED
    BY <1>1, <2>1, ConsoleWithout
<1> DEFINE h == Len(asks)
           K == 1 .. h - 1
           m == [k \in K |-> IF k < i THEN k ELSE k + 1]
<1>2. h \in Nat /\ DOMAIN asks = 1 .. h /\ i \in 1 .. h
  BY <1>1
<1>3. /\ asks' \in Seq(ConsoleAsks) /\ Len(asks') = h - 1
      /\ \A k \in K : asks'[k] = asks[IF k < i THEN k ELSE k + 1]
  BY <1>0
<1>4. DOMAIN asks' = K
  BY <1>2, <1>3
<1>5. \A k \in K : m[k] = (IF k < i THEN k ELSE k + 1) /\ asks'[k] = asks[m[k]]
  BY <1>3
<1>6. /\ DOMAIN m = K /\ m = [k \in K |-> m[k]]
      /\ \A k \in K : k \in 1 .. h - 1
      /\ \A k \in 1 .. h - 1 : k \in K
  OBVIOUS
<1> HIDE DEF h, m, K
<1>7. \A k \in K : k \in Nat /\ m[k] \in Nat /\ 1 <= m[k] /\ m[k] <= h /\ m[k] # i
  BY <1>2, <1>5, <1>6
<1>8. \A k, l \in K : k < l => m[k] < m[l]
  BY <1>2, <1>5, <1>6
<1>9. m \in [K -> DOMAIN asks]
  BY <1>2, <1>6, <1>7
<1>10. \A j \in DOMAIN asks : j # i => \E k \in K : m[k] = j
  <2>1. ASSUME NEW j \in DOMAIN asks, j # i
        PROVE  \E k \in K : m[k] = j
    <3>1. j \in Nat /\ i \in Nat /\ 1 <= i /\ i <= h /\ 1 <= j /\ j <= h
      BY <1>2
    <3>2. CASE j < i
      <4>1. j \in K
        BY <1>2, <1>6, <3>1, <3>2
      <4>2. QED
        BY <1>5, <3>2, <4>1
    <3>3. CASE ~(j < i)
      <4>1. j - 1 \in 1 .. h - 1 /\ ~(j - 1 < i) /\ (j - 1) + 1 = j
        BY <1>2, <2>1, <3>1, <3>3
      <4>2. QED
        BY <1>5, <1>6, <4>1
    <3>4. QED
      BY <3>2, <3>3
  <2>2. QED
    BY <2>1
<1>11. \A k \in DOMAIN asks' : \E j \in DOMAIN asks : j # i /\ asks'[k] = asks[j]
  BY <1>4, <1>5, <1>7, <1>9
<1>12. ASSUME ConsoleOneOf(asks)
       PROVE  /\ ConsoleOneOf(asks')
              /\ asks[i].awaited => \A k \in DOMAIN asks' : ~asks'[k].awaited
  <2>1. ASSUME NEW k \in K, NEW l \in K, asks'[k].awaited, asks'[l].awaited
        PROVE  k = l
    <3>1. m[k] = m[l]
      BY <1>5, <1>9, <1>12, <2>1 DEF ConsoleOneOf
    <3>2. k \in Nat /\ l \in Nat /\ m[k] \in Nat /\ ~(k < l) /\ ~(l < k)
      BY <1>7, <1>8, <3>1
    <3>3. QED
      BY <3>2
  <2>2. QED
    BY <1>4, <1>11, <1>12, <2>1 DEF ConsoleOneOf
<1>13. DOMAIN asks \subseteq Int /\ DOMAIN asks' \subseteq Int
  BY <1>2, <1>4, <1>7
<1>14. ASSUME NEW v, v # asks[i].view
       PROVE  ConsoleNewest(v)' = ConsoleNewest(v)
  <2>1. \A j \in DOMAIN asks : asks[j].view = v => \E k \in K : m[k] = j
    BY <1>10, <1>14
  <2>2. ConsoleKeeps(asks, asks', v, K, m)
    BY <1>4, <1>5, <1>8, <1>9, <1>13, <2>1 DEF ConsoleKeeps
  <2>3. QED
    BY <2>2, ConsoleNewestStays DEF ConsoleNewest
<1>15. ASSUME NEW v, v = asks[i].view, \A j \in 1 .. i - 1 : asks[j].view # v
       PROVE  \/ ConsoleNewest(v)' = ConsoleNewest(v) /\ ConsoleNewest(v) # {}
              \/ ConsoleNewest(v)' = {} /\ ConsoleNewest(v) = {asks[i]}
  <2>1. \A j \in DOMAIN asks : asks[j].view = v => i <= j
    BY <1>2, <1>15
  <2>2. CASE \E l \in DOMAIN asks : l > i /\ asks[l].view = v
    <3>1. \A k \in K : asks'[k].view = v => i < m[k]
      BY <1>2, <1>5, <1>7, <1>9, <2>1
    <3>2. ASSUME NEW j \in DOMAIN asks, asks[j].view = v
          PROVE  \/ \E k \in K : m[k] = j
                 \/ /\ \E l \in DOMAIN asks : l > j /\ asks[l].view = v
                    /\ \A k \in K : asks'[k].view = v => j < m[k]
      BY <1>10, <2>2, <3>1
    <3>3. ConsoleKeeps(asks, asks', v, K, m)
      BY <1>4, <1>5, <1>8, <1>9, <1>13, <3>2 DEF ConsoleKeeps
    <3>4. ConsoleNewestOf(asks', v) = ConsoleNewestOf(asks, v)
      BY <3>3, ConsoleNewestStays
    <3>5. ConsoleNewestOf(asks, v) # {}
      BY <1>1, <1>15, ConsoleSomeNewest
    <3>6. QED
      BY <3>4, <3>5 DEF ConsoleNewest
  <2>3. CASE ~ \E l \in DOMAIN asks : l > i /\ asks[l].view = v
    <3>1. \A j \in DOMAIN asks : asks[j].view = v => j = i
      BY <1>2, <2>1, <2>3
    <3>2. ConsoleNewestOf(asks, v) = {asks[i]}
      <4>1. i \in DOMAIN asks /\ asks[i].view = v /\ \A l \in DOMAIN asks : l > i => asks[l].view # v
        BY <1>15, <2>3
      <4>2. QED
        BY <3>1, <4>1 DEF ConsoleNewestOf
    <3>3. ConsoleNewestOf(asks', v) = {}
      BY <1>11, <3>1 DEF ConsoleNewestOf
    <3>4. QED
      BY <3>2, <3>3 DEF ConsoleNewest
  <2>4. QED
    BY <2>2, <2>3
<1>16. QED
  BY <1>3, <1>11, <1>12, <1>14, <1>15

\* A request that is read keeps all but what the API found.
LEMMA ConsoleIsRead ==
    ASSUME ConsoleTypes, NEW i \in DOMAIN asks, asks' = [asks EXCEPT ![i].got = server]
    PROVE  /\ asks' \in Seq(ConsoleAsks) /\ DOMAIN asks' = DOMAIN asks
           /\ \A k \in DOMAIN asks : /\ asks'[k].view = asks[k].view
                                     /\ asks'[k].key = asks[k].key
                                     /\ asks'[k].awaited = asks[k].awaited
                                     /\ asks'[k].got \in {asks[k].got, server}
           /\ \A v : /\ \A b \in ConsoleNewest(v)' : \E c \in ConsoleNewest(v) :
                           b.key = c.key /\ b.got \in {c.got, server}
                     /\ ConsoleNewest(v)' = {} => ConsoleNewest(v) = {}
<1>1. asks \in Seq(ConsoleAsks) /\ server \in ConsoleStates
  BY DEF ConsoleTypes
<1> DEFINE z == [asks[i] EXCEPT !.got = server]
<1>2. /\ z \in ConsoleAsks
      /\ z.view = asks[i].view /\ z.key = asks[i].key /\ z.awaited = asks[i].awaited
      /\ z.got = server
  <2>1. asks[i] \in ConsoleAsks
    BY <1>1
  <2>2. QED
    BY <1>1, <2>1 DEF ConsoleAsks
<1>3. asks' = [asks EXCEPT ![i] = z]
  OBVIOUS
<1> HIDE DEF z
<1>4. asks' \in Seq(ConsoleAsks) /\ DOMAIN asks' = DOMAIN asks
  BY <1>1, <1>2, <1>3
<1>5. \A k \in DOMAIN asks : /\ asks'[k].view = asks[k].view
                             /\ asks'[k].key = asks[k].key
                             /\ asks'[k].awaited = asks[k].awaited
                             /\ asks'[k].got \in {asks[k].got, server}
  BY <1>1, <1>2, <1>3
<1>6. ASSUME NEW v
      PROVE  /\ \A b \in ConsoleNewest(v)' : \E c \in ConsoleNewest(v) :
                           b.key = c.key /\ b.got \in {c.got, server}
             /\ ConsoleNewest(v)' = {} => ConsoleNewest(v) = {}
  <2> DEFINE P(k) == /\ asks[k].view = v
                     /\ \A l \in DOMAIN asks : l > k => asks[l].view # v
             Q(k) == /\ asks'[k].view = v
                     /\ \A l \in DOMAIN asks' : l > k => asks'[l].view # v
  <2>1. \A k \in DOMAIN asks : P(k) <=> Q(k)
    BY <1>4, <1>5
  <2>2. ConsoleNewest(v) = {asks[k] : k \in {l \in DOMAIN asks : P(l)}}
    BY DEF ConsoleNewest, ConsoleNewestOf
  <2>3. ConsoleNewest(v)' = {asks'[k] : k \in {l \in DOMAIN asks' : Q(l)}}
    BY DEF ConsoleNewest, ConsoleNewestOf
  <2> HIDE DEF P, Q
  <2>4. ASSUME NEW b \in ConsoleNewest(v)'
        PROVE  \E c \in ConsoleNewest(v) : b.key = c.key /\ b.got \in {c.got, server}
    <3>1. PICK k \in DOMAIN asks' : Q(k) /\ b = asks'[k]
      BY <2>3
    <3>2. asks[k] \in ConsoleNewest(v)
      BY <1>4, <2>1, <2>2, <3>1
    <3>3. QED
      BY <1>4, <1>5, <3>1, <3>2
  <2>5. ASSUME NEW c \in ConsoleNewest(v)
        PROVE  ConsoleNewest(v)' # {}
    <3>1. PICK k \in DOMAIN asks : P(k) /\ c = asks[k]
      BY <2>2
    <3>2. asks'[k] \in ConsoleNewest(v)'
      BY <1>4, <2>1, <2>3, <3>1
    <3>3. QED
      BY <3>2
  <2>6. QED
    BY <2>4, <2>5
<1>7. QED
  BY <1>4, <1>5, <1>6

\* What the API reads, and what a page offers, are states.
LEMMA ConsoleIsState ==
    ASSUME NEW p \in Pages, NEW q \in p.offers \cup p.takes
    PROVE  q[1] \in ConsoleStates /\ q[2] \in ConsoleStates
BY DEF ConsoleStates

\* The newest requests are requests; without one of its view there is none.
LEMMA ConsoleNewestIs ==
    /\ \A v : \A a \in ConsoleNewest(v) : a.view = v /\ \E i \in DOMAIN asks : a = asks[i]
    /\ \A v : ~ConsolePart!Pending(v) => ConsoleNewest(v) = {}
    /\ \A v : ConsoleNewest(v) # {} => ConsolePart!Pending(v)
BY DEF ConsoleNewest, ConsoleNewestOf, ConsolePart!Pending

\* What the rest of a call's list of things to do has.
LEMMA ConsoleTail ==
    ASSUME NEW S, NEW s \in Seq(S), s # << >>
    PROVE  /\ Tail(s) \in Seq(S) /\ Head(s) = s[1]
           /\ \A i \in DOMAIN Tail(s) : \E j \in DOMAIN s : Tail(s)[i] = s[j]
           /\ \A j \in DOMAIN s : s[j] # Head(s) => \E i \in DOMAIN Tail(s) : Tail(s)[i] = s[j]
<1>1. /\ Tail(s) \in Seq(S) /\ Len(Tail(s)) = Len(s) - 1 /\ Head(s) = s[1]
      /\ \A i \in 1 .. Len(Tail(s)) : Tail(s)[i] = s[i + 1]
      /\ Len(s) \in Nat /\ DOMAIN s = 1 .. Len(s) /\ DOMAIN Tail(s) = 1 .. Len(Tail(s))
  BY HeadTailProperties
<1>2. ASSUME NEW i \in DOMAIN Tail(s)
      PROVE  \E j \in DOMAIN s : Tail(s)[i] = s[j]
  <2>1. i + 1 \in DOMAIN s /\ Tail(s)[i] = s[i + 1]
    BY <1>1
  <2>2. QED
    BY <2>1
<1>3. ASSUME NEW j \in DOMAIN s, s[j] # Head(s)
      PROVE  \E i \in DOMAIN Tail(s) : Tail(s)[i] = s[j]
  <2>1. j # 1 /\ j \in 1 .. Len(s)
    BY <1>1, <1>3
  <2>2. j - 1 \in 1 .. Len(s) - 1 /\ (j - 1) + 1 = j
    BY <1>1, <2>1
  <2>3. j - 1 \in DOMAIN Tail(s) /\ Tail(s)[j - 1] = s[j]
    BY <1>1, <2>2
  <2>4. QED
    BY <2>3
<1>4. QED
  BY <1>1, <1>2, <1>3

\* A sequence of one member.
LEMMA ConsoleSingle ==
    ASSUME NEW S, NEW b \in S
    PROVE  <<b>> \in Seq(S) /\ DOMAIN <<b>> = {1} /\ <<b>>[1] = b
<1>1. <<b>> \in Seq(S) /\ Len(<<b>>) = 1 /\ <<b>>[1] = b
  OBVIOUS
<1>2. DOMAIN <<b>> = 1 .. 1
  BY <1>1
<1>3. 1 .. 1 = {1}
  OBVIOUS
<1>4. QED
  BY <1>1, <1>2, <1>3

-----------------------------------------------------------------------------
LEMMA ConsoleInitIInv ==
    ASSUME ConsoleFit, ConsoleDistinct, ConsolePart!Init
    PROVE  ConsoleIInv
<1> USE DEF ConsolePart!Init
<1> DEFINE a == ConsolePart!Ask("list", 1, FALSE)
<1>1. /\ a.view = "list" /\ a.key = 1 /\ a.awaited = FALSE /\ a.got = Nil
      /\ a \in ConsoleAsks
  BY DEF ConsolePart!Ask, ConsoleAsks
<1>2. asks = <<a>>
  OBVIOUS
<1> HIDE DEF a
<1>3. asks \in Seq(ConsoleAsks) /\ DOMAIN asks = {1} /\ asks[1] = a
  <2>1. a \in ConsoleAsks
    BY <1>1
  <2>2. <<a>> \in Seq(ConsoleAsks) /\ DOMAIN <<a>> = {1} /\ <<a>>[1] = a
    BY <2>1, ConsoleSingle
  <2>3. QED
    BY <1>2, <2>2
<1>4. server \in ConsoleStates
  <2>1. CASE page.takes = {}
    BY <2>1 DEF ConsolePart!StartStatuses, ConsoleStates
  <2>2. CASE page.takes # {}
    <3>1. PICK q \in page.offers : server = q[1]
      BY <2>2 DEF ConsolePart!StartStatuses
    <3>2. QED
      BY <3>1, ConsoleIsState
  <2>3. QED
    BY <2>1, <2>2
<1>5. ConsoleNewest("list") = {a} /\ ConsoleNewest("drawer") = {}
  <2>1. \A v : ConsoleNewest(v) =
            {asks[i] : i \in {j \in {1} : asks[j].view = v /\ \A k \in {1} : k > j => asks[k].view # v}}
    BY <1>3 DEF ConsoleNewest, ConsoleNewestOf
  <2>2. \A v : {j \in {1} : asks[j].view = v /\ \A k \in {1} : k > j => asks[k].view # v}
              = IF v = "list" THEN {1} ELSE {}
    <3>1. asks[1].view = "list"
      BY <1>1, <1>3
    <3>2. \A j, k \in {1} : ~(k > j)
      OBVIOUS
    <3>3. QED
      BY <3>1, <3>2
  <2>3. ConsoleNewest("list") = {asks[i] : i \in {1}} /\ ConsoleNewest("drawer") = {asks[i] : i \in {}}
    BY <2>1, <2>2
  <2>4. QED
    BY <1>3, <2>3
<1>6. ConsoleTypes
  <2>1. page \in Pages /\ filter \in 1 .. 2 /\ muddled \in BOOLEAN /\ moves \in Nat
    <3>1. page \in Pages /\ filter = 1 /\ muddled = FALSE /\ moves = 0
      OBVIOUS
    <3>2. filter \in 1 .. 2
      BY <3>1
    <3>3. muddled \in BOOLEAN
      BY <3>1
    <3>4. QED
      BY <3>1, <3>2, <3>3
  <2>2. /\ list \in ConsoleShown \cup {Nil} /\ drawer \in ConsoleShown \cup {Nil}
        /\ acting \in ConsoleCalls \cup {Nil}
    OBVIOUS
  <2>3. asks \in Seq(ConsoleAsks)
    BY <1>3
  <2> QED
    BY <1>4, <2>1, <2>2, <2>3 DEF ConsoleTypes
<1>7. ConsoleOpened /\ ConsoleAwaited
  BY <1>1, <1>3 DEF ConsoleOpened, ConsoleAwaited, ConsoleOneOf
<1>8. ConsoleCalled /\ ConsoleAsked
  BY <1>1, <1>5 DEF ConsoleCalled, ConsoleAsked
<1>9. ConsoleOwnMove
  BY <1>1, <1>5 DEF ConsoleOwnMove, ConsoleFresh
<1>10. QED
  BY <1>6, <1>7, <1>8, <1>9 DEF ConsoleIInv

LEMMA ConsoleSetFilterIInv ==
    ASSUME ConsoleIInv, ConsoleFit, ConsoleDistinct, NEW k \in 1 .. 2, ConsolePart!SetFilter(k)
    PROVE  ConsoleIInv'
<1> USE DEF ConsoleIInv, ConsolePart!SetFilter
<1> DEFINE a == ConsolePart!Ask("list", IF page.lags THEN filter ELSE k, FALSE)
<1>1. /\ a.view = "list" /\ a.key = (IF page.lags THEN filter ELSE k)
      /\ a.awaited = FALSE /\ a.got = Nil /\ a \in ConsoleAsks
  BY DEF ConsolePart!Ask, ConsoleAsks, ConsoleTypes
<1>2. ConsolePart!Send(a)
  OBVIOUS
<1>3. /\ filter' = k
      /\ UNCHANGED <<page, server, picked, list, drawer, acting, moves, muddled>>
  OBVIOUS
<1> HIDE DEF a, ConsolePart!SetFilter
<1>4. /\ asks' \in Seq(ConsoleAsks)
      /\ ConsoleNewest("list")' = {a} /\ ConsoleNewest("drawer")' = ConsoleNewest("drawer")
      /\ \A i \in DOMAIN asks' : asks'[i] = a \/ \E j \in DOMAIN asks : asks'[i] = asks[j]
      /\ ConsoleOneOf(asks')
  BY <1>1, <1>2, ConsoleSent DEF ConsoleAwaited
<1>5. ConsoleTypes'
  BY <1>3, <1>4 DEF ConsoleTypes
<1>6. ConsoleOpened'
  BY <1>1, <1>3, <1>4 DEF ConsoleOpened
<1>7. ConsoleAwaited'
  BY <1>1, <1>3, <1>4 DEF ConsoleAwaited
<1>8. ConsoleCalled'
  BY <1>3 DEF ConsoleCalled
<1>9. ConsoleAsked'
  BY <1>1, <1>3, <1>4 DEF ConsoleAsked
<1>10. ConsoleOwnMove'
  BY <1>1, <1>3, <1>4 DEF ConsoleOwnMove, ConsoleFresh
<1>11. QED
  BY <1>5, <1>6, <1>7, <1>8, <1>9, <1>10

\* A step that sends a request for a row, chosen by staff or to follow a call.
LEMMA ConsoleOpenIInv ==
    ASSUME ConsoleIInv, ConsoleFit, ConsoleDistinct, NEW r \in 1 .. 2, ConsolePart!Open(r)
    PROVE  ConsoleIInv'
<1> USE DEF ConsoleIInv
<1>1. /\ list # Nil /\ page.drawer \in {"stub", "row", "answer"}
      /\ picked' = r
      /\ UNCHANGED <<page, server, filter, list, acting, moves>>
      /\ muddled' = (muddled \/ acting # Nil)
  BY DEF ConsolePart!Open, ConsoleFit, ConsoleTypes
<1>2. /\ drawer' \in ConsoleShown \cup {Nil}
      /\ page.drawer # "answer" => drawer' \in ConsoleShown /\ drawer'.key = r
  <2>1. /\ [key |-> r, status |-> Nil] \in ConsoleShown
        /\ [key |-> r, status |-> list.status] \in ConsoleShown
    BY <1>1 DEF ConsoleShown, ConsoleTypes
  <2>2. CASE page.drawer = "stub"
    BY <2>1, <2>2 DEF ConsolePart!Open
  <2>3. CASE page.drawer = "row"
    BY <2>1, <2>3 DEF ConsolePart!Open
  <2>4. CASE page.drawer = "answer"
    BY <2>4 DEF ConsolePart!Open, ConsoleTypes
  <2>5. QED
    BY <1>1, <2>2, <2>3, <2>4
<1>3. ConsoleCalled' /\ muddled' \in BOOLEAN
  BY <1>1 DEF ConsoleCalled, ConsoleTypes
<1>4. CASE page.drawer = "row"
  <2>1. asks' = asks
    BY <1>4 DEF ConsolePart!Open
  <2>2. \A v : ConsoleNewest(v)' = ConsoleNewest(v)
    BY <2>1 DEF ConsoleNewest
  <2>3. acting = Nil => ConsoleNewest("drawer") = {}
    BY <1>4, ConsoleNewestIs DEF ConsoleAwaited
  <2>4. ConsoleTypes' /\ ConsoleOpened' /\ ConsoleAwaited'
    BY <1>1, <1>2, <1>3, <2>1 DEF ConsoleTypes, ConsoleOpened, ConsoleAwaited
  <2>5. ConsoleAsked'
    <3>1. drawer' # Nil /\ drawer'.key = picked'
      BY <1>1, <1>2, <1>4 DEF ConsoleDistinct
    <3>2. QED
      BY <1>1, <2>2, <2>3, <3>1 DEF ConsoleAsked
  <2>6. ConsoleOwnMove'
    BY <1>1, <2>1, <2>2 DEF ConsoleOwnMove, ConsoleFresh
  <2>7. QED
    BY <1>3, <2>4, <2>5, <2>6
<1>5. CASE page.drawer # "row"
  <2> DEFINE a == ConsolePart!Ask("drawer", r, FALSE)
  <2>1. /\ a.view = "drawer" /\ a.key = r /\ a.awaited = FALSE /\ a.got = Nil
        /\ a \in ConsoleAsks
    BY DEF ConsolePart!Ask, ConsoleAsks
  <2>2. ConsolePart!Send(a)
    BY <1>5 DEF ConsolePart!Open
  <2> HIDE DEF a
  <2>3. /\ asks' \in Seq(ConsoleAsks)
        /\ ConsoleNewest("drawer")' = {a} /\ ConsoleNewest("list")' = ConsoleNewest("list")
        /\ \A i \in DOMAIN asks' : asks'[i] = a \/ \E j \in DOMAIN asks : asks'[i] = asks[j]
        /\ ConsoleOneOf(asks')
    BY <2>1, <2>2, ConsoleSent DEF ConsoleAwaited
  <2>4. ConsoleTypes'
    BY <1>1, <1>2, <1>3, <2>3 DEF ConsoleTypes
  <2>5. ConsoleOpened'
    BY <1>1 DEF ConsoleOpened
  <2>6. ConsoleAwaited'
    BY <1>1, <1>5, <2>1, <2>3 DEF ConsoleAwaited
  <2>7. ConsoleAsked'
    BY <1>1, <2>1, <2>3 DEF ConsoleAsked
  <2>8. ConsoleOwnMove'
    <3>1. \A i \in DOMAIN asks' : asks'[i].awaited /\ asks'[i].view = "list"
              => \E j \in DOMAIN asks : asks[j].awaited /\ asks[j].view = "list"
      BY <2>1, <2>3
    <3>2. QED
      BY <1>1, <2>3, <3>1 DEF ConsoleOwnMove, ConsoleFresh
  <2>9. QED
    BY <1>3, <2>4, <2>5, <2>6, <2>7, <2>8
<1>6. QED
  BY <1>4, <1>5

LEMMA ConsoleCloseIInv ==
    ASSUME ConsoleIInv, ConsolePart!Close
    PROVE  ConsoleIInv'
<1> USE DEF ConsoleIInv
<1>1. /\ drawer' = Nil /\ picked' = Nil
      /\ muddled' = (muddled \/ acting # Nil \/ ConsolePart!Pending("drawer"))
      /\ UNCHANGED <<page, server, filter, asks, list, acting, moves>>
  BY DEF ConsolePart!Close
<1>2. \A v : ConsoleNewest(v)' = ConsoleNewest(v)
  BY <1>1 DEF ConsoleNewest
<1>3. ConsoleTypes' /\ ConsoleOpened' /\ ConsoleAwaited'
  BY <1>1 DEF ConsoleTypes, ConsoleOpened, ConsoleAwaited
<1>4. ConsoleCalled'
  BY <1>1 DEF ConsoleCalled
<1>5. ConsoleAsked'
  BY <1>1, <1>2, ConsoleNewestIs DEF ConsoleAsked
<1>6. ConsoleOwnMove'
  BY <1>1, <1>2 DEF ConsoleOwnMove, ConsoleFresh
<1>7. QED
  BY <1>3, <1>4, <1>5, <1>6

LEMMA ConsoleReadIInv ==
    ASSUME ConsoleIInv, ConsoleDistinct, NEW i \in DOMAIN asks, ConsolePart!Read(i)
    PROVE  ConsoleIInv'
<1> USE DEF ConsoleIInv
<1>1. /\ asks' = [asks EXCEPT ![i].got = server]
      /\ UNCHANGED <<page, server, filter, picked, list, drawer, acting, moves, muddled>>
  BY DEF ConsolePart!Read
<1>2. /\ asks' \in Seq(ConsoleAsks) /\ DOMAIN asks' = DOMAIN asks
      /\ \A k \in DOMAIN asks : /\ asks'[k].view = asks[k].view
                                /\ asks'[k].awaited = asks[k].awaited
      /\ \A v : /\ \A b \in ConsoleNewest(v)' : \E c \in ConsoleNewest(v) :
                      b.key = c.key /\ b.got \in {c.got, server}
                /\ ConsoleNewest(v)' = {} => ConsoleNewest(v) = {}
  BY <1>1, ConsoleIsRead
<1>3. ConsoleTypes'
  BY <1>1, <1>2 DEF ConsoleTypes
<1>4. ConsoleOpened' /\ ConsoleAwaited'
  BY <1>1, <1>2 DEF ConsoleOpened, ConsoleAwaited, ConsoleOneOf
<1>5. ConsoleCalled'
  BY <1>1 DEF ConsoleCalled
<1>6. ConsoleAsked'
  BY <1>1, <1>2 DEF ConsoleAsked
<1>7. ConsoleOwnMove'
  BY <1>1, <1>2 DEF ConsoleOwnMove, ConsoleFresh
<1>8. QED
  BY <1>3, <1>4, <1>5, <1>6, <1>7

LEMMA ConsoleAnswerIInv ==
    ASSUME ConsoleIInv, ConsoleDistinct, NEW i \in DOMAIN asks, ConsolePart!Answer(i)
    PROVE  ConsoleIInv'
<1> USE DEF ConsoleIInv
<1> DEFINE a == asks[i]
           shown == [key |-> a.key, status |-> a.got]
<1>1. /\ a.got # Nil
      /\ asks' = ConsolePart!RemoveAt(asks, i)
      /\ list' = (IF a.view = "list" THEN shown ELSE list)
      /\ drawer' = (IF a.view = "drawer" THEN shown ELSE drawer)
      /\ acting' = (IF a.awaited THEN [acting EXCEPT !.todo = Tail(@)] ELSE acting)
      /\ muddled' = (muddled \/ \E j \in 1 .. i - 1 : asks[j].view = a.view)
      /\ UNCHANGED <<page, server, filter, picked, moves>>
  BY DEF ConsolePart!Answer
<1>2. /\ asks' \in Seq(ConsoleAsks)
      /\ \A k \in DOMAIN asks' : \E j \in DOMAIN asks : j # i /\ asks'[k] = asks[j]
      /\ ConsoleOneOf(asks')
      /\ a.awaited => \A k \in DOMAIN asks' : ~asks'[k].awaited
      /\ \A v : v # a.view => ConsoleNewest(v)' = ConsoleNewest(v)
      /\ \A v : v = a.view /\ ~muddled' =>
            \/ ConsoleNewest(v)' = ConsoleNewest(v) /\ ConsoleNewest(v) # {}
            \/ ConsoleNewest(v)' = {} /\ ConsoleNewest(v) = {a}
  <2>1. ConsoleTypes /\ ConsoleOneOf(asks)
    BY DEF ConsoleAwaited
  <2>2. ~muddled' => \A j \in 1 .. i - 1 : asks[j].view # asks[i].view
    BY <1>1
  <2>3. asks' = ConsolePart!RemoveAt(asks, i)
    BY <1>1
  <2>4. /\ asks' \in Seq(ConsoleAsks)
        /\ \A k \in DOMAIN asks' : \E j \in DOMAIN asks : j # i /\ asks'[k] = asks[j]
        /\ ConsoleOneOf(asks')
        /\ asks[i].awaited => \A k \in DOMAIN asks' : ~asks'[k].awaited
        /\ \A v : v # asks[i].view => ConsoleNewest(v)' = ConsoleNewest(v)
        /\ \A v : v = asks[i].view /\ (\A j \in 1 .. i - 1 : asks[j].view # v) =>
                \/ ConsoleNewest(v)' = ConsoleNewest(v) /\ ConsoleNewest(v) # {}
                \/ ConsoleNewest(v)' = {} /\ ConsoleNewest(v) = {asks[i]}
    BY <2>1, <2>3, ConsoleGone
  <2>5. QED
    BY <2>2, <2>4
<1>3. a \in ConsoleAsks
  BY DEF ConsoleTypes
<1>4. /\ a.view \in {"list", "drawer"} /\ a.key \in 1 .. 2 /\ a.awaited \in BOOLEAN
      /\ a.got \in ConsoleStates
      /\ shown \in ConsoleShown /\ shown # Nil /\ shown.key = a.key /\ shown.status = a.got
  BY <1>1, <1>3 DEF ConsoleAsks, ConsoleShown, ConsoleDistinct
<1> HIDE DEF shown
<1>5. /\ a.awaited =>
           /\ acting # Nil /\ ~acting.called
           /\ acting.todo # << >>
           /\ Head(acting.todo) = IF a.view = "list" THEN "list" ELSE "detail"
      /\ list = Nil => a.view = "list" /\ drawer = Nil /\ acting = Nil
  BY DEF ConsoleAwaited, ConsoleOpened
<1> HIDE DEF a
<1>6. a.awaited =>
        /\ acting' \in ConsoleCalls /\ acting' # Nil
        /\ acting'.to = acting.to /\ acting'.open = acting.open
        /\ ~acting'.called /\ acting'.todo = Tail(acting.todo)
        /\ \A k \in DOMAIN acting'.todo : \E j \in DOMAIN acting.todo : acting'.todo[k] = acting.todo[j]
        /\ \A j \in DOMAIN acting.todo : acting.todo[j] # Head(acting.todo) =>
              \E k \in DOMAIN acting'.todo : acting'.todo[k] = acting.todo[j]
  <2>1. ASSUME a.awaited
        PROVE  /\ acting \in ConsoleCalls
               /\ acting.todo \in Seq({"list", "detail", "patch"})
    BY <1>5, <2>1 DEF ConsoleTypes, ConsoleCalls
  <2>2. ASSUME a.awaited
        PROVE  /\ Tail(acting.todo) \in Seq({"list", "detail", "patch"})
               /\ \A k \in DOMAIN Tail(acting.todo) :
                     \E j \in DOMAIN acting.todo : Tail(acting.todo)[k] = acting.todo[j]
               /\ \A j \in DOMAIN acting.todo : acting.todo[j] # Head(acting.todo) =>
                     \E k \in DOMAIN Tail(acting.todo) : Tail(acting.todo)[k] = acting.todo[j]
    BY <1>5, <2>1, <2>2, ConsoleTail
  <2>3. ASSUME a.awaited
        PROVE  /\ acting' \in ConsoleCalls
               /\ acting'.to = acting.to /\ acting'.open = acting.open
               /\ acting'.called = acting.called /\ acting'.todo = Tail(acting.todo)
    BY <1>1, <2>1, <2>2, <2>3 DEF ConsoleCalls
  <2>4. a.awaited => acting' # Nil
    BY <2>3 DEF ConsoleDistinct
  <2>5. a.awaited => acting'.todo = Tail(acting.todo) /\ ~acting'.called
    BY <1>5, <2>3
  <2>6. ASSUME a.awaited
        PROVE  /\ \A k \in DOMAIN acting'.todo : \E j \in DOMAIN acting.todo : acting'.todo[k] = acting.todo[j]
               /\ \A j \in DOMAIN acting.todo : acting.todo[j] # Head(acting.todo) =>
                     \E k \in DOMAIN acting'.todo : acting'.todo[k] = acting.todo[j]
    <3>1. acting'.todo = Tail(acting.todo)
      BY <2>5, <2>6
    <3>2. QED
      BY <2>2, <2>6, <3>1
  <2>7. QED
    BY <2>3, <2>4, <2>5, <2>6
<1>7. ~a.awaited => acting' = acting
  BY <1>1
<1>8. list' # Nil
  BY <1>1, <1>4, <1>5
<1>9. ConsoleTypes'
  <2>1. acting' \in ConsoleCalls \cup {Nil}
    BY <1>6, <1>7 DEF ConsoleTypes
  <2>2. QED
    BY <1>1, <1>2, <1>4, <2>1 DEF ConsoleTypes
<1>10. ConsoleOpened'
  BY <1>8 DEF ConsoleOpened
<1>11. ConsoleAwaited'
  <2>1. CASE a.awaited
    BY <1>1, <1>2, <2>1 DEF ConsoleAwaited
  <2>2. CASE ~a.awaited
    BY <1>1, <1>2, <1>7, <2>2 DEF ConsoleAwaited
  <2>3. QED
    BY <2>1, <2>2
<1>12. ConsoleCalled'
  <2>1. CASE a.awaited
    BY <1>1, <1>5, <1>6, <2>1 DEF ConsoleCalled
  <2>2. CASE ~a.awaited
    BY <1>1, <1>7, <2>2 DEF ConsoleCalled
  <2>3. QED
    BY <2>1, <2>2
<1>14. /\ ~muddled' => ~muddled
       /\ acting' # Nil => acting # Nil /\ acting'.open = acting.open
  BY <1>1, <1>5, <1>6, <1>7
<1>15. ConsoleAsked'
  <2>1. CASE a.view = "list"
    <3>1. ConsoleNewest("drawer")' = ConsoleNewest("drawer") /\ drawer' = drawer
      BY <1>1, <1>2, <2>1
    <3>2. ~muddled' =>
            /\ page.lags \/ \A b \in ConsoleNewest("list")' : b.key = filter
            /\ page.lags \/ ConsoleNewest("list")' # {} \/ list'.key = filter
      BY <1>1, <1>2, <1>4, <1>14, <2>1 DEF ConsoleAsked
    <3>3. QED
      BY <1>1, <1>14, <3>1, <3>2 DEF ConsoleAsked
  <2>2. CASE a.view = "drawer"
    <3>1. ConsoleNewest("list")' = ConsoleNewest("list") /\ list' = list
      BY <1>1, <1>2, <2>2
    <3>2. ~muddled' =>
            /\ \A b \in ConsoleNewest("drawer")' : b.key = picked
            /\ ConsoleNewest("drawer")' # {} \/ (drawer' # Nil /\ picked = drawer'.key)
      BY <1>1, <1>2, <1>4, <1>14, <2>2 DEF ConsoleAsked
    <3>3. QED
      BY <1>1, <1>14, <3>1, <3>2 DEF ConsoleAsked
  <2>3. QED
    BY <1>4, <2>1, <2>2
<1>16. ConsoleOwnMove'
  <2> SUFFICES ASSUME ~muddled', moves' = 0
               PROVE  \/ ConsoleFresh'
                      \/ /\ acting' # Nil /\ ~acting'.called
                         /\ \E k \in DOMAIN acting'.todo : ConsoleRefreshes(page', acting'.todo[k])
                         /\ \A k \in DOMAIN asks' : ~(asks'[k].awaited /\ asks'[k].view = "list")
    BY DEF ConsoleOwnMove
  <2>1. CASE ConsoleFresh
    <3>1. CASE a.view = "list"
      BY <1>1, <1>2, <1>4, <1>8, <2>1, <3>1 DEF ConsoleFresh
    <3>2. CASE a.view = "drawer"
      BY <1>1, <1>2, <2>1, <3>2 DEF ConsoleFresh
    <3>3. QED
      BY <1>4, <3>1, <3>2
  <2>2. CASE ~ConsoleFresh
    <3>1. /\ acting # Nil /\ ~acting.called
          /\ \E k \in DOMAIN acting.todo : ConsoleRefreshes(page, acting.todo[k])
          /\ \A k \in DOMAIN asks : ~(asks[k].awaited /\ asks[k].view = "list")
      BY <1>1, <1>14, <2>2 DEF ConsoleOwnMove
    <3>2. \A k \in DOMAIN asks' : ~(asks'[k].awaited /\ asks'[k].view = "list")
      BY <1>2, <3>1
    <3>3. CASE ~a.awaited
      BY <1>1, <1>7, <3>1, <3>2, <3>3
    <3>4. CASE a.awaited
      <4>1. Head(acting.todo) = "detail"
        BY <1>5, <3>1, <3>4 DEF a
      <4>2. PICK k \in DOMAIN acting.todo : ConsoleRefreshes(page, acting.todo[k])
        BY <3>1
      <4>3. acting.todo[k] # Head(acting.todo)
        BY <4>1, <4>2 DEF ConsoleRefreshes
      <4>4. PICK j \in DOMAIN acting'.todo : acting'.todo[j] = acting.todo[k]
        BY <1>6, <3>4, <4>3
      <4>5. ConsoleRefreshes(page', acting'.todo[j])
        BY <1>1, <4>2, <4>4
      <4>6. QED
        BY <1>6, <3>2, <3>4, <4>5
    <3>5. QED
      BY <1>4, <3>3, <3>4
  <2>3. QED
    BY <2>1, <2>2
<1>17. QED
  BY <1>9, <1>10, <1>11, <1>12, <1>15, <1>16

LEMMA ConsoleAskFailsIInv ==
    ASSUME ConsoleIInv, NEW i \in DOMAIN asks, ConsolePart!AskFails(i)
    PROVE  ConsoleIInv'
<1> USE DEF ConsoleIInv
<1>1. /\ asks' = ConsolePart!RemoveAt(asks, i)
      /\ acting' = (IF asks[i].awaited THEN Nil ELSE acting)
      /\ muddled'
      /\ UNCHANGED <<page, server, filter, picked, list, drawer, moves>>
  BY DEF ConsolePart!AskFails
<1>2. /\ asks' \in Seq(ConsoleAsks)
      /\ \A k \in DOMAIN asks' : \E j \in DOMAIN asks : asks'[k] = asks[j]
      /\ ConsoleOneOf(asks')
      /\ asks[i].awaited => \A k \in DOMAIN asks' : ~asks'[k].awaited
  BY <1>1, ConsoleGone DEF ConsoleAwaited
<1>3. ConsoleTypes'
  <2>1. muddled' \in BOOLEAN
    BY DEF ConsolePart!AskFails
  <2>2. QED
    BY <1>1, <1>2, <2>1 DEF ConsoleTypes
<1>4. ConsoleOpened'
  BY <1>1, <1>2 DEF ConsoleOpened
<1>5. ConsoleAwaited'
  <2>1. CASE asks[i].awaited
    BY <1>1, <1>2, <2>1 DEF ConsoleAwaited
  <2>2. CASE ~asks[i].awaited
    BY <1>1, <1>2, <2>2 DEF ConsoleAwaited
  <2>3. QED
    BY <2>1, <2>2
<1>6. ConsoleCalled'
  BY <1>1 DEF ConsoleCalled
<1>7. ConsoleAsked' /\ ConsoleOwnMove'
  BY <1>1 DEF ConsoleAsked, ConsoleOwnMove
<1>8. QED
  BY <1>3, <1>4, <1>5, <1>6, <1>7

LEMMA ConsolePressIInv ==
    ASSUME ConsoleIInv, ConsoleFit, ConsoleDistinct, NEW view, NEW t, ConsolePart!Press(view, t)
    PROVE  ConsoleIInv'
<1> USE DEF ConsoleIInv
<1> DEFINE shown == IF view = "list" THEN list ELSE drawer
           c == [to |-> t, called |-> TRUE,
                 todo |-> page.after, open |-> ConsolePart!OpenRow]
<1>1. /\ acting = Nil /\ view \in page.buttons
      /\ IF view = "list" THEN list # Nil ELSE ConsolePart!OpenRow
      /\ <<shown.status, t>> \in page.offers
      /\ acting' = c
      /\ muddled' = (muddled \/ ConsolePart!Pending("drawer"))
      /\ UNCHANGED <<page, server, filter, picked, asks, list, drawer, moves>>
  BY DEF ConsolePart!Press
<1>2. shown.status \in ConsoleStates /\ t \in ConsoleStates
  BY <1>1, ConsoleIsState DEF ConsoleTypes
<1> HIDE DEF shown
<1>3. /\ acting' \in ConsoleCalls
      /\ acting' # Nil
      /\ acting'.to = t /\ acting'.called
      /\ acting'.todo = page.after /\ acting'.open = ConsolePart!OpenRow
  <2>1. page.after \in Seq({"list", "detail", "patch"}) /\ ConsolePart!OpenRow \in BOOLEAN
    BY DEF ConsoleTypes, ConsoleFit, ConsolePart!OpenRow
  <2>2. c \in ConsoleCalls
    BY <1>2, <2>1 DEF ConsoleCalls
  <2>3. c # Nil
    BY <2>2 DEF ConsoleDistinct
  <2>4. c.to = t /\ c.called /\ c.todo = page.after /\ c.open = ConsolePart!OpenRow
    OBVIOUS
  <2>5. acting' = c
    BY <1>1
  <2> HIDE DEF c
  <2>6. QED
    BY <2>2, <2>3, <2>4, <2>5
<1> HIDE DEF c
<1>4. \A v : ConsoleNewest(v)' = ConsoleNewest(v)
  BY <1>1 DEF ConsoleNewest
<1>5. ConsoleTypes'
  BY <1>1, <1>3 DEF ConsoleTypes
<1>6. list # Nil
  BY <1>1 DEF ConsoleOpened, ConsolePart!OpenRow
<1>7. ConsoleOpened'
  BY <1>1, <1>6 DEF ConsoleOpened
<1>8. ConsoleAwaited'
  BY <1>1 DEF ConsoleAwaited
<1>9. ConsoleCalled'
  <2>1. (\E k \in DOMAIN page.after : page.after[k] = "patch") /\ page.drawer = "answer"
            => ConsolePart!OpenRow
    BY <1>1 DEF ConsoleTypes, ConsoleFit
  <2>2. QED
    BY <1>1, <1>3, <2>1 DEF ConsoleCalled
<1>11. ConsoleAsked'
  <2>1. ~muddled' /\ ConsolePart!OpenRow => picked = 1
    BY <1>1, ConsoleNewestIs DEF ConsoleAsked, ConsolePart!OpenRow
  <2>2. QED
    BY <1>1, <1>3, <1>4, <2>1 DEF ConsoleAsked
<1>12. ConsoleOwnMove'
  BY <1>1, <1>4 DEF ConsoleOwnMove, ConsoleFresh
<1>13. QED
  BY <1>5, <1>7, <1>8, <1>9, <1>11, <1>12

\* A call that the API takes: the row is moved, and all is to be done.
LEMMA ConsoleTakeIInv ==
    ASSUME ConsoleIInv, ConsoleFit, ConsoleDistinct, ConsolePart!Take
    PROVE  ConsoleIInv'
<1> USE DEF ConsoleIInv
<1>1. /\ acting # Nil /\ acting.called /\ <<server, acting.to>> \in page.takes
      /\ server' = acting.to
      /\ UNCHANGED <<page, filter, picked, asks, list, drawer, moves>>
  BY DEF ConsolePart!Take
<1>2. /\ acting \in ConsoleCalls /\ acting.to \in ConsoleStates
      /\ acting.todo = page.after /\ \A i \in DOMAIN asks : ~asks[i].awaited
  BY <1>1 DEF ConsoleTypes, ConsoleCalls, ConsoleCalled, ConsoleAwaited
<1>3. \A v : ConsoleNewest(v)' = ConsoleNewest(v)
  BY <1>1 DEF ConsoleNewest
<1>4. ConsoleOpened' /\ ConsoleAwaited'
  BY <1>1, <1>2 DEF ConsolePart!Take, ConsoleOpened, ConsoleAwaited
<1>5. CASE acting' = [acting EXCEPT !.called = FALSE] /\ UNCHANGED muddled
  <2>1. /\ acting' \in ConsoleCalls /\ acting' # Nil /\ ~acting'.called
        /\ acting'.to = acting.to
        /\ acting'.todo = acting.todo /\ acting'.open = acting.open
    BY <1>2, <1>5 DEF ConsoleCalls, ConsoleDistinct
  <2>2. ConsoleTypes'
    BY <1>1, <1>2, <1>5, <2>1 DEF ConsoleTypes
  <2>3. ConsoleCalled'
    BY <1>1, <2>1 DEF ConsoleCalled
  <2>4. ConsoleAsked'
    BY <1>1, <1>3, <1>5, <2>1 DEF ConsoleAsked
  <2>5. ConsoleOwnMove'
    <3>1. PICK k \in DOMAIN page.after : ConsoleRefreshes(page, page.after[k])
      BY DEF ConsoleTypes, ConsoleFit
    <3>2. ConsoleRefreshes(page', acting'.todo[k]) /\ k \in DOMAIN acting'.todo
      BY <1>1, <1>2, <2>1, <3>1
    <3>3. QED
      BY <1>1, <1>2, <2>1, <3>2 DEF ConsoleOwnMove
  <2>6. QED
    BY <1>4, <2>2, <2>3, <2>4, <2>5
<1>6. CASE acting' = Nil /\ muddled' = TRUE
  <2>1. ConsoleTypes' /\ ConsoleCalled' /\ ConsoleAsked' /\ ConsoleOwnMove'
    BY <1>1, <1>2, <1>6 DEF ConsoleTypes, ConsoleCalled, ConsoleAsked, ConsoleOwnMove
  <2>2. QED
    BY <1>4, <2>1
<1>7. QED
  BY <1>5, <1>6 DEF ConsolePart!Take

\* A call that the API refuses.
LEMMA ConsoleRefuseIInv ==
    ASSUME ConsoleIInv, ConsoleFit, ConsolePart!Refuse
    PROVE  ConsoleIInv'
<1> USE DEF ConsoleIInv
<1>1. /\ acting # Nil /\ acting.called
      /\ <<server, acting.to>> \notin page.takes \ page.vain
      /\ acting' = Nil
      /\ UNCHANGED <<page, server, filter, picked, asks, list, drawer, moves, muddled>>
  BY DEF ConsolePart!Refuse
<1>2. \A v : ConsoleNewest(v)' = ConsoleNewest(v)
  BY <1>1 DEF ConsoleNewest
<1>3. ConsoleTypes' /\ ConsoleOpened' /\ ConsoleAwaited' /\ ConsoleCalled'
  BY <1>1 DEF ConsoleTypes, ConsoleOpened, ConsoleAwaited, ConsoleCalled
<1>4. ConsoleAsked'
  BY <1>1, <1>2 DEF ConsoleAsked
<1>5. ConsoleOwnMove'
  BY <1>1, <1>2 DEF ConsoleOwnMove, ConsoleFresh
<1>7. QED
  BY <1>3, <1>4, <1>5

\* What follows a call that was taken: it asks for the list.
LEMMA ConsoleAskListIInv ==
    ASSUME ConsoleIInv, ConsoleDistinct,
           acting # Nil, ~acting.called, acting.todo # << >>, Head(acting.todo) = "list",
           \A i \in DOMAIN asks : ~asks[i].awaited,
           ConsolePart!Send(ConsolePart!Ask("list", filter, TRUE)),
           UNCHANGED <<page, server, filter, picked, list, drawer, acting, moves, muddled>>
    PROVE  ConsoleIInv'
<1> USE DEF ConsoleIInv
<1> DEFINE a == ConsolePart!Ask("list", filter, TRUE)
<1>1. /\ a.view = "list" /\ a.key = filter /\ a.awaited /\ a.got = Nil /\ a \in ConsoleAsks
  BY DEF ConsolePart!Ask, ConsoleAsks, ConsoleTypes
<1>2. ConsolePart!Send(a)
  OBVIOUS
<1> HIDE DEF a
<1>4. /\ asks' \in Seq(ConsoleAsks)
      /\ ConsoleNewest("list")' = {a} /\ ConsoleNewest("drawer")' = ConsoleNewest("drawer")
      /\ \A i \in DOMAIN asks' : asks'[i] = a \/ \E j \in DOMAIN asks : asks'[i] = asks[j]
      /\ ConsoleOneOf(asks')
  BY <1>1, <1>2, ConsoleSent DEF ConsoleAwaited
<1>5. ConsoleTypes'
  BY <1>4 DEF ConsoleTypes
<1>6. ConsoleOpened'
  BY DEF ConsoleOpened
<1>7. ConsoleAwaited'
  BY <1>1, <1>4 DEF ConsoleAwaited
<1>8. ConsoleCalled'
  BY DEF ConsoleCalled
<1>9. ConsoleAsked'
  BY <1>1, <1>4 DEF ConsoleAsked
<1>10. ConsoleOwnMove'
  BY <1>1, <1>4 DEF ConsoleOwnMove, ConsoleFresh
<1>11. QED
  BY <1>5, <1>6, <1>7, <1>8, <1>9, <1>10

\* It asks for the row, if that was open.
LEMMA ConsoleAskRowIInv ==
    ASSUME ConsoleIInv, ConsoleDistinct,
           acting # Nil, ~acting.called, acting.todo # << >>, Head(acting.todo) = "detail",
           acting.open,
           \A i \in DOMAIN asks : ~asks[i].awaited,
           ConsolePart!Send(ConsolePart!Ask("drawer", 1, TRUE)),
           drawer' = IF page.drawer = "stub" THEN [key |-> 1, status |-> Nil] ELSE drawer,
           UNCHANGED <<page, server, filter, picked, list, acting, moves, muddled>>
    PROVE  ConsoleIInv'
<1> USE DEF ConsoleIInv
<1> DEFINE a == ConsolePart!Ask("drawer", 1, TRUE)
<1>1. /\ a.view = "drawer" /\ a.key = 1 /\ a.awaited /\ a.got = Nil /\ a \in ConsoleAsks
  BY DEF ConsolePart!Ask, ConsoleAsks
<1>2. ConsolePart!Send(a)
  OBVIOUS
<1> HIDE DEF a
<1>4. /\ asks' \in Seq(ConsoleAsks)
      /\ ConsoleNewest("drawer")' = {a} /\ ConsoleNewest("list")' = ConsoleNewest("list")
      /\ \A i \in DOMAIN asks' : asks'[i] = a \/ \E j \in DOMAIN asks : asks'[i] = asks[j]
      /\ ConsoleOneOf(asks')
  BY <1>1, <1>2, ConsoleSent DEF ConsoleAwaited
<1>5. ConsoleTypes'
  <2>1. drawer' \in ConsoleShown \cup {Nil}
    BY DEF ConsoleShown, ConsoleTypes
  <2>2. QED
    BY <1>4, <2>1 DEF ConsoleTypes
<1>6. ConsoleOpened'
  BY DEF ConsoleOpened
<1>7. ConsoleAwaited'
  BY <1>1, <1>4 DEF ConsoleAwaited
<1>8. ConsoleCalled'
  BY DEF ConsoleCalled
<1>9. ConsoleAsked'
  BY <1>1, <1>4 DEF ConsoleAsked
<1>10. ConsoleOwnMove'
  <2>1. \A i \in DOMAIN asks' : ~(asks'[i].awaited /\ asks'[i].view = "list")
    BY <1>1, <1>4
  <2>2. QED
    BY <1>4, <2>1 DEF ConsoleOwnMove, ConsoleFresh
<1>11. QED
  BY <1>5, <1>6, <1>7, <1>8, <1>9, <1>10

\* It is done with something, without asking.
LEMMA ConsoleGoesOn ==
    ASSUME ConsoleTypes, ConsoleDistinct, acting # Nil, acting.todo # << >>,
           acting' = [acting EXCEPT !.todo = Tail(@)]
    PROVE  /\ acting' \in ConsoleCalls /\ acting' # Nil
           /\ acting'.to = acting.to
           /\ acting'.called = acting.called /\ acting'.open = acting.open
           /\ \A k \in DOMAIN acting'.todo :
                 \E j \in DOMAIN acting.todo : acting'.todo[k] = acting.todo[j]
           /\ \A j \in DOMAIN acting.todo : acting.todo[j] # Head(acting.todo) =>
                 \E k \in DOMAIN acting'.todo : acting'.todo[k] = acting.todo[j]
<1>1. acting \in ConsoleCalls /\ acting.todo \in Seq({"list", "detail", "patch"})
  BY DEF ConsoleTypes, ConsoleCalls
<1>2. /\ Tail(acting.todo) \in Seq({"list", "detail", "patch"})
      /\ \A k \in DOMAIN Tail(acting.todo) :
            \E j \in DOMAIN acting.todo : Tail(acting.todo)[k] = acting.todo[j]
      /\ \A j \in DOMAIN acting.todo : acting.todo[j] # Head(acting.todo) =>
            \E k \in DOMAIN Tail(acting.todo) : Tail(acting.todo)[k] = acting.todo[j]
  BY <1>1, ConsoleTail
<1>3. /\ acting' \in ConsoleCalls
      /\ acting'.to = acting.to /\ acting'.open = acting.open
      /\ acting'.called = acting.called /\ acting'.todo = Tail(acting.todo)
  BY <1>1, <1>2 DEF ConsoleCalls
<1>4. acting' # Nil
  BY <1>3 DEF ConsoleDistinct
<1>5. acting'.todo = Tail(acting.todo)
  BY <1>3
<1>6. /\ \A k \in DOMAIN acting'.todo :
            \E j \in DOMAIN acting.todo : acting'.todo[k] = acting.todo[j]
      /\ \A j \in DOMAIN acting.todo : acting.todo[j] # Head(acting.todo) =>
            \E k \in DOMAIN acting'.todo : acting'.todo[k] = acting.todo[j]
  BY <1>2, <1>5
<1>7. QED
  BY <1>3, <1>4, <1>6

\* It skips the row, which was not open.
LEMMA ConsoleSkipRowIInv ==
    ASSUME ConsoleIInv, ConsoleDistinct,
           acting # Nil, ~acting.called, acting.todo # << >>, Head(acting.todo) = "detail",
           \A i \in DOMAIN asks : ~asks[i].awaited,
           acting' = [acting EXCEPT !.todo = Tail(@)],
           UNCHANGED <<page, server, filter, picked, asks, list, drawer, moves, muddled>>
    PROVE  ConsoleIInv'
<1> USE DEF ConsoleIInv
<1>1. /\ acting' \in ConsoleCalls /\ acting' # Nil
      /\ acting'.to = acting.to
      /\ acting'.called = acting.called /\ acting'.open = acting.open
      /\ \A k \in DOMAIN acting'.todo :
            \E j \in DOMAIN acting.todo : acting'.todo[k] = acting.todo[j]
      /\ \A j \in DOMAIN acting.todo : acting.todo[j] # Head(acting.todo) =>
            \E k \in DOMAIN acting'.todo : acting'.todo[k] = acting.todo[j]
  BY ConsoleGoesOn
<1>2. \A v : ConsoleNewest(v)' = ConsoleNewest(v)
  BY DEF ConsoleNewest
<1>3. ConsoleTypes'
  BY <1>1 DEF ConsoleTypes
<1>4. ConsoleOpened' /\ ConsoleAwaited'
  BY DEF ConsoleOpened, ConsoleAwaited
<1>5. ConsoleCalled'
  BY <1>1 DEF ConsoleCalled
<1>6. ConsoleAsked'
  BY <1>1, <1>2 DEF ConsoleAsked
<1>7. ConsoleOwnMove'
  <2>1. (\E k \in DOMAIN acting.todo : ConsoleRefreshes(page, acting.todo[k]))
            => \E k \in DOMAIN acting'.todo : ConsoleRefreshes(page', acting'.todo[k])
    <3>1. ASSUME NEW k \in DOMAIN acting.todo, ConsoleRefreshes(page, acting.todo[k])
          PROVE  \E j \in DOMAIN acting'.todo : ConsoleRefreshes(page', acting'.todo[j])
      <4>1. acting.todo[k] # Head(acting.todo)
        BY <3>1 DEF ConsoleRefreshes
      <4>2. PICK j \in DOMAIN acting'.todo : acting'.todo[j] = acting.todo[k]
        BY <1>1, <4>1
      <4>3. QED
        BY <3>1, <4>2
    <3>2. QED
      BY <3>1
  <2>2. ~muddled' /\ moves' = 0 /\ ConsoleFresh => ConsoleFresh'
    BY <1>2 DEF ConsoleFresh
  <2>3. QED
    BY <1>1, <2>1, <2>2 DEF ConsoleOwnMove
<1>8. QED
  BY <1>3, <1>4, <1>5, <1>6, <1>7

\* It writes the new status into the drawer, or into the list.
LEMMA ConsolePatchIInv ==
    ASSUME ConsoleIInv, ConsoleDistinct,
           acting # Nil, ~acting.called, acting.todo # << >>, Head(acting.todo) = "patch",
           \A i \in DOMAIN asks : ~asks[i].awaited,
           acting' = [acting EXCEPT !.todo = Tail(@)],
           IF page.drawer = "answer"
           THEN drawer' = [key |-> 1, status |-> acting.to] /\ UNCHANGED list
           ELSE list' = [list EXCEPT !.status = acting.to] /\ UNCHANGED drawer,
           muddled' = (muddled \/ asks # << >>),
           UNCHANGED <<page, server, filter, picked, asks, moves>>
    PROVE  ConsoleIInv'
<1> USE DEF ConsoleIInv
<1>1. /\ acting' \in ConsoleCalls /\ acting' # Nil
      /\ acting'.to = acting.to
      /\ acting'.called = acting.called /\ acting'.open = acting.open
      /\ \A k \in DOMAIN acting'.todo :
            \E j \in DOMAIN acting.todo : acting'.todo[k] = acting.todo[j]
      /\ \A j \in DOMAIN acting.todo : acting.todo[j] # Head(acting.todo) =>
            \E k \in DOMAIN acting'.todo : acting'.todo[k] = acting.todo[j]
  BY ConsoleGoesOn
<1>2. acting \in ConsoleCalls /\ acting.to \in ConsoleStates /\ list # Nil /\ list \in ConsoleShown
  BY DEF ConsoleTypes, ConsoleCalls, ConsoleOpened
<1>3. page.drawer = "answer" =>
        /\ drawer' \in ConsoleShown /\ drawer' # Nil /\ drawer'.key = 1 /\ list' = list
        /\ acting.open
  <2>1. \E k \in DOMAIN acting.todo : acting.todo[k] = "patch"
    <3>1. acting.todo \in Seq({"list", "detail", "patch"})
      BY <1>2 DEF ConsoleCalls
    <3>2. Head(acting.todo) = acting.todo[1] /\ 1 \in DOMAIN acting.todo
      BY <3>1, HeadTailProperties
    <3>3. QED
      BY <3>2
  <2>2. page.drawer = "answer" => acting.open
    BY <2>1 DEF ConsoleCalled
  <2>3. QED
    BY <1>2, <2>2 DEF ConsoleShown, ConsoleDistinct
<1>4. page.drawer # "answer" =>
        /\ list' \in ConsoleShown /\ list' # Nil /\ list'.key = list.key /\ list'.status = acting.to
        /\ drawer' = drawer
  BY <1>2 DEF ConsoleShown, ConsoleDistinct
<1>5. ConsoleTypes'
  <2>1. muddled' \in BOOLEAN /\ list' \in ConsoleShown \cup {Nil} /\ drawer' \in ConsoleShown \cup {Nil}
    BY <1>3, <1>4 DEF ConsoleTypes
  <2>2. QED
    BY <1>1, <2>1 DEF ConsoleTypes
<1>6. ConsoleOpened'
  BY <1>2, <1>3, <1>4 DEF ConsoleOpened
<1>7. ConsoleAwaited'
  BY DEF ConsoleAwaited
<1>8. ConsoleCalled'
  BY <1>1 DEF ConsoleCalled
<1>9. ~muddled' => /\ ~muddled
                   /\ \A v : ConsoleNewest(v)' = {} /\ ConsoleNewest(v) = {}
  <2>1. asks = << >> => \A v : ConsoleNewest(v) = {} /\ ConsoleNewest(v)' = {}
    BY DEF ConsoleNewest, ConsoleNewestOf
  <2>2. QED
    BY <2>1
<1>10. ConsoleAsked'
  <2>1. CASE page.drawer = "answer"
    BY <1>1, <1>3, <1>9, <2>1 DEF ConsoleAsked
  <2>2. CASE page.drawer # "answer"
    BY <1>1, <1>4, <1>9, <2>2 DEF ConsoleAsked
  <2>3. QED
    BY <2>1, <2>2
<1>11. ConsoleOwnMove'
  <2>1. CASE page.drawer # "answer"
    <3>1. moves = 0 => server = acting.to
      BY DEF ConsoleCalled
    <3>2. QED
      BY <1>4, <1>9, <2>1, <3>1 DEF ConsoleOwnMove, ConsoleFresh
  <2>2. CASE page.drawer = "answer"
    <3>1. (\E k \in DOMAIN acting.todo : ConsoleRefreshes(page, acting.todo[k]))
              => \E k \in DOMAIN acting'.todo : ConsoleRefreshes(page', acting'.todo[k])
      <4>1. ASSUME NEW k \in DOMAIN acting.todo, ConsoleRefreshes(page, acting.todo[k])
            PROVE  \E j \in DOMAIN acting'.todo : ConsoleRefreshes(page', acting'.todo[j])
        <5>1. acting.todo[k] # Head(acting.todo)
          BY <2>2, <4>1 DEF ConsoleRefreshes
        <5>2. PICK j \in DOMAIN acting'.todo : acting'.todo[j] = acting.todo[k]
          BY <1>1, <5>1
        <5>3. QED
          BY <4>1, <5>2
      <4>2. QED
        BY <4>1
    <3>2. ~muddled' /\ ConsoleFresh => ConsoleFresh'
      BY <1>3, <1>9, <2>2 DEF ConsoleFresh
    <3>3. QED
      BY <1>1, <1>9, <3>1, <3>2 DEF ConsoleOwnMove
  <2>3. QED
    BY <2>1, <2>2
<1>12. QED
  BY <1>5, <1>6, <1>7, <1>8, <1>10, <1>11

LEMMA ConsoleFollowIInv ==
    ASSUME ConsoleIInv, ConsoleDistinct, ConsolePart!Follow
    PROVE  ConsoleIInv'
<1>1. /\ acting # Nil /\ ~acting.called /\ acting.todo # << >>
      /\ \A i \in DOMAIN asks : ~asks[i].awaited
      /\ UNCHANGED <<page, server, filter, picked, moves>>
  BY DEF ConsolePart!Follow
<1>2. \/ /\ Head(acting.todo) = "list"
         /\ ConsolePart!Send(ConsolePart!Ask("list", filter, TRUE))
         /\ UNCHANGED <<list, drawer, acting, muddled>>
      \/ /\ Head(acting.todo) = "detail" /\ acting.open
         /\ ConsolePart!Send(ConsolePart!Ask("drawer", 1, TRUE))
         /\ drawer' = IF page.drawer = "stub" THEN [key |-> 1, status |-> Nil] ELSE drawer
         /\ UNCHANGED <<list, acting, muddled>>
      \/ /\ Head(acting.todo) = "detail"
         /\ acting' = [acting EXCEPT !.todo = Tail(@)]
         /\ UNCHANGED <<asks, list, drawer, muddled>>
      \/ /\ Head(acting.todo) = "patch"
         /\ acting' = [acting EXCEPT !.todo = Tail(@)]
         /\ IF page.drawer = "answer"
            THEN drawer' = [key |-> 1, status |-> acting.to] /\ UNCHANGED list
            ELSE list' = [list EXCEPT !.status = acting.to] /\ UNCHANGED drawer
         /\ muddled' = (muddled \/ asks # << >>)
         /\ UNCHANGED asks
  BY DEF ConsolePart!Follow
<1>3. CASE /\ Head(acting.todo) = "list"
           /\ ConsolePart!Send(ConsolePart!Ask("list", filter, TRUE))
           /\ UNCHANGED <<list, drawer, acting, muddled>>
  BY <1>1, <1>3, ConsoleAskListIInv
<1>4. CASE /\ Head(acting.todo) = "detail" /\ acting.open
           /\ ConsolePart!Send(ConsolePart!Ask("drawer", 1, TRUE))
           /\ drawer' = IF page.drawer = "stub" THEN [key |-> 1, status |-> Nil] ELSE drawer
           /\ UNCHANGED <<list, acting, muddled>>
  BY <1>1, <1>4, ConsoleAskRowIInv
<1>5. CASE /\ Head(acting.todo) = "detail"
           /\ acting' = [acting EXCEPT !.todo = Tail(@)]
           /\ UNCHANGED <<asks, list, drawer, muddled>>
  BY <1>1, <1>5, ConsoleSkipRowIInv
<1>6. CASE /\ Head(acting.todo) = "patch"
           /\ acting' = [acting EXCEPT !.todo = Tail(@)]
           /\ IF page.drawer = "answer"
              THEN drawer' = [key |-> 1, status |-> acting.to] /\ UNCHANGED list
              ELSE list' = [list EXCEPT !.status = acting.to] /\ UNCHANGED drawer
           /\ muddled' = (muddled \/ asks # << >>)
           /\ UNCHANGED asks
  BY <1>1, <1>6, ConsolePatchIInv
<1>7. QED
  BY <1>2, <1>3, <1>4, <1>5, <1>6

\* A call that has nothing left to do ends; others move the row; or nothing
\* of the page changes.
LEMMA ConsoleQuietIInv ==
    ASSUME ConsoleIInv,
           \/ ConsolePart!Finish
           \/ \E p \in Pages, q \in page.offers \cup page.takes :
                 p = page /\ ConsolePart!OtherMoves(q[2])
           \/ UNCHANGED consoleVars
    PROVE  ConsoleIInv'
<1> USE DEF ConsoleIInv
<1>1. /\ UNCHANGED <<page, filter, picked, asks, list, drawer, muddled>>
      /\ UNCHANGED acting \/ acting' = Nil
      /\ server' \in ConsoleStates
      /\ UNCHANGED <<server, moves>> \/ (UNCHANGED acting /\ moves' = moves + 1)
  BY ConsoleIsState DEF ConsoleTypes, ConsolePart!Finish, ConsolePart!OtherMoves, consoleVars
<1>2. moves' \in Nat /\ (moves' = moves + 1 => moves' # 0)
  BY <1>1 DEF ConsoleTypes
<1>3. \A v : ConsoleNewest(v)' = ConsoleNewest(v)
  BY <1>1 DEF ConsoleNewest
<1>4. ConsoleTypes' /\ ConsoleOpened'
  BY <1>1, <1>2 DEF ConsoleTypes, ConsoleOpened
<1>5. ASSUME ~UNCHANGED acting
      PROVE  /\ acting' = Nil /\ acting # Nil /\ ~acting.called /\ acting.todo = << >>
             /\ UNCHANGED <<server, moves>>
  BY <1>5 DEF ConsolePart!Finish, ConsolePart!OtherMoves, consoleVars
<1>6. ConsoleAwaited'
  <2>1. CASE UNCHANGED acting
    BY <1>1, <2>1 DEF ConsoleAwaited
  <2>2. CASE ~UNCHANGED acting
    BY <1>1, <1>5, <2>2 DEF ConsoleAwaited
  <2>3. QED
    BY <2>1, <2>2
<1>7. ConsoleCalled'
  BY <1>1, <1>2, <1>5 DEF ConsoleCalled
<1>8. ConsoleAsked'
  BY <1>1, <1>3 DEF ConsoleAsked
<1>9. ConsoleOwnMove'
  <2>1. CASE ~UNCHANGED acting
    <3>1. DOMAIN acting.todo = {}
      BY <1>5, <2>1
    <3>2. QED
      BY <1>1, <1>3, <1>5, <2>1, <3>1 DEF ConsoleOwnMove, ConsoleFresh
  <2>2. CASE UNCHANGED acting
    BY <1>1, <1>2, <1>3, <2>2 DEF ConsoleOwnMove, ConsoleFresh
  <2>3. QED
    BY <2>1, <2>2
<1>10. QED
  BY <1>4, <1>6, <1>7, <1>8, <1>9

LEMMA ConsoleStepIInv ==
    ASSUME ConsoleIInv, ConsoleFit, ConsoleDistinct, ConsolePart!Next \/ UNCHANGED consoleVars
    PROVE  ConsoleIInv'
<1>1. page \in Pages
  BY DEF ConsoleIInv, ConsoleTypes
<1>2. CASE UNCHANGED consoleVars \/ ConsolePart!Finish
           \/ \E q \in page.offers \cup page.takes : ConsolePart!OtherMoves(q[2])
  BY <1>1, <1>2, ConsoleQuietIInv
<1>3. ASSUME NEW k \in 1 .. 2, ConsolePart!SetFilter(k) \/ ConsolePart!Open(k)
      PROVE  ConsoleIInv'
  BY <1>3, ConsoleSetFilterIInv, ConsoleOpenIInv
<1>4. ASSUME NEW i \in DOMAIN asks, ConsolePart!Read(i) \/ ConsolePart!Answer(i) \/ ConsolePart!AskFails(i)
      PROVE  ConsoleIInv'
  BY <1>4, ConsoleReadIInv, ConsoleAnswerIInv, ConsoleAskFailsIInv
<1>5. ASSUME NEW q \in page.offers \cup page.takes, NEW view \in page.buttons,
             ConsolePart!Press(view, q[2])
      PROVE  ConsoleIInv'
  BY <1>5, ConsolePressIInv
<1>6. CASE ConsolePart!Close \/ ConsolePart!Take \/ ConsolePart!Refuse \/ ConsolePart!Follow
  BY <1>6, ConsoleCloseIInv, ConsoleTakeIInv, ConsoleRefuseIInv, ConsoleFollowIInv
<1>7. QED
  BY <1>2, <1>3, <1>4, <1>5, <1>6 DEF ConsolePart!Next

LEMMA ConsoleSuffice ==
    ASSUME ConsoleIInv
    PROVE  ConsolePart!ConsoleHolds
<1> USE DEF ConsoleIInv
<1>1. ConsolePart!ShowsWhatWasAsked
  BY ConsoleNewestIs DEF ConsoleAsked, ConsoleTypes, ConsolePart!ShowsWhatWasAsked
<1>2. ConsolePart!ShowsOwnMove
  <2>1. asks = << >> => ConsoleNewest("list") = {}
    BY DEF ConsoleNewest, ConsoleNewestOf
  <2>2. QED
    BY <2>1 DEF ConsoleOwnMove, ConsoleFresh, ConsolePart!ShowsOwnMove
<1>3. QED
  BY <1>1, <1>2 DEF ConsolePart!ConsoleHolds

-----------------------------------------------------------------------------
(* The session of a browser: for any number of calls in flight, that it      *)
(* stays signed out.                                                         *)

WebFlights ==
    [for : {"CALL", "ME", "SIGN_IN"}, step : {"SENT", "REFRESHING"},
     token : WebSessionPart!Token, again : BOOLEAN]
WebDistinct == Nil \notin WebFlights

WebTypes ==
    /\ web \in {"admin", "partner"}
    /\ access \in WebSessionPart!Token /\ refresh \in WebSessionPart!Token
    /\ user \in BOOLEAN /\ loggedOut \in BOOLEAN /\ lateAnswer \in BOOLEAN
    /\ flight \in [Caller -> WebFlights \cup {Nil}]

\* After a logout that found nothing in flight there is nothing that could
\* renew a token, only attempts to sign in.
WebQuiet ==
    /\ access = "none" /\ refresh = "none" /\ ~user
    /\ \A t \in Caller : flight[t] # Nil => flight[t].for = "SIGN_IN" /\ flight[t].step = "SENT"

WebIInv == WebTypes /\ (loggedOut /\ ~lateAnswer => WebQuiet)

LEMMA WebInitIInv ==
    ASSUME WebSessionPart!Init
    PROVE  WebIInv
BY DEF WebSessionPart!Init, WebSessionPart!NoFlight, WebSessionPart!Token, WebIInv, WebTypes

\* A call that is in flight moves on or is over.
LEMMA WebFlight ==
    ASSUME WebTypes, NEW t \in Caller, NEW f \in WebFlights \cup {Nil},
           flight' = [flight EXCEPT ![t] = f]
    PROVE  /\ flight' \in [Caller -> WebFlights \cup {Nil}]
           /\ flight'[t] = f /\ \A s \in Caller \ {t} : flight'[s] = flight[s]
BY DEF WebTypes

\* What is sent is a flight, of its purpose.
LEMMA WebSent ==
    ASSUME WebTypes, WebDistinct, NEW for \in {"CALL", "ME", "SIGN_IN"}
    PROVE  /\ WebSessionPart!Sent(for) \in WebFlights /\ WebSessionPart!Sent(for) # Nil
           /\ WebSessionPart!Sent(for).for = for /\ WebSessionPart!Sent(for).step = "SENT"
<1>1. /\ WebSessionPart!Sent(for) \in WebFlights
      /\ WebSessionPart!Sent(for).for = for /\ WebSessionPart!Sent(for).step = "SENT"
  BY DEF WebTypes, WebFlights, WebSessionPart!Sent
<1>2. QED
  BY <1>1 DEF WebDistinct

\* A page is left, or loads: nothing stays in flight but the question who the
\* user is, asked with a token.
LEMMA WebAnew ==
    ASSUME WebIInv, WebDistinct, NEW t \in Caller,
           \/ WebSessionPart!Load(t) \/ WebSessionPart!RefreshFails(t)
           \/ WebSessionPart!Unauthorized(t) /\ flight' = WebSessionPart!NoFlight
    PROVE  WebIInv'
<1> USE DEF WebIInv
<1>1. CASE WebSessionPart!Load(t)
  <2>1. /\ user' = FALSE /\ UNCHANGED <<web, access, refresh, loggedOut, lateAnswer>>
        /\ flight' = IF access = "none" THEN [s \in Caller |-> Nil]
                     ELSE [[s \in Caller |-> Nil] EXCEPT ![t] = WebSessionPart!Sent("ME")]
    BY <1>1 DEF WebSessionPart!Load, WebSessionPart!NoFlight
  <2>2. WebSessionPart!Sent("ME") \in WebFlights
    BY WebSent
  <2>3. flight' \in [Caller -> WebFlights \cup {Nil}]
    BY <2>1, <2>2
  <2>4. WebTypes'
    BY <2>1, <2>3 DEF WebTypes
  <2>5. loggedOut' /\ ~lateAnswer' => WebQuiet'
    BY <2>1 DEF WebQuiet
  <2>6. QED
    BY <2>4, <2>5
<1>2. CASE flight' = WebSessionPart!NoFlight /\ ~WebSessionPart!Load(t)
  <2> DEFINE f == [flight[t] EXCEPT !.step = "REFRESHING", !.token = refresh]
  <2>0. ASSUME flight[t] # Nil,
               flight' = [flight EXCEPT ![t].step = "REFRESHING", ![t].token = refresh]
        PROVE  FALSE
    <3>1. f \in WebFlights /\ flight' = [flight EXCEPT ![t] = f]
      BY <2>0 DEF WebTypes, WebFlights
    <3> HIDE DEF f
    <3>2. flight'[t] = f
      BY <3>1, WebFlight
    <3>3. QED
      BY <1>2, <3>1, <3>2 DEF WebDistinct, WebSessionPart!NoFlight
  <2> HIDE DEF f
  <2>1. /\ flight' = [s \in Caller |-> Nil] /\ user' = FALSE
        /\ UNCHANGED <<web, loggedOut, lateAnswer>>
        /\ access' \in {access, "none"} /\ refresh' \in {refresh, "none"}
    BY <1>2, <2>0 DEF WebSessionPart!RefreshFails, WebSessionPart!Unauthorized,
                      WebSessionPart!Leave, WebSessionPart!NoFlight, WebSessionPart!Step
  <2>2. WebTypes'
    BY <2>1 DEF WebTypes, WebSessionPart!Token
  <2>3. loggedOut' /\ ~lateAnswer' => WebQuiet'
    BY <2>1 DEF WebQuiet
  <2>4. QED
    BY <2>2, <2>3
<1>3. WebSessionPart!RefreshFails(t) => flight' = WebSessionPart!NoFlight
  BY DEF WebSessionPart!RefreshFails, WebSessionPart!Leave
<1>4. QED
  BY <1>1, <1>2, <1>3

\* A call that is over leaves the others as they are.
LEMMA WebOver ==
    ASSUME WebIInv, NEW t \in Caller,
           \/ WebSessionPart!Loaded(t) \/ WebSessionPart!LoadFails(t) \/ WebSessionPart!Done(t)
           \/ WebSessionPart!SignedIn(t)
    PROVE  WebIInv'
<1> USE DEF WebIInv
<1>1. /\ flight[t] # Nil /\ web' = web
      /\ flight' = [s \in Caller |-> Nil] \/ flight' = [flight EXCEPT ![t] = Nil]
      /\ access' \in {access, "none", "live"} /\ refresh' \in {refresh, "none", "live"}
      /\ user' \in BOOLEAN /\ loggedOut' \in BOOLEAN /\ lateAnswer' \in BOOLEAN
  BY DEF WebSessionPart!Loaded, WebSessionPart!LoadFails, WebSessionPart!Done,
         WebSessionPart!SignedIn, WebSessionPart!Ends, WebSessionPart!Step,
         WebSessionPart!NoFlight, WebTypes
<1>2. /\ flight' \in [Caller -> WebFlights \cup {Nil}]
      /\ \A s \in Caller : flight'[s] # Nil => flight'[s] = flight[s]
  BY <1>1 DEF WebTypes
<1>3. WebTypes'
  BY <1>1, <1>2 DEF WebTypes, WebSessionPart!Token
<1>4. CASE WebSessionPart!SignedIn(t)
  BY <1>3, <1>4 DEF WebSessionPart!SignedIn
<1>5. CASE flight[t].for = "ME" /\ ~WebSessionPart!SignedIn(t)
  <2>1. UNCHANGED <<loggedOut, lateAnswer>>
    BY <1>5 DEF WebSessionPart!Loaded, WebSessionPart!LoadFails, WebSessionPart!Done
  <2>2. ~(loggedOut /\ ~lateAnswer)
    BY <1>1, <1>5 DEF WebQuiet
  <2>3. QED
    BY <1>3, <2>1, <2>2
<1>6. CASE WebSessionPart!Done(t)
  <2>1. UNCHANGED <<access, refresh, user, loggedOut, lateAnswer>>
    BY <1>6 DEF WebSessionPart!Done
  <2>2. loggedOut' /\ ~lateAnswer' => WebQuiet'
    BY <1>2, <2>1 DEF WebQuiet
  <2>3. QED
    BY <1>3, <2>2
<1>7. QED
  BY <1>4, <1>5, <1>6 DEF WebSessionPart!Loaded, WebSessionPart!LoadFails

LEMMA WebStepIInv ==
    ASSUME WebIInv, WebDistinct, WebSessionPart!Next \/ UNCHANGED sessionVars
    PROVE  WebIInv'
<1> USE DEF WebIInv
<1>1. CASE UNCHANGED sessionVars
  BY <1>1 DEF sessionVars, WebTypes, WebQuiet
<1>2. CASE WebSessionPart!Expire
  BY <1>2 DEF WebSessionPart!Expire, WebTypes, WebQuiet, WebSessionPart!Token
<1>3. CASE WebSessionPart!Logout
  <2>1. /\ access' = "none" /\ refresh' = "none" /\ user' = FALSE /\ loggedOut' = TRUE
        /\ UNCHANGED web /\ lateAnswer' = (web = "admin" /\ \E t \in Caller : flight[t] # Nil)
        /\ flight' = IF web = "partner" THEN [t \in Caller |-> Nil] ELSE flight
    BY <1>3 DEF WebSessionPart!Logout, WebSessionPart!NoFlight
  <2>2. WebTypes'
    BY <2>1 DEF WebTypes, WebSessionPart!Token
  <2>3. loggedOut' /\ ~lateAnswer' => WebQuiet'
    BY <2>1 DEF WebQuiet, WebTypes
  <2>4. QED
    BY <2>2, <2>3
<1>4. ASSUME NEW t \in Caller, WebSessionPart!Call(t)
      PROVE  WebIInv'
  <2>1. PICK for \in {"CALL", "SIGN_IN"} :
            flight' = [flight EXCEPT ![t] = WebSessionPart!Sent(for)] /\ (for = "CALL" => user)
    BY <1>4 DEF WebSessionPart!Call
  <2>2. UNCHANGED <<web, access, refresh, user, loggedOut, lateAnswer>>
    BY <1>4 DEF WebSessionPart!Call
  <2> DEFINE f == WebSessionPart!Sent(for)
  <2>3. f \in WebFlights /\ f # Nil /\ f.for = for /\ f.step = "SENT"
    BY WebSent
  <2> HIDE DEF f
  <2>4. flight' = [flight EXCEPT ![t] = f]
    BY <2>1 DEF f
  <2>5. /\ flight' \in [Caller -> WebFlights \cup {Nil}]
        /\ flight'[t] = f /\ \A s \in Caller \ {t} : flight'[s] = flight[s]
    BY <2>3, <2>4, WebFlight
  <2>6. WebTypes'
    BY <2>2, <2>5 DEF WebTypes
  <2>7. loggedOut' /\ ~lateAnswer' => WebQuiet'
    BY <2>1, <2>2, <2>3, <2>5 DEF WebQuiet
  <2>8. QED
    BY <2>6, <2>7
<1>5. ASSUME NEW t \in Caller, WebSessionPart!Unauthorized(t), flight' # WebSessionPart!NoFlight
      PROVE  WebIInv'
  <2> DEFINE f == [flight[t] EXCEPT !.step = "REFRESHING", !.token = refresh]
  <2>1. /\ flight[t] # Nil /\ refresh # "none"
        /\ flight' = [flight EXCEPT ![t].step = "REFRESHING", ![t].token = refresh]
        /\ UNCHANGED <<web, access, refresh, user, loggedOut, lateAnswer>>
    BY <1>5 DEF WebSessionPart!Unauthorized, WebSessionPart!Leave, WebSessionPart!Step
  <2>2. f \in WebFlights /\ flight' = [flight EXCEPT ![t] = f]
    BY <2>1 DEF WebFlights, WebTypes
  <2> HIDE DEF f
  <2>3. flight' \in [Caller -> WebFlights \cup {Nil}]
    BY <2>2, WebFlight
  <2>4. WebTypes' /\ ~(loggedOut' /\ ~lateAnswer')
    BY <2>1, <2>3 DEF WebTypes, WebQuiet
  <2>5. QED
    BY <2>4
<1>6. ASSUME NEW t \in Caller, WebSessionPart!Refreshed(t)
      PROVE  WebIInv'
  <2> DEFINE f == [flight[t] EXCEPT !.step = "SENT", !.token = "live", !.again = TRUE]
  <2>1. /\ flight[t] # Nil /\ flight[t].step = "REFRESHING"
        /\ flight' = [flight EXCEPT ![t].step = "SENT", ![t].token = "live", ![t].again = TRUE]
        /\ access' = "live" /\ refresh' = "live"
        /\ UNCHANGED <<web, user, loggedOut, lateAnswer>>
    BY <1>6 DEF WebSessionPart!Refreshed, WebSessionPart!Step
  <2>2. f \in WebFlights /\ flight' = [flight EXCEPT ![t] = f]
    BY <2>1 DEF WebFlights, WebTypes, WebSessionPart!Token
  <2> HIDE DEF f
  <2>3. flight' \in [Caller -> WebFlights \cup {Nil}]
    BY <2>2, WebFlight
  <2>4. WebTypes' /\ ~(loggedOut' /\ ~lateAnswer')
    BY <2>1, <2>3 DEF WebTypes, WebQuiet, WebSessionPart!Token
  <2>5. QED
    BY <2>4
<1>7. ASSUME NEW t \in Caller,
             \/ WebSessionPart!Load(t) \/ WebSessionPart!RefreshFails(t)
             \/ WebSessionPart!Unauthorized(t) /\ flight' = WebSessionPart!NoFlight
      PROVE  WebIInv'
  BY <1>7, WebAnew
<1>8. ASSUME NEW t \in Caller,
             \/ WebSessionPart!Loaded(t) \/ WebSessionPart!LoadFails(t)
             \/ WebSessionPart!Done(t) \/ WebSessionPart!SignedIn(t)
      PROVE  WebIInv'
  BY <1>8, WebOver
<1>9. QED
  BY <1>1, <1>2, <1>3, <1>4, <1>5, <1>6, <1>7, <1>8 DEF WebSessionPart!Next

LEMMA WebSuffice ==
    ASSUME WebIInv
    PROVE  WebSessionPart!TypeOK /\ WebSessionPart!LoggedOutForGood
BY DEF WebIInv, WebTypes, WebQuiet, WebSessionPart!TypeOK, WebSessionPart!LoggedOutForGood

-----------------------------------------------------------------------------
(* Requests: for any number of them, that the log tells what was done.       *)

RequestAnswers ==
    {RequestsPart!Ok} \cup {RequestsPart!Answer(thrown, mention) :
                               thrown \in RequestsPart!Thrown, mention \in RequestsPart!Mention}
RequestRecords ==
    [stage : {"ROLES", "FLAG", "HANDLER", "AUDIT", "ANSWERED"}, permitted : BOOLEAN,
     on : BOOLEAN, ran : BOOLEAN, answer : RequestAnswers]
RequestsDistinct == Nil \notin RequestRecords /\ Nil \notin {"ON", "OFF"}

RequestsTypes ==
    /\ flag \in {"ON", "OFF", Nil}
    /\ req \in [Request -> RequestRecords \cup {Nil}]
    /\ audit \subseteq Request /\ switched \subseteq Request

\* A request is past the guards it has passed, and has run once it is past
\* the handler, unless that refused it; an entry of the log is of one that ran.
RequestStaged(x) ==
    /\ x.stage \in {"FLAG", "HANDLER", "AUDIT"} => x.permitted
    /\ x.stage \in {"HANDLER", "AUDIT"} => x.on
    /\ x.stage \in {"ROLES", "FLAG", "HANDLER"} => ~x.ran /\ x.answer = RequestsPart!Ok
    /\ x.stage = "AUDIT" => x.ran
    /\ x.ran => x.permitted /\ x.on /\ x.answer = RequestsPart!Ok

RequestsIInv ==
    /\ RequestsTypes
    /\ \A r \in Request : req[r] # Nil =>
          /\ RequestStaged(req[r])
          /\ r \notin switched /\ req[r].stage \in {"HANDLER", "AUDIT"} => flag = "ON"
    /\ \A r \in audit : req[r] # Nil /\ req[r].ran /\ req[r].stage = "ANSWERED"

LEMMA RequestsInitIInv ==
    ASSUME RequestsPart!Init
    PROVE  RequestsIInv
BY DEF RequestsPart!Init, RequestsIInv, RequestsTypes

\* A request goes on to x.
LEMMA RequestGoes ==
    ASSUME RequestsIInv, RequestsDistinct, NEW r \in Request, NEW x \in RequestRecords,
           req' = [req EXCEPT ![r] = x], UNCHANGED <<flag, switched>>,
           RequestStaged(x),
           r \notin switched /\ x.stage \in {"HANDLER", "AUDIT"} => flag = "ON",
           r \notin audit,
           audit' \subseteq audit \cup {r},
           r \in audit' => x.ran /\ x.stage = "ANSWERED"
    PROVE  RequestsIInv'
<1>1. /\ req' \in [Request -> RequestRecords \cup {Nil}]
      /\ req'[r] = x /\ x # Nil /\ \A q \in Request \ {r} : req'[q] = req[q]
  BY DEF RequestsIInv, RequestsTypes, RequestsDistinct
<1>2. RequestsTypes'
  BY <1>1 DEF RequestsIInv, RequestsTypes
<1>3. ASSUME NEW q \in Request, req'[q] # Nil
      PROVE  /\ RequestStaged(req'[q])
             /\ q \notin switched' /\ req'[q].stage \in {"HANDLER", "AUDIT"} => flag' = "ON"
  BY <1>1, <1>3 DEF RequestsIInv
<1>4. ASSUME NEW q \in audit'
      PROVE  req'[q] # Nil /\ req'[q].ran /\ req'[q].stage = "ANSWERED"
  <2>1. CASE q = r
    BY <1>1, <1>4, <2>1
  <2>2. CASE q # r
    BY <1>1, <1>4, <2>2 DEF RequestsIInv, RequestsTypes
  <2>3. QED
    BY <2>1, <2>2
<1>5. QED
  <2>2. \A q \in Request : req'[q] # Nil =>
          /\ RequestStaged(req'[q])
          /\ q \notin switched' /\ req'[q].stage \in {"HANDLER", "AUDIT"} => flag' = "ON"
    BY <1>3
  <2>3. QED
    BY <1>2, <1>4, <2>2 DEF RequestsIInv, RequestStaged

\* A request that a guard or the handler refuses.
LEMMA RequestRefused ==
    ASSUME RequestsIInv, RequestsDistinct, NEW r \in Request,
           NEW thrown \in RequestsPart!Thrown, NEW mention \in RequestsPart!Mention,
           req[r] # Nil, req[r].stage \in {"ROLES", "FLAG", "HANDLER"},
           RequestsPart!Refuse(r, thrown, mention), UNCHANGED <<flag, audit, switched>>
    PROVE  RequestsIInv'
<1> DEFINE x == [req[r] EXCEPT !.stage = "ANSWERED", !.answer = RequestsPart!Answer(thrown, mention)]
<1>1. req[r] \in RequestRecords /\ RequestStaged(req[r]) /\ r \notin audit
  BY DEF RequestsIInv, RequestsTypes
<1>2. RequestsPart!Answer(thrown, mention) \in RequestAnswers
  BY DEF RequestAnswers
<1>3. /\ x \in RequestRecords /\ x.stage = "ANSWERED" /\ x.ran = req[r].ran
  BY <1>1, <1>2 DEF RequestRecords
<1>4. req' = [req EXCEPT ![r] = x]
  BY DEF RequestsPart!Refuse, RequestsIInv, RequestsTypes
<1> HIDE DEF x
<1>5. RequestStaged(x)
  BY <1>1, <1>3 DEF RequestStaged
<1>6. QED
  BY <1>1, <1>3, <1>4, <1>5, RequestGoes

LEMMA RequestsStepIInv ==
    ASSUME RequestsIInv, RequestsDistinct, RequestsPart!Next \/ UNCHANGED requestVars
    PROVE  RequestsIInv'
<1>1. CASE UNCHANGED requestVars
  BY <1>1 DEF requestVars, RequestsIInv, RequestsTypes, RequestStaged
<1>2. ASSUME NEW r \in Request, req[r] # Nil
      PROVE  req[r] \in RequestRecords /\ RequestStaged(req[r])
  BY <1>2 DEF RequestsIInv, RequestsTypes
<1>3. ASSUME NEW r \in Request, NEW permitted \in BOOLEAN, RequestsPart!Receive(r, permitted)
      PROVE  RequestsIInv'
  <2> DEFINE x == [stage |-> "ROLES", permitted |-> permitted, on |-> FALSE, ran |-> FALSE,
                   answer |-> RequestsPart!Ok]
  <2>1. x \in RequestRecords /\ RequestStaged(x) /\ x.stage = "ROLES"
    BY DEF RequestRecords, RequestAnswers, RequestStaged
  <2>2. /\ req[r] = Nil /\ req' = [req EXCEPT ![r] = x]
        /\ UNCHANGED <<flag, audit, switched>>
    BY <1>3 DEF RequestsPart!Receive
  <2> HIDE DEF x
  <2>3. r \notin audit
    BY <2>2 DEF RequestsIInv
  <2>4. QED
    BY <2>1, <2>2, <2>3, RequestGoes
<1>4. ASSUME NEW r \in Request, RequestsPart!CheckRoles(r)
      PROVE  RequestsIInv'
  <2>1. /\ req[r] # Nil /\ req[r].stage = "ROLES" /\ UNCHANGED <<flag, audit, switched>>
        /\ r \notin audit
    BY <1>4 DEF RequestsPart!CheckRoles, RequestsPart!At, RequestsIInv
  <2>2. CASE ~req[r].permitted
    <3>1. RequestsPart!Refuse(r, "Unauthorized", "nothing")
      BY <1>4, <2>2 DEF RequestsPart!CheckRoles
    <3>2. "Unauthorized" \in RequestsPart!Thrown /\ "nothing" \in RequestsPart!Mention
      BY DEF RequestsPart!Thrown, RequestsPart!Mention
    <3>3. QED
      BY <2>1, <3>1, <3>2, RequestRefused
  <2>3. CASE req[r].permitted
    <3> DEFINE x == [req[r] EXCEPT !.stage = "FLAG"]
    <3>1. x \in RequestRecords /\ x.stage = "FLAG" /\ RequestStaged(x)
      BY <1>2, <2>1, <2>3 DEF RequestRecords, RequestStaged
    <3>2. req' = [req EXCEPT ![r] = x]
      BY <1>4, <2>3 DEF RequestsPart!CheckRoles, RequestsPart!Go, RequestsIInv, RequestsTypes
    <3> HIDE DEF x
    <3>3. QED
      BY <2>1, <3>1, <3>2, RequestGoes
  <2>4. QED
    BY <2>2, <2>3
<1>5. ASSUME NEW r \in Request, RequestsPart!CheckFlag(r)
      PROVE  RequestsIInv'
  <2>1. /\ req[r] # Nil /\ req[r].stage = "FLAG" /\ UNCHANGED <<flag, audit, switched>>
        /\ r \notin audit
    BY <1>5 DEF RequestsPart!CheckFlag, RequestsPart!At, RequestsIInv
  <2>2. CASE flag # "ON"
    <3>1. RequestsPart!Refuse(r, "Http", "nothing")
      BY <1>5, <2>2 DEF RequestsPart!CheckFlag
    <3>2. "Http" \in RequestsPart!Thrown /\ "nothing" \in RequestsPart!Mention
      BY DEF RequestsPart!Thrown, RequestsPart!Mention
    <3>3. QED
      BY <2>1, <3>1, <3>2, RequestRefused
  <2>3. CASE flag = "ON"
    <3> DEFINE x == [req[r] EXCEPT !.stage = "HANDLER", !.on = TRUE]
    <3>1. x \in RequestRecords /\ x.stage = "HANDLER" /\ RequestStaged(x)
      BY <1>2, <2>1 DEF RequestRecords, RequestStaged
    <3>2. req' = [req EXCEPT ![r] = x]
      BY <1>5, <2>3 DEF RequestsPart!CheckFlag, RequestsIInv, RequestsTypes
    <3> HIDE DEF x
    <3>3. QED
      BY <2>1, <2>3, <3>1, <3>2, RequestGoes
  <2>4. QED
    BY <2>2, <2>3
<1>6. ASSUME NEW r \in Request, NEW thrown \in RequestsPart!Thrown, NEW mention \in RequestsPart!Mention,
             RequestsPart!Handle(r, thrown, mention)
      PROVE  RequestsIInv'
  BY <1>6, RequestRefused DEF RequestsPart!Handle, RequestsPart!At
<1>7. ASSUME NEW r \in Request, RequestsPart!Succeed(r)
      PROVE  RequestsIInv'
  <2>1. /\ req[r] # Nil /\ req[r].stage = "HANDLER" /\ UNCHANGED <<flag, audit, switched>>
        /\ r \notin audit /\ (r \notin switched => flag = "ON")
    BY <1>7 DEF RequestsPart!Succeed, RequestsPart!At, RequestsIInv
  <2> DEFINE x == [req[r] EXCEPT !.stage = "AUDIT", !.ran = TRUE]
  <2>2. x \in RequestRecords /\ x.stage = "AUDIT" /\ RequestStaged(x)
    <3>1. req[r].answer = RequestsPart!Ok
      BY <1>2, <2>1 DEF RequestStaged
    <3>2. req[r] \in RequestRecords /\ RequestStaged(req[r])
      BY <1>2, <2>1
    <3>3. /\ x \in RequestRecords /\ x.stage = "AUDIT" /\ x.ran
          /\ x.permitted = req[r].permitted /\ x.on = req[r].on /\ x.answer = req[r].answer
      BY <3>2 DEF RequestRecords
    <3> HIDE DEF x
    <3>4. QED
      BY <2>1, <3>1, <3>2, <3>3 DEF RequestStaged
  <2>3. req' = [req EXCEPT ![r] = x]
    BY <1>7 DEF RequestsPart!Succeed, RequestsIInv, RequestsTypes
  <2> HIDE DEF x
  <2>4. QED
    BY <2>1, <2>2, <2>3, RequestGoes
<1>8. ASSUME NEW r \in Request, RequestsPart!WriteAudit(r)
      PROVE  RequestsIInv'
  <2>1. /\ req[r] # Nil /\ req[r].stage = "AUDIT" /\ UNCHANGED <<flag, switched>>
        /\ r \notin audit /\ audit' \subseteq audit \cup {r}
    BY <1>8 DEF RequestsPart!WriteAudit, RequestsPart!At, RequestsIInv
  <2> DEFINE x == [req[r] EXCEPT !.stage = "ANSWERED"]
  <2>2. x \in RequestRecords /\ x.stage = "ANSWERED" /\ RequestStaged(x) /\ x.ran
    <3>1. req[r] \in RequestRecords /\ RequestStaged(req[r])
      BY <1>2, <2>1
    <3>2. /\ x \in RequestRecords /\ x.stage = "ANSWERED" /\ x.ran = req[r].ran
          /\ x.permitted = req[r].permitted /\ x.on = req[r].on /\ x.answer = req[r].answer
      BY <3>1 DEF RequestRecords
    <3> HIDE DEF x
    <3>3. QED
      BY <2>1, <3>1, <3>2 DEF RequestStaged
  <2>3. req' = [req EXCEPT ![r] = x]
    BY <1>8 DEF RequestsPart!WriteAudit, RequestsPart!Go, RequestsIInv, RequestsTypes
  <2> HIDE DEF x
  <2>4. QED
    BY <2>1, <2>2, <2>3, RequestGoes
<1>9. ASSUME NEW to \in {"ON", "OFF"}, RequestsPart!SetFlag(to)
      PROVE  RequestsIInv'
  BY <1>9 DEF RequestsPart!SetFlag, RequestsIInv, RequestsTypes, RequestStaged
<1>10. QED
  BY <1>1, <1>3, <1>4, <1>5, <1>6, <1>7, <1>8, <1>9 DEF RequestsPart!Next

\* The client may try again only after a conflict or an error.
LEMMA RequestRetryable ==
    ASSUME NEW thrown \in RequestsPart!Thrown, NEW mention \in RequestsPart!Mention,
           NEW x, x = RequestsPart!Answer(thrown, mention)
    PROVE  x.retryable => x.status \in {409, 500}
<1> USE DEF RequestsPart!Answer
<1>1. x.retryable = (thrown \in {"Conflict", "Error"})
  OBVIOUS
<1>2. ASSUME thrown = "Conflict"
      PROVE  x.status = 409
  BY <1>2
<1>3. ASSUME thrown = "Error"
      PROVE  x.status = 500
  BY <1>3
<1>4. QED
  BY <1>1, <1>2, <1>3

LEMMA RequestsSuffice ==
    ASSUME RequestsIInv
    PROVE  RequestsPart!TypeOK /\ RequestsPart!LogTellsTruth
<1> USE DEF RequestsIInv, RequestsTypes
<1>1. RequestsPart!TypeOK
  BY DEF RequestRecords, RequestsPart!TypeOK
<1>2. /\ \A r \in audit : req[r].ran /\ req[r].permitted /\ req[r].on
      /\ \A r \in Request \ switched :
            RequestsPart!At(r, "HANDLER") \/ RequestsPart!At(r, "AUDIT") => flag = "ON"
  BY DEF RequestStaged, RequestsPart!At
<1>3. ASSUME NEW r \in Request, RequestsPart!At(r, "ANSWERED"), req[r].answer.code # "OK"
      PROVE  ~req[r].ran /\ r \notin audit
  <2>1. req[r].answer # RequestsPart!Ok
    BY <1>3 DEF RequestsPart!Ok
  <2>2. ~req[r].ran
    BY <1>3, <2>1 DEF RequestStaged, RequestsPart!At
  <2>3. QED
    BY <2>2
<1>4. ASSUME NEW r \in Request, RequestsPart!At(r, "ANSWERED"), req[r].answer.retryable
      PROVE  req[r].answer.status \in {409, 500}
  <2>1. req[r].answer \in RequestAnswers
    BY <1>4 DEF RequestRecords, RequestsPart!At
  <2>2. CASE req[r].answer = RequestsPart!Ok
    BY <1>4, <2>2 DEF RequestsPart!Ok
  <2>3. ASSUME NEW thrown \in RequestsPart!Thrown, NEW mention \in RequestsPart!Mention,
               req[r].answer = RequestsPart!Answer(thrown, mention)
        PROVE  req[r].answer.status \in {409, 500}
    <3>1. req[r].answer.retryable => req[r].answer.status \in {409, 500}
      BY <2>3, RequestRetryable
    <3>2. QED
      BY <1>4, <3>1
  <2>4. QED
    BY <2>1, <2>2, <2>3 DEF RequestAnswers
<1>5. QED
  BY <1>1, <1>2, <1>3, <1>4 DEF RequestsPart!LogTellsTruth

-----------------------------------------------------------------------------
\* A page shows what was asked for and what its own call did; who
\* logged out stays so unless a refresh was in flight; what staff wrote is
\* not undone until calls overlap; and the log tells what was done: for any
\* pages, rows, calls and requests.
THEOREM ClientsHoldCorrect ==
    ASSUME ConsoleFit, ConsoleDistinct, WebDistinct, DeskDistinct, RequestsDistinct
    PROVE  Spec => []ClientsHold
<1> DEFINE Clients == /\ ConsoleIInv /\ WebIInv /\ RequestsIInv
                      /\ DeskIInv /\ overlapped \in BOOLEAN
<1>1. Init => Clients
  <2>1. DeskPart!Init => overlapped \in BOOLEAN
    BY DEF DeskPart!Init
  <2>2. QED
    BY <2>1, ConsoleInitIInv, WebInitIInv, RequestsInitIInv, DeskInitIInv DEF Init
<1>2. Clients /\ [Next]_vars => Clients'
  <2>1. ASSUME Clients, [Next]_vars
        PROVE  Clients'
    <3>1. /\ ConsolePart!Next \/ UNCHANGED consoleVars
          /\ WebSessionPart!Next \/ UNCHANGED sessionVars
          /\ RequestsPart!Next \/ UNCHANGED requestVars
          /\ DeskPart!Next \/ UNCHANGED deskVars
      BY <2>1, OnePart
    <3>2. ConsoleIInv' /\ WebIInv' /\ RequestsIInv'
      BY <2>1, <3>1, ConsoleStepIInv, WebStepIInv, RequestsStepIInv
    <3>3. DeskIInv' /\ overlapped' \in BOOLEAN
      BY <2>1, <3>1, DeskStepIInv, DeskFlagStep
    <3>4. QED
      BY <3>2, <3>3
  <2>2. QED
    BY <2>1
<1>3. Clients => ClientsHold
  BY ConsoleSuffice, WebSuffice, RequestsSuffice, DeskSuffice DEF ClientsHold
<1>4. QED
  BY <1>1, <1>2, <1>3, PTL DEF Spec
=============================================================================
