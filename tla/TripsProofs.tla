---------------------------- MODULE TripsProofs -----------------------------
(***************************************************************************)
(* Proofs about Trips, for any number of trips, items, versions and        *)
(* overlapping calls: the approval gate, and then the estimates.           *)
(***************************************************************************)
EXTENDS Trips, SumLemmas

-----------------------------------------------------------------------------
Amount == {0} \cup {Total(xs) : xs \in SUBSET Item}

ItineraryStatus == {"DRAFT", "PROPOSED", "APPROVED"}

Row == [status : ItineraryStatus, items : SUBSET Item, total : Amount]

\* TypeOK, but for the totals: the gate needs only where they come from, that
\* they are numbers is shown with the estimates.
Shape ==
    /\ trip \in [Trip -> TripStatus \cup {"ABSENT"}]
    /\ details \in [Trip -> Details]
    /\ versions \in [Trip -> Seq(Row)]
    /\ calls \subseteq [by : Worker, next : Todo, trip : Trip, version : Nat,
                        items : SUBSET Item, total : Amount, details : Details]

\* A call that goes on with a version found it; one that will propose or
\* approve a version found items in it.
CallOK(c) ==
    /\ c.next \in {"ADD", "SUM", "TOTAL", "PROPOSE", "APPROVE"} =>
           c.version \in 1..Latest(c.trip)
    /\ c.next = "REJECT" => c.version \in 0..Latest(c.trip)
    /\ c.next \in {"PROPOSE", "APPROVE"} =>
           versions[c.trip][c.version].items # {}

\* The inductive invariant.
IInv == Shape /\ ActiveIsApproved /\ \A c \in calls : CallOK(c)

-----------------------------------------------------------------------------
LEMMA LengthType ==
    ASSUME Shape, NEW t \in Trip
    PROVE  /\ Latest(t) \in Nat
           /\ \A v \in 1..Latest(t) : versions[t][v] \in Row
BY DEF Shape, Latest

LEMMA InitIInv == Init => IInv
<1> SUFFICES ASSUME Init PROVE IInv
  OBVIOUS
<1>1. Shape
  BY DEF Init, Shape
<1>2. \A t \in Trip : Len(versions[t]) = 0 /\ trip[t] = "ABSENT"
  BY DEF Init
<1>3. ActiveIsApproved
  BY <1>2 DEF ActiveIsApproved, Latest
<1>4. QED
  BY <1>1, <1>3 DEF IInv, Init

\* Rows are only added and items are only inserted.
Grows ==
    \A t \in Trip :
        /\ Len(versions[t]) <= Len(versions'[t])
        /\ \A v \in 1..Len(versions[t]) :
              versions[t][v].items \subseteq versions'[t][v].items

\* Where nothing is lost, the calls that stay are still right about what
\* they have read.
LEMMA CallsStay ==
    ASSUME IInv, Shape', Grows, ActiveIsApproved',
           \A k \in calls' :
               \/ k \in calls \/ CallOK(k)
               \/ k.next = "SUM" /\ k.version \in 1..Len(versions'[k.trip])
    PROVE  IInv'
<1>1. ASSUME NEW k \in calls' PROVE CallOK(k)'
  <2>1. \/ CallOK(k)
        \/ k.next = "SUM" /\ k.version \in 1..Len(versions'[k.trip])
    BY DEF IInv
  <2>2. k.trip \in Trip
    BY DEF Shape
  <2>3. /\ Latest(k.trip) \in Nat /\ Len(versions'[k.trip]) \in Nat
        /\ Len(versions[k.trip]) <= Len(versions'[k.trip])
    BY <2>2, LengthType DEF IInv, Shape, Grows
  <2>4. k.version \in 1..Latest(k.trip) => k.version \in 1..Len(versions'[k.trip])
    BY <2>3 DEF Latest
  <2>5. k.version \in 0..Latest(k.trip) => k.version \in 0..Len(versions'[k.trip])
    BY <2>3 DEF Latest
  <2>6. k.version \in 1..Latest(k.trip)
            => versions[k.trip][k.version].items
                   \subseteq versions'[k.trip][k.version].items
    BY <2>2 DEF Grows, Latest
  <2>7. QED
    BY <2>1, <2>4, <2>5, <2>6 DEF CallOK, Latest
<1>2. QED
  BY <1>1 DEF IInv

\* A step after which no further trip is active, and which leaves the
\* statuses of the rows alone, leaves the gate alone.
LEMMA GateStays ==
    ASSUME IInv, Shape', Grows,
           \A t \in Trip : trip'[t] = "ACTIVE" => trip[t] = "ACTIVE",
           \A t \in Trip : \A v \in 1..Len(versions[t]) :
               versions'[t][v].status = versions[t][v].status,
           \A t \in Trip : \A v \in 1..Len(versions'[t]) :
               v \in 1..Len(versions[t]) \/ versions'[t][v].status = "DRAFT"
    PROVE  ActiveIsApproved'
<1> SUFFICES ASSUME NEW t \in Trip
             PROVE  /\ trip'[t] = "ACTIVE" =>
                          \E v \in 1..Len(versions'[t]) :
                              versions'[t][v].status = "APPROVED"
                    /\ \A v \in 1..Len(versions'[t]) :
                          versions'[t][v].status # "DRAFT" =>
                              versions'[t][v].items # {}
  BY DEF ActiveIsApproved, Latest
<1>1. Len(versions[t]) \in Nat /\ Len(versions'[t]) \in Nat
  BY DEF IInv, Shape
<1>2. \A v \in 1..Len(versions[t]) : v \in 1..Len(versions'[t])
  BY <1>1 DEF Grows
<1>3. ASSUME trip'[t] = "ACTIVE"
      PROVE  \E v \in 1..Len(versions'[t]) : versions'[t][v].status = "APPROVED"
  <2>1. PICK v \in 1..Len(versions[t]) : versions[t][v].status = "APPROVED"
    BY <1>3 DEF IInv, ActiveIsApproved, Latest
  <2>2. QED
    BY <2>1, <1>2
<1>4. ASSUME NEW v \in 1..Len(versions'[t]), versions'[t][v].status # "DRAFT"
      PROVE  versions'[t][v].items # {}
  <2>1. v \in 1..Len(versions[t])
    BY <1>4
  <2>2. versions[t][v].items # {}
    BY <1>4, <2>1 DEF IInv, ActiveIsApproved, Latest
  <2>3. QED
    BY <2>1, <2>2 DEF Grows
<1>5. QED
  BY <1>3, <1>4

\* A step that leaves the itineraries alone, makes no trip active and adds
\* only calls that are right preserves the invariant.
LEMMA QuietIInv ==
    ASSUME IInv, Shape', UNCHANGED versions,
           \A t \in Trip : trip'[t] = "ACTIVE" => trip[t] = "ACTIVE",
           \A k \in calls' : k \in calls \/ CallOK(k)
    PROVE  IInv'
<1>1. \A t \in Trip : Len(versions[t]) \in Nat
  BY DEF IInv, Shape
<1>2. Grows
  BY <1>1 DEF Grows
<1>3. ActiveIsApproved'
  BY <1>2, GateStays
<1>4. QED
  BY <1>2, <1>3, CallsStay

\* One row is replaced.
WriteRow(q, v, row) ==
    versions' = [versions EXCEPT ![q] = [versions[q] EXCEPT ![v] = row]]

\* What replacing one row does.
LEMMA RowEffect ==
    ASSUME Shape, NEW q \in Trip, NEW v \in 1..Len(versions[q]), NEW row \in Row,
           WriteRow(q, v, row)
    PROVE  /\ versions' \in [Trip -> Seq(Row)]
           /\ \A t \in Trip : Len(versions'[t]) = Len(versions[t])
           /\ versions'[q][v] = row
           /\ \A t \in Trip : \A u \in 1..Len(versions[t]) :
                 t # q \/ u # v => versions'[t][u] = versions[t][u]
<1>1. versions[q] \in Seq(Row)
  BY DEF Shape
<1>2. DEFINE s == [versions[q] EXCEPT ![v] = row]
<1>3. s \in Seq(Row) /\ Len(s) = Len(versions[q])
  BY <1>1
<1>4. s[v] = row /\ \A u \in 1..Len(versions[q]) : u # v => s[u] = versions[q][u]
  BY <1>1
<1>5. versions'[q] = s /\ \A t \in Trip : t # q => versions'[t] = versions[t]
  BY DEF Shape, WriteRow
<1>6. versions' \in [Trip -> Seq(Row)]
  BY <1>3 DEF Shape, WriteRow
<1>7. QED
  BY <1>3, <1>4, <1>5, <1>6

\* What adding one row does.
AddRow(q, row) == versions' = [versions EXCEPT ![q] = Append(@, row)]

LEMMA AppendEffect ==
    ASSUME Shape, NEW q \in Trip, NEW row \in Row, AddRow(q, row)
    PROVE  /\ versions' \in [Trip -> Seq(Row)]
           /\ Len(versions'[q]) = Len(versions[q]) + 1
           /\ versions'[q][Len(versions[q]) + 1] = row
           /\ \A t \in Trip : t # q => versions'[t] = versions[t]
           /\ \A u \in 1..Len(versions[q]) : versions'[q][u] = versions[q][u]
<1>1. versions[q] \in Seq(Row)
  BY DEF Shape
<1>2. versions'[q] = Append(versions[q], row)
  BY DEF Shape, AddRow
<1>3. Append(versions[q], row) \in Seq(Row)
  BY <1>1
<1>4. versions' \in [Trip -> Seq(Row)]
  BY <1>3 DEF Shape, AddRow
<1>5. \A t \in Trip : t # q => versions'[t] = versions[t]
  BY DEF Shape, AddRow
<1>6. QED
  BY <1>1, <1>2, <1>4, <1>5

-----------------------------------------------------------------------------
\* A read adds one call and changes nothing else.
LEMMA BeginIInv ==
    ASSUME IInv, NEW w \in Worker, NEW next \in Todo, NEW t \in Trip,
           NEW v \in Nat, NEW xs \in SUBSET Item, NEW d \in Details,
           Begin(w, next, t, v, xs, d),
           next \in {"ADD", "SUM", "TOTAL", "PROPOSE", "APPROVE"} =>
               v \in 1..Latest(t),
           next = "REJECT" => v \in 0..Latest(t),
           next \in {"PROPOSE", "APPROVE"} => versions[t][v].items # {}
    PROVE  IInv'
<1> DEFINE c0 == [by |-> w, next |-> next, trip |-> t, version |-> v,
                  items |-> xs, total |-> 0, details |-> d]
<1>1. calls' = calls \cup {c0} /\ UNCHANGED <<trip, details, versions>>
  BY DEF Begin, tripVars
<1>2. 0 \in Amount
  BY DEF Amount
<1>3. Shape'
  BY <1>1, <1>2 DEF IInv, Shape
<1>4. CallOK(c0)
  BY DEF CallOK
<1>5. QED
  BY <1>1, <1>3, <1>4, QuietIInv

\* Going on to a step without preconditions, or with the version found.
LEMMA ContinueOK ==
    ASSUME IInv, NEW c \in calls, NEW next \in Todo, NEW v \in Nat,
           NEW total \in Amount, Continue(c, next, v, total),
           next \notin {"PROPOSE", "APPROVE", "REJECT"}
    PROVE  /\ calls' \subseteq [by : Worker, next : Todo, trip : Trip,
                                version : Nat, items : SUBSET Item,
                                total : Amount, details : Details]
           /\ (next \notin {"ADD", "SUM", "TOTAL"} \/ v \in 1..Latest(c.trip)) =>
                  \A k \in calls' : k \in calls \/ CallOK(k)
<1> DEFINE k0 == [c EXCEPT !.next = next, !.version = v, !.total = total]
<1>1. k0 \in [by : Worker, next : Todo, trip : Trip, version : Nat,
              items : SUBSET Item, total : Amount, details : Details]
  BY DEF IInv, Shape
<1>2. k0.next = next /\ k0.version = v /\ k0.trip = c.trip
  BY DEF IInv, Shape
<1>3. (next \notin {"ADD", "SUM", "TOTAL"} \/ v \in 1..Latest(c.trip)) => CallOK(k0)
  BY <1>2 DEF CallOK
<1>4. calls' = (calls \ {c}) \cup {k0}
  BY DEF Continue
<1>5. QED
  BY <1>1, <1>3, <1>4 DEF IInv, Shape

\* The steps of a call that leave the itineraries alone.
LEMMA QuietStepIInv ==
    ASSUME IInv, NEW c \in calls,
           WriteDetails(c) \/ Plan(c) \/ Find(c) \/ FindLast(c) \/ Sum(c)
             \/ WriteCustomerApproval(c) \/ Die(c)
    PROVE  IInv'
<1>c. /\ c.trip \in Trip /\ c.version \in Nat /\ c.items \in SUBSET Item
      /\ CallOK(c) /\ Shape
  BY DEF IInv, Shape
<1>len. Latest(c.trip) \in Nat
  BY <1>c, LengthType
<1>0. 0 \in Amount
  BY DEF Amount
<1>1. CASE WriteDetails(c) \/ Die(c)
  <2>1. UNCHANGED <<trip, versions>> /\ calls' \subseteq calls
    BY <1>1 DEF WriteDetails, Die, End, tripVars
  <2>2. details' \in [Trip -> Details]
    BY <1>1, <1>c DEF WriteDetails, Die, tripVars, Shape
  <2>3. Shape'
    BY <2>1, <2>2, <1>c DEF Shape
  <2>4. QED
    BY <2>1, <2>3, QuietIInv
<1>2. CASE WriteCustomerApproval(c)
  <2>1. /\ trip' = [trip EXCEPT ![c.trip] = "APPROVED"]
        /\ UNCHANGED <<details, versions>> /\ calls' \subseteq calls
    BY <1>2 DEF WriteCustomerApproval, End
  <2>2. Shape'
    BY <2>1, <1>c DEF Shape, TripStatus
  <2>3. \A t \in Trip : trip'[t] = "ACTIVE" => trip[t] = "ACTIVE"
    BY <2>1, <1>c DEF Shape
  <2>4. QED
    BY <2>1, <2>2, <2>3, QuietIInv
<1>3. CASE Plan(c)
  <2>1. /\ trip' = [trip EXCEPT ![c.trip] = "PLANNING"] /\ UNCHANGED <<details, versions>>
        /\ Continue(c, "FIND", 0, 0)
    BY <1>3 DEF Plan
  <2>2. "FIND" \in Todo
    BY DEF Todo
  <2>3. Shape' /\ \A k \in calls' : k \in calls \/ CallOK(k)
    BY <2>1, <2>2, <1>0, <1>c, ContinueOK DEF Shape, TripStatus
  <2>4. \A t \in Trip : trip'[t] = "ACTIVE" => trip[t] = "ACTIVE"
    BY <2>1, <1>c DEF Shape
  <2>5. QED
    BY <2>1, <2>3, <2>4, QuietIInv
<1>4. CASE Find(c) \/ FindLast(c) \/ Sum(c)
  <2>1. UNCHANGED <<trip, details, versions>>
    BY <1>4 DEF Find, FindLast, Sum, tripVars
  <2>2. PICK next \in {"CREATE", "ADD", "TOTAL"}, v \in Nat, total \in Amount :
            /\ Continue(c, next, v, total)
            /\ next # "CREATE" => v \in 1..Latest(c.trip)
    <3>1. CASE Find(c) /\ Latest(c.trip) = 0
      BY <3>1, <1>0 DEF Find
    <3>2. CASE Find(c) /\ Latest(c.trip) # 0
      <4>1. Latest(c.trip) \in 1..Latest(c.trip)
        BY <3>2, <1>len
      <4>2. QED
        BY <3>2, <4>1, <1>len, <1>0 DEF Find
    <3>3. CASE FindLast(c)
      <4>1. Latest(c.trip) + 1 \in Nat
        BY <1>len
      <4>2. QED
        BY <3>3, <4>1, <1>0 DEF FindLast
    <3>4. CASE Sum(c)
      <4>1. c.version \in 1..Latest(c.trip)
        BY <3>4, <1>c DEF Sum, CallOK
      <4>2. versions[c.trip][c.version].items \in SUBSET Item
        BY <4>1, <1>c, LengthType DEF Row
      <4>3. Total(versions[c.trip][c.version].items) \in Amount
        BY <4>2 DEF Amount
      <4>4. QED
        BY <3>4, <4>1, <4>3, <1>c DEF Sum
    <3>5. QED
      BY <1>4, <3>1, <3>2, <3>3, <3>4
  <2>3. next \in Todo /\ next \notin {"PROPOSE", "APPROVE", "REJECT"}
    BY DEF Todo
  <2>4. /\ calls' \subseteq [by : Worker, next : Todo, trip : Trip,
                             version : Nat, items : SUBSET Item,
                             total : Amount, details : Details]
        /\ \A k \in calls' : k \in calls \/ CallOK(k)
    BY <2>2, <2>3, ContinueOK
  <2>5. Shape'
    BY <2>1, <2>4, <1>c DEF Shape
  <2>6. QED
    BY <2>1, <2>4, <2>5, QuietIInv
<1>5. QED
  BY <1>1, <1>2, <1>3, <1>4

\* Inserted items and totals leave the statuses alone.
LEMMA ItemsEffect ==
    ASSUME IInv, NEW c \in calls, AddToVersion(c) \/ WriteTotal(c)
    PROVE  /\ UNCHANGED <<trip, details>>
           /\ versions' \in [Trip -> Seq(Row)]
           /\ \A t \in Trip : Len(versions'[t]) = Len(versions[t])
           /\ \A t \in Trip : \A u \in 1..Len(versions[t]) :
                 /\ versions'[t][u].status = versions[t][u].status
                 /\ versions[t][u].items \subseteq versions'[t][u].items
                 /\ t # c.trip => versions'[t][u] = versions[t][u]
<1> DEFINE q == c.trip
           v == c.version
           old == versions[q][v]
<1>c. /\ q \in Trip /\ v \in Nat /\ c.items \in SUBSET Item
      /\ c.total \in Amount /\ CallOK(c) /\ Shape
  BY DEF IInv, Shape
<1>v. v \in 1..Len(versions[q])
  BY <1>c DEF CallOK, Latest, AddToVersion, WriteTotal
<1>old. old \in Row
  BY <1>c, <1>v, LengthType DEF Latest
<1>1. PICK row \in Row :
          /\ WriteRow(q, v, row)
          /\ row.status = old.status /\ old.items \subseteq row.items
  <2>1. CASE AddToVersion(c)
    <3>1. [old EXCEPT !.items = @ \cup c.items] \in Row
      BY <1>old, <1>c DEF Row
    <3>2. WriteRow(q, v, [old EXCEPT !.items = @ \cup c.items])
      BY <2>1 DEF AddToVersion, WriteRow
    <3>3. QED
      BY <3>1, <3>2, <1>old DEF Row
  <2>2. CASE WriteTotal(c)
    <3>1. [old EXCEPT !.total = c.total] \in Row
      BY <1>old, <1>c DEF Row
    <3>2. WriteRow(q, v, [old EXCEPT !.total = c.total])
      BY <2>2 DEF WriteTotal, WriteRow
    <3>3. QED
      BY <3>1, <3>2, <1>old DEF Row
  <2>3. QED
    BY <2>1, <2>2
<1>2. UNCHANGED <<trip, details>>
  BY DEF AddToVersion, WriteTotal
<1>3. /\ versions' \in [Trip -> Seq(Row)]
      /\ \A t \in Trip : Len(versions'[t]) = Len(versions[t])
      /\ versions'[q][v] = row
      /\ \A t \in Trip : \A u \in 1..Len(versions[t]) :
            t # q \/ u # v => versions'[t][u] = versions[t][u]
  BY <1>1, <1>c, <1>v, RowEffect
<1>4. QED
  BY <1>1, <1>2, <1>3

LEMMA ItemsIInv ==
    ASSUME IInv, NEW c \in calls, AddToVersion(c) \/ WriteTotal(c)
    PROVE  IInv'
<1>c. /\ c.trip \in Trip /\ c.version \in Nat /\ CallOK(c) /\ Shape
  BY DEF IInv, Shape
<1>0. 0 \in Amount /\ "SUM" \in Todo
  BY DEF Amount, Todo
<1>1. /\ calls' \subseteq [by : Worker, next : Todo, trip : Trip, version : Nat,
                           items : SUBSET Item, total : Amount, details : Details]
      /\ \A k \in calls' : k \in calls \/ CallOK(k)
  <2>1. CASE AddToVersion(c)
    <3>1. c.version \in 1..Latest(c.trip)
      BY <2>1, <1>c DEF AddToVersion, CallOK
    <3>2. QED
      BY <2>1, <3>1, <1>c, <1>0, ContinueOK DEF AddToVersion
  <2>2. CASE WriteTotal(c)
    BY <2>2, <1>c DEF WriteTotal, End, Shape
  <2>3. QED
    BY <2>1, <2>2
<1>2. Shape'
  BY <1>1, <1>c, ItemsEffect DEF Shape
<1>3. Grows
  <2>1. \A t \in Trip : Len(versions[t]) \in Nat
    BY <1>c DEF Shape
  <2>2. QED
    BY <2>1, ItemsEffect DEF Grows
<1>4. ActiveIsApproved'
  <2>1. \A t \in Trip : \A u \in 1..Len(versions'[t]) : u \in 1..Len(versions[t])
    BY ItemsEffect
  <2>2. \A t \in Trip : trip'[t] = "ACTIVE" => trip[t] = "ACTIVE"
    BY ItemsEffect
  <2>3. \A t \in Trip : \A u \in 1..Len(versions[t]) :
            versions'[t][u].status = versions[t][u].status
    BY ItemsEffect
  <2>4. QED
    BY <1>2, <1>3, <2>1, <2>2, <2>3, GateStays
<1>5. QED
  BY <1>1, <1>2, <1>3, <1>4, CallsStay

\* A new version is a draft.
LEMMA CreateEffect ==
    ASSUME IInv, NEW c \in calls, CreateVersion(c)
    PROVE  /\ UNCHANGED <<trip, details>>
           /\ versions' \in [Trip -> Seq(Row)]
           /\ Len(versions[c.trip]) \in Nat
           /\ Len(versions[c.trip]) + 1 = c.version
           /\ Len(versions'[c.trip]) = c.version
           /\ versions'[c.trip][c.version].status = "DRAFT"
           /\ \A t \in Trip : t # c.trip => versions'[t] = versions[t]
           /\ \A t \in Trip : \A u \in 1..Len(versions[t]) :
                 versions'[t][u] = versions[t][u]
<1> DEFINE q == c.trip
           row == [status |-> "DRAFT", items |-> c.items, total |-> 0]
<1>c. /\ q \in Trip /\ c.version \in Nat /\ c.items \in SUBSET Item /\ Shape
  BY DEF IInv, Shape
<1>n. Len(versions[q]) \in Nat /\ Len(versions[q]) = c.version - 1
  BY <1>c, LengthType DEF CreateVersion, Latest
<1>0. 0 \in Amount
  BY DEF Amount
<1>1. row \in Row
  BY <1>c, <1>0 DEF Row, ItineraryStatus
<1>2. AddRow(q, row) /\ UNCHANGED <<trip, details>>
  BY DEF CreateVersion, AddRow
<1>3. /\ versions' \in [Trip -> Seq(Row)]
      /\ Len(versions'[q]) = Len(versions[q]) + 1
      /\ versions'[q][Len(versions[q]) + 1] = row
      /\ \A t \in Trip : t # q => versions'[t] = versions[t]
      /\ \A u \in 1..Len(versions[q]) : versions'[q][u] = versions[q][u]
  BY <1>c, <1>1, <1>2, AppendEffect
<1>4. Len(versions[q]) + 1 = c.version
  BY <1>n, <1>c
<1>5. \A t \in Trip : \A u \in 1..Len(versions[t]) : versions'[t][u] = versions[t][u]
  BY <1>3
<1>6. QED
  BY <1>n, <1>2, <1>3, <1>4, <1>5

LEMMA CreateIInv ==
    ASSUME IInv, NEW c \in calls, CreateVersion(c)
    PROVE  IInv'
<1> DEFINE q == c.trip
<1>c. /\ q \in Trip /\ c.version \in Nat /\ Shape
  BY DEF IInv, Shape
<1>0. 0 \in Amount /\ "SUM" \in Todo
  BY DEF Amount, Todo
<1>1. Continue(c, "SUM", c.version, 0)
  BY DEF CreateVersion
<1>2. calls' \subseteq [by : Worker, next : Todo, trip : Trip, version : Nat,
                        items : SUBSET Item, total : Amount, details : Details]
  BY <1>1, <1>0, <1>c, ContinueOK
<1>3. Shape'
  BY <1>2, <1>c, CreateEffect DEF Shape
<1>4. \A k \in calls' :
          \/ k \in calls
          \/ k.next = "SUM" /\ k.version \in 1..Len(versions'[k.trip])
  <2> DEFINE k0 == [c EXCEPT !.next = "SUM", !.version = c.version, !.total = 0]
  <2>1. k0.next = "SUM" /\ k0.version = c.version /\ k0.trip = q
    BY DEF IInv, Shape
  <2>2. c.version \in 1..Len(versions'[q])
    BY <1>c, CreateEffect
  <2>3. calls' = (calls \ {c}) \cup {k0}
    BY <1>1 DEF Continue
  <2>4. QED
    BY <2>1, <2>2, <2>3
<1>5. \A t \in Trip : Len(versions[t]) \in Nat /\ Len(versions[t]) <= Len(versions'[t])
  <2>1. \A t \in Trip : Len(versions[t]) \in Nat
    BY <1>c DEF Shape
  <2>2. Len(versions[q]) <= Len(versions'[q])
    BY <2>1, <1>c, CreateEffect
  <2>3. QED
    BY <2>1, <2>2, CreateEffect
<1>6. Grows
  BY <1>5, CreateEffect DEF Grows
<1>7. ASSUME NEW t \in Trip, NEW u \in 1..Len(versions'[t])
      PROVE  u \in 1..Len(versions[t]) \/ versions'[t][u].status = "DRAFT"
  <2>1. CASE t # q
    BY <2>1, CreateEffect
  <2>2. CASE t = q
    <3>1. u \in 1..Len(versions[q]) \/ u = c.version
      BY <2>2, CreateEffect
    <3>2. QED
      BY <2>2, <3>1, CreateEffect
  <2>3. QED
    BY <2>1, <2>2
<1>8. ActiveIsApproved'
  <2>1. \A t \in Trip : trip'[t] = "ACTIVE" => trip[t] = "ACTIVE"
    BY CreateEffect
  <2>2. \A t \in Trip : \A u \in 1..Len(versions[t]) :
            versions'[t][u].status = versions[t][u].status
    BY CreateEffect
  <2>3. QED
    BY <1>3, <1>6, <1>7, <2>1, <2>2, GateStays
<1>9. QED
  BY <1>3, <1>4, <1>6, <1>8, CallsStay

\* A transaction that writes the status of a trip and of one of its versions.
LEMMA SignOffEffect ==
    ASSUME IInv, NEW c \in calls, NEW next, NEW ts \in TripStatus,
           NEW is \in ItineraryStatus, SignOff(c, next, ts, is),
           c.version \in 1..Latest(c.trip)
    PROVE  /\ trip' = [trip EXCEPT ![c.trip] = ts]
           /\ UNCHANGED details /\ calls' \subseteq calls
           /\ versions' \in [Trip -> Seq(Row)]
           /\ \A t \in Trip : Len(versions'[t]) = Len(versions[t])
           /\ versions'[c.trip][c.version].status = is
           /\ \A t \in Trip : \A u \in 1..Len(versions[t]) :
                 /\ versions'[t][u].items = versions[t][u].items
                 /\ versions'[t][u].total = versions[t][u].total
                 /\ t # c.trip \/ u # c.version =>
                        versions'[t][u].status = versions[t][u].status
<1> DEFINE q == c.trip
           v == c.version
           old == versions[q][v]
           row == [old EXCEPT !.status = is]
<1>c. q \in Trip /\ v \in Nat /\ v \in 1..Len(versions[q]) /\ Shape
  BY DEF IInv, Shape, Latest
<1>old. old \in Row
  BY <1>c, LengthType DEF Latest
<1>row. /\ row \in Row /\ row.status = is
        /\ row.items = old.items /\ row.total = old.total
  BY <1>old DEF Row
<1>1. /\ WriteRow(q, v, row) /\ trip' = [trip EXCEPT ![q] = ts]
      /\ UNCHANGED details /\ calls' \subseteq calls
  BY <1>c DEF SignOff, WriteRow, End
<1>2. /\ versions' \in [Trip -> Seq(Row)]
      /\ \A t \in Trip : Len(versions'[t]) = Len(versions[t])
      /\ versions'[q][v] = row
      /\ \A t \in Trip : \A u \in 1..Len(versions[t]) :
            t # q \/ u # v => versions'[t][u] = versions[t][u]
  BY <1>1, <1>c, <1>row, RowEffect
<1>3. QED
  BY <1>1, <1>2, <1>row

\* The invariant survives if the version has items or becomes a draft.
LEMMA SignOffIInv ==
    ASSUME IInv, NEW c \in calls, NEW next, NEW ts \in TripStatus,
           NEW is \in ItineraryStatus, SignOff(c, next, ts, is),
           c.version \in 1..Latest(c.trip),
           is = "DRAFT" \/ versions[c.trip][c.version].items # {},
           ts = "ACTIVE" => is = "APPROVED"
    PROVE  IInv'
<1> DEFINE q == c.trip
           v == c.version
<1>c. q \in Trip /\ v \in Nat /\ v \in 1..Len(versions[q]) /\ Shape
  BY DEF IInv, Shape, Latest
<1>0. /\ trip' = [trip EXCEPT ![c.trip] = ts]
      /\ UNCHANGED details /\ calls' \subseteq calls
      /\ versions' \in [Trip -> Seq(Row)]
      /\ \A t \in Trip : Len(versions'[t]) = Len(versions[t])
      /\ versions'[c.trip][c.version].status = is
      /\ \A t \in Trip : \A u \in 1..Len(versions[t]) :
            /\ versions'[t][u].items = versions[t][u].items
            /\ versions'[t][u].total = versions[t][u].total
            /\ t # c.trip \/ u # c.version =>
                   versions'[t][u].status = versions[t][u].status
  BY SignOffEffect, Zenon
<1>1. /\ trip' = [trip EXCEPT ![q] = ts]
      /\ UNCHANGED details /\ calls' \subseteq calls
  BY <1>0
<1>2. /\ versions' \in [Trip -> Seq(Row)]
      /\ \A t \in Trip : Len(versions'[t]) = Len(versions[t])
      /\ versions'[q][v].status = is
      /\ \A t \in Trip : \A u \in 1..Len(versions[t]) :
            /\ versions'[t][u].items = versions[t][u].items
            /\ t # q \/ u # v => versions'[t][u].status = versions[t][u].status
  BY <1>0
<1>3. trip' \in [Trip -> TripStatus \cup {"ABSENT"}]
  BY <1>1, <1>c DEF Shape
<1>4. Shape'
  BY <1>1, <1>2, <1>3, <1>c DEF Shape
<1>6. Grows
  <2>1. \A t \in Trip : Len(versions[t]) \in Nat
    BY <1>c DEF Shape
  <2>2. QED
    BY <1>2, <2>1 DEF Grows
<1>7. ActiveIsApproved'
  <2>1. ASSUME NEW t \in Trip, trip'[t] = "ACTIVE"
        PROVE  \E u \in 1..Len(versions'[t]) : versions'[t][u].status = "APPROVED"
    <3>1. CASE t = q
      <4>1. is = "APPROVED"
        BY <2>1, <3>1, <1>1, <1>c DEF Shape
      <4>2. QED
        BY <3>1, <4>1, <1>c, <1>2
    <3>2. CASE t # q
      <4>1. trip[t] = "ACTIVE"
        BY <2>1, <3>2, <1>1, <1>c DEF Shape
      <4>2. PICK u \in 1..Len(versions[t]) : versions[t][u].status = "APPROVED"
        BY <4>1 DEF IInv, ActiveIsApproved, Latest
      <4>3. QED
        BY <3>2, <4>2, <1>2
    <3>3. QED
      BY <3>1, <3>2
  <2>2. ASSUME NEW t \in Trip, NEW u \in 1..Len(versions'[t]),
               versions'[t][u].status # "DRAFT"
        PROVE  versions'[t][u].items # {}
    <3>1. u \in 1..Len(versions[t])
      BY <1>2
    <3>2. CASE t = q /\ u = v
      BY <2>2, <3>2, <1>2
    <3>3. CASE t # q \/ u # v
      <4>1. /\ versions'[t][u].status = versions[t][u].status
            /\ versions'[t][u].items = versions[t][u].items
        BY <3>1, <3>3, <1>2
      <4>2. QED
        BY <2>2, <3>1, <4>1 DEF IInv, ActiveIsApproved, Latest
    <3>4. QED
      BY <3>2, <3>3
  <2>3. QED
    BY <2>1, <2>2 DEF ActiveIsApproved, Latest
<1>8. QED
  BY <1>1, <1>4, <1>6, <1>7, CallsStay

\* The reads about one trip.
LEMMA ReadIInv ==
    ASSUME IInv, NEW w \in Worker, NEW t \in Trip,
           \/ \E d \in Details : Update(w, t, d)
           \/ \E xs \in SUBSET Item : AddItems(w, t, xs) \/ Replace(w, t, xs)
           \/ RequestApproval(w, t) \/ Approve(w, t) \/ Reject(w, t)
           \/ CustomerApprove(w, t)
    PROVE  IInv'
<1>t. Latest(t) \in Nat /\ details[t] \in Details
  BY LengthType DEF IInv, Shape
<1>in. Latest(t) > 0 => Latest(t) \in 1..Latest(t)
  BY <1>t
<1>0. {} \in SUBSET Item /\ 0 \in Nat
  OBVIOUS
<1>1. ASSUME NEW next \in {"UPDATE", "PLAN", "FIND", "FIND_LAST", "CONFIRM"},
             NEW xs \in SUBSET Item, NEW d \in Details,
             Begin(w, next, t, 0, xs, d)
      PROVE  IInv'
  <2>1. next \in Todo
    BY DEF Todo
  <2>2. QED
    BY <1>1, <2>1, <1>0, BeginIInv
<1>2. ASSUME NEW d \in Details, Update(w, t, d) PROVE IInv'
  BY <1>2, <1>1, <1>0 DEF Update
<1>3. ASSUME NEW xs \in SUBSET Item, AddItems(w, t, xs) \/ Replace(w, t, xs)
      PROVE  IInv'
  BY <1>3, <1>1, <1>t DEF AddItems, Replace
<1>4. CASE RequestApproval(w, t)
  <2>1. Latest(t) > 0 /\ versions[t][Latest(t)].items # {}
    BY <1>4 DEF RequestApproval
  <2>2. Begin(w, "PROPOSE", t, Latest(t), {}, details[t]) /\ "PROPOSE" \in Todo
    BY <1>4 DEF RequestApproval, Todo
  <2>3. QED
    BY <2>1, <2>2, <1>t, <1>in, <1>0, BeginIInv
<1>5. CASE Approve(w, t)
  <2>1. Latest(t) > 0 /\ versions[t][Latest(t)].status = "PROPOSED"
    BY <1>5 DEF Approve
  <2>2. Begin(w, "APPROVE", t, Latest(t), {}, details[t]) /\ "APPROVE" \in Todo
    BY <1>5 DEF Approve, Todo
  <2>3. versions[t][Latest(t)].items # {}
    BY <2>1, <1>in DEF IInv, ActiveIsApproved
  <2>4. QED
    BY <2>1, <2>2, <2>3, <1>t, <1>in, <1>0, BeginIInv
<1>6. CASE Reject(w, t)
  <2>1. Begin(w, "REJECT", t, Latest(t), {}, details[t]) /\ "REJECT" \in Todo
    BY <1>6 DEF Reject, Todo
  <2>2. Latest(t) \in 0..Latest(t)
    BY <1>t
  <2>3. QED
    BY <2>1, <2>2, <1>t, <1>0, BeginIInv
<1>7. CASE CustomerApprove(w, t)
  BY <1>7, <1>1, <1>t, <1>0 DEF CustomerApprove
<1>8. QED
  BY <1>2, <1>3, <1>4, <1>5, <1>6, <1>7

\* The three transactions of the gate.
LEMMA GateIInv ==
    ASSUME IInv, NEW c \in calls,
           WriteProposal(c) \/ WriteApproval(c) \/ WriteRejection(c)
    PROVE  IInv'
<1>c. CallOK(c) /\ c.trip \in Trip /\ c.version \in Nat /\ Shape
  BY DEF IInv, Shape
<1>1. CASE WriteProposal(c)
  <2>1. SignOff(c, "PROPOSE", "READY", "PROPOSED") /\ c.next = "PROPOSE"
    BY <1>1 DEF WriteProposal, SignOff
  <2>2. "READY" \in TripStatus /\ "PROPOSED" \in ItineraryStatus
    BY DEF TripStatus, ItineraryStatus
  <2>3. c.version \in 1..Latest(c.trip) /\ versions[c.trip][c.version].items # {}
    BY <2>1, <1>c DEF CallOK
  <2>4. QED
    BY <2>1, <2>2, <2>3, SignOffIInv
<1>2. CASE WriteApproval(c)
  <2>1. SignOff(c, "APPROVE", "ACTIVE", "APPROVED") /\ c.next = "APPROVE"
    BY <1>2 DEF WriteApproval, SignOff
  <2>2. "ACTIVE" \in TripStatus /\ "APPROVED" \in ItineraryStatus
    BY DEF TripStatus, ItineraryStatus
  <2>3. c.version \in 1..Latest(c.trip) /\ versions[c.trip][c.version].items # {}
    BY <2>1, <1>c DEF CallOK
  <2>4. QED
    BY <2>1, <2>2, <2>3, SignOffIInv
<1>3. CASE WriteRejection(c)
  <2>1. SignOff(c, "REJECT", "PLANNING", "DRAFT") /\ c.next = "REJECT"
    BY <1>3 DEF WriteRejection, SignOff
  <2>2. "PLANNING" \in TripStatus /\ "DRAFT" \in ItineraryStatus
    BY DEF TripStatus, ItineraryStatus
  <2>3. c.version \in 0..Latest(c.trip) /\ Latest(c.trip) \in Nat
    BY <2>1, <1>c, LengthType DEF CallOK
  <2>4. CASE c.version = 0
    <3>1. /\ trip' = [trip EXCEPT ![c.trip] = "PLANNING"]
          /\ UNCHANGED <<details, versions>> /\ calls' \subseteq calls
      BY <2>1, <2>4 DEF SignOff, End
    <3>2. Shape'
      BY <3>1, <2>2, <1>c DEF Shape
    <3>3. \A t \in Trip : trip'[t] = "ACTIVE" => trip[t] = "ACTIVE"
      BY <3>1, <1>c DEF Shape
    <3>4. QED
      BY <3>1, <3>2, <3>3, QuietIInv
  <2>5. CASE c.version # 0
    <3>1. c.version \in 1..Latest(c.trip)
      BY <2>3, <2>5
    <3>2. QED
      BY <2>1, <2>2, <3>1, SignOffIInv
  <2>6. QED
    BY <2>4, <2>5
<1>4. QED
  BY <1>1, <1>2, <1>3

LEMMA NextIInv ==
    ASSUME IInv, [Next]_vars
    PROVE  IInv'
<1>s. Shape
  BY DEF IInv
<1>1. ASSUME NEW t \in Trip, Create(t) PROVE IInv'
  <2>1. /\ trip' = [trip EXCEPT ![t] = "DRAFT"]
        /\ UNCHANGED <<details, versions, calls>>
    BY <1>1 DEF Create
  <2>2. Shape'
    BY <2>1, <1>s DEF Shape, TripStatus
  <2>3. \A q \in Trip : trip'[q] = "ACTIVE" => trip[q] = "ACTIVE"
    BY <2>1, <1>s DEF Shape
  <2>4. QED
    BY <2>1, <2>2, <2>3, QuietIInv
<1>2. ASSUME NEW w \in Worker, NEW t \in Trip,
             \/ \E d \in Details : Update(w, t, d)
             \/ \E xs \in SUBSET Item : AddItems(w, t, xs) \/ Replace(w, t, xs)
             \/ RequestApproval(w, t) \/ Approve(w, t) \/ Reject(w, t)
             \/ CustomerApprove(w, t)
      PROVE  IInv'
  BY <1>2, ReadIInv
<1>3. ASSUME NEW c \in calls,
             WriteDetails(c) \/ Plan(c) \/ Find(c) \/ FindLast(c) \/ Sum(c)
               \/ WriteCustomerApproval(c) \/ Die(c)
      PROVE  IInv'
  BY <1>3, QuietStepIInv
<1>4. ASSUME NEW c \in calls, AddToVersion(c) \/ WriteTotal(c) PROVE IInv'
  BY <1>4, ItemsIInv
<1>5. ASSUME NEW c \in calls, CreateVersion(c) PROVE IInv'
  BY <1>5, CreateIInv
<1>6. ASSUME NEW c \in calls,
             WriteProposal(c) \/ WriteApproval(c) \/ WriteRejection(c)
      PROVE  IInv'
  BY <1>6, GateIInv
<1>7. CASE UNCHANGED vars
  <2>1. UNCHANGED <<trip, details, versions, calls>>
    BY <1>7 DEF vars
  <2>2. Shape'
    BY <2>1, <1>s DEF Shape
  <2>3. QED
    BY <2>1, <2>2, QuietIInv
<1>8. QED
  BY <1>1, <1>2, <1>3, <1>4, <1>5, <1>6, <1>7 DEF Next

-----------------------------------------------------------------------------
\* The inductive invariant holds in every reachable state.
THEOREM SpecIInv == Spec => []IInv
<1>1. Init => IInv
  BY InitIInv
<1>2. IInv /\ [Next]_vars => IInv'
  BY NextIInv
<1>3. QED
  BY <1>1, <1>2, PTL DEF Spec

\* An active trip has an approved itinerary and what was proposed or approved
\* has items, for any number of overlapping and failing calls: approve and
\* request write the trip and the very version they have read in one
\* transaction, and items are never taken out of a version.
THEOREM GateCorrect == Spec => []ActiveIsApproved
<1>1. IInv => ActiveIsApproved
  BY DEF IInv
<1>2. QED
  BY <1>1, SpecIInv, PTL

-----------------------------------------------------------------------------
(* While calls neither overlap nor fail.                                   *)

\* Steps of the calls that write details or items.
Editing == {"UPDATE", "PLAN", "FIND", "ADD", "FIND_LAST", "CREATE", "SUM", "TOTAL"}

\* What a call has checked still holds when it goes on.
CalmCall(c) ==
    /\ c.next \in Editing => trip[c.trip] \in Open
    /\ c.next = "PROPOSE" => trip[c.trip] = "PLANNING"
    /\ c.next = "APPROVE" => trip[c.trip] = "READY"
    /\ c.next = "REJECT" => trip[c.trip] \in {"DRAFT", "READY"}
    /\ c.next = "CONFIRM" => trip[c.trip] = "DRAFT"
    /\ c.next \in {"PROPOSE", "APPROVE", "REJECT"} => c.version = Latest(c.trip)

Calm ==
    ~disturbed => /\ \A c, k \in calls : c = k
                  /\ \A c \in calls : CalmCall(c)

\* The inductive invariant of the calm behaviours, on top of IInv.
SerialIInv == Calm /\ GateOnNewest

\* A step that changes no status of a row, adds no row, and makes no trip
\* ready or active nor ends that, leaves the gate alone.
LEMMA SameGate ==
    ASSUME GateOnNewest, disturbed' \in BOOLEAN, disturbed \in BOOLEAN,
           disturbed' = FALSE =>
               /\ disturbed = FALSE
               /\ \A t \in Trip : Len(versions'[t]) = Len(versions[t])
               /\ \A t \in Trip : \A u \in 1..Len(versions[t]) :
                     versions'[t][u].status = versions[t][u].status
               /\ \A t \in Trip : /\ trip'[t] = "READY" <=> trip[t] = "READY"
                                  /\ trip'[t] = "ACTIVE" <=> trip[t] = "ACTIVE"
    PROVE  GateOnNewest'
BY DEF GateOnNewest, Latest

\* The steps that leave the tables alone.
LEMMA CalmQuiet ==
    ASSUME SerialIInv, UNCHANGED <<trip, versions>>,
           disturbed' \in BOOLEAN, disturbed \in BOOLEAN,
           disturbed' = FALSE => /\ disturbed = FALSE
                                 /\ \A c, k \in calls' : c = k
                                 /\ \A c \in calls' : c \in calls \/ CalmCall(c)
    PROVE  SerialIInv'
<1>1. GateOnNewest'
  BY SameGate DEF SerialIInv
<1>2. ASSUME disturbed' = FALSE
      PROVE  /\ \A c, k \in calls' : c = k
             /\ \A c \in calls' : CalmCall(c)'
  <2>1. \A c \in calls' : CalmCall(c)
    BY <1>2 DEF SerialIInv, Calm
  <2>2. QED
    BY <1>2, <2>1 DEF CalmCall, Latest
<1>3. QED
  BY <1>1, <1>2 DEF SerialIInv, Calm

\* After a write the only call has ended or goes on editing an open trip.
LEMMA CalmWrite ==
    ASSUME IInv, SerialIInv, NEW c \in calls, GateOnNewest',
           disturbed' = disturbed, disturbed \in BOOLEAN,
           \/ calls' = calls \ {c}
           \/ \E next \in Editing, v \in Nat, total \in Amount :
                 /\ calls' = (calls \ {c}) \cup {[c EXCEPT !.next = next,
                                           !.version = v, !.total = total]}
                 /\ disturbed = FALSE => trip'[c.trip] \in Open
    PROVE  SerialIInv'
<1>1. ASSUME disturbed' = FALSE
      PROVE  /\ \A i, k \in calls' : i = k
             /\ \A k \in calls' : CalmCall(k)'
  <2>1. disturbed = FALSE /\ calls = {c}
    <3>1. disturbed = FALSE
      BY <1>1
    <3>2. \A i, k \in calls : i = k
      BY <3>1, Zenon DEF SerialIInv, Calm
    <3>3. QED
      BY <3>1, <3>2
  <2>2. CASE calls' = calls \ {c}
    BY <2>1, <2>2
  <2>3. ASSUME NEW next \in Editing, NEW v \in Nat, NEW total \in Amount,
               calls' = (calls \ {c}) \cup {[c EXCEPT !.next = next,
                                         !.version = v, !.total = total]},
               disturbed = FALSE => trip'[c.trip] \in Open
        PROVE  /\ \A i, k \in calls' : i = k
               /\ \A k \in calls' : CalmCall(k)'
    <3> DEFINE k0 == [c EXCEPT !.next = next, !.version = v, !.total = total]
    <3>1. calls' = {k0}
      BY <2>1, <2>3
    <3>2. k0.next = next /\ k0.trip = c.trip
      BY DEF IInv, Shape
    <3>3. next \notin {"PROPOSE", "APPROVE", "REJECT", "CONFIRM"}
      BY DEF Editing
    <3>4. trip'[k0.trip] \in Open
      BY <2>1, <2>3, <3>2
    <3>5. CalmCall(k0)'
      BY <3>2, <3>3, <3>4 DEF CalmCall
    <3>6. QED
      BY <3>1, <3>5
  <2>4. QED
    BY <2>2, <2>3
<1>2. QED
  BY <1>1 DEF SerialIInv, Calm

LEMMA DisturbedType ==
    Spec => [](disturbed \in BOOLEAN)
<1>1. Init => disturbed \in BOOLEAN
  BY DEF Init
<1>2. disturbed \in BOOLEAN /\ [Next]_vars => (disturbed \in BOOLEAN)'
  <2> SUFFICES ASSUME disturbed \in BOOLEAN, [Next]_vars
               PROVE  disturbed' \in BOOLEAN
    OBVIOUS
  <2>1. ASSUME NEW w, NEW next, NEW t, NEW v, NEW xs, NEW d,
               Begin(w, next, t, v, xs, d)
        PROVE  disturbed' \in BOOLEAN
    BY <2>1 DEF Begin
  <2>2. ASSUME NEW w \in Worker, NEW t \in Trip,
               \/ \E d \in Details : Update(w, t, d)
               \/ \E xs \in SUBSET Item : AddItems(w, t, xs) \/ Replace(w, t, xs)
               \/ RequestApproval(w, t) \/ Approve(w, t) \/ Reject(w, t)
               \/ CustomerApprove(w, t)
        PROVE  disturbed' \in BOOLEAN
    BY <2>1, <2>2 DEF Update, AddItems, Replace, RequestApproval, Approve, Reject,
                      CustomerApprove
  <2>3. ASSUME NEW t \in Trip, Create(t) PROVE disturbed' \in BOOLEAN
    BY <2>3 DEF Create
  <2>4. ASSUME NEW c \in calls,
               \/ WriteDetails(c) \/ Plan(c) \/ Find(c) \/ AddToVersion(c)
               \/ FindLast(c) \/ CreateVersion(c) \/ Sum(c) \/ WriteTotal(c)
               \/ WriteProposal(c) \/ WriteApproval(c) \/ WriteRejection(c)
               \/ WriteCustomerApproval(c)
        PROVE  disturbed' \in BOOLEAN
    BY <2>4 DEF WriteDetails, Plan, Find, AddToVersion, FindLast, CreateVersion,
                Sum, WriteTotal, WriteProposal, WriteApproval, WriteRejection,
                SignOff, WriteCustomerApproval, Continue, End
  <2>5. ASSUME NEW c \in calls, Die(c) PROVE disturbed' \in BOOLEAN
    BY <2>5 DEF Die
  <2>6. QED
    BY <2>2, <2>3, <2>4, <2>5 DEF Next, vars
<1>3. QED
  BY <1>1, <1>2, PTL DEF Spec

\* One lemma for each kind of step.  A new trip has no call yet.
LEMMA CreateTripCalm ==
    ASSUME IInv, SerialIInv, disturbed \in BOOLEAN, NEW t \in Trip, Create(t)
    PROVE  SerialIInv'
<1>1. /\ trip[t] = "ABSENT" /\ trip' = [trip EXCEPT ![t] = "DRAFT"]
      /\ UNCHANGED <<versions, calls, disturbed>>
  BY DEF Create
<1>2. \A q \in Trip : trip'[q] = IF q = t THEN "DRAFT" ELSE trip[q]
  BY <1>1 DEF IInv, Shape
<1>3. GateOnNewest'
  <2>1. \A q \in Trip : /\ trip'[q] = "READY" <=> trip[q] = "READY"
                        /\ trip'[q] = "ACTIVE" <=> trip[q] = "ACTIVE"
    BY <1>1, <1>2
  <2>2. QED
    BY <1>1, <2>1, SameGate DEF SerialIInv
<1>4. ASSUME disturbed = FALSE, NEW k \in calls PROVE CalmCall(k)'
  <2>1. CalmCall(k)
    BY <1>4, Zenon DEF SerialIInv, Calm
  <2>2. k.trip \in Trip /\ k.next \in Todo
    BY DEF IInv, Shape
  <2>3. Todo = Editing \cup {"PROPOSE", "APPROVE", "REJECT", "CONFIRM"}
    BY DEF Todo, Editing
  <2>4. trip[k.trip] # "ABSENT"
    BY <2>1, <2>2, <2>3 DEF CalmCall, Open
  <2>5. trip'[k.trip] = trip[k.trip]
    BY <1>1, <1>2, <2>2, <2>4
  <2>6. QED
    BY <1>1, <2>1, <2>5 DEF CalmCall, Latest
<1>5. ASSUME disturbed' = FALSE
      PROVE  /\ \A i, k \in calls' : i = k
             /\ \A k \in calls' : CalmCall(k)'
  <2>1. disturbed = FALSE
    BY <1>1, <1>5
  <2>2. \A i, k \in calls : i = k
    BY <2>1, Zenon DEF SerialIInv, Calm
  <2>3. QED
    BY <1>1, <1>4, <2>1, <2>2
<1>6. disturbed' \in BOOLEAN
  BY <1>1
<1>7. QED
  BY <1>3, <1>5, <1>6 DEF SerialIInv, Calm

\* What a call that starts has checked.
CalmStart(next, t, v) ==
    /\ next \in Editing => trip[t] \in Open
    /\ next = "PROPOSE" => trip[t] = "PLANNING"
    /\ next = "APPROVE" => trip[t] = "READY"
    /\ next = "REJECT" => trip[t] \in {"DRAFT", "READY"}
    /\ next = "CONFIRM" => trip[t] = "DRAFT"
    /\ next \in {"PROPOSE", "APPROVE", "REJECT"} => v = Latest(t)

LEMMA BeginCalm ==
    ASSUME SerialIInv, disturbed \in BOOLEAN, NEW w, NEW next, NEW t, NEW v,
           NEW xs, NEW d, Begin(w, next, t, v, xs, d), CalmStart(next, t, v)
    PROVE  SerialIInv'
<1> DEFINE c0 == [by |-> w, next |-> next, trip |-> t, version |-> v,
                  items |-> xs, total |-> 0, details |-> d]
<1>1. /\ calls' = calls \cup {c0} /\ UNCHANGED <<trip, versions>>
      /\ disturbed' = (disturbed \/ calls # {})
  BY DEF Begin, tripVars
<1>2. CalmCall(c0)
  BY DEF CalmCall, CalmStart
<1>3. disturbed' \in BOOLEAN
  BY <1>1
<1>4. ASSUME disturbed' = FALSE PROVE disturbed = FALSE /\ calls = {}
  BY <1>1, <1>4
<1>5. QED
  BY <1>1, <1>2, <1>3, <1>4, CalmQuiet

LEMMA ReadCalm ==
    ASSUME IInv, SerialIInv, disturbed \in BOOLEAN, NEW w \in Worker, NEW t \in Trip,
           \/ \E d \in Details : Update(w, t, d)
           \/ \E xs \in SUBSET Item : AddItems(w, t, xs) \/ Replace(w, t, xs)
           \/ RequestApproval(w, t) \/ Approve(w, t) \/ Reject(w, t)
           \/ CustomerApprove(w, t)
    PROVE  SerialIInv'
<1>trip. trip[t] \in TripStatus \cup {"ABSENT"}
  BY DEF IInv, Shape
<1>1. ASSUME NEW next \in {"UPDATE", "PLAN", "FIND", "FIND_LAST"},
             trip[t] \in Open, NEW xs, NEW d, Begin(w, next, t, 0, xs, d)
      PROVE  SerialIInv'
  <2>1. CalmStart(next, t, 0)
    BY <1>1 DEF CalmStart
  <2>2. QED
    BY <1>1, <2>1, BeginCalm
<1>2. ASSUME NEW d \in Details, Update(w, t, d) PROVE SerialIInv'
  BY <1>2, <1>1 DEF Update
<1>3. ASSUME NEW xs \in SUBSET Item, AddItems(w, t, xs) \/ Replace(w, t, xs)
      PROVE  SerialIInv'
  BY <1>3, <1>1 DEF AddItems, Replace
<1>4. CASE RequestApproval(w, t)
  <2>1. trip[t] = "PLANNING"
    BY <1>4, <1>trip DEF RequestApproval, TripTransitions, TripStatus
  <2>2. CalmStart("PROPOSE", t, Latest(t))
    BY <2>1 DEF CalmStart, Editing
  <2>3. QED
    BY <1>4, <2>2, BeginCalm DEF RequestApproval
<1>5. CASE Approve(w, t)
  <2>1. trip[t] = "READY"
    BY <1>5, <1>trip DEF Approve, TripTransitions, TripStatus
  <2>2. CalmStart("APPROVE", t, Latest(t))
    BY <2>1 DEF CalmStart, Editing
  <2>3. QED
    BY <1>5, <2>2, BeginCalm DEF Approve
<1>6. CASE Reject(w, t)
  <2>1. trip[t] \in {"DRAFT", "READY"}
    BY <1>6, <1>trip DEF Reject, TripTransitions, TripStatus
  <2>2. CalmStart("REJECT", t, Latest(t))
    BY <2>1 DEF CalmStart, Editing
  <2>3. QED
    BY <1>6, <2>2, BeginCalm DEF Reject
<1>7. CASE CustomerApprove(w, t)
  <2>1. CalmStart("CONFIRM", t, 0)
    BY <1>7 DEF CalmStart, Editing, CustomerApprove
  <2>2. QED
    BY <1>7, <2>1, BeginCalm DEF CustomerApprove
<1>8. QED
  BY <1>2, <1>3, <1>4, <1>5, <1>6, <1>7

LEMMA DieCalm ==
    ASSUME SerialIInv, disturbed \in BOOLEAN, NEW c \in calls, Die(c)
    PROVE  SerialIInv'
<1>1. UNCHANGED <<trip, versions>> /\ disturbed' = TRUE
  BY DEF Die, tripVars
<1>2. QED
  BY <1>1, CalmQuiet

\* The writes that leave the statuses of the rows alone.
LEMMA EditCalm ==
    ASSUME IInv, SerialIInv, disturbed \in BOOLEAN, NEW c \in calls,
           WriteDetails(c) \/ Plan(c) \/ Find(c) \/ FindLast(c) \/ Sum(c)
             \/ WriteCustomerApproval(c) \/ AddToVersion(c) \/ WriteTotal(c)
    PROVE  SerialIInv'
<1>s. c.trip \in Trip /\ Shape
  BY DEF IInv, Shape
<1>calm. disturbed = FALSE => CalmCall(c)
  BY Zenon DEF SerialIInv, Calm
<1>same. disturbed' = disturbed
  BY DEF WriteDetails, Plan, Find, FindLast, Sum, WriteCustomerApproval,
         AddToVersion, WriteTotal, Continue, End
<1>gate. GateOnNewest
  BY DEF SerialIInv
<1>open. disturbed = FALSE /\ c.next \in Editing => trip[c.trip] \in Open
  BY <1>calm DEF CalmCall
<1>0. 0 \in Amount /\ 0 \in Nat
  BY DEF Amount
<1>1. /\ \A t \in Trip : Len(versions'[t]) = Len(versions[t])
      /\ \A t \in Trip : \A u \in 1..Len(versions[t]) :
            versions'[t][u].status = versions[t][u].status
  <2>1. CASE AddToVersion(c) \/ WriteTotal(c)
    BY <2>1, ItemsEffect
  <2>2. CASE UNCHANGED versions
    BY <2>2
  <2>3. QED
    BY <2>1, <2>2 DEF WriteDetails, Plan, Find, FindLast, Sum,
                      WriteCustomerApproval, tripVars
<1>2. \/ UNCHANGED trip
      \/ c.next = "PLAN" /\ trip' = [trip EXCEPT ![c.trip] = "PLANNING"]
      \/ c.next = "CONFIRM" /\ trip' = [trip EXCEPT ![c.trip] = "APPROVED"]
  BY DEF WriteDetails, Plan, Find, FindLast, Sum, WriteCustomerApproval,
         AddToVersion, WriteTotal, tripVars
<1>3. ASSUME disturbed = FALSE, NEW t \in Trip
      PROVE  /\ trip'[t] = "READY" <=> trip[t] = "READY"
             /\ trip'[t] = "ACTIVE" <=> trip[t] = "ACTIVE"
  <2>1. CASE c.next = "PLAN" /\ trip' = [trip EXCEPT ![c.trip] = "PLANNING"]
    <3>1. trip[c.trip] \in Open
      BY <1>3, <2>1, <1>open DEF Editing
    <3>2. QED
      BY <2>1, <3>1, <1>s DEF Shape, Open
  <2>2. CASE c.next = "CONFIRM" /\ trip' = [trip EXCEPT ![c.trip] = "APPROVED"]
    <3>1. trip[c.trip] = "DRAFT"
      BY <1>3, <2>2, <1>calm DEF CalmCall
    <3>2. QED
      BY <2>2, <3>1, <1>s DEF Shape
  <2>3. QED
    BY <1>2, <2>1, <2>2
<1>4. GateOnNewest'
  <2>1. disturbed' \in BOOLEAN
    BY <1>same
  <2>2. QED
    BY <2>1, <1>gate, <1>same, <1>1, <1>3, SameGate
<1>5. \/ calls' = calls \ {c}
      \/ \E next \in Editing, v \in Nat, total \in Amount :
            /\ calls' = (calls \ {c}) \cup {[c EXCEPT !.next = next,
                                      !.version = v, !.total = total]}
            /\ disturbed = FALSE => trip'[c.trip] \in Open
  <2>1. CASE WriteDetails(c) \/ WriteCustomerApproval(c) \/ WriteTotal(c)
    BY <2>1 DEF WriteDetails, WriteCustomerApproval, WriteTotal, End
  <2>2. ASSUME NEW next \in Editing, NEW v \in Nat, NEW total \in Amount,
               Continue(c, next, v, total), c.next \in Editing
        PROVE  <1>5!2
    <3>1. c.next # "CONFIRM"
      BY <2>2 DEF Editing
    <3>2. disturbed = FALSE => trip'[c.trip] \in Open
      BY <2>2, <3>1, <1>open, <1>2, <1>s DEF Shape, Open
    <3>3. QED
      BY <2>2, <3>2 DEF Continue
  <2>3. CASE Plan(c)
    BY <2>3, <2>2, <1>0 DEF Plan, Editing
  <2>4. CASE Find(c) \/ FindLast(c)
    <3>1. Latest(c.trip) \in Nat /\ Latest(c.trip) + 1 \in Nat /\ 1 \in Nat
      BY <1>s, LengthType
    <3>2. CASE Find(c) /\ Latest(c.trip) = 0
      BY <3>2, <2>2, <1>0 DEF Find, Editing
    <3>3. CASE Find(c) /\ Latest(c.trip) # 0
      BY <3>1, <3>3, <2>2, <1>0 DEF Find, Editing
    <3>4. CASE FindLast(c)
      BY <3>1, <3>4, <2>2, <1>0 DEF FindLast, Editing
    <3>5. QED
      BY <2>4, <3>2, <3>3, <3>4
  <2>5. CASE Sum(c)
    <3>1. c.next = "SUM" /\ c.version \in Nat /\ c.version \in 1..Latest(c.trip)
      BY <2>5, <1>s DEF Sum, IInv, CallOK, Shape
    <3>2. versions[c.trip][c.version].items \in SUBSET Item
      BY <3>1, <1>s, LengthType DEF Row
    <3>3. Total(versions[c.trip][c.version].items) \in Amount
      BY <3>2 DEF Amount
    <3>4. QED
      BY <3>1, <3>3, <2>5, <2>2 DEF Sum, Editing
  <2>6. CASE AddToVersion(c)
    <3>1. c.version \in Nat
      BY DEF IInv, Shape
    <3>2. QED
      BY <3>1, <2>6, <2>2, <1>0 DEF AddToVersion, Editing
  <2>7. QED
    BY <2>1, <2>3, <2>4, <2>5, <2>6
<1>6. QED
  BY <1>4, <1>5, <1>same, CalmWrite

\* A new version appears while the trip is open, when all rows are drafts.
LEMMA CreateCalm ==
    ASSUME IInv, SerialIInv, disturbed \in BOOLEAN, NEW c \in calls,
           CreateVersion(c)
    PROVE  SerialIInv'
<1> DEFINE q == c.trip
<1>s. q \in Trip /\ c.version \in Nat /\ Shape
  BY DEF IInv, Shape
<1>1. /\ c.next = "CREATE" /\ Continue(c, "SUM", c.version, 0)
      /\ disturbed' = disturbed
  BY DEF CreateVersion, Continue
<1>2. disturbed = FALSE => trip[q] \in Open
  <2>1. disturbed = FALSE => CalmCall(c)
    BY Zenon DEF SerialIInv, Calm
  <2>2. QED
    BY <2>1, <1>1 DEF CalmCall, Editing
<1>3. UNCHANGED trip
  BY DEF CreateVersion
<1>4. ASSUME disturbed = FALSE, NEW t \in Trip, NEW u \in 1..Len(versions'[t])
      PROVE  /\ versions'[t][u].status = "PROPOSED" <=>
                    trip'[t] = "READY" /\ u = Len(versions'[t])
             /\ versions'[t][u].status = "APPROVED" <=>
                    trip'[t] = "ACTIVE" /\ u = Len(versions'[t])
  <2>1. \A v \in 1..Len(versions[t]) :
            /\ versions[t][v].status = "PROPOSED" <=>
                  trip[t] = "READY" /\ v = Len(versions[t])
            /\ versions[t][v].status = "APPROVED" <=>
                  trip[t] = "ACTIVE" /\ v = Len(versions[t])
    BY <1>4 DEF SerialIInv, GateOnNewest, Latest
  <2>2. CASE t # q
    <3>1. versions'[t] = versions[t]
      BY <2>2, CreateEffect
    <3>2. QED
      BY <2>1, <3>1, <1>3
  <2>3. CASE t = q
    <3>1. trip[q] # "READY" /\ trip[q] # "ACTIVE"
      BY <1>2, <1>4 DEF Open
    <3>2. u \in 1..Len(versions[q]) \/ u = c.version
      BY <2>3, CreateEffect
    <3>3. CASE u = c.version
      BY <2>3, <3>1, <3>3, <1>3, CreateEffect
    <3>4. CASE u \in 1..Len(versions[q])
      <4>1. versions'[q][u] = versions[q][u]
        BY <3>4, <1>s, CreateEffect
      <4>2. QED
        BY <2>1, <2>3, <3>1, <3>4, <4>1, <1>3
    <3>5. QED
      BY <3>2, <3>3, <3>4
  <2>4. QED
    BY <2>2, <2>3
<1>5. GateOnNewest'
  BY <1>1, <1>4 DEF GateOnNewest, Latest
<1>6. /\ calls' = (calls \ {c}) \cup {[c EXCEPT !.next = "SUM",
                                       !.version = c.version, !.total = 0]}
      /\ disturbed = FALSE => trip'[c.trip] \in Open
  BY <1>1, <1>2, <1>3 DEF Continue
<1>7. "SUM" \in Editing /\ 0 \in Amount
  BY DEF Editing, Amount
<1>8. QED
  BY <1>1, <1>5, <1>6, <1>7, <1>s, CalmWrite

\* The gate moves with its trip.
LEMMA SignOffCalm ==
    ASSUME IInv, SerialIInv, disturbed \in BOOLEAN, NEW c \in calls,
           WriteProposal(c) \/ WriteApproval(c) \/ WriteRejection(c)
    PROVE  SerialIInv'
<1> DEFINE q == c.trip
<1>s. q \in Trip /\ c.version \in Nat /\ Shape /\ CallOK(c)
  BY DEF IInv, Shape
<1>1. PICK next \in {"PROPOSE", "APPROVE", "REJECT"}, ts \in TripStatus,
           is \in ItineraryStatus :
          /\ SignOff(c, next, ts, is) /\ c.next = next
          /\ is = "PROPOSED" <=> ts = "READY"
          /\ is = "APPROVED" <=> ts = "ACTIVE"
  BY DEF WriteProposal, WriteApproval, WriteRejection, SignOff, TripStatus,
         ItineraryStatus
<1>2. /\ calls' = calls \ {c} /\ disturbed' = disturbed
      /\ trip' = [trip EXCEPT ![q] = ts]
  BY <1>1 DEF SignOff, End
<1>3. disturbed = FALSE => /\ c.version = Latest(q)
                           /\ trip[q] \in {"PLANNING", "READY", "DRAFT"}
  <2>1. disturbed = FALSE => CalmCall(c)
    BY Zenon DEF SerialIInv, Calm
  <2>2. QED
    BY <2>1, <1>1 DEF CalmCall
<1>4. /\ \A t \in Trip : Len(versions'[t]) = Len(versions[t])
      /\ c.version # 0 => versions'[q][c.version].status = is
      /\ \A t \in Trip : \A u \in 1..Len(versions[t]) :
            t # q \/ u # c.version =>
                versions'[t][u].status = versions[t][u].status
  <2>1. CASE c.version = 0
    <3>1. UNCHANGED versions
      BY <1>1, <2>1 DEF SignOff
    <3>2. QED
      BY <2>1, <3>1
  <2>2. CASE c.version # 0
    <3>1. c.version \in 1..Latest(q)
      BY <1>1, <1>s, <2>2, LengthType DEF CallOK
    <3>2. SignOff(c, next, ts, is)
      BY <1>1
    <3>3. /\ trip' = [trip EXCEPT ![c.trip] = ts]
          /\ UNCHANGED details /\ calls' \subseteq calls
          /\ versions' \in [Trip -> Seq(Row)]
          /\ \A t \in Trip : Len(versions'[t]) = Len(versions[t])
          /\ versions'[c.trip][c.version].status = is
          /\ \A t \in Trip : \A u \in 1..Len(versions[t]) :
                /\ versions'[t][u].items = versions[t][u].items
                /\ versions'[t][u].total = versions[t][u].total
                /\ t # c.trip \/ u # c.version =>
                       versions'[t][u].status = versions[t][u].status
      BY <3>1, <3>2, SignOffEffect, Zenon
    <3>4. QED
      BY <3>3
  <2>3. QED
    BY <2>1, <2>2
<1>5. ASSUME disturbed = FALSE, NEW t \in Trip, NEW u \in 1..Len(versions'[t])
      PROVE  /\ versions'[t][u].status = "PROPOSED" <=>
                    trip'[t] = "READY" /\ u = Len(versions'[t])
             /\ versions'[t][u].status = "APPROVED" <=>
                    trip'[t] = "ACTIVE" /\ u = Len(versions'[t])
  <2>1. u \in 1..Len(versions[t]) /\ Len(versions'[t]) = Len(versions[t])
    BY <1>4
  <2>2. /\ versions[t][u].status = "PROPOSED" <=>
              trip[t] = "READY" /\ u = Len(versions[t])
        /\ versions[t][u].status = "APPROVED" <=>
              trip[t] = "ACTIVE" /\ u = Len(versions[t])
    BY <1>5, <2>1 DEF SerialIInv, GateOnNewest, Latest
  <2>3. CASE t # q
    <3>1. trip'[t] = trip[t] /\ versions'[t][u].status = versions[t][u].status
      BY <2>1, <2>3, <1>2, <1>4, <1>s DEF Shape
    <3>2. QED
      BY <2>1, <2>2, <3>1
  <2>4. CASE t = q
    <3>1. trip'[t] = ts /\ c.version = Len(versions'[t])
      BY <2>1, <2>4, <1>2, <1>3, <1>5, <1>s DEF Shape, Latest
    <3>2. CASE u = c.version
      <4>1. versions'[t][u].status = is
        BY <2>1, <2>4, <3>2, <1>4
      <4>2. QED
        BY <3>1, <3>2, <4>1, <1>1
    <3>3. CASE u # c.version
      <4>1. versions'[t][u].status = versions[t][u].status
        BY <2>1, <2>4, <3>3, <1>4
      <4>2. QED
        BY <2>1, <2>2, <3>1, <3>3, <4>1
    <3>4. QED
      BY <3>2, <3>3
  <2>5. QED
    BY <2>3, <2>4
<1>6. GateOnNewest'
  BY <1>2, <1>5 DEF GateOnNewest, Latest
<1>7. QED
  BY <1>2, <1>6, CalmWrite

LEMMA InitCalm == Init => SerialIInv
<1>1. Init => \A t \in Trip : Len(versions[t]) = 0
  BY DEF Init
<1>2. QED
  BY <1>1 DEF Init, SerialIInv, Calm, GateOnNewest, Latest

LEMMA NextCalm ==
    ASSUME IInv, SerialIInv, disturbed \in BOOLEAN, [Next]_vars
    PROVE  SerialIInv'
<1>1. CASE UNCHANGED vars
  <2>1. UNCHANGED <<trip, versions, calls, disturbed>>
    BY <1>1 DEF vars
  <2>2. disturbed' \in BOOLEAN
    BY <2>1
  <2>3. disturbed' = FALSE => /\ disturbed = FALSE
                              /\ \A c, k \in calls' : c = k
    BY <2>1, Zenon DEF SerialIInv, Calm
  <2>4. QED
    BY <2>1, <2>2, <2>3, CalmQuiet
<1>2. QED
  BY <1>1, CreateTripCalm, ReadCalm, EditCalm, CreateCalm, SignOffCalm, DieCalm
  DEF Next

\* While calls neither overlap nor fail, the gate is about the newest version:
\* every check of the gate reads the latest version, and nothing is added to a
\* trip that waits for approval or is active.
THEOREM NewestCorrect == Spec => []GateOnNewest
<1>1. Init => SerialIInv
  BY InitCalm
<1>2. IInv /\ SerialIInv /\ disturbed \in BOOLEAN /\ [Next]_vars => SerialIInv'
  BY NextCalm
<1>3. SerialIInv => GateOnNewest
  BY DEF SerialIInv
<1>4. QED
  BY <1>1, <1>2, <1>3, SpecIInv, DisturbedType, PTL DEF Spec

\* A step of Next that writes the content of a trip writes that of an open one.
LEMMA FrozenStep ==
    ASSUME IInv, SerialIInv, disturbed \in BOOLEAN, [Next]_vars, disturbed' = FALSE,
           NEW t \in Trip, trip[t] \in {"READY", "ACTIVE", "APPROVED"}
    PROVE  Content(t)' = Content(t)
<1> SUFFICES /\ details'[t] = details[t]
             /\ Len(versions'[t]) = Len(versions[t])
             /\ \A u \in 1..Len(versions[t]) :
                   /\ versions'[t][u].items = versions[t][u].items
                   /\ versions'[t][u].total = versions[t][u].total
  BY DEF Content, Latest
<1>s. Shape
  BY DEF IInv
<1>1. CASE UNCHANGED <<details, versions>>
  BY <1>1
<1>2. ASSUME NEW c \in calls, c.next \in Editing, disturbed' = disturbed
      PROVE  c.trip # t
  <2>1. disturbed = FALSE
    BY <1>2
  <2>2. CalmCall(c)
    BY <2>1, Zenon DEF SerialIInv, Calm
  <2>3. QED
    BY <1>2, <2>2 DEF CalmCall, Open
<1>3. ASSUME NEW c \in calls, WriteDetails(c)
      PROVE  details'[t] = details[t] /\ UNCHANGED versions
  <2>1. c.trip # t
    BY <1>3, <1>2 DEF WriteDetails, End, Editing
  <2>2. QED
    BY <1>3, <2>1, <1>s DEF WriteDetails, Shape
<1>4. ASSUME NEW c \in calls, AddToVersion(c) \/ WriteTotal(c) \/ CreateVersion(c)
      PROVE  UNCHANGED details /\ versions'[t] = versions[t]
  <2>1. c.trip # t
    BY <1>4, <1>2 DEF AddToVersion, WriteTotal, CreateVersion, Continue, End, Editing
  <2>2. QED
    BY <1>4, <2>1, <1>s DEF AddToVersion, WriteTotal, CreateVersion, Shape
<1>5. ASSUME NEW c \in calls,
             WriteProposal(c) \/ WriteApproval(c) \/ WriteRejection(c)
      PROVE  /\ UNCHANGED details
             /\ Len(versions'[t]) = Len(versions[t])
             /\ \A u \in 1..Len(versions[t]) :
                   /\ versions'[t][u].items = versions[t][u].items
                   /\ versions'[t][u].total = versions[t][u].total
  <2>1. PICK next \in {"PROPOSE", "APPROVE", "REJECT"}, ts \in TripStatus,
             is \in ItineraryStatus :
            SignOff(c, next, ts, is) /\ c.next = next
    BY <1>5 DEF WriteProposal, WriteApproval, WriteRejection, SignOff, TripStatus,
           ItineraryStatus
  <2>2. c.version \in Nat /\ CallOK(c) /\ c.trip \in Trip
    BY DEF IInv, Shape
  <2>3. CASE c.version = 0
    BY <2>1, <2>3 DEF SignOff
  <2>4. CASE c.version # 0
    <3>1. c.version \in 1..Latest(c.trip)
      BY <2>1, <2>2, <2>4, <1>s, LengthType DEF CallOK
    <3>2. SignOff(c, next, ts, is)
      BY <2>1
    <3>3. /\ trip' = [trip EXCEPT ![c.trip] = ts]
          /\ UNCHANGED details /\ calls' \subseteq calls
          /\ versions' \in [Trip -> Seq(Row)]
          /\ \A q \in Trip : Len(versions'[q]) = Len(versions[q])
          /\ versions'[c.trip][c.version].status = is
          /\ \A q \in Trip : \A u \in 1..Len(versions[q]) :
                /\ versions'[q][u].items = versions[q][u].items
                /\ versions'[q][u].total = versions[q][u].total
                /\ q # c.trip \/ u # c.version =>
                       versions'[q][u].status = versions[q][u].status
      BY <3>1, <3>2, SignOffEffect, Zenon
    <3>4. QED
      BY <3>3
  <2>5. QED
    BY <2>3, <2>4
<1>6. \/ UNCHANGED <<details, versions>>
      \/ \E c \in calls : WriteDetails(c)
      \/ \E c \in calls : AddToVersion(c) \/ WriteTotal(c) \/ CreateVersion(c)
      \/ \E c \in calls : WriteProposal(c) \/ WriteApproval(c) \/ WriteRejection(c)
  BY DEF Next, vars, tripVars, Create, Begin, Update, AddItems, Replace,
         RequestApproval, Approve, Reject, CustomerApprove, Plan, Find, FindLast,
         Sum, WriteCustomerApproval, Die
<1>7. QED
  BY <1>1, <1>3, <1>4, <1>5, <1>6

\* While calls neither overlap nor fail, what was sent for approval stays as
\* it is, through its approval and after: the handlers that write details,
\* versions or items refuse a trip that is no longer being planned.
THEOREM FrozenCorrect == Spec => SentIsFrozen
<1>1. Init => SerialIInv
  BY InitCalm
<1>2. IInv /\ SerialIInv /\ disturbed \in BOOLEAN /\ [Next]_vars => SerialIInv'
  BY NextCalm
<1>3. IInv /\ SerialIInv /\ disturbed \in BOOLEAN
        /\ (disturbed \in BOOLEAN)' /\ [Next]_vars
      => [Frozen]_vars
  <2> SUFFICES ASSUME IInv, SerialIInv, disturbed \in BOOLEAN,
                      disturbed' \in BOOLEAN, [Next]_vars,
                      NEW t \in Trip, ~disturbed',
                      trip[t] \in {"READY", "ACTIVE", "APPROVED"}
               PROVE  Content(t)' = Content(t)
    BY DEF Frozen
  <2>1. disturbed' = FALSE
    OBVIOUS
  <2>2. QED
    BY <2>1, FrozenStep
<1>4. QED
  BY <1>1, <1>2, <1>3, SpecIInv, DisturbedType, PTL DEF Spec, SentIsFrozen

-----------------------------------------------------------------------------
(* The estimates.  Items are only ever inserted, so a sum that was read    *)
(* can fall behind the items, but every item it counts is still there.     *)

LEMMA TotalType ==
    ASSUME NEW xs \in SUBSET Item
    PROVE  Total(xs) \in Int
<1>1. IsFiniteSet(xs) /\ \A x \in xs : Estimate[x] \in Int
  BY TripsAssumption, FS_Subset
<1>2. QED
  BY <1>1, SumType DEF Total

\* The sum of no items is zero, and a set of items offers every sum that a
\* part of it offers.
LEMMA SumOfNone == \A ys : SumOfSome(0, ys)
<1>1. Total({}) = 0
  BY SumEmpty DEF Total
<1>2. QED
  BY <1>1 DEF SumOfSome

LEMMA SumOfPartIs ==
    \A xs, ys, n : xs \subseteq ys /\ SumOfSome(n, xs) => SumOfSome(n, ys)
BY DEF SumOfSome

LEMMA SumOfAll == \A xs : SumOfSome(Total(xs), xs)
BY DEF SumOfSome

LEMMA AmountType == Amount \subseteq Int
BY TotalType DEF Amount

\* Totals are numbers, so that Shape says as much as TypeOK.
LEMMA ShapeType ==
    ASSUME IInv, disturbed \in BOOLEAN
    PROVE  TypeOK
<1>1. Row \subseteq Itinerary
  BY AmountType DEF Row, Itinerary, ItineraryStatus
<1>2. Seq(Row) \subseteq Seq(Itinerary)
  BY <1>1
<1>3. versions \in [Trip -> Seq(Itinerary)]
  BY <1>2 DEF IInv, Shape
<1>4. calls \subseteq Call
  BY AmountType DEF IInv, Shape, Call
<1>5. \A c \in calls :
          /\ c.next \in {"ADD", "SUM", "TOTAL", "PROPOSE", "APPROVE"} =>
                 c.version \in 1..Latest(c.trip)
          /\ c.next = "REJECT" => c.version \in 0..Latest(c.trip)
  BY DEF IInv, CallOK
<1>6. QED
  BY <1>3, <1>4, <1>5 DEF TypeOK, IInv, Shape

\* The variables have their types; in particular a call that goes on with a
\* version works on one that exists.
THEOREM TypeCorrect == Spec => []TypeOK
<1>1. IInv /\ disturbed \in BOOLEAN => TypeOK
  BY ShapeType
<1>2. QED
  BY <1>1, SpecIInv, DisturbedType, PTL

\* What is written, or has been read and will be, is the sum of some items.
Within ==
    /\ EstimateWithinItems
    /\ \A c \in calls : c.next = "TOTAL" =>
           SumOfSome(c.total, versions[c.trip][c.version].items)

\* A call that will bring the total of version u of trip t up to date.
Summing(t, u) ==
    \E c \in calls : c.next \in {"SUM", "TOTAL"} /\ c.trip = t /\ c.version = u

\* While calls do not overlap, every total is the sum of the items, except
\* the one that the call in progress is about to write.
Exact ==
    disturbed = FALSE =>
        /\ \A t \in Trip : \A u \in 1..Len(versions[t]) :
              \/ versions[t][u].total = Total(versions[t][u].items)
              \/ Summing(t, u)
        /\ \A c \in calls : c.next = "TOTAL" =>
              c.total = Total(versions[c.trip][c.version].items)

\* A step after which each total is zero, as before, or the one that a call
\* has read, and which adds no call with a total but one just read.
LEMMA WithinStep ==
    ASSUME IInv, Within, Shape', Grows,
           \A t \in Trip : \A u \in 1..Len(versions'[t]) :
               \/ versions'[t][u].total = 0
               \/ /\ u \in 1..Len(versions[t])
                  /\ \/ versions'[t][u].total = versions[t][u].total
                     \/ \E c \in calls : /\ c.next = "TOTAL"
                                         /\ c.trip = t /\ c.version = u
                                         /\ versions'[t][u].total = c.total,
           \A k \in calls' :
               \/ k \in calls \/ k.next # "TOTAL"
               \/ /\ k.version \in 1..Len(versions[k.trip])
                  /\ k.total = Total(versions[k.trip][k.version].items)
    PROVE  Within'
<1>1. ASSUME NEW t \in Trip, NEW u \in 1..Len(versions[t])
      PROVE  versions[t][u].items \subseteq versions'[t][u].items
  BY DEF Grows
<1>2. ASSUME NEW t \in Trip, NEW u \in 1..Len(versions'[t])
      PROVE  SumOfSome(versions'[t][u].total, versions'[t][u].items)
  <2>1. CASE versions'[t][u].total = 0
    BY <2>1, SumOfNone
  <2>2. ASSUME u \in 1..Len(versions[t]), versions'[t][u].total = versions[t][u].total
        PROVE  SumOfSome(versions'[t][u].total, versions'[t][u].items)
    <3>1. SumOfSome(versions[t][u].total, versions[t][u].items)
      BY <2>2 DEF Within, EstimateWithinItems, Latest
    <3>2. QED
      BY <1>1, <2>2, <3>1, SumOfPartIs
  <2>3. ASSUME u \in 1..Len(versions[t]), NEW c \in calls, c.next = "TOTAL",
               c.trip = t, c.version = u, versions'[t][u].total = c.total
        PROVE  SumOfSome(versions'[t][u].total, versions'[t][u].items)
    <3>1. SumOfSome(c.total, versions[t][u].items)
      BY <2>3 DEF Within
    <3>2. QED
      BY <1>1, <2>3, <3>1, SumOfPartIs
  <2>4. QED
    BY <2>1, <2>2, <2>3
<1>3. ASSUME NEW k \in calls', k.next = "TOTAL"
      PROVE  SumOfSome(k.total, versions'[k.trip][k.version].items)
  <2>1. k.trip \in Trip
    BY DEF Shape
  <2>2. CASE k \in calls
    <3>1. k.version \in 1..Len(versions[k.trip])
      BY <1>3, <2>2 DEF IInv, CallOK, Latest
    <3>2. SumOfSome(k.total, versions[k.trip][k.version].items)
      BY <1>3, <2>2 DEF Within
    <3>3. QED
      BY <1>1, <2>1, <3>1, <3>2, SumOfPartIs
  <2>3. CASE k \notin calls
    <3>1. /\ k.version \in 1..Len(versions[k.trip])
          /\ k.total = Total(versions[k.trip][k.version].items)
      BY <1>3, <2>3
    <3>2. SumOfSome(k.total, versions[k.trip][k.version].items)
      BY <3>1, SumOfAll
    <3>3. QED
      BY <1>1, <2>1, <3>1, <3>2, SumOfPartIs
  <2>4. QED
    BY <2>2, <2>3
<1>4. EstimateWithinItems'
  BY <1>2 DEF EstimateWithinItems, Latest
<1>5. QED
  BY <1>3, <1>4 DEF Within

\* Where the calls do not overlap, they are one call at most.
LEMMA OneCall ==
    ASSUME SerialIInv, disturbed = FALSE, NEW c \in calls
    PROVE  calls = {c}
<1>1. \A i, k \in calls : i = k
  BY Zenon DEF SerialIInv, Calm
<1>2. QED
  BY <1>1

\* What a row keeps when only other rows, or other columns, are written.
SameRow(t, u) ==
    /\ versions'[t][u].items = versions[t][u].items
    /\ versions'[t][u].total = versions[t][u].total

\* The steps that leave the items and totals alone: none in progress was
\* summing, but one that has just read the sum.
LEMMA ExactQuiet ==
    ASSUME Exact, disturbed' = FALSE => disturbed = FALSE,
           \A t \in Trip : Len(versions'[t]) = Len(versions[t]),
           \A t \in Trip : \A u \in 1..Len(versions[t]) : SameRow(t, u),
           disturbed' = FALSE => \A c \in calls :
               \/ c \in calls' \/ c.next \notin {"SUM", "TOTAL"}
               \/ \E k \in calls' : /\ k.next \in {"SUM", "TOTAL"}
                                    /\ k.trip = c.trip /\ k.version = c.version,
           disturbed' = FALSE => \A k \in calls' : k.next = "TOTAL" =>
               /\ k.trip \in Trip /\ k.version \in 1..Len(versions[k.trip])
               /\ \/ k \in calls
                  \/ k.total = Total(versions[k.trip][k.version].items)
    PROVE  Exact'
<1> SUFFICES ASSUME disturbed' = FALSE
             PROVE  /\ \A t \in Trip : \A u \in 1..Len(versions'[t]) :
                          \/ versions'[t][u].total = Total(versions'[t][u].items)
                          \/ Summing(t, u)'
                    /\ \A c \in calls' : c.next = "TOTAL" =>
                          c.total = Total(versions'[c.trip][c.version].items)
  BY DEF Exact
<1>0. /\ \A t \in Trip : \A u \in 1..Len(versions[t]) :
            \/ versions[t][u].total = Total(versions[t][u].items)
            \/ Summing(t, u)
      /\ \A c \in calls : c.next = "TOTAL" =>
            c.total = Total(versions[c.trip][c.version].items)
  BY DEF Exact
<1>1. ASSUME NEW t \in Trip, NEW u \in 1..Len(versions'[t])
      PROVE  \/ versions'[t][u].total = Total(versions'[t][u].items)
             \/ Summing(t, u)'
  <2>1. u \in 1..Len(versions[t]) /\ SameRow(t, u)
    OBVIOUS
  <2>2. CASE versions[t][u].total = Total(versions[t][u].items)
    BY <2>1, <2>2 DEF SameRow
  <2>3. ASSUME NEW c \in calls, c.next \in {"SUM", "TOTAL"}, c.trip = t, c.version = u
        PROVE  Summing(t, u)'
    <3>1. PICK k \in calls' : /\ k.next \in {"SUM", "TOTAL"}
                              /\ k.trip = t /\ k.version = u
      BY <2>3
    <3>2. QED
      BY <3>1 DEF Summing
  <2>4. QED
    BY <1>0, <2>1, <2>2, <2>3 DEF Summing
<1>2. ASSUME NEW k \in calls', k.next = "TOTAL"
      PROVE  k.total = Total(versions'[k.trip][k.version].items)
  <2>1. k.trip \in Trip /\ k.version \in 1..Len(versions[k.trip])
    BY <1>2
  <2>2. k.total = Total(versions[k.trip][k.version].items)
    BY <1>0, <1>2
  <2>3. QED
    BY <2>1, <2>2 DEF SameRow
<1>3. QED
  BY <1>1, <1>2

\* What a step has to keep of the estimates.
Estimates == Within /\ Exact

\* The steps that leave the itineraries alone.
LEMMA EstimatesQuiet ==
    ASSUME IInv, Estimates, UNCHANGED versions, Shape',
           disturbed' = FALSE => disturbed = FALSE,
           \A k \in calls' :
               \/ k \in calls \/ k.next # "TOTAL"
               \/ /\ k.version \in 1..Len(versions[k.trip])
                  /\ k.total = Total(versions[k.trip][k.version].items),
           disturbed' = FALSE => \A c \in calls :
               \/ c \in calls' \/ c.next \notin {"SUM", "TOTAL"}
               \/ \E k \in calls' : /\ k.next \in {"SUM", "TOTAL"}
                                    /\ k.trip = c.trip /\ k.version = c.version
    PROVE  Estimates'
<1>1. \A t \in Trip : Len(versions[t]) \in Nat
  BY LengthType DEF IInv, Latest
<1>2. Grows
  BY <1>1 DEF Grows
<1>3. Within'
  BY <1>2, WithinStep DEF Estimates
<1>4. \A k \in calls' : k.next = "TOTAL" =>
          /\ k.trip \in Trip /\ k.version \in 1..Len(versions[k.trip])
          /\ k \in calls \/ k.total = Total(versions[k.trip][k.version].items)
  <2>1. \A k \in calls : k.next = "TOTAL" => k.version \in 1..Len(versions[k.trip])
    BY DEF IInv, CallOK, Latest
  <2>2. \A k \in calls' : k.trip \in Trip
    BY DEF Shape
  <2>3. QED
    BY <2>1, <2>2
<1>5. Exact'
  <2>1. \A t \in Trip : Len(versions'[t]) = Len(versions[t])
    OBVIOUS
  <2>2. \A t \in Trip : \A u \in 1..Len(versions[t]) : SameRow(t, u)
    BY DEF SameRow
  <2>3. QED
    BY <1>4, <2>1, <2>2, ExactQuiet DEF Estimates
<1>6. QED
  BY <1>3, <1>5 DEF Estimates

\* A read adds a call that has no sum yet, and only disturbs.
LEMMA BeginEstimates ==
    ASSUME IInv, Estimates, IInv', NEW w, NEW next, next # "TOTAL", NEW t, NEW v,
           NEW xs, NEW d, disturbed \in BOOLEAN, Begin(w, next, t, v, xs, d)
    PROVE  Estimates'
<1> DEFINE c0 == [by |-> w, next |-> next, trip |-> t, version |-> v,
                  items |-> xs, total |-> 0, details |-> d]
<1>1. calls' = calls \cup {c0} /\ UNCHANGED versions
  BY DEF Begin, tripVars
<1>2. disturbed' = FALSE => disturbed = FALSE
  BY DEF Begin
<1>3. c0.next # "TOTAL"
  OBVIOUS
<1>4. QED
  BY <1>1, <1>2, <1>3, EstimatesQuiet DEF IInv

LEMMA ReadEstimates ==
    ASSUME IInv, Estimates, IInv', disturbed \in BOOLEAN,
           NEW w \in Worker, NEW t \in Trip,
           \/ \E d \in Details : Update(w, t, d)
           \/ \E xs \in SUBSET Item : AddItems(w, t, xs) \/ Replace(w, t, xs)
           \/ RequestApproval(w, t) \/ Approve(w, t) \/ Reject(w, t)
           \/ CustomerApprove(w, t)
    PROVE  Estimates'
<1>1. PICK next \in Todo \ {"TOTAL"} : \E v, xs, d : Begin(w, next, t, v, xs, d)
  BY DEF Update, AddItems, Replace, RequestApproval, Approve, Reject,
         CustomerApprove, Todo
<1>2. QED
  BY <1>1, BeginEstimates

\* The steps of a call that leave the itineraries alone.
LEMMA QuietStepEstimates ==
    ASSUME IInv, Estimates, IInv', disturbed \in BOOLEAN, NEW c \in calls,
           WriteDetails(c) \/ Plan(c) \/ Find(c) \/ FindLast(c) \/ Sum(c)
             \/ WriteCustomerApproval(c) \/ Die(c)
    PROVE  Estimates'
<1>1. UNCHANGED versions /\ (disturbed' = FALSE => disturbed = FALSE)
  BY DEF WriteDetails, Plan, Find, FindLast, Sum, WriteCustomerApproval, Die,
         Continue, End, tripVars
<1>2. CASE calls' = calls \ {c} /\ (disturbed' = FALSE => c.next \notin {"SUM", "TOTAL"})
  BY <1>1, <1>2, EstimatesQuiet DEF IInv
<1>3. ASSUME NEW next \in {"FIND", "CREATE", "ADD"}, NEW v, Continue(c, next, v, 0),
             c.next \notin {"SUM", "TOTAL"}
      PROVE  Estimates'
  <2> DEFINE k0 == [c EXCEPT !.next = next, !.version = v, !.total = 0]
  <2>1. calls' = (calls \ {c}) \cup {k0}
    BY <1>3 DEF Continue
  <2>2. k0.next # "TOTAL"
    BY DEF IInv, Shape
  <2>3. QED
    BY <1>1, <1>3, <2>1, <2>2, EstimatesQuiet DEF IInv
<1>4. CASE Sum(c)
  <2> DEFINE k0 == [c EXCEPT !.next = "TOTAL", !.version = c.version,
                             !.total = Total(versions[c.trip][c.version].items)]
  <2>1. calls' = (calls \ {c}) \cup {k0}
    BY <1>4 DEF Sum, Continue
  <2>2. /\ k0.next = "TOTAL" /\ k0.trip = c.trip /\ k0.version = c.version
        /\ k0.total = Total(versions[c.trip][c.version].items)
    BY DEF IInv, Shape
  <2>3. c.version \in 1..Len(versions[c.trip])
    BY <1>4 DEF Sum, IInv, CallOK, Latest
  <2>4. QED
    BY <1>1, <2>1, <2>2, <2>3, EstimatesQuiet DEF IInv
<1>5. CASE WriteDetails(c) \/ WriteCustomerApproval(c) \/ Die(c)
  BY <1>2, <1>5 DEF WriteDetails, WriteCustomerApproval, Die, End
<1>6. CASE Plan(c) \/ FindLast(c)
  BY <1>3, <1>6 DEF Plan, FindLast
<1>7. CASE Find(c)
  BY <1>3, <1>7 DEF Find
<1>8. QED
  BY <1>4, <1>5, <1>6, <1>7

\* Proposing, approving and rejecting write statuses only.
LEMMA SignOffEstimates ==
    ASSUME IInv, Estimates, IInv', disturbed \in BOOLEAN, NEW c \in calls,
           WriteProposal(c) \/ WriteApproval(c) \/ WriteRejection(c)
    PROVE  Estimates'
<1>1. PICK next \in {"PROPOSE", "APPROVE", "REJECT"}, ts \in TripStatus,
           is \in ItineraryStatus :
          SignOff(c, next, ts, is) /\ c.next = next
  BY DEF WriteProposal, WriteApproval, WriteRejection, SignOff, TripStatus,
         ItineraryStatus
<1>2. calls' = calls \ {c} /\ UNCHANGED disturbed
  BY <1>1 DEF SignOff, End
<1>3. c.next \notin {"SUM", "TOTAL"}
  BY <1>1
<1>4. CASE c.version = 0
  <2>1. UNCHANGED versions
    BY <1>1, <1>4 DEF SignOff
  <2>2. QED
    BY <1>2, <1>3, <2>1, EstimatesQuiet DEF IInv
<1>5. CASE c.version # 0
  <2>1. c.version \in 1..Latest(c.trip)
    <3>1. c.trip \in Trip /\ c.version \in Nat /\ CallOK(c)
      BY DEF IInv, Shape
    <3>2. Latest(c.trip) \in Nat
      BY <3>1, LengthType DEF IInv
    <3>3. QED
      BY <1>1, <1>5, <3>1, <3>2 DEF CallOK
  <2>2. SignOff(c, next, ts, is)
    BY <1>1
  <2>3. /\ \A t \in Trip : Len(versions'[t]) = Len(versions[t])
        /\ \A t \in Trip : \A u \in 1..Len(versions[t]) :
              /\ versions'[t][u].items = versions[t][u].items
              /\ versions'[t][u].total = versions[t][u].total
    BY <2>1, <2>2, SignOffEffect, Zenon
  <2>4. \A t \in Trip : Len(versions[t]) \in Nat
    BY LengthType DEF IInv, Latest
  <2>5. Grows
    BY <2>3, <2>4 DEF Grows
  <2>6. Within'
    BY <1>2, <2>3, <2>5, WithinStep DEF Estimates, IInv
  <2>7. \A t \in Trip : \A u \in 1..Len(versions[t]) : SameRow(t, u)
    BY <2>3 DEF SameRow
  <2>8. \A k \in calls' : k.next = "TOTAL" =>
            /\ k.trip \in Trip /\ k.version \in 1..Len(versions[k.trip])
            /\ k \in calls
    BY <1>2 DEF IInv, Shape, CallOK, Latest
  <2>9. Exact'
    BY <1>2, <1>3, <2>3, <2>7, <2>8, ExactQuiet DEF Estimates
  <2>10. QED
    BY <2>6, <2>9 DEF Estimates
<1>6. QED
  BY <1>4, <1>5

\* Items are inserted, and will be summed.
LEMMA AddEstimates ==
    ASSUME IInv, SerialIInv, Estimates, IInv', disturbed \in BOOLEAN, NEW c \in calls,
           AddToVersion(c)
    PROVE  Estimates'
<1> DEFINE q == c.trip
           v == c.version
           old == versions[q][v]
           row == [old EXCEPT !.items = @ \cup c.items]
           k0 == [c EXCEPT !.next = "SUM", !.version = v, !.total = 0]
<1>c. /\ q \in Trip /\ v \in Nat /\ c.items \in SUBSET Item
      /\ CallOK(c) /\ Shape /\ c.next = "ADD"
  BY DEF IInv, Shape, AddToVersion
<1>v. v \in 1..Len(versions[q])
  BY <1>c DEF CallOK, Latest
<1>old. old \in Row
  BY <1>c, <1>v, LengthType DEF Latest
<1>row. row \in Row /\ row.total = old.total /\ old.items \subseteq row.items
  BY <1>old, <1>c DEF Row
<1>1. WriteRow(q, v, row)
  BY DEF AddToVersion, WriteRow
<1>2. /\ \A t \in Trip : Len(versions'[t]) = Len(versions[t])
      /\ versions'[q][v] = row
      /\ \A t \in Trip : \A u \in 1..Len(versions[t]) :
            t # q \/ u # v => versions'[t][u] = versions[t][u]
  BY <1>1, <1>c, <1>v, <1>row, RowEffect
<1>3. /\ calls' = (calls \ {c}) \cup {k0} /\ disturbed' = disturbed
      /\ k0.next = "SUM" /\ k0.trip = q /\ k0.version = v
  BY DEF AddToVersion, Continue, IInv, Shape
<1>4. \A t \in Trip : Len(versions[t]) \in Nat
  BY <1>c, LengthType DEF Latest
<1>5. Grows
  <2>1. ASSUME NEW t \in Trip, NEW u \in 1..Len(versions[t])
        PROVE  versions[t][u].items \subseteq versions'[t][u].items
    <3>1. CASE t = q /\ u = v
      BY <1>2, <1>row, <3>1
    <3>2. CASE ~(t = q /\ u = v)
      BY <1>2, <3>2
    <3>3. QED
      BY <3>1, <3>2
  <2>2. \A t \in Trip : Len(versions[t]) <= Len(versions'[t])
    BY <1>2, <1>4
  <2>3. QED
    BY <2>1, <2>2 DEF Grows
<1>6. Within'
  <2>1. \A t \in Trip : \A u \in 1..Len(versions'[t]) :
            u \in 1..Len(versions[t]) /\ versions'[t][u].total = versions[t][u].total
    BY <1>2, <1>row
  <2>2. \A k \in calls' : k \in calls \/ k.next # "TOTAL"
    BY <1>3
  <2>3. QED
    BY <1>5, <2>1, <2>2, WithinStep DEF Estimates, IInv
<1>7. ASSUME disturbed' = FALSE
      PROVE  /\ \A t \in Trip : \A u \in 1..Len(versions'[t]) :
                   \/ versions'[t][u].total = Total(versions'[t][u].items)
                   \/ Summing(t, u)'
             /\ \A k \in calls' : k.next = "TOTAL" =>
                   k.total = Total(versions'[k.trip][k.version].items)
  <2>1. disturbed = FALSE /\ calls = {c}
    BY <1>3, <1>7, OneCall
  <2>2. calls' = {k0}
    BY <1>3, <2>1
  <2>3. ASSUME NEW t \in Trip, NEW u \in 1..Len(versions[t])
        PROVE  versions[t][u].total = Total(versions[t][u].items)
    <3>1. ~Summing(t, u)
      BY <1>c, <2>1 DEF Summing
    <3>2. QED
      BY <2>1, <3>1, Zenon DEF Estimates, Exact
  <2>4. ASSUME NEW t \in Trip, NEW u \in 1..Len(versions'[t])
        PROVE  \/ versions'[t][u].total = Total(versions'[t][u].items)
               \/ Summing(t, u)'
    <3>1. CASE t = q /\ u = v
      BY <1>3, <2>2, <3>1 DEF Summing
    <3>2. CASE ~(t = q /\ u = v)
      BY <1>2, <2>3, <3>2
    <3>3. QED
      BY <3>1, <3>2
  <2>5. QED
    BY <1>3, <2>2, <2>4
<1>8. Exact'
  BY <1>7 DEF Exact
<1>9. QED
  BY <1>6, <1>8 DEF Estimates

\* A new version with items has yet to be summed.
LEMMA CreateEstimates ==
    ASSUME IInv, SerialIInv, Estimates, IInv', disturbed \in BOOLEAN, NEW c \in calls,
           CreateVersion(c)
    PROVE  Estimates'
<1> DEFINE q == c.trip
           row == [status |-> "DRAFT", items |-> c.items, total |-> 0]
           k0 == [c EXCEPT !.next = "SUM", !.version = c.version, !.total = 0]
<1>c. q \in Trip /\ c.version \in Nat /\ Shape /\ c.next = "CREATE"
  BY DEF IInv, Shape, CreateVersion
<1>1. /\ Len(versions[q]) \in Nat
      /\ Len(versions[q]) + 1 = c.version
      /\ Len(versions'[q]) = c.version
      /\ \A t \in Trip : t # q => versions'[t] = versions[t]
      /\ \A t \in Trip : \A u \in 1..Len(versions[t]) :
            versions'[t][u] = versions[t][u]
  BY CreateEffect
<1>2. versions'[q][c.version].total = 0
  <2>1. versions'[q] = Append(versions[q], row) /\ versions[q] \in Seq(Row)
    BY <1>c DEF CreateVersion, Shape
  <2>2. versions'[q][Len(versions[q]) + 1] = row
    BY <2>1
  <2>3. QED
    BY <1>1, <2>2
<1>3. /\ calls' = (calls \ {c}) \cup {k0} /\ disturbed' = disturbed
      /\ k0.next = "SUM" /\ k0.trip = q /\ k0.version = c.version
  BY DEF CreateVersion, Continue, IInv, Shape
<1>4. ASSUME NEW t \in Trip, NEW u \in 1..Len(versions'[t])
      PROVE  u \in 1..Len(versions[t]) \/ (t = q /\ u = c.version)
  BY <1>1
<1>5. Grows
  <2>1. \A t \in Trip : Len(versions[t]) \in Nat
    BY <1>c, LengthType DEF Latest
  <2>2. \A t \in Trip : Len(versions[t]) <= Len(versions'[t])
    BY <1>1, <2>1
  <2>3. QED
    BY <1>1, <2>2 DEF Grows
<1>6. Within'
  <2>1. \A t \in Trip : \A u \in 1..Len(versions'[t]) :
            \/ versions'[t][u].total = 0
            \/ u \in 1..Len(versions[t]) /\ versions'[t][u].total = versions[t][u].total
    BY <1>1, <1>2, <1>4
  <2>2. \A k \in calls' : k \in calls \/ k.next # "TOTAL"
    BY <1>3
  <2>3. QED
    BY <1>5, <2>1, <2>2, WithinStep DEF Estimates, IInv
<1>7. ASSUME disturbed' = FALSE
      PROVE  /\ \A t \in Trip : \A u \in 1..Len(versions'[t]) :
                   \/ versions'[t][u].total = Total(versions'[t][u].items)
                   \/ Summing(t, u)'
             /\ \A k \in calls' : k.next = "TOTAL" =>
                   k.total = Total(versions'[k.trip][k.version].items)
  <2>1. disturbed = FALSE /\ calls = {c}
    BY <1>3, <1>7, OneCall
  <2>2. calls' = {k0}
    BY <1>3, <2>1
  <2>3. ASSUME NEW t \in Trip, NEW u \in 1..Len(versions[t])
        PROVE  versions[t][u].total = Total(versions[t][u].items)
    <3>1. ~Summing(t, u)
      BY <1>c, <2>1 DEF Summing
    <3>2. QED
      BY <2>1, <3>1, Zenon DEF Estimates, Exact
  <2>4. ASSUME NEW t \in Trip, NEW u \in 1..Len(versions'[t])
        PROVE  \/ versions'[t][u].total = Total(versions'[t][u].items)
               \/ Summing(t, u)'
    <3>1. CASE t = q /\ u = c.version
      BY <1>3, <2>2, <3>1 DEF Summing
    <3>2. CASE u \in 1..Len(versions[t])
      BY <1>1, <2>3, <3>2
    <3>3. QED
      BY <1>4, <3>1, <3>2
  <2>5. QED
    BY <1>3, <2>2, <2>4
<1>8. Exact'
  BY <1>7 DEF Exact
<1>9. QED
  BY <1>6, <1>8 DEF Estimates

\* The sum that is written is that of the items, while no other call came
\* between.
LEMMA TotalEstimates ==
    ASSUME IInv, SerialIInv, Estimates, IInv', disturbed \in BOOLEAN, NEW c \in calls,
           WriteTotal(c)
    PROVE  Estimates'
<1> DEFINE q == c.trip
           v == c.version
           old == versions[q][v]
           row == [old EXCEPT !.total = c.total]
<1>c. /\ q \in Trip /\ v \in Nat /\ c.total \in Amount
      /\ CallOK(c) /\ Shape /\ c.next = "TOTAL"
  BY DEF IInv, Shape, WriteTotal
<1>v. v \in 1..Len(versions[q])
  BY <1>c DEF CallOK, Latest
<1>old. old \in Row
  BY <1>c, <1>v, LengthType DEF Latest
<1>row. row \in Row /\ row.total = c.total /\ row.items = old.items
  BY <1>old, <1>c DEF Row
<1>1. WriteRow(q, v, row)
  BY DEF WriteTotal, WriteRow
<1>2. /\ \A t \in Trip : Len(versions'[t]) = Len(versions[t])
      /\ versions'[q][v] = row
      /\ \A t \in Trip : \A u \in 1..Len(versions[t]) :
            t # q \/ u # v => versions'[t][u] = versions[t][u]
  BY <1>1, <1>c, <1>v, <1>row, RowEffect
<1>3. calls' = calls \ {c} /\ disturbed' = disturbed
  BY DEF WriteTotal, End
<1>4. \A t \in Trip : Len(versions[t]) \in Nat
  BY <1>c, LengthType DEF Latest
<1>5. Grows
  <2>1. ASSUME NEW t \in Trip, NEW u \in 1..Len(versions[t])
        PROVE  versions[t][u].items \subseteq versions'[t][u].items
    <3>1. CASE t = q /\ u = v
      BY <1>2, <1>row, <3>1
    <3>2. CASE ~(t = q /\ u = v)
      BY <1>2, <3>2
    <3>3. QED
      BY <3>1, <3>2
  <2>2. \A t \in Trip : Len(versions[t]) <= Len(versions'[t])
    BY <1>2, <1>4
  <2>3. QED
    BY <2>1, <2>2 DEF Grows
<1>6. Within'
  <2>1. ASSUME NEW t \in Trip, NEW u \in 1..Len(versions'[t])
        PROVE  /\ u \in 1..Len(versions[t])
               /\ \/ versions'[t][u].total = versions[t][u].total
                  \/ \E k \in calls : /\ k.next = "TOTAL"
                                      /\ k.trip = t /\ k.version = u
                                      /\ versions'[t][u].total = k.total
    <3>1. u \in 1..Len(versions[t])
      BY <1>2
    <3>2. CASE t = q /\ u = v
      BY <1>2, <1>c, <1>row, <3>1, <3>2
    <3>3. CASE ~(t = q /\ u = v)
      BY <1>2, <3>1, <3>3
    <3>4. QED
      BY <3>2, <3>3
  <2>2. \A k \in calls' : k \in calls
    BY <1>3
  <2>3. QED
    BY <1>5, <2>1, <2>2, WithinStep DEF Estimates, IInv
<1>7. ASSUME disturbed' = FALSE
      PROVE  /\ \A t \in Trip : \A u \in 1..Len(versions'[t]) :
                   versions'[t][u].total = Total(versions'[t][u].items)
             /\ \A k \in calls' : k.next = "TOTAL" =>
                   k.total = Total(versions'[k.trip][k.version].items)
  <2>1. disturbed = FALSE /\ calls = {c}
    BY <1>3, <1>7, OneCall
  <2>2. c.total = Total(old.items)
    BY <1>c, <2>1, Zenon DEF Estimates, Exact
  <2>3. ASSUME NEW t \in Trip, NEW u \in 1..Len(versions'[t])
        PROVE  versions'[t][u].total = Total(versions'[t][u].items)
    <3>1. CASE t = q /\ u = v
      BY <1>2, <1>row, <2>2, <3>1
    <3>2. CASE ~(t = q /\ u = v)
      <4>1. u \in 1..Len(versions[t]) /\ versions'[t][u] = versions[t][u]
        BY <1>2, <3>2
      <4>2. ~Summing(t, u)
        BY <2>1, <3>2 DEF Summing
      <4>3. versions[t][u].total = Total(versions[t][u].items)
        BY <2>1, <4>1, <4>2, Zenon DEF Estimates, Exact
      <4>4. QED
        BY <4>1, <4>3
    <3>3. QED
      BY <3>1, <3>2
  <2>4. QED
    BY <1>3, <2>1, <2>3
<1>8. Exact'
  BY <1>7 DEF Exact
<1>9. QED
  BY <1>6, <1>8 DEF Estimates

LEMMA InitEstimates == Init => Estimates
<1> SUFFICES ASSUME Init PROVE Estimates
  OBVIOUS
<1>1. calls = {} /\ \A t \in Trip : Len(versions[t]) = 0
  BY DEF Init
<1>2. QED
  BY <1>1 DEF Estimates, Within, Exact, EstimateWithinItems, Latest

LEMMA NextEstimates ==
    ASSUME IInv, SerialIInv, Estimates, IInv', disturbed \in BOOLEAN, [Next]_vars
    PROVE  Estimates'
<1>1. CASE UNCHANGED vars
  <2>1. UNCHANGED <<versions, calls, disturbed>>
    BY <1>1 DEF vars
  <2>2. QED
    BY <2>1, EstimatesQuiet DEF IInv
<1>2. ASSUME NEW t \in Trip, Create(t) PROVE Estimates'
  <2>1. UNCHANGED <<versions, calls, disturbed>>
    BY <1>2 DEF Create
  <2>2. QED
    BY <2>1, EstimatesQuiet DEF IInv
<1>3. QED
  BY <1>1, <1>2, ReadEstimates, QuietStepEstimates, AddEstimates, CreateEstimates,
     TotalEstimates, SignOffEstimates DEF Next

LEMMA EstimatesSuffice ==
    ASSUME Estimates, disturbed \in BOOLEAN
    PROVE  EstimatesHold
<1>1. ASSUME disturbed = FALSE, calls = {}, NEW t \in Trip, NEW u \in 1..Latest(t)
      PROVE  versions[t][u].total = Total(versions[t][u].items)
  <2>1. ~Summing(t, u)
    BY <1>1 DEF Summing
  <2>2. QED
    BY <1>1, <2>1, Zenon DEF Estimates, Exact, Latest
<1>2. EstimateIsSum
  BY <1>1 DEF EstimateIsSum
<1>3. QED
  BY <1>2 DEF Estimates, Within, EstimatesHold

\* An estimate is the sum of some of the items, however calls overlap and
\* fail, because a total that is written has been the sum of items that are
\* still there; and while calls neither overlap nor fail it is their sum, because
\* the call that adds items goes on to sum them and to write the result.
THEOREM EstimatesCorrect == Spec => []EstimatesHold
<1>1. Init => Estimates /\ SerialIInv
  BY InitEstimates, InitCalm
<1>2. IInv /\ SerialIInv /\ disturbed \in BOOLEAN /\ [Next]_vars => SerialIInv'
  BY NextCalm
<1>3. IInv /\ IInv' /\ SerialIInv /\ Estimates /\ disturbed \in BOOLEAN /\ [Next]_vars
        => Estimates'
  BY NextEstimates
<1>4. Estimates /\ disturbed \in BOOLEAN => EstimatesHold
  BY EstimatesSuffice
<1>5. QED
  BY <1>1, <1>2, <1>3, <1>4, SpecIInv, DisturbedType, PTL DEF Spec
=============================================================================
