------------------------------- MODULE Portal -------------------------------
(***************************************************************************)
(* What a partner runs of its own beside its business: the members of its  *)
(* team, a referral link with its counters, and the events it emits for    *)
(* its webhooks, which are to be emitted once each.                        *)
(***************************************************************************)
EXTENDS Naturals, FiniteSets

CONSTANTS
    Call,           \* calls that may be in progress
    Member,         \* users who may be members of the team
    EventId,        \* identifiers of webhook events
    MaxTracked,     \* bound: referral events
    Nil

VARIABLES
    team,           \* team[u]: the membership of u, or Nil
    link,           \* the referral link, or Nil
    tracked,        \* tracked[t]: referral events of type t
    emitted,        \* emitted[e]: the row of a webhook event
    fresh,          \* ghost: fresh[e]: calls that were told they emitted e
    busy,           \* busy[c]: what a call has checked and is about to write
    stepped         \* ghost: an administrator acted on himself, while suspended,
                    \* or while another call on the team was in progress

portalVars == <<team, link, tracked, emitted, fresh, busy, stepped>>

-----------------------------------------------------------------------------
TeamRole == {"PARTNER_ADMIN", "PARTNER_STAFF", "PARTNER_USER"}
MemberStatus == {"ACTIVE", "SUSPENDED"}
MemberFields == [role : TeamRole] \cup [status : MemberStatus] \cup [role : TeamRole, status : MemberStatus]
TrackedType == {"CLICK", "BOOKING"}

Admin(u) == team[u] # Nil /\ team[u] = [role |-> "PARTNER_ADMIN", status |-> "ACTIVE"]

\* The guard takes the role of the membership, whatever its status.
IsAdmin(u) == team[u] # Nil /\ team[u].role = "PARTNER_ADMIN"

\* Registration of the partner makes the first administrator.
Init ==
    /\ \E u \in Member : team = [m \in Member |-> IF m = u THEN [role |-> "PARTNER_ADMIN", status |-> "ACTIVE"] ELSE Nil]
    /\ link = Nil
    /\ tracked = [t \in TrackedType |-> 0]
    /\ emitted = [e \in EventId |-> "NONE"]
    /\ fresh = [e \in EventId |-> 0]
    /\ busy = [c \in Call |-> Nil]
    /\ stepped = FALSE

Doing(c, op) == busy[c] # Nil /\ busy[c].op = op
Begin(c, call) == busy[c] = Nil /\ busy' = [busy EXCEPT ![c] = call]
End(c) == busy' = [busy EXCEPT ![c] = Nil]

\* A call dies between its check and its write.
CallDies(c) ==
    /\ busy[c] # Nil
    /\ End(c)
    /\ UNCHANGED <<team, link, tracked, emitted, fresh, stepped>>

-----------------------------------------------------------------------------
\* The team's routes let administrators pass: create takes an address that
\* is free, and inserts user and membership in one transaction.
CreateMember(a, u, role) ==
    /\ IsAdmin(a)
    /\ team[u] = Nil
    /\ team' = [team EXCEPT ![u] = [role |-> role, status |-> "ACTIVE"]]
    /\ UNCHANGED <<link, tracked, emitted, fresh, busy, stepped>>

\* update sets role or status of any member; remove suspends any but oneself.
BeginEdit(c, a, u, fields) ==
    /\ IsAdmin(a)
    /\ team[u] # Nil
    /\ Begin(c, [op |-> "TEAM", member |-> u, fields |-> fields])
    /\ stepped' = (stepped \/ a = u \/ ~Admin(a) \/ \E d \in Call : Doing(d, "TEAM"))
    /\ UNCHANGED <<team, link, tracked, emitted, fresh>>

UpdateMember(c, a, u, fields) == BeginEdit(c, a, u, fields)
RemoveMember(c, a, u) == a # u /\ BeginEdit(c, a, u, [status |-> "SUSPENDED"])

WriteMember(c) ==
    /\ Doing(c, "TEAM")
    /\ LET fields == busy[c].fields IN
         team' = [team EXCEPT ![busy[c].member] =
                    [f \in DOMAIN @ |-> IF f \in DOMAIN fields THEN fields[f] ELSE @[f]]]
    /\ End(c)
    /\ UNCHANGED <<link, tracked, emitted, fresh, stepped>>

-----------------------------------------------------------------------------
\* The code of a link is drawn until nobody has it.
CreateLink ==
    /\ link = Nil
    /\ link' = [active |-> TRUE, expired |-> FALSE, clicks |-> 0, converts |-> 0]
    /\ UNCHANGED <<team, tracked, emitted, fresh, busy, stepped>>

ExpireLink ==
    /\ link # Nil
    /\ ~link.expired
    /\ link' = [link EXCEPT !.expired = TRUE]
    /\ UNCHANGED <<team, tracked, emitted, fresh, busy, stepped>>

Deactivate ==
    /\ link # Nil
    /\ link' = [link EXCEPT !.active = FALSE]
    /\ UNCHANGED <<team, tracked, emitted, fresh, busy, stepped>>

\* track finds the link usable, then counts and records in one transaction.
Track(c, t) ==
    /\ link # Nil
    /\ link.active /\ ~link.expired
    /\ Begin(c, [op |-> "TRACK", type |-> t])
    /\ UNCHANGED <<team, link, tracked, emitted, fresh, stepped>>

Count(c) ==
    /\ Doing(c, "TRACK")
    /\ tracked["CLICK"] + tracked["BOOKING"] < MaxTracked
    /\ LET t == busy[c].type IN
         /\ tracked' = [tracked EXCEPT ![t] = @ + 1]
         /\ link' = [link EXCEPT !.clicks = @ + IF t = "CLICK" THEN 1 ELSE 0,
                                 !.converts = @ + IF t = "BOOKING" THEN 1 ELSE 0]
    /\ End(c)
    /\ UNCHANGED <<team, emitted, fresh, stepped>>

\* stats: conversions in hundredths of a per cent.
ConversionRate(l) == IF l.clicks > 0 THEN (l.converts * 20000 + l.clicks) \div (2 * l.clicks) ELSE 0

-----------------------------------------------------------------------------
\* emit: an event whose identifier is known is not emitted again.
EmitEvent(c, e) ==
    /\ emitted[e] = "NONE"
    /\ Begin(c, [op |-> "EMIT", event |-> e])
    /\ UNCHANGED <<team, link, tracked, emitted, fresh, stepped>>

\* The identifier is unique: the insert of the second call fails.
InsertEvent(c) ==
    /\ Doing(c, "EMIT")
    /\ emitted[busy[c].event] = "NONE"
    /\ emitted' = [emitted EXCEPT ![busy[c].event] = "STORED"]
    /\ busy' = [busy EXCEPT ![c].op = "DELIVER"]
    /\ UNCHANGED <<team, link, tracked, fresh, stepped>>

\* The delivery is simulated: the row is marked as processed.
Deliver(c) ==
    /\ Doing(c, "DELIVER")
    /\ LET e == busy[c].event IN
         /\ emitted' = [emitted EXCEPT ![e] = "PROCESSED"]
         /\ fresh' = [fresh EXCEPT ![e] = @ + 1]
    /\ End(c)
    /\ UNCHANGED <<team, link, tracked, stepped>>

\* ack: the partner itself marks an event.
Ack(e) ==
    /\ emitted[e] # "NONE"
    /\ emitted' = [emitted EXCEPT ![e] = "PROCESSED"]
    /\ UNCHANGED <<team, link, tracked, fresh, busy, stepped>>

Next ==
    \/ \E c \in Call : CallDies(c)
    \/ \E a, u \in Member, role \in TeamRole : CreateMember(a, u, role)
    \/ \E c \in Call, a, u \in Member, fields \in MemberFields : UpdateMember(c, a, u, fields)
    \/ \E c \in Call, a, u \in Member : RemoveMember(c, a, u)
    \/ \E c \in Call : WriteMember(c)
    \/ CreateLink
    \/ ExpireLink
    \/ Deactivate
    \/ \E c \in Call, t \in TrackedType : Track(c, t)
    \/ \E c \in Call : Count(c)
    \/ \E c \in Call, e \in EventId : EmitEvent(c, e)
    \/ \E c \in Call : InsertEvent(c)
    \/ \E c \in Call : Deliver(c)
    \/ \E e \in EventId : Ack(e)

Spec == Init /\ [][Next]_portalVars

-----------------------------------------------------------------------------
TypeOK ==
    /\ team \in [Member -> [role : TeamRole, status : {"ACTIVE", "SUSPENDED"}] \cup {Nil}]
    /\ link # Nil => link.clicks + link.converts \in 0..MaxTracked
    /\ tracked \in [TrackedType -> 0..MaxTracked]
    /\ emitted \in [EventId -> {"NONE", "STORED", "PROCESSED"}]
    /\ DOMAIN busy = Call
    /\ stepped \in BOOLEAN

\* Until an administrator acts on himself, while suspended, or while another
\* does, a partner has an active administrator; a link's counters are the
\* events it recorded, however many calls track at once; and an event is
\* emitted once, however many calls ask for it.
PortalHolds ==
    /\ ~stepped => \E u \in Member : Admin(u)
    /\ link # Nil => link.clicks = tracked["CLICK"] /\ link.converts = tracked["BOOKING"]
    /\ \A e \in EventId : fresh[e] <= 1 /\ (fresh[e] = 1 => emitted[e] = "PROCESSED")
=============================================================================
