----------------------------- MODULE Catalogue ------------------------------
(***************************************************************************)
(* One service on offer, from the staff's routes, the partner's two sets   *)
(* of routes and the traveller's booking of it.  Every call checks what it *)
(* has read and writes later; staff may meanwhile give the service to      *)
(* another partner.                                                        *)
(***************************************************************************)
EXTENDS FiniteSets

CONSTANTS
    Caller,         \* calls that may be in progress
    Partner,        \* partners with services
    NoRow

VARIABLES
    service,        \* the row, or NoRow before it is created
    slots,          \* the service has slots of availability
    bookedFor,      \* the partners that its bookings name
    changing,       \* changing[c]: the call in progress, or NoRow
    archived,       \* ghost: it was archived, and no partner's route woke it
    tangled,        \* ghost: calls were in progress together
    handedOver      \* ghost: the service changed hands during a call

catalogueVars == <<service, slots, bookedFor, changing, archived, tangled, handedOver>>

-----------------------------------------------------------------------------
ServiceStatus == {"DRAFT", "ACTIVE", "PAUSED", "ARCHIVED"}

\* STATUS_TRANSITIONS
Transitions == [DRAFT    |-> {"ACTIVE", "ARCHIVED"},
                ACTIVE   |-> {"PAUSED", "ARCHIVED"},
                PAUSED   |-> {"ACTIVE", "ARCHIVED"},
                ARCHIVED |-> {}]

Init ==
    /\ service = NoRow
    /\ slots = FALSE
    /\ bookedFor = {}
    /\ changing = [c \in Caller |-> NoRow]
    /\ archived = FALSE
    /\ tangled = FALSE
    /\ handedOver = FALSE

-----------------------------------------------------------------------------
Present == service # NoRow /\ service.status # "DELETED"
Doing(c, op) == changing[c] # NoRow /\ changing[c].op = op

Begin(c, call) ==
    /\ Present
    /\ changing[c] = NoRow
    /\ tangled' = (tangled \/ \E d \in Caller : changing[d] # NoRow)
    /\ changing' = [changing EXCEPT ![c] = call]
    /\ UNCHANGED <<service, slots, bookedFor, archived, handedOver>>

End(c) ==
    /\ changing' = [changing EXCEPT ![c] = NoRow]
    /\ UNCHANGED <<tangled, handedOver>>

\* Staff's services start as drafts, a partner's as paused.
Insert(p, s) ==
    /\ service = NoRow
    /\ service' = [provider |-> p, status |-> s]
    /\ UNCHANGED <<slots, bookedFor, changing, archived, tangled, handedOver>>
CreateService(p) == Insert(p, "DRAFT")
Create(p) == Insert(p, "PAUSED")

\* The staff's routes: setStatus keeps to the table, remove archives, update
\* leaves the status alone.  The partner's members may use them for their own.
SetStatus(c, to) ==
    /\ Present
    /\ to \in Transitions[service.status]
    /\ Begin(c, [op |-> "STATUS", by |-> service.provider, to |-> to])

Remove(c) == Present /\ Begin(c, [op |-> "STATUS", by |-> service.provider, to |-> "ARCHIVED"])

\* The partner's routes: PATCH takes any status, publish wants a paused one,
\* activate looks at none.  All read the service as one of the partner's.
Patch(c, p, to) == Present /\ service.provider = p /\ Begin(c, [op |-> "PATCH", by |-> p, to |-> to])

Publish(c, p) ==
    /\ Present
    /\ service.provider = p
    /\ service.status = "PAUSED"
    /\ Begin(c, [op |-> "STATUS", by |-> p, to |-> "ACTIVE"])

ActivateService(c, p) ==
    Present /\ service.provider = p /\ Begin(c, [op |-> "PATCH", by |-> p, to |-> "ACTIVE"])

\* deactivate writes a status that the enumeration lacks: the write fails.
Deactivate(c, p) == Present /\ service.provider = p /\ Begin(c, [op |-> "FAIL", by |-> p])

WriteStatus(c) ==
    /\ Doing(c, "STATUS") \/ Doing(c, "PATCH")
    /\ Present
    /\ service' = [service EXCEPT !.status = changing[c].to]
    /\ archived' = (changing[c].to = "ARCHIVED" \/ (archived /\ changing[c].op = "STATUS"))
    /\ End(c)
    /\ UNCHANGED <<slots, bookedFor>>

\* A write that fails, a row that is gone, or a process that dies.
Fail(c) ==
    /\ changing[c] # NoRow
    /\ End(c)
    /\ UNCHANGED <<service, slots, bookedFor, archived>>

\* The partner's DELETE: bookings refer to the row and keep it, slots go.
Delete(c, p) == Present /\ service.provider = p /\ Begin(c, [op |-> "DELETE", by |-> p])

WriteDelete(c) ==
    /\ Doing(c, "DELETE")
    /\ Present
    /\ bookedFor = {}
    /\ service' = [service EXCEPT !.status = "DELETED"]
    /\ slots' = FALSE
    /\ archived' = FALSE
    /\ End(c)
    /\ UNCHANGED bookedFor

\* addSlot and deleteSlot.
Slot(c, p, add) == Present /\ service.provider = p /\ Begin(c, [op |-> "SLOT", by |-> p, add |-> add])

WriteSlot(c) ==
    /\ Doing(c, "SLOT")
    /\ Present
    /\ slots' = changing[c].add
    /\ End(c)
    /\ UNCHANGED <<service, bookedFor, archived>>

-----------------------------------------------------------------------------
\* Travellers see what is active, and book it; the customer's own route looks
\* at no status and books any service there is.  The booking names the
\* provider that was read.
Visible == Present /\ service.status = "ACTIVE"

Choose(c) == Visible /\ Begin(c, [op |-> "BOOK", by |-> service.provider])

ChooseAny(c) == Present /\ Begin(c, [op |-> "BOOK", by |-> service.provider])

InsertBooking(c) ==
    /\ Doing(c, "BOOK")
    /\ Present
    /\ bookedFor' = bookedFor \cup {changing[c].by}
    /\ End(c)
    /\ UNCHANGED <<service, slots, archived>>

\* assignService: staff give the service to a partner.
AssignService(p) ==
    /\ Present
    /\ p # service.provider
    /\ service' = [service EXCEPT !.provider = p]
    /\ handedOver' = (handedOver \/ bookedFor # {} \/ \E c \in Caller : changing[c] # NoRow)
    /\ UNCHANGED <<slots, bookedFor, changing, archived, tangled>>

Next ==
    \/ \E p \in Partner : CreateService(p) \/ Create(p)
    \/ \E c \in Caller, to \in ServiceStatus : SetStatus(c, to)
    \/ \E c \in Caller : Remove(c)
    \/ \E c \in Caller, p \in Partner, to \in ServiceStatus : Patch(c, p, to)
    \/ \E c \in Caller, p \in Partner : Publish(c, p)
    \/ \E c \in Caller, p \in Partner : ActivateService(c, p)
    \/ \E c \in Caller, p \in Partner : Deactivate(c, p)
    \/ \E c \in Caller : WriteStatus(c)
    \/ \E c \in Caller : Fail(c)
    \/ \E c \in Caller, p \in Partner : Delete(c, p)
    \/ \E c \in Caller : WriteDelete(c)
    \/ \E c \in Caller, p \in Partner, add \in BOOLEAN : Slot(c, p, add)
    \/ \E c \in Caller : WriteSlot(c)
    \/ \E c \in Caller : Choose(c)
    \/ \E c \in Caller : ChooseAny(c)
    \/ \E c \in Caller : InsertBooking(c)
    \/ \E p \in Partner : AssignService(p)

Spec == Init /\ [][Next]_catalogueVars

-----------------------------------------------------------------------------
TypeOK ==
    /\ service \in [provider : Partner, status : ServiceStatus \cup {"DELETED"}] \cup {NoRow}
    /\ {slots, archived, tangled, handedOver} \subseteq BOOLEAN
    /\ bookedFor \subseteq Partner
    /\ \A c \in Caller : changing[c] # NoRow => changing[c].by \in Partner

\* Until calls overlap, an archived service stays archived unless one of the
\* partner's routes that ignore the table wakes it; whatever overlaps, a
\* booked service is there, and unless it changed hands after it was booked
\* or while a call went on, its bookings and the calls on it are its
\* provider's.
OffersHold ==
    /\ archived /\ ~tangled => service.status = "ARCHIVED"
    /\ bookedFor # {} => Present
    /\ ~handedOver /\ Present =>
         /\ bookedFor \subseteq {service.provider}
         /\ \A c \in Caller : changing[c] # NoRow => changing[c].by = service.provider
=============================================================================
