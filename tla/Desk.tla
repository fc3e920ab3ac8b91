-------------------------------- MODULE Desk --------------------------------
(***************************************************************************)
(* The rows the back office works on: a support ticket, an incident, an    *)
(* item of content, the settings.  Rows do not depend on one another, so   *)
(* the module follows one, of any of these kinds.  Calls read it and write *)
(* later; staff's update of a ticket is one unconditional statement.       *)
(***************************************************************************)
EXTENDS FiniteSets

CONSTANTS
    Clerk,          \* calls that may be in progress
    Key,            \* keys of the settings
    Nobody

VARIABLES
    row,            \* the row, or Nobody before it exists
    doing,          \* doing[c]: what call c read and is about to write, or Nobody
    answered,       \* ghost: keys of the settings that a call was told it saved
    overlapped      \* ghost: calls were in progress together, or died halfway

deskVars == <<row, doing, answered, overlapped>>

-----------------------------------------------------------------------------
TicketStatus == {"OPEN", "IN_PROGRESS", "WAITING", "RESOLVED", "CLOSED"}
IncidentStatus == {"OPEN", "IN_PROGRESS", "RESOLVED", "CLOSED"}
ContentStatus == {"DRAFT", "PUBLISHED", "ARCHIVED"}

\* transitions of updateStatus
Transitions == [OPEN        |-> {"IN_PROGRESS", "RESOLVED", "CLOSED"},
                IN_PROGRESS |-> {"RESOLVED", "CLOSED"},
                RESOLVED    |-> {"CLOSED", "IN_PROGRESS"},
                CLOSED      |-> {}]

\* A row: mark says that a ticket was answered by its customer after it was
\* closed, that an incident has a resolution, that content has a date of
\* publication; moved, that an incident went through updateStatus.
NewRow(k, s, m) == [kind |-> k, status |-> s, mark |-> m, moved |-> FALSE, keys |-> {}]

TypeOK ==
    /\ row # Nobody =>
         /\ row.kind \in {"TICKET", "INCIDENT", "CONTENT", "SETTINGS", "DELETED"}
         /\ row.status \in TicketStatus \cup IncidentStatus \cup ContentStatus \cup {"NONE"}
         /\ {row.mark, row.moved} \subseteq BOOLEAN
         /\ row.keys \subseteq Key
    /\ DOMAIN doing = Clerk
    /\ answered \subseteq Key
    /\ overlapped \in BOOLEAN

Init ==
    /\ row = Nobody
    /\ doing = [c \in Clerk |-> Nobody]
    /\ answered = {}
    /\ overlapped = FALSE

-----------------------------------------------------------------------------
Is(k) == row # Nobody /\ row.kind = k
Doing(c, op) == doing[c] # Nobody /\ doing[c].op = op
Overlap == overlapped' = (overlapped \/ \E c \in Clerk : doing[c] # Nobody)

Begin(c, call) ==
    /\ doing[c] = Nobody
    /\ doing' = [doing EXCEPT ![c] = call]
    /\ Overlap
    /\ UNCHANGED <<row, answered>>

End(c) == doing' = [doing EXCEPT ![c] = Nobody] /\ UNCHANGED overlapped

\* A call dies, or its statement fails because the row was deleted.
Die(c) ==
    /\ doing[c] # Nobody
    /\ doing' = [doing EXCEPT ![c] = Nobody]
    /\ overlapped' = TRUE
    /\ UNCHANGED <<row, answered>>

Insert(r) ==
    /\ row = Nobody
    /\ row' = r
    /\ UNCHANGED <<doing, answered, overlapped>>

-----------------------------------------------------------------------------
\* Travellers, partners and THOTH open tickets.
CreateTicket == Insert(NewRow("TICKET", "OPEN", FALSE))

\* addReply by staff: the status read first decides whether the ticket moves.
StaffReply(c) == Is("TICKET") /\ Begin(c, [op |-> "STAFF_REPLY", status |-> row.status])

InsertStaffReply(c) ==
    /\ Doing(c, "STAFF_REPLY")
    /\ IF doing[c].status = "OPEN"
       THEN doing' = [doing EXCEPT ![c] = [op |-> "MOVE_ON"]] /\ UNCHANGED overlapped
       ELSE End(c)
    /\ UNCHANGED <<row, answered>>

MoveOn(c) ==
    /\ Doing(c, "MOVE_ON")
    /\ row' = [row EXCEPT !.status = "IN_PROGRESS"]
    /\ End(c)
    /\ UNCHANGED answered

\* The customer application refuses a reply to a closed ticket.  The other
\* two routes, of the web client and of partners, take a reply at any time.
CustomerReply(c) == Is("TICKET") /\ row.status # "CLOSED" /\ Begin(c, [op |-> "REPLY", careful |-> TRUE])
OtherReply(c) == Is("TICKET") /\ Begin(c, [op |-> "REPLY", careful |-> FALSE])

InsertReply(c) ==
    /\ Doing(c, "REPLY")
    /\ row' = [row EXCEPT !.mark = @ \/ (doing[c].careful /\ row.status = "CLOSED")]
    /\ End(c)
    /\ UNCHANGED answered

\* adminUpdate writes what it is sent: from any status to any status.
AdminUpdate(to) ==
    /\ Is("TICKET")
    /\ row' = [row EXCEPT !.status = to]
    /\ Overlap
    /\ UNCHANGED <<doing, answered>>

-----------------------------------------------------------------------------
\* create takes the status from the caller, without a resolution.
CreateIncident(s) == Insert(NewRow("INCIDENT", s, FALSE))

UpdateStatus(c, to, resolution) ==
    /\ Is("INCIDENT")
    /\ to \in Transitions[row.status]
    /\ to \in {"RESOLVED", "CLOSED"} => resolution
    /\ Begin(c, [op |-> "INCIDENT", to |-> to, mark |-> resolution \/ row.mark])

WriteStatus(c) ==
    /\ Doing(c, "INCIDENT")
    /\ row' = [row EXCEPT !.status = doing[c].to, !.mark = doing[c].mark, !.moved = TRUE]
    /\ End(c)
    /\ UNCHANGED answered

-----------------------------------------------------------------------------
CreateContent(s) == Insert(NewRow("CONTENT", s, s = "PUBLISHED"))

\* updateContent: publishing what was not published sets the date, leaving
\* the published state clears it, anything else keeps it.
UpdateContent(c, to) ==
    /\ Is("CONTENT")
    /\ Begin(c, [op |-> "CONTENT", to |-> to,
                 date |-> IF to # "PUBLISHED" THEN "CLEAR"
                          ELSE IF row.status # "PUBLISHED" THEN "SET" ELSE "KEEP"])

WriteContent(c) ==
    /\ Doing(c, "CONTENT")
    /\ Is("CONTENT")
    /\ row' = [row EXCEPT !.status = doing[c].to,
                          !.mark = CASE doing[c].date = "SET" -> TRUE
                                     [] doing[c].date = "CLEAR" -> FALSE
                                     [] OTHER -> @]
    /\ End(c)
    /\ UNCHANGED answered

DeleteContent ==
    /\ Is("CONTENT")
    /\ row' = NewRow("DELETED", "NONE", FALSE)
    /\ Overlap
    /\ UNCHANGED <<doing, answered>>

-----------------------------------------------------------------------------
\* The settings are one row of JSON; without one, get answers with no keys.
EmptySettings == Insert(NewRow("SETTINGS", "NONE", FALSE))

\* update reads all keys, merges its own, and writes them all back.
UpdateSettings(c, k) == Is("SETTINGS") /\ Begin(c, [op |-> "SETTINGS", key |-> k, keys |-> row.keys \cup {k}])

WriteSettings(c) ==
    /\ Doing(c, "SETTINGS")
    /\ row' = [row EXCEPT !.keys = doing[c].keys]
    /\ answered' = answered \cup {doing[c].key}
    /\ End(c)

Next ==
    \/ CreateTicket
    \/ \E c \in Clerk : StaffReply(c)
    \/ \E c \in Clerk : InsertStaffReply(c)
    \/ \E c \in Clerk : MoveOn(c)
    \/ \E c \in Clerk : CustomerReply(c)
    \/ \E c \in Clerk : OtherReply(c)
    \/ \E c \in Clerk : InsertReply(c)
    \/ \E to \in TicketStatus : AdminUpdate(to)
    \/ \E s \in IncidentStatus : CreateIncident(s)
    \/ \E c \in Clerk, to \in IncidentStatus, resolution \in BOOLEAN : UpdateStatus(c, to, resolution)
    \/ \E c \in Clerk : WriteStatus(c)
    \/ \E s \in ContentStatus : CreateContent(s)
    \/ \E c \in Clerk, to \in ContentStatus : UpdateContent(c, to)
    \/ \E c \in Clerk : WriteContent(c)
    \/ DeleteContent
    \/ EmptySettings
    \/ \E c \in Clerk, k \in Key : UpdateSettings(c, k)
    \/ \E c \in Clerk : WriteSettings(c)
    \/ \E c \in Clerk : Die(c)

Spec == Init /\ [][Next]_deskVars

-----------------------------------------------------------------------------
\* Until calls overlap or die: no customer has answered a closed ticket, an
\* incident that was moved to RESOLVED or CLOSED has a resolution, exactly
\* published content has a date of publication, and every key of the
\* settings that was saved is still there.
NothingUndone ==
    row # Nobody /\ ~overlapped =>
        /\ row.kind = "TICKET" => ~row.mark
        /\ row.kind = "INCIDENT" /\ row.moved /\ row.status \in {"RESOLVED", "CLOSED"} => row.mark
        /\ row.kind = "CONTENT" => (row.mark <=> row.status = "PUBLISHED")
        /\ row.kind = "SETTINGS" => answered \subseteq row.keys

\* Until calls overlap or die, a closed incident stays closed, and a closed
\* ticket is opened again by staff's own update only, never by a reply.
ClosedStays ==
    [][row # Nobody /\ row.status = "CLOSED" /\ ~overlapped' =>
         row'.status = "CLOSED" \/ (row.kind = "TICKET" /\ UNCHANGED doing)]_deskVars
=============================================================================
