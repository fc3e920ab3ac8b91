---------------------------- MODULE ConsolePages ----------------------------
(***************************************************************************)
(* The pages of the admin console and of the partner web (Own...): what    *)
(* each does with the rows of its list.  Console is the machine they share.*)
(***************************************************************************)
EXTENDS Naturals

\* What a page is, unless its record says otherwise.
\*   offers   <<s, t>>: a row shown in s has a button that moves it to t
\*   takes    <<s, t>>: the API moves a row from s to t
\*   vain     buttons the API refuses even if nothing has moved
\*   filters  a change of filter asks for the list again
\*   lags     the request is built before the change of filter is seen
\*   newest   a new request drops the one in flight for the same (react-query)
\*   drawer   what opening a row does: "stub" shows its id and then the
\*            answer, "answer" only the answer, "row" the row of the list
\*   buttons  where the buttons are
\*   after    what follows a button's call, in order
Plain ==
    [offers |-> {}, takes |-> {}, vain |-> {}, filters |-> TRUE, lags |-> FALSE,
     newest |-> FALSE, drawer |-> "none", buttons |-> {"list"}, after |-> <<"list">>]

\* Pages that only show; what they do beside it, with forms, is left out.
\* Analytics, finance, search, reviews and commissions are pages like
\* AnalyticsPage; the home page, the queues, the payments and the events are
\* pages like PaymentsPage.
AnalyticsPage == Plain
PaymentsPage == [Plain EXCEPT !.filters = FALSE]
AuditLogsPage == [Plain EXCEPT !.drawer = "row"]
MapPage == [Plain EXCEPT !.drawer = "stub"]
AgenciesPage == [Plain EXCEPT !.filters = FALSE, !.drawer = "stub"]

\* Pages whose every button is taken whatever the status.  Two statuses stand
\* for all those a page treats alike.
Free(S) == [Plain EXCEPT !.offers = {p \in S \X S : p[1] # p[2]}, !.takes = S \X S]

UserButtons == Free({"ACTIVE", "SUSPENDED"})
UsersPage == [UserButtons EXCEPT
                !.drawer = "answer", !.buttons = {"drawer"},
                !.after = <<"detail", "list">>]
TicketSelect == Free({"OPEN", "CLOSED"})
SupportPage == [TicketSelect EXCEPT
                  !.drawer = "answer", !.buttons = {"drawer"},
                  !.after = <<"patch", "list">>]
LockButton == Free({"ACTIVE", "SUSPENDED"})
StaffPage == [LockButton EXCEPT !.filters = FALSE]
PromosPage == [Free({"ON", "OFF"}) EXCEPT !.filters = FALSE]
FeatureFlagsPage == [Free({"ON", "OFF"}) EXCEPT !.filters = FALSE, !.after = <<"patch">>]
NotificationsPage == [Free({"UNREAD", "READ"}) EXCEPT
                        !.offers = {<<"UNREAD", "READ">>},
                        !.takes = {"UNREAD", "READ"} \X {"READ"}, !.after = <<"patch">>]
OnlineButton == Free({"ONLINE", "OFFLINE"})
DriversPage == [OnlineButton EXCEPT !.lags = TRUE]
ContentPage == [Free({"DRAFT", "PUBLISHED", "ARCHIVED"}) EXCEPT
                  !.offers = {<<"DRAFT", "PUBLISHED">>, <<"ARCHIVED", "PUBLISHED">>,
                              <<"PUBLISHED", "ARCHIVED">>}]
SettlementButtons == {<<"OPEN", "APPROVED">>, <<"OPEN", "PAID">>, <<"APPROVED", "PAID">>}
SettlementsPage == [Free({"OPEN", "APPROVED", "PAID"}) EXCEPT
                      !.offers = SettlementButtons, !.drawer = "row"]

\* Pages whose buttons follow a table of the API.
Moves(offered, taken) == [Plain EXCEPT !.offers = offered, !.takes = taken]

IncidentButtons ==
    {<<"OPEN", "IN_PROGRESS">>, <<"OPEN", "RESOLVED">>, <<"OPEN", "CLOSED">>,
     <<"IN_PROGRESS", "RESOLVED">>, <<"IN_PROGRESS", "CLOSED">>,
     <<"RESOLVED", "CLOSED">>, <<"RESOLVED", "IN_PROGRESS">>}
IncidentsPage == [Moves(IncidentButtons, IncidentButtons) EXCEPT
                    !.drawer = "row", !.buttons = {"drawer"}]
RefundButtons ==
    {<<"PENDING", "PROCESSING">>, <<"PENDING", "SUCCEEDED">>, <<"PENDING", "FAILED">>,
     <<"PROCESSING", "SUCCEEDED">>, <<"PROCESSING", "FAILED">>}
RefundsPage == [Moves(RefundButtons, RefundButtons) EXCEPT !.filters = FALSE]
SigningButtons == {<<"DRAFT", "SENT">>} \cup {"DRAFT", "SENT", "VIEWED"} \X {"CANCELLED"}
SigningPage ==
    Moves(SigningButtons,
          SigningButtons \cup {<<"SENT", "VIEWED">>, <<"VIEWED", "COMPLETED">>})
ThothPage ==
    LET table == {<<"PENDING", "APPROVED">>, <<"PENDING", "REJECTED">>}
    IN  [Moves(table, table) EXCEPT !.filters = FALSE]

\* The API sends the moves it allows with the row that is opened; some of
\* those of its tables.
StatePage(table) ==
    [Moves(table, table) EXCEPT
       !.filters = FALSE, !.drawer = "answer", !.buttons = {"drawer"},
       !.after = <<"detail", "list">>]
PaymentsStatePage ==
    StatePage({<<"CREATED", "AUTHORIZED">>, <<"AUTHORIZED", "CAPTURED">>,
               <<"AUTHORIZED", "VOIDED">>, <<"CAPTURED", "REFUND_PENDING">>,
               <<"REFUND_PENDING", "REFUNDED">>})
BookingsStatePage ==
    StatePage({<<"DRAFT", "PENDING_APPROVAL">>, <<"CONFIRMING", "CONFIRMED">>,
               <<"CONFIRMED", "DISPUTED">>, <<"CONFIRMED", "COMPLETED">>})

\* To suspend, the page asks for a status the enum lacks.
PartnerButtons == {<<"DRAFT", "ACTIVE">>, <<"ACTIVE", "EXPIRED">>}
PartnersPage ==
    [Moves(PartnerButtons, {<<"DRAFT", "ACTIVE">>}) EXCEPT
       !.vain = {<<"ACTIVE", "EXPIRED">>}, !.drawer = "answer"]

\* To deactivate, the page asks for INACTIVE, which is not in the table; an
\* archived service has a button to activate it.
ServiceButtons ==
    {<<"ACTIVE", "INACTIVE">>} \cup {"DRAFT", "PAUSED", "ARCHIVED"} \X {"ACTIVE"}
        \cup {"DRAFT", "PAUSED", "ACTIVE"} \X {"ARCHIVED"}
ServicesPage ==
    LET vain == {<<"ACTIVE", "INACTIVE">>, <<"ARCHIVED", "ACTIVE">>}
    IN  [Moves(ServiceButtons, (ServiceButtons \ vain) \cup {<<"ACTIVE", "PAUSED">>})
           EXCEPT !.vain = vain]

\* Only the traveler may ask for a review.
TripButtons == {<<"READY", "ACTIVE">>, <<"READY", "PLANNING">>, <<"PLANNING", "READY">>}
TripsPage ==
    [Moves(TripButtons, TripButtons) EXCEPT
           !.vain = {<<"PLANNING", "READY">>}, !.drawer = "answer", !.buttons = {"list", "drawer"},
           !.after = <<"list", "detail">>]

\* Only the traveler may cancel, and a booking that is CONFIRMING cannot be.
BookingButtons ==
    {<<"PENDING_APPROVAL", "PAYMENT_PENDING">>, <<"PENDING_APPROVAL", "REJECTED">>,
     <<"CONFIRMING", "CONFIRMED">>, <<"CONFIRMED", "COMPLETED">>}
BookingCancel ==
    {<<"PENDING_APPROVAL", "CANCELLED">>, <<"CONFIRMING", "CANCELLED">>,
     <<"CONFIRMED", "CANCEL_REQUESTED">>}
BookingsPage ==
    [Moves(BookingButtons \cup BookingCancel,
           BookingButtons \cup {<<"PAYMENT_PENDING", "CONFIRMING">>}
               \cup (BookingCancel \ {<<"CONFIRMING", "CANCELLED">>})) EXCEPT
       !.vain = BookingCancel, !.drawer = "stub", !.buttons = {"list", "drawer"},
       !.after = <<"list", "detail">>]

\* Pages of the partner web; those of rides, tickets, contracts, reviews, the
\* profile, documents and single bookings are like OwnSupportPage, the home
\* page is like OwnFinancePage.  The page of the bookings offers to approve and
\* to reject a DRAFT; the one of the services asks for INACTIVE.
Query(p) == [p EXCEPT !.filters = FALSE, !.newest = TRUE]
OwnBookingsPage ==
    LET draft == {<<"DRAFT", "PAYMENT_PENDING">>, <<"DRAFT", "REJECTED">>}
    IN  [Query(Moves(BookingButtons \cup draft,
                     BookingButtons \cup {<<"PAYMENT_PENDING", "CONFIRMING">>}))
           EXCEPT !.vain = draft]
OwnServiceButtons ==
    {"DRAFT", "PAUSED", "ARCHIVED"} \X {"ACTIVE"} \cup {<<"ACTIVE", "INACTIVE">>}
OwnServicesPage ==
    LET vain == {<<"ACTIVE", "INACTIVE">>}
    IN  [Query(Moves(OwnServiceButtons, OwnServiceButtons \ vain)) EXCEPT !.vain = vain]
OwnDriversPage ==
    LET free == Free({"ONLINE", "OFFLINE", "SUSPENDED"})
    IN  Query([free EXCEPT !.offers = @ \ {<<"SUSPENDED", "ONLINE">>}])
OwnVehicleButtons == Free({"ACTIVE", "MAINTENANCE"})
OwnVehiclesPage == Query(OwnVehicleButtons)
OwnTeamButtons == Free({"ACTIVE", "SUSPENDED"})
OwnTeamPage == Query(OwnTeamButtons)
OwnNotificationsPage == Query([NotificationsPage EXCEPT !.after = <<"list">>])
OwnSettlementsPage == [Query(Plain) EXCEPT !.drawer = "stub"]
OwnSupportPage == Query(Plain)
OwnFinancePage == [Plain EXCEPT !.newest = TRUE]
OwnSecurityPage == Query(Moves({<<"TRUSTED", "REVOKED">>}, {<<"TRUSTED", "REVOKED">>}))

\* Every kind of page.
AllPages ==
    {AnalyticsPage, PaymentsPage, AuditLogsPage, MapPage, AgenciesPage, UsersPage,
     SupportPage, StaffPage, PromosPage, FeatureFlagsPage, NotificationsPage,
     DriversPage, ContentPage, SettlementsPage, IncidentsPage, RefundsPage,
     SigningPage, ThothPage, PaymentsStatePage, BookingsStatePage, PartnersPage,
     ServicesPage, TripsPage, BookingsPage, OwnBookingsPage, OwnServicesPage,
     OwnDriversPage, OwnVehiclesPage, OwnTeamPage, OwnNotificationsPage,
     OwnSettlementsPage, OwnSupportPage, OwnFinancePage, OwnSecurityPage}
=============================================================================
