# KEMRAA in TLA+

KEMRAA is a travel platform: travellers plan trips, book services, ride with drivers and pay; partners
(providers and agencies) sell; staff approve, refund and settle; an assistant, THOTH, drafts plans. Its logic
is one NestJS API over PostgreSQL (`src/apps/api/src`) with two web clients of some size, the admin console
(`src/apps/admin`) and the partner web (`src/apps/partner-web`). This directory holds TLA+ modules of the API and of
the two clients, the TLC runs that check them on small instances, and theorems that TLAPS proves for every value
of the constants.

The repository states what it wants in `src/README.md:24-31`: PostgreSQL is the source of truth for money and
bookings, money is integer minor units, payment and booking mutations are idempotent, status changes go
through state machines only, THOTH acts behind an allow-list, a policy and an approval, permissions are
enforced by the server, and sensitive actions are audited. The modules ask how far the code keeps that when
calls overlap, fail half-way or are repeated.

## How the code runs, and how it is modelled

Every HTTP handler is a coroutine. What it does between two `await`s is atomic with respect to the other
handlers of the process, and there may be several processes; what orders the handlers is the database. A
Prisma query is one statement (with `include`, a few reads that we take as one), `$transaction` is a READ
COMMITTED transaction. Almost every handler has the same form:

    const row = await prisma.x.findUnique(...)        // read
    if (!TRANSITIONS[row.status].includes(target))    // check what was read
      throw new BadRequestException(...)
    await prisma.x.update({ where: { id }, ... })     // write, without looking again

The update names the row by its id alone, so what was checked may be stale when it is written. Each module
therefore has a set of *calls in progress*. The first action of an operation is the read with its checks
(a call that fails a check changes nothing and is no step); it puts a record of what was read into the set.
Later actions take the record through the remaining reads and writes; a transaction whose writes lock the row
first is one step. `Die` (`TransitionAbort`, `GiveUp`, `Crash`) removes a record: a time-out, a lost
connection, a failed insert, a killed process. What the call has written by then stays.

What the code promises to users that take turns is more than what is left when calls race. Both are checked of
the same behaviors: a ghost variable remembers that calls have overlapped (`overlapped` of `PaymentsState` and
`Bookings`, `raced` of `Onboarding`, per row) or have overlapped or stopped half-way (`disturbed` of `Trips`), and
the properties that only hold of users that take turns say "until then". `Refunds` and `Rides` are run with one
call at a time instead. The other modules have such ghosts too (`disturbed` in `OneTimeCodes`, `crossed` in
`Accounts`, `raced` in `Thoth`, `overlapped` in `Desk`, `tangled` and `handedOver` in `Catalogue`, `jammed` in `Fleet`,
`stepped` in `Portal`, `muddled` in `Console`). Ghosts only record: no guard reads them.

## Components

State is what a component keeps in the database unless noted; *hard* is what a test would hardly reach.
"(modelled)" names the module.

| Component | State and operations | Meets | Hard, and what makes it correct |
|---|---|---|---|
| Payment state service (`PaymentsState`) | `payments.status`, `payment_state_history`, `ledger_entries`; `transition` | every writer of payments | racing transitions; history legal and continuous, a ledger pair per posting, money in order |
| Refunds (`Refunds`) | `refunds`; `create`, `transition` | payments | sums read before inserts, two rows in one transaction; refunds within the payment, payment's status tells how much |
| Bookings, partner and customer booking controllers (`Bookings`) | `bookings.status`, `commission_entries`, `reviews`; create to review | payments, commissions | stale checks; paid once, confirmed only when paid, paid commissions stay |
| Booking state service (`Bookings`) | `bookings.status`, `booking_state_history`; `transition` | bookings | roles and table against stale reads; legal history |
| Commissions (`Bookings`, partly) | `commission_entries`; `markEligible`, `markPaid`; rules | bookings | marks racing the completion |
| Payment intake (`PaymentIntake`) | `payments`; Stripe intent and webhook, Fawry, customer intent | Stripe, bookings | redelivery, order, crash between capture and confirmation; nothing captured that was not charged, what was charged is confirmed in the end |
| Checkout (`Checkout`) | the three above over the same tables | | components overwrite each other's statuses |
| Rides and drivers (`Rides`) | `rides`, `ride_events`, `ride_incidents`, `drivers` | customer, driver, partner, admin | accept against cancel, incident in three writes; stages in order, one crew |
| Trips and itineraries (`Trips`) | `trips`, `itineraries`, `itinerary_items` | traveller, staff, THOTH | approval gate against new versions, estimates against items |
| THOTH gateway, policy, tools (`Thoth`) | tools with risk and gate, chats, actions; `chat`, `decide`, `simulate`, edits of the allow-list | trips, support | a tool disabled between check and use, two decisions on one action; what runs was allowed |
| Partner onboarding (`Onboarding`) | `organizations.status`, `partners.contract_status`, `kybs`, `signing_requests`; register, KYB, signing, activation by staff | partners, their owners, staff | signing writes three rows apart, staff two in the other order, cancel races sign; active only when signed, active as a whole, finished requests stay |
| One-time codes and slips (`OneTimeCodes`) | the entry in Redis, the entry in memory, `otps`, `password_reset_tokens` | logins | counter read and written apart, stale memory after an outage; a code serves once, wrong guesses are counted |
| Accounts, logins, second factor, staff (`Accounts`) | `users`, memberships, `user_mfa`, trusted devices, tokens given out | all | status and secret read before the token or the flag is written; tokens go to active users |
| Event bus, workers, queues (`Notifications`) | `event_logs`, `notifications`, BullMQ jobs | bookings, payments, codes | retried jobs, dying workers, a swallowed update; told at least once, every job ends |
| Support, incidents, content, settings (`Desk`) | one row of either kind | THOTH, rides | a reply against the admin's update, two writers of one JSON |
| Finance reports, commission entries (`Reports`) | sums over bookings, payments and entries | payments | boundaries of months, rounding, reports written apart; they agree |
| Settlements (`Settlements`) | `settlements`, six queries of totals | partners | payable whatever the status; totals read while rows move |
| Service catalogue (`Catalogue`) | `services.status`, availability, owner | bookings, partners | two sets of routes, one ignoring the table, staff moving a service |
| Search (`SearchIndex`) | Typesense documents, the time of the last copy | services, trips | rows that change while a copy is on its way |
| Vehicles (`Fleet`) | `vehicles`, `drivers.partner_id` | partners, drivers, staff | plate and driver checked, then written |
| Provider adapters, trip plans (`TripPlans`) | plans and bookings in memory, webhook rows | outside providers | a booking of several legs that partly fails |
| Partner team, referrals, webhooks (`Portal`) | members, links and counters, events | partners | who administers the team, counters under overlap, an event asked for twice |
| Guards, flags, filter, audit (`Requests`) | a request on its way, the flag, `audit_logs` | every handler | the flag switched under way; the log tells what was done |
| Pages of the clients (`Console`, `ConsolePages`) | filter, list, open row, calls in flight | the API's lists and transitions | answers out of order, stale rows, buttons the API refuses |
| Session of the clients (`WebSession`) | two cookies, calls in flight | logins | a refresh answered after logout |
| Promo codes, contract templates and PDFs, documents, reviews' moderation, profile, locations, health | single rows, reads, files | | see "Not modelled" |
| Payment providers, domain and money packages, other packages and clients, THOTH worker, schema, infra, e2e | not used by the API's handlers, or no logic of their own | | |

`PROJECT.json` lists the components with their files, what is modelled of each and why the others are not.

## Modules

| Module | Models | Extends or uses |
|---|---|---|
| `PaymentTable` | payment rows, `PAYMENT_TRANSITIONS`, `LEDGER_TRIGGERS` | |
| `PaymentsState` | `PaymentStateService.transition` | `PaymentTable`; implements `PaymentEscrow` |
| `PaymentEscrow` | abstract: where the money of a payment is | |
| `Refunds` | `RefundsService.create`, `.transition` | `PaymentTable` |
| `BookingTable` | booking rows, the two `BOOKING_TRANSITIONS`, `TRANSITION_ROLES` | `PaymentTable` |
| `Bookings` | every handler that moves a booking, commissions, reviews | `BookingTable`; implements `BookingDeal` |
| `BookingDeal` | abstract: a booking as a deal between traveller and provider | |
| `PaymentIntake` | Stripe, Fawry and customer intents; Stripe itself is external | `BookingTable` |
| `Checkout` | `Bookings`, `PaymentIntake` and `Refunds` over the same tables | extends `PaymentIntake` and `Refunds`, an instance of `Bookings` |
| `Rides` | customer, driver, partner and admin handlers of rides and drivers | |
| `Trips` | `TripsService`, the customer controller, THOTH's draft | |
| `Onboarding` | registration, KYB, `SigningService`, `PartnersService.setStatus` | |
| `OneTimeCodes`, `Accounts`, `Notifications`, `Thoth`, `Desk`, `Reports`, `Settlements`, `Catalogue`, `SearchIndex`, `Fleet`, `TripPlans`, `Portal`, `Requests`, `Console`, `WebSession` | the parts around them, see below | |
| `ConsolePages` | one record per page of the clients | used by `Console`'s instance |
| `Platform` | those fifteen parts together | instances of the fifteen |
| `PaymentsStateProofs`, `BookingsProofs`, `RidesProofs`, `TripsProofs`, `OnboardingProofs` | theorems of one module each | the module and `TLAPS` |
| `CheckoutProofs` | theorems of `Refunds`, `PaymentIntake` and `Checkout` | `Checkout`, `SumLemmas` |
| `PlatformProofs` | theorems of `Platform`, a section for each part | `Platform`, `SumLemmas` |
| `SumLemmas` | what sums over finite sets are, for `SumFunction` and `SumFunctionOnSet` | `Functions`, `TLAPS` |
| `MC…` | instances for TLC: amounts, symmetry, the constraint of `Platform` | |

### PaymentTable, PaymentsState, PaymentEscrow

A call of `POST admin/payments-state/:id/transition` is `TransitionRead` (the `findUnique` and the validations of
`payments-state.service.ts:60-90`), then `TransitionCommit` (update, history row, ledger pair, commit) or
`TransitionAbort`. `status`, `history` and `ledger` are the three tables; `calls` the transactions in progress. A
ledger row carries the position of its history row, which the database tells only by time. A partial refund posts
`refundAmountMinor ?? amountMinor`, checked strictly between zero and the amount. Two racing transitions both
commit: the second overwrites the first, and its history row claims to leave a status that was current when it was
read. So the history need not be a path; that it is a list of legal edges whose origins were all reached before,
with the status the target of the last, is what survives the race (`HistoryLegal`, `FromWasReached`,
`StatusIsLastRecorded`), and it suffices for `LedgerMatchesHistory` and `MoneyInOrder`. Until calls overlap, the
history is a path, no status jumps and the service implements `PaymentEscrow`: money is held before it is taken,
taken before it is returned, and settled or returned money stays. (`PaymentEscrow` has a variable `broken`, mapped
to `overlapped`, and a step `Break` that allows anything from then on, so that one run shows both.)

### Refunds

`create` is three database calls (`CreateLoad`, `CreateCheck`, `CreateInsert`), `transition` a read (`SettleLoad`)
and a transaction: `SettleOther` for PROCESSING and FAILED, `SettleSum` and `SettleCommit` for SUCCEEDED, in which
the succeeded refunds are summed under the lock of the refund's own row only. `history` and `ledger` are in the
state because the service does *not* write them. Amounts of refunds are any integers: nothing looks at the sign. A
refund of zero that succeeds makes its payment PARTIALLY_REFUNDED, and a negative one makes room for others, which stay
when it fails: refunds of -5 and then 8 of a payment of 3 pass one after the other. So `RefundsWithinPayment` counts
failed refunds of a negative amount with the live ones, and `StatusTellsRefunds` says that a payment is REFUNDED when it
has succeeded refunds that sum to its amount or more, and PARTIALLY_REFUNDED when it has some that sum to less. Both hold with
one clerk, and a settled refund is then final. With two clerks the bound fails (finding `refund_overdraw`).

### Bookings and BookingDeal

All handlers of `BookingsService`, the customer's `submit` and `cancel`, the partner's four, and the booking state
service read and check a booking (`Begin`, with the guard of each) and write later, in four kinds: the booking
alone (`UpdateBooking`), with a history row (`RecordBooking`), with a payment and a pending commission
(`PayBooking`), with the commissions that become eligible (`CompleteBooking`). The two services have different
tables (`ServiceTransitions`, `StateTransitions`); `DISPUTED` can be reached by one and left by the other.
`submitForApproval` of the service never succeeds, because nothing inserts booking items, so `Submit` is the
customer's. `computeCommission` swallows its errors inside the payment's transaction; after a failed statement
PostgreSQL aborts the transaction, which is `Die`. The rate in `bookings.service.ts` is fixed (1000 bps).
Whatever races, a booking that is confirmed, completed or in dispute has a payment or a history row by which staff
let it pass without one (`ConfirmedIsPaid`), and what the history records is legal. Until calls overlap, a booking
is paid once, reviewed only when completed, paid commissions stay paid and the handlers implement `BookingDeal`.

### PaymentIntake and Checkout

`createPaymentIntent` calls Stripe (`CreateIntent`) and then inserts (`InsertIntent`); the traveller pays with the
secret the insert returns (`Pay`); Stripe delivers the event, at least once, in any order, perhaps twice at a time
(`Deliver`), until a delivery is answered; the handler may die before, or its answer be lost (`Crash`). `handleWebhook` updates the payment
whatever its status (`WebhookPayment`) and then confirms the booking named in the metadata whatever its status
(`WebhookBooking`), with errors of that update swallowed (`Swallow`). Fawry is a check and two updates, made
by whoever calls `POST payments/fawry/confirm`: Fawry is not asked whether it took the money. `ChargedFirst` therefore
tells what Stripe took (`TakenByStripe`) from what a caller claimed (`ClaimedForFawry`), and says of the second only that it
confirms the booking of its own payment. The customer's `create-intent` inserts a payment under the provider's name
that the caller gives (`CreateManual`). The
`Checkout` module lets `Bookings`, `PaymentIntake` and `Refunds` act on the same tables, which is how they meet:
none calls another.

### Rides

`Accept` reads the driver, `AcceptRide` the ride, `AssignDriver` writes ride, driver and event in one transaction;
`Advance`/`WriteStage` are the four stages; `DriverCancel`/`ReturnToPool`; `CustomerCancel`/`Withdraw`;
`Report` files the incident, marks the ride and writes the event in three statements (`FileIncident`,
`MarkIncident`, `WriteNote`). `decline` writes an event that nothing reads, although its comment says it removes
the driver from consideration. A driver may go online while PENDING, although the message says "Must be APPROVED",
and while BUSY, which lets one take a second ride. Administrators and partners set a driver's status and judge the
verification without reading either; REJECTED is never written, a rejected driver stays ONLINE. Drivers exist
from the start. Fares, ratings, locations and reads are left out.

### Trips

`versions[t]` holds the itineraries of trip `t` with their items and estimate. `addItineraryItems` is five
statements (`AddItems`, `Plan`, `Find`, `AddToVersion` or `CreateVersion`, `Sum`, `WriteTotal`),
`replaceItinerary` four (`Replace`, `FindLast`, `CreateVersion`, `Sum`, `WriteTotal`); `requestApproval`,
`approve` and `reject` a read and a transaction (`SignOff`). The customer's `approve` takes a DRAFT to APPROVED,
from which no table leads on: the trip can never be planned, though the comment says it is marked ready for
planning. `replaceItinerary` leaves a DRAFT a DRAFT, which `requestApproval` then refuses. Estimates of items are
integers of either sign, as the API takes them; an itinerary's may therefore be ahead of the sum of its items until it is
recalculated, and what holds whatever overlaps is that it is the sum of some of them (`EstimateWithinItems`).

### Onboarding

`Activate`/`ActivateContract` are the two updates of `setStatus` (organization first), `SignRequest`, `SignPartner`,
`SignOrganization` the three of `completeSigning` (partner first); none is in a transaction. `Send`, `View` and
`Cancel` read and write once (`WriteRequest`), as do the two handlers of a KYB application (`WriteKYB`). A stopped
call leaves its partner in `split`. Signing requires neither that the request was sent nor that it was viewed.
`suspend` asks for the status `EXPIRED`, which `ContractStatus` lacks: it always fails, so a partner that is active
stays active, and that is why statuses agree however calls overlap. Nothing takes an application beyond SUBMITTED.

### Platform

The fifteen parts below keep their rows in tables of their own, and no step of one reads or writes a variable of
another, so their steps commute: any behavior of all of them together is, looked at one part, a behavior of that
part. `Platform` therefore lets one part run at a time (`part`, chosen initially); the others stay in an initial
state. This visits the sum of their state spaces instead of the product and keeps every variable of every part in
one specification. Where parts do meet in the code, one of them contains what it needs of the other: the e-mail
of a code is a job of `Notifications`, the booking of a service is in `Catalogue`, the ticket THOTH opens is in `Desk`.

- **`OneTimeCodes`**: `OtpService` keeps its code in Redis and falls back to the process's memory when Redis throws
  *or has no such key*. `Verify` reads the entry, `Conclude` writes the attempt back or deletes it. So guesses that
  cross count once, and a code left in memory by an outage is accepted later although a newer one was issued;
  both are why the properties hold "until calls overlap or Redis is lost". Rows of `otps` and reset tokens (*slips*)
  are marked as used before they serve.
- **`Accounts`**: every login reads the user, may trust the device, and issues a token of what it read (`Issue`);
  `SetStatus`, `SetRoles`, `RegenerateCode` and `MfaSetup` happen meanwhile. The five ways a user comes to be
  (`InsertTraveler`, `InsertDriver`, `InsertPartner`, `InsertStaff`, `InsertPortalUser`) differ in what they insert. Only the code's,
  the access code's and the refresh route look at the status, only the partners' own route at the second factor: the
  travellers' password login asks for no kind of account, so a partner gets a token there without the second factor, and the
  staff portal's and the drivers' ask for neither. `IssuedAndClosed` is about the routes that look. `setRoles` with two roles and more fails at the
  second insert, the membership being unique, and leaves the first. An old refresh token stays valid after a
  refresh, although `auth.service.ts:66` says otherwise, and `accessLogin`'s lock never triggers: a wrong code finds
  no user whose failures could be counted. `PartnerGuard` takes a role whatever the membership's status.
- **`Notifications`**: `Emit` writes the event and `AddJob` one job per channel, `Take`, `Insert`, `Complete`, `Throw` and
  `Stall` are a worker's life with a job; `WriteSent` may fail and be swallowed, after which the row stays QUEUED for
  ever. A payload without the user's id is a job that is done without telling anybody. `Throw` may leave its row: the insert
  commits and its answer is lost, and the next attempt inserts another. A user is told as often as the job was tried at most.
- **`Thoth`**: `Say` plans one tool by keywords, `Check` asks the policy, then `Execute`, `AskApproval` or the refusal. The
  context and the list of enabled tools are loaded and not used by the planner. `RunsAsAllowed` is about the gates that are in
  the code, when chats, edits of the list and decisions of staff cross: past them nothing runs, what was refused or waits
  for approval has written nothing, and what waits is on file. It does not say what the comment at
  `policy-engine.service.ts:60` says, see below. Approved actions are executed by nobody.
- **`Desk`**: a ticket's reply by staff reads the status and moves OPEN to IN_PROGRESS later, over a status set
  meanwhile; staff's own update goes from any status to any. An incident may be created CLOSED without a
  resolution. The settings are read, merged and written back whole.
- **`Reports`**: sums written apart, over the same rows, with amounts of either sign and any pair of a payment's and a
  booking's status, since a booking may fail after it was paid. `taxFiling` ends a month at the midnight with which its last day
  begins, so payments of that day are in no filing; `FiledOnce` says that no payment is filed in a month not its own and
  that those of the other days are filed, and leaves the last day open, see below. What `taxFiling` takes off for refunds is left out. `commissionPayout` includes REVERSED entries. A FAILED booking is
  in neither the earnings nor the cancellations. The dashboard's earnings ask for beneficiary type PROVIDER, which
  `computeCommission` never writes, so they are always empty; `agencyStats` asks for SETTLED, which the enum lacks.
- **`Settlements`**: created, approved and paid whatever the status (a paid one is approved again); `stats` is six
  queries (`Queries`), one after the other, that add up when nothing moved between them.
- **`Catalogue`**: the staff's `setStatus` follows the table; the partner's `PATCH` and `activate` do not, and wake an ARCHIVED
  service. The partner's `deactivate` in `partner-ops` writes INACTIVE, which the enum lacks: it always fails. Bookings come by
  two routes: one takes ACTIVE services only (`Choose`), the customer's takes any (`ChooseAny`).
- **`SearchIndex`**: a copy reads, imports, and notes the time at its end, so rows that change meanwhile are missed until
  they change again; deleted and paused services stay in the index; if the first copy fails, search stays off until
  a restart even after a successful one. Services and trips are imported one after the other, so a copy that fails may have
  imported some of its rows (`SyncFails`).
- **`Fleet`**: a partner's routes check plate and driver, then write. `plateRef` is not unique in the schema, so the
  driver's route waits for a P2002 that never comes, and staff's `assignDriver` leaves the vehicles behind.
- **`TripPlans`**: legs are booked one after another; a leg that fails or stays pending does not undo the others; a plan
  is CONFIRMED if every answer is, so one whose providers are all unknown is CONFIRMED with no leg. An adapter that throws,
  or says it failed, may have booked (`BookLeg` with `held`): of such a leg the plan knows nothing. Totals are the caller's
  numbers (`trip-plan.controller.ts:89-96`), compared with nothing, so no property is about them; they and the search for
  offers are left out. Plans are gone after a restart, bookings of the mocks too, an outside provider's are not.
- **`Portal`**: the routes that edit a member ask for an administrator first; one who acts on himself, or two who act on
  each other, can leave a partner without any. Counters are atomic increments; an event that exists is reused.
- **`Requests`**: roles, flag, handler, audit, answer. A missing role is answered with 401, on which the partner web
  signs its user out and the console tries to refresh. The filter reads the message: "already" becomes CONFLICT.
- **`Console`, `ConsolePages`**: all pages are one machine (ask, answer, press, follow) and a record that says what the
  page offers, what the API takes, and which buttons are in vain; pages that only show rows are represented by
  `AnalyticsPage`, `PaymentsPage`, `OwnSupportPage` and `OwnFinancePage`. A list of `useQuery` follows the newest question
  of its view only (`newest`); others show every answer. Seen on the way: the services page asks for INACTIVE and offers
  Activate on ARCHIVED; suspending a partner asks for EXPIRED; Cancel and Request review of bookings need the
  traveller; the partner web offers approve and reject on DRAFT, and takes errors answered with 200 for success. The
  drivers page lags one filter behind.
- **`WebSession`**: cookies, refresh and the calls that wait for it, for both clients. A call of a page, the question who the
  user is (`Load`, `Loaded`, `LoadFails`) and an attempt to sign in (`Call`, `SignedIn`) all go through the same interceptor
  (`Unauthorized`, `Refreshed`, `RefreshFails`). A refresh in flight at logout sets both cookies again; logout posts no
  refresh token, so the API revokes none; any failure of `me` drops the cookies.

## Runs

| Run | Instance | Shows |
|---|---|---|
| `payment_state` | 1 payment of 3, 2 staff, partial amounts 1 and 3 or none, `MaxHistory` 6 | under races and roll-backs: legal history that ends in the status (`HistoryHolds`), ledger pairs, money in order; until calls overlap: path, no jump, escrow |
| `refund_serial` | payments of 3 and of 0, 4 refunds of -1, 0, 1 or 3, 1 clerk | refunds within the payment, status tells refunds, settled refunds final |
| `refund_overdraw` (violation) | 1 payment, 3 refunds, 2 clerks | two creations overlap and overdraw |
| `bookings` | 1 booking, 2 payments, 2 calls at a time, roles SUPPORT and ADMIN, 1 history row | under races: nothing confirmed unpaid, legal history; until calls overlap: paid once, reviewed when completed, paid commissions stay, the deal |
| `bookings_twice` (violation) | 1 booking, 2 payments, 2 calls | two payments of one booking captured |
| `intake_fair` | 2 bookings, 2 payments, 1 delivery at a time, 1 failure, `Swallow = FALSE` | nothing but a claim for Fawry captured that Stripe did not take, no booking confirmed without either; what Stripe took confirms its booking in the end |
| `checkout_money` | 1 booking, 1 payment of 2, 1 call of each component, 2 refunds of -1, 1 or 2 | no confirmation without a payment that was taken, claimed or submitted, refunds within the payment, although statuses overwrite each other |
| `checkout_redelivered` (violation) | the same with one refund and no booking calls | a refunded payment is CAPTURED again |
| `rides_serial` | 1 ride, 2 drivers, 1 call, 5 events | stages in order, one crew, a driver exactly while there should be one, final statuses stay |
| `trips_gate` | 1 trip, 2 items that cost 1 and -1, 2 details, 2 versions, 2 calls | the approval gate under races; the newest version, frozen details and exact estimates until disturbed |
| `onboarding` | 1 partner, 2 requests, 2 contents of an application, 2 calls | active only when signed, active as a whole; finished requests and submitted applications stay until raced |
| `platform` | the fifteen parts, one at a time: 2 calls, 1 row of each kind (2 vehicles, 2 sales, 2 members), every page | one property per concern, named after the part's: codes, accounts, tokens and closed rows, notifications (safety and that jobs end), tools, books, offers, assets, plans, clients |

Why these bounds. A handler names one row, so what two handlers do to each other shows on one payment, booking,
ride, trip or partner; a second one is there where rows are summed (refunds), matched (events and bookings) or
chosen (drivers, requests). Every stale write needs two calls in progress; a third would only repeat the role of
one of them. Six history rows take a payment from CREATED to its settlement or partial refund with a racing row
to spare; one history row and two payments let a booking go through every handler, because only
`BookingStateService` and the partner's handlers write rows, and `MaxRows` 2 was also run once (1.95 million
states, no violation). Amounts of 3 with refunds of 1 and 3 have one whole refund, one in
parts, and an overdraft; refunds of 0 and -1, and a payment of 0, have what the checks do not look at: a status without money
returned, and room that a negative refund makes. Two versions and two items tell the newest itinerary from an
older one and an empty one from a full one. The bounds cut a prefix only: at a bound an action is disabled, and
everything that needs fewer rows is explored.

The runs state few properties each; `HistoryHolds` (`PaymentsState`), `EstimatesHold` (`Trips`) and `MoneyAccounted`
(`Checkout`) are conjunctions of named parts, and so are the properties of `Platform`, each of which begins with the
part it is about and, where the part has one, with its `TypeOK`. The `TypeOK` of `PaymentsState`, `Bookings`, `Rides`,
`Trips`, `Onboarding` and `Refunds` is proved, and so are those of the parts of `Platform` that have a theorem below.

`Platform` has 540 thousand distinct states and takes two to three minutes with two workers. Its bounds are those
above, part by part: two calls in progress; codes 1 and 2 with one wrong guess allowed, so that the limit is
reached; three attempts, one stall and three errors of a job, so that a job can fail for good either way, and a throw leave
its row; months
of two days, so that both boundaries of a month are days of payments; three versions of a row and two copies in
progress; an amount of which the commission is not whole, of either sign (35 and -35). `MaxAsks` and `MaxMoves` bound how often a page asks and how
often a row is moved by others. The constraint `Ahead` follows states one step and no further after calls of
`Accounts`, `Portal` and `Console` have crossed, because their properties promise nothing from there on, and looks at
codes or slips, links or webhooks, which share nothing. It never cuts a state of `Notifications`, so the liveness
property is checked of the whole graph.

## Fairness

Two modules state fairness. `PaymentIntake`, for `ChargeConfirmsBooking`: Stripe redelivers an event that was not
answered (its documented contract; `payments.service.ts` relies on it by answering last), which is weak fairness of
the delivery of each event; and a handler that does not die goes on, weak fairness of the next step of each
delivery. Nothing is assumed about the traveller paying, about clients retrying, or about any other handler.
`MaxFailures` bounds crashes, so that they do not happen for ever; `Swallow = FALSE` excludes that the booking's
update fails and is ignored, after which the code indeed never confirms the booking.

`Notifications`, for `JobsEnd`: the workers of BullMQ poll as long as the process runs, which is weak fairness of the
next step on each job (`Work`). A job ends because its attempts and stalls are bounded by the queue's options, not
by an assumption that it succeeds; it may throw each time.

All other modules state safety only: no handler waits for another and nothing polls, so `CHECK_DEADLOCK FALSE` is
right for them: when every id is used and every status final, the system has nothing left to do.

## Proofs

The theorems hold for any number of rows, calls in progress, amounts and bounds. Their assumptions are the
named ones of the modules: amounts are integers (`AmountAssumption`), refunds too (`RefundInputAssumption`), of either
sign, partial amounts integers or absent (`InputAssumption`), `NoBooking`, `NoRide`, `NoDriver`, `NoPartner` and `NoAmount` are no ids, roles are staff
roles, estimates integers and items finitely many (`TripsAssumption`), refunds finitely many (`RefundAssumption`: sums
over infinitely many rows mean nothing). TLC evaluates all of them. What only some theorems need is a hypothesis of
those: `OneWorker` (three theorems of `Rides`) and `OneClerk` (refunds) say that calls of the component do not
overlap, as in the runs `rides_serial`, `refund_serial` and `checkout_money`; `NoAdmins` that staff do not move
bookings by hand, as in `checkout_money`; and the theorems of `PlatformProofs` have `…Bounds` (limits and numbers are
natural), `…Distinct` (the mark for none, `Nil`, is no row, call, or value), `…Finite` (what is summed is finite),
`ThothTopics` (a topic is one that THOTH has keywords for) and `ConsoleFit` (the record of a page has the fields' values, and the
page asks again or patches after a call; it says nothing of what the API takes). The constants of every run satisfy them.

- **`PaymentsStateProofs`**: `TypeCorrect`, `HistoryCorrect`, `LedgerCorrect`, `MoneyOrderCorrect`, from an
  inductive invariant that adds to the properties what a call in progress knows: its edge is in the table and its
  origin had been reached when it was read (`CallsLegal`). That is stable, because reached statuses stay reached;
  it is what a stale write needs. For `NoStatusJumpCorrect` and `EscrowCorrect` a second invariant (`Fresh`) says
  that while no calls have overlapped, the one call in progress has read the current status.
- **`BookingsProofs`**: `TypeCorrect`, `RecordedCorrect`, `PaidCorrect`. The invariant says of each call what its
  check established for good: that its step is legal for its role (`LegalCall`) and, if it writes a status that
  needs a payment, that its booking is covered by one or was let pass (`PaidCall`, `Covered`), and that payments
  and commission entries come in pairs (`MarksEntry`). Payments stay linked, so a stale call is still covered.
  `PaidOnceCorrect`, `ReviewedCorrect`, `PaidStaysCorrect` and the refinement `DealCorrect` with a second invariant
  (`Turns`): until calls overlap there is one call, its booking is as it was read, and its step is an edge of the
  state machine, so a booking that has been charged is past APPROVED and one with a review stays COMPLETED.
- **`RidesProofs`**: `TypeCorrect`, `StagesCorrect`: a status its driver acts on has its event
  (`StatusReached`), and so has what each call follows (`CallsReached`); events are never removed.
  `CrewedCorrect`, `OneCrewCorrect` and `FinalStaysCorrect` for one call at a time, with `SInv`: the ride is as the call
  has read it (`Current`), and the driver on the row recorded the event that brought the ride into its status, with
  no cancel since (`InHands`). With two calls all three fail: a ride accepted twice changes hands.
- **`TripsProofs`**: `TypeCorrect` and `GateCorrect` under any overlap: calls that propose or approve name a version that
  exists and has items, and items never leave a version (`CallOK`, with `Shape` for the types it needs). `NewestCorrect`
  and `FrozenCorrect` with the invariant `SerialIInv`: while nothing is disturbed there is at most one call, and it
  still finds what it has read (`Calm`). `EstimatesCorrect`: items are only added, so what a call has summed is still
  there, whatever overlaps, and its sum one of some of the items; and while nothing is disturbed the sum of the one call is that of the version it
  is going to write, so between calls the estimate is exact.
- **`OnboardingProofs`**: `TypeCorrect`, `ActiveIsSignedCorrect`, `ActivationCorrect` under any overlap: a
  signature that is past its first update has its request signed, past its second an active partner
  (`SigningReached`); an activation has an active organization (`ActivatingReached`); nothing takes that back.
  `FinalStaysCorrect` and `SubmittedIsFrozenCorrect` with `FreshIInv`: on a row where no calls overlapped, the one
  call still finds what its check has found.

- **`CheckoutProofs`**. *Refunds* (`RefundsStayWithin`, `StatusTells`, `SettledIsFinal`): with one clerk there is one call, a
  creation that has been checked still fits (`ChecksHold`), and a transition's refund may still be moved, to a sum that
  is still right (`SettlesRight`); the bound then follows from what a sum over refunds becomes when one is added or
  moved. *Intake* (`ChargedBeforeConfirmed`): an event of success, and a delivery that captures, exist only of an intent
  that succeeded (`EventsTrue`), a payment without a row has no booking yet and one call at most that will insert it
  (`RowsMissing`), and a Fawry confirmation is of a Fawry payment (`FawryTrue`). *Checkout* (`MoneyIsAccounted`): both invariants survive the
  steps of the other two components, because none removes a payment's row, unlinks it, or touches a refund that is
  not its own; each call of `Bookings` in progress that will write a status that needs a payment has found one. The bound on
  refunds rests on the refunds' rows, so that a redelivered event that overwrites the status does not break it.
- **`PlatformProofs`**: of each step of `Platform` at most one part knows (`OnePart`), so each section has an inductive
  invariant of one part and a theorem about `Platform`.
  `ToldAtLeastOnceCorrect`: a job has at most one row for each attempt that threw and each death of its worker, and one more
  once it is past its insert (`NotificationsRowsOf`), its attempts are used up exactly when it has failed, and a channel still to be added has no job.
  `OffersHoldCorrect`: until calls overlap there is one, and a call that would move an archived service elsewhere cannot be
  there, because it was checked against the status the service still has; a copy in progress holds of each row that
  did not change meanwhile what the row still is (`IndexCopied`).
  `AsProvenAndAskedCorrect`, `IssuedAndClosedCorrect`: what the one call in progress has read still holds: the secret is
  proven, the user active, the roles assigned so far and the ones left make up what was asked, the ticket is as read.
  `ToolsHoldCorrect`: a chat that is about to run a tool nobody changed since may run it, a row was written by the one chat that
  ran its tool, a chat that filed an action has it on file, and an action
  that is being decided was found pending and, until decisions race, still is. `CodesHoldCorrect`: while nothing is disturbed
  the memory is not used, and the entry, as stored and as read by the one call, is the newest code's and counts every
  wrong guess (`CodesCurrent`). `BooksAgreeCorrect`: each report sums
  over a partition of the same rows (`SumByClass`), and an entry has its rule. `AssetsHoldCorrect`: what a check of plate and
  driver found still holds while the one call goes on; while a member is edited there is an administrator
  beside him. `PlansMatchBookingsCorrect`: until its call is cut off a trip has answers of exactly the legs behind it that were asked for
  and whose provider is known (`PlansBooked`), the adapters hold what those that are answered as booked say (`PlansHeld`), and
  what is stored is what came of the trip (`PlansStored`).
  `ClientsHoldCorrect`: of the requests for a list, or for a row, the newest is for the filter or the row that is chosen
  (`ConsoleAsked`) and carries the row's status, unless a call has moved the row and still has to ask or patch
  (`ConsoleOwnMove`), for which at most one request is awaited (`ConsoleAwaited`); a call was offered by the status it was pressed at
  (`ConsoleCalled`). After a logout that found nothing in flight only attempts to sign in are in flight (`WebFlying`), which renew nothing; a request is past the guards it
  has passed, and an entry of the log is of one that ran (`RequestStaged`).
- **`SumLemmas`**: the sums of the models are `SumFunctionOnSet` of the community modules, a fold defined by a recursive
  function on subsets. That a set has such a function, and one only, is shown by induction on its size with
  least counterexamples (`LeastSet`), because the library's induction theorems take an operator that the provers
  cannot instantiate; from it follow what a sum becomes when an element is added (`SumAdd`), that it only
  depends on the values (`SumSame`), grows with its set (`SumOfPart`), splits over disjoint sets and over classes
  (`SumUnion`, `SumByClass`).

Only model-checked: liveness (`ChargeConfirmsBooking`, `JobsEnd`), which the provers do not support with fairness.

## What fails when calls race, and other observations

Three runs are findings, each a line of the repository that the code does not keep:

- `refund_overdraw`: two clerks create refunds of one payment at a time; both sums are read before either insert,
  and the refunds exceed the payment, which "Refund exceeds remaining amount" was to refuse.
- `bookings_twice`: two payments of one booking are submitted before either moves it to CONFIRMING; both are
  captured (`ChargedOnce`), against "idempotent payment and booking mutations" (`README.md:26`).
- `checkout_redelivered`: Stripe delivers `payment_intent.succeeded` again after the payment was refunded, and the
  refunded payment is CAPTURED again.

Also seen while modelling. No run expects these, the properties are stated so that they hold with them, and the
modules show them.

Comments the code does not keep:

- "HIGH/CRITICAL always require approval (unless super admin)" (`thoth/policy-engine.service.ts:60`): a HIGH tool whose
  `requiresApproval` staff have set to false runs without.
- "last day" (`payments/payments.service.ts:255`): the range of the tax filing ends when the last day begins, so what is paid
  on it is filed in no month.
- "Cannot cancel signed contract" (`signing/signing.service.ts:201`): a request that is cancelled while it is signed ends
  CANCELLED with an active partner.
- An old refresh token stays valid after a refresh, although `auth/auth.service.ts:66` says otherwise.

Numbers that are taken from the client as they come:

- refunds of zero and below (`refunds/refunds.controller.ts:26`), see `Refunds`;
- estimates of items below zero (`trips/dto/trips.dto.ts:30`), see `Trips`;
- the total of a customer's booking (`customer/customer-bookings.controller.ts:61`) and the prices of a plan's legs
  (`adapters/trip-plan.controller.ts:89-96`): a plan may cost less than what its providers ask.

Entries without a check that others have:

- `POST payments/fawry/confirm` captures a payment on the caller's word (`payments/payments.controller.ts:31-35`);
- the customers' password login looks at no kind of account (`customer/customer-auth.controller.ts:91-114`), so a partner with a
  second factor enabled gets a token without it; the staff portal's login looks at neither status nor second factor;
- the customer's route books services that are not ACTIVE (`customer/customer-bookings.controller.ts:46`), and the
  partner's routes wake ARCHIVED ones.

Steps that fail or cross:

- a ride accepted while its customer cancels it is revived; a ride can be accepted twice;
- `payment_failed` of an earlier attempt that arrives after `succeeded` turns a captured payment FAILED;
- a booking that was paid and then FAILED keeps its captured payment and its commission entry
  (`bookings/bookings.service.ts:128-144`); one that the partner completes leaves its commissions PENDING;
- items can be added to an itinerary that was proposed meanwhile, and its estimate stays behind them;
- an insert of a notification whose answer is lost is made again, and the user reads it twice
  (`events/event-bus.service.ts:130`); the workers of `notification.workers.ts` swallow the error of their update, after which
  a notification stays QUEUED;
- an adapter that throws after it has booked leaves a booking that no plan mentions (`adapters/trip-plan.controller.ts:117`);
- a failed sign-in of the console is answered with 401 and passes the interceptor that refreshes: with a live refresh cookie
  both cookies are renewed while nobody is signed in (`apps/admin/src/lib/api.ts:32-38`, `:347`);
- the console's bookings page cancels from the list with the row that was opened before, not the one of the button;
- suspending a partner always fails (`partners/partners.controller.ts:42` asks for `EXPIRED`).

## Not modelled

Left out of the modules above: reads and lists, texts, notifications that handlers send, audit rows, times except
the expiry of a signing request, and currencies (every amount of an instance is in one).

Not modelled, because nothing can go wrong between two steps: rows that one statement writes and one reads (promo
codes, which no handler applies or counts; profiles; contract templates, document rows;
moderation of reviews; edits of commission rules and agencies' percentages, from which nothing is
computed; LOCATION_UPDATE events), reads (analytics beyond the sums in `Reports`, health, locations, lists), PDFs and
templates, wiring (configuration, Prisma, Redis), the mobile clients and the scaffolds under `apps` and
`packages`, and the payment providers and domain tables that no handler uses. Of the web clients, forms, totals,
sorting, the chat page and the map are left out.

Four hazards have no property (`PROJECT.json` says why for each): that a swallowed error of the booking's update leaves a
charged booking unconfirmed for ever; that a failed statement inside `computeCommission` rolls the payment back; that a late
`payment_failed` turns a captured payment FAILED; that a BUSY driver who goes online again takes a second ride. The
code does each of them, so a property could only restate it.

Of others a property covers one side only, and the hazard's note says which: where the code lets a later write win, the property is
of calls that do not overlap (a ghost, one clerk or one worker), and the race itself is what the code does. What holds in the
race as well has a property of its own wherever there is such a thing (`HistoryHolds`, `ConfirmedIsPaid`, `RecordedLegally`,
`StagesInOrder`, `ActiveIsApproved`, `EstimateWithinItems`, `ActiveIsSigned`).

## What could follow

All components with state of more than one step have a module. What is left is depth:
- `Rides` with two rides and overlapping calls, with a ghost for the overlap as in `Bookings`;
- a composition of `Thoth` with `Trips` and `Desk`, whose rows its tools write, and of `Notifications` with the emitters;
- the race of logout with a token's own expiry over several browsers.

Theorems: `OneCrew`, `CrewedRide` and `FinalStays` of `Rides` until calls overlap, with that ghost in place of
`OneWorker`.
