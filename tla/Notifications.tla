--------------------------- MODULE Notifications ----------------------------
(***************************************************************************)
(* Events, the jobs that turn them into notifications, the rows those      *)
(* write, and the e-mail of a one-time code.  The queues are BullMQ's, in  *)
(* Redis: a job is handed out again when its processor throws, up to a     *)
(* number of attempts, and once when its worker dies.  Nothing consumes    *)
(* the queue of the events themselves.                                     *)
(***************************************************************************)
EXTENDS Naturals, FiniteSets

CONSTANTS
    Event,          \* calls of emit and of generate
    Channel,        \* push, email, sms
    MaxAttempts,    \* attempts of a job (3)
    MaxStalls,      \* times a job whose worker died is handed out again (1)
    MaxErrors       \* bound: failed inserts and died processes

VARIABLES
    payload,        \* payload[e]: what the processor makes of e's payload
    pending,        \* pending[e]: channels to which e has yet to be added
    job,            \* job[<<e, c>>]: the job of a channel
    rows,           \* rows[<<e, c>>]: notifications that were inserted
    inbox,          \* the state of a notification in its user's list
    errors          \* inserts failed and processes died so far

notifyVars == <<payload, pending, job, rows, inbox, errors>>

-----------------------------------------------------------------------------
Job == Event \X Channel
JobState == {"NONE", "WAITING", "ACTIVE", "INSERTED", "DONE", "FAILED"}
Ended == {"DONE", "FAILED"}

\* A payload names a user, or none, or is one from which the texts cannot be
\* made; "CODE" is the job that mails a one-time code.
EventPayload == {"USER", "NO_USER", "MALFORMED"}

TypeOK ==
    /\ payload \in [Event -> EventPayload \cup {"NONE", "CODE"}]
    /\ pending \in [Event -> SUBSET Channel]
    /\ job \in [Job -> [state : JobState, attempts : 0..MaxAttempts, stalls : 0..MaxStalls + 1]]
    /\ rows \in [Job -> 0..MaxAttempts + MaxStalls + 1]
    /\ inbox \in {"NONE", "QUEUED", "SENT", "READ"}
    /\ errors \in 0..MaxErrors

Init ==
    /\ payload = [e \in Event |-> "NONE"]
    /\ pending = [e \in Event |-> {}]
    /\ job = [j \in Job |-> [state |-> "NONE", attempts |-> 0, stalls |-> 0]]
    /\ rows = [j \in Job |-> 0]
    /\ inbox = "NONE"
    /\ errors = 0

-----------------------------------------------------------------------------
\* emit puts the event into its queue and then adds a job for each channel of
\* its type, one call of Redis each.
Emit(e, p, channels) ==
    /\ payload[e] = "NONE"
    /\ payload' = [payload EXCEPT ![e] = p]
    /\ pending' = [pending EXCEPT ![e] = channels]
    /\ UNCHANGED <<job, rows, inbox, errors>>

\* generate queues the e-mail of a code, or prints the code if it cannot.
QueueCode(e) ==
    /\ payload[e] = "NONE"
    /\ payload' = [payload EXCEPT ![e] = "CODE"]
    /\ pending' \in {[pending EXCEPT ![e] = {"email"}], pending}
    /\ UNCHANGED <<job, rows, inbox, errors>>

AddJob(e, c) ==
    /\ c \in pending[e]
    /\ pending' = [pending EXCEPT ![e] = @ \ {c}]
    /\ job' = [job EXCEPT ![<<e, c>>].state = "WAITING"]
    /\ UNCHANGED <<payload, rows, inbox, errors>>

\* The emitting process stops: the channels that are left get no job.
EmitDies(e) ==
    /\ pending[e] # {}
    /\ errors < MaxErrors
    /\ errors' = errors + 1
    /\ pending' = [pending EXCEPT ![e] = {}]
    /\ UNCHANGED <<payload, job, rows, inbox>>

\* BullMQ hands a waiting job to one of the worker's five slots.
Take(j) ==
    /\ job[j].state = "WAITING"
    /\ job' = [job EXCEPT ![j].state = "ACTIVE"]
    /\ UNCHANGED <<payload, pending, rows, inbox, errors>>

\* The mail worker: with a key and an answer the provider has the e-mail,
\* otherwise the code is printed.  It reports success in every case.
SendCode(j) ==
    /\ job[j].state = "ACTIVE"
    /\ payload[j[1]] = "CODE"
    /\ job' = [job EXCEPT ![j].state = "DONE"]
    /\ UNCHANGED <<payload, pending, rows, inbox, errors>>

AddRow(j) ==
    /\ rows' = [rows EXCEPT ![j] = @ + 1]
    /\ inbox' = IF inbox = "NONE" THEN "QUEUED" ELSE inbox

\* processNotification: nothing to do without a user, otherwise a row.
Insert(j) ==
    /\ job[j].state = "ACTIVE"
    /\ payload[j[1]] = "USER"
    /\ job' = [job EXCEPT ![j].state = "INSERTED"]
    /\ AddRow(j)
    /\ UNCHANGED <<payload, pending, errors>>

\* Mutant: the job is done before its row is written.
BugComplete(j) ==
    /\ job[j].state \in {"ACTIVE", "INSERTED"}
    /\ job' = [job EXCEPT ![j].state = "DONE"]
    /\ UNCHANGED <<payload, pending, rows, inbox, errors>>

Complete(j) ==
    /\ \/ job[j].state = "INSERTED"
       \/ job[j].state = "ACTIVE" /\ payload[j[1]] = "NO_USER"
    /\ job' = [job EXCEPT ![j].state = "DONE"]
    /\ UNCHANGED <<payload, pending, rows, inbox, errors>>

\* Mutant: a job that throws is put back without the attempt.
BugRetried(j) == [job[j] EXCEPT !.state = "WAITING"]

Retried(j) ==
    [job[j] EXCEPT !.attempts = @ + 1,
                   !.state = IF job[j].attempts + 1 < MaxAttempts THEN "WAITING" ELSE "FAILED"]

\* The processor throws: always, when the text for some type of event cannot
\* be made from the payload; or when the insert failed, or was done and its
\* answer was lost.
Throw(j) ==
    /\ job[j].state = "ACTIVE"
    /\ \/ payload[j[1]] = "MALFORMED" /\ UNCHANGED <<rows, inbox, errors>>
       \/ /\ payload[j[1]] = "USER"
          /\ errors < MaxErrors /\ errors' = errors + 1
          /\ \/ UNCHANGED <<rows, inbox>>
             \/ AddRow(j)
    /\ job' = [job EXCEPT ![j] = Retried(j)]
    /\ UNCHANGED <<payload, pending>>

\* The worker dies, before or after the insert: the job is found stalled.
Stall(j) ==
    /\ job[j].state \in {"ACTIVE", "INSERTED"}
    /\ errors < MaxErrors
    /\ errors' = errors + 1
    /\ job' = [job EXCEPT ![j].stalls = @ + 1,
                          ![j].state = IF job[j].stalls < MaxStalls THEN "WAITING" ELSE "FAILED"]
    /\ UNCHANGED <<payload, pending, rows, inbox>>

-----------------------------------------------------------------------------
\* The services that notify directly write a row that says SENT; so does the
\* worker of a channel, whose error is swallowed.  Its jobs name rows, and no
\* code of the repository adds one.
WriteSent ==
    /\ inbox \in {"NONE", "QUEUED"}
    /\ inbox' = "SENT"
    /\ UNCHANGED <<payload, pending, job, rows, errors>>

\* markRead and markAllRead, of travellers, partners and staff.
MarkRead ==
    /\ inbox \in {"QUEUED", "SENT"}
    /\ inbox' = "READ"
    /\ UNCHANGED <<payload, pending, job, rows, errors>>

Work(j) == Take(j) \/ Insert(j) \/ Complete(j) \/ Throw(j) \/ SendCode(j)

Next ==
    \/ \E e \in Event, p \in EventPayload, channels \in SUBSET Channel : Emit(e, p, channels)
    \/ \E e \in Event : QueueCode(e)
    \/ \E e \in Event, c \in Channel : AddJob(e, c)
    \/ \E e \in Event : EmitDies(e)
    \/ \E j \in Job : Work(j)
    \/ \E j \in Job : Stall(j)
    \/ WriteSent
    \/ MarkRead

\* A waiting job is handed out and a processor that does not die goes on:
\* the worker polls its queue as long as the process runs.
Fairness == \A j \in Job : WF_notifyVars(Work(j))

Spec == Init /\ [][Next]_notifyVars /\ Fairness

-----------------------------------------------------------------------------
\* A job is at-least-once: one that is done has told its user, a failed one
\* has used up its attempts or its worker died too often, and a user is told
\* again only when an attempt before threw or lost its worker.
ToldAtLeastOnce ==
    \A j \in Job :
        /\ job[j].state = "DONE" /\ payload[j[1]] = "USER" => rows[j] >= 1
        /\ job[j].state = "FAILED" => job[j].attempts = MaxAttempts \/ job[j].stalls > MaxStalls
        /\ rows[j] <= job[j].attempts + job[j].stalls
                         + (IF job[j].state \in {"INSERTED", "DONE"} THEN 1 ELSE 0)

\* Every job that was added comes to an end, however often it throws.
JobsEnd == \A j \in Job : job[j].state = "WAITING" ~> job[j].state \in Ended
=============================================================================
