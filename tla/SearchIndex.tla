---------------------------- MODULE SearchIndex -----------------------------
(***************************************************************************)
(* The search index of services and trips.  SearchService copies the rows  *)
(* into Typesense: all of them at startup and on request, every 20 seconds *)
(* those that changed since the last copy, whose time it notes when the    *)
(* copy ends and not when it read.  A row is its version; what has changed *)
(* since the noted time is a set.                                          *)
(***************************************************************************)
EXTENDS Naturals

CONSTANTS
    Row,            \* rows of services and trips
    MaxVersion,     \* bound: versions of a row
    Sync,           \* copies that may be in progress: the timer's, on request
    Idle

VARIABLES
    version,        \* version[r]: the row, 0 when it does not exist
    doc,            \* doc[r]: the version in the index, 0 when there is none
    changed,        \* rows whose time of change is after lastSync
    available,      \* "YES" when the search answers and the timer runs; it
                    \* is "STARTING" until the first copy ends
    syncing,        \* syncing[y]: what a copy has read and how far it is
    missed,         \* ghost: rows that changed while a copy was in progress
    deleted         \* ghost: rows that were deleted

indexVars == <<version, doc, changed, available, syncing, missed, deleted>>

-----------------------------------------------------------------------------
Init ==
    /\ version = [r \in Row |-> 0]
    /\ doc = [r \in Row |-> 0]
    /\ changed = {}
    /\ available = "STARTING"
    /\ syncing = [y \in Sync |-> Idle]
    /\ missed = {}
    /\ deleted = {}

Copying == \E y \in Sync : syncing[y] # Idle

\* A row is written by the component it belongs to.
Change(r) ==
    /\ r \notin deleted
    /\ version[r] < MaxVersion
    /\ version' = [version EXCEPT ![r] = @ + 1]
    /\ changed' = changed \cup {r}
    /\ missed' = IF Copying THEN missed \cup {r} ELSE missed \ {r}
    /\ UNCHANGED <<doc, available, syncing, deleted>>

\* Nothing tells the index.
DeleteRow(r) ==
    /\ version[r] # 0
    /\ version' = [version EXCEPT ![r] = 0]
    /\ changed' = changed \ {r}
    /\ deleted' = deleted \cup {r}
    /\ UNCHANGED <<doc, available, syncing, missed>>

\* syncAll reads every row: at startup, before the process takes requests,
\* and for staff's reindex.
ReadAll(y) ==
    /\ syncing[y] = Idle
    /\ available = "STARTING" => ~Copying
    /\ syncing' = [syncing EXCEPT ![y] =
           [rows |-> version, stage |-> "READ", first |-> available = "STARTING"]]
    /\ UNCHANGED <<version, doc, changed, available, missed, deleted>>

\* incrementalSync reads the rows that changed; the timer waits for no copy.
ReadChanged(y) ==
    /\ syncing[y] = Idle
    /\ available = "YES"
    /\ syncing' = [syncing EXCEPT ![y] =
           [rows  |-> [r \in Row |-> IF r \in changed THEN version[r] ELSE 0],
            stage |-> "READ", first |-> FALSE]]
    /\ UNCHANGED <<version, doc, changed, available, missed, deleted>>

\* importDocs upserts what was read.
ImportDocs(y) ==
    /\ syncing[y] # Idle
    /\ syncing[y].stage = "READ"
    /\ doc' = [r \in Row |-> IF syncing[y].rows[r] # 0 THEN syncing[y].rows[r] ELSE doc[r]]
    /\ syncing' = [syncing EXCEPT ![y].stage = "IMPORTED"]
    /\ UNCHANGED <<version, changed, available, missed, deleted>>

\* The copy ends: lastSync is now.  Only the first one makes the search
\* available.
NoteSync(y) ==
    /\ syncing[y] # Idle
    /\ syncing[y].stage = "IMPORTED"
    /\ changed' = {}
    /\ available' = IF syncing[y].first THEN "YES" ELSE available
    /\ syncing' = [syncing EXCEPT ![y] = Idle]
    /\ UNCHANGED <<version, doc, missed, deleted>>

\* Mutant: lastSync is noted although the copy failed.
BugSyncFails(y, got) ==
    /\ syncing[y] # Idle
    /\ available' = IF syncing[y].first THEN "NO" ELSE available
    /\ changed' = {}
    /\ syncing' = [syncing EXCEPT ![y] = Idle]
    /\ UNCHANGED <<version, doc, missed, deleted>>

\* Typesense refuses or cannot be reached, with the rows got already taken:
\* services go in before trips.  lastSync stays as it was, and a first copy
\* that fails leaves the search and the timer off until a restart.
SyncFails(y, got) ==
    /\ syncing[y] # Idle
    /\ syncing[y].stage = "READ"
    /\ doc' = [r \in Row |->
           IF r \in got /\ syncing[y].rows[r] # 0 THEN syncing[y].rows[r] ELSE doc[r]]
    /\ available' = IF syncing[y].first THEN "NO" ELSE available
    /\ syncing' = [syncing EXCEPT ![y] = Idle]
    /\ UNCHANGED <<version, changed, missed, deleted>>

\* The process starts again, with a time of zero and no copies.
Restart ==
    /\ available' = "STARTING"
    /\ changed' = {r \in Row : version[r] # 0}
    /\ syncing' = [y \in Sync |-> Idle]
    /\ missed' = {}
    /\ UNCHANGED <<version, doc, deleted>>

Next ==
    \/ \E r \in Row : Change(r)
    \/ \E r \in Row : DeleteRow(r)
    \/ \E y \in Sync : ReadAll(y)
    \/ \E y \in Sync : ReadChanged(y)
    \/ \E y \in Sync : ImportDocs(y)
    \/ \E y \in Sync : NoteSync(y)
    \/ \E y \in Sync, got \in SUBSET Row : SyncFails(y, got)
    \/ Restart

Spec == Init /\ [][Next]_indexVars

-----------------------------------------------------------------------------
TypeOK ==
    /\ version \in [Row -> 0..MaxVersion]
    /\ doc \in [Row -> 0..MaxVersion]
    /\ changed \cup missed \cup deleted \subseteq Row
    /\ available \in {"STARTING", "YES", "NO"}
    /\ syncing \in [Sync -> [rows : [Row -> 0..MaxVersion], stage : {"READ", "IMPORTED"},
                            first : BOOLEAN] \cup {Idle}]

\* A row that the next copy would not read is in the index as it is, unless
\* it last changed while a copy was in progress; and the index never holds a
\* version that the row has not had.
IndexCatchesUp ==
    \A r \in Row \ deleted :
        /\ r \notin changed \cup missed => doc[r] = version[r]
        /\ doc[r] <= version[r]
=============================================================================
