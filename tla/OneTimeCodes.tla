---------------------------- MODULE OneTimeCodes ----------------------------
(***************************************************************************)
(* One-time codes of one identifier.  OtpService keeps the code it last    *)
(* issued in Redis, or in the process's memory while Redis cannot be       *)
(* reached; the registration of travellers and the password reset keep     *)
(* theirs in rows of the database ("slips" here) that are marked as used.  *)
(* Codes are serial numbers: 0 is a guess that no issued code equals.      *)
(***************************************************************************)
EXTENDS Integers, FiniteSets

CONSTANTS
    Verifier,       \* calls that redeem a code and may be in progress
    Slip,           \* rows of otps and password_reset_tokens
    MaxAttempts,    \* wrong guesses that OtpService counts (5)
    MaxCodes,       \* bound: codes that OtpService issues
    MaxWrong,       \* bound: wrong guesses that are compared
    NoEntry

VARIABLES
    redis,          \* the entry under the identifier's key, or NoEntry
    memory,         \* the entry of the in-memory fallback, or NoEntry
    reachable,      \* Redis answers
    issued,         \* codes issued so far; the newest has this number
    verifying,      \* verifying[v]: what a call of verify has read, or NoEntry
    accepted,       \* accepted[c]: how often code c was accepted
    wrong,          \* wrong[c]: how often a guess was compared with c and differed
    slip,           \* slip[s]: kind and state of a row
    redeeming,      \* redeeming[v]: the slip whose check a call has passed
    redeemed,       \* redeemed[s]: how often the slip did what it is for
    disturbed       \* ghost: calls overlapped, or Redis was out of reach

otpVars == <<redis, memory, reachable, issued, verifying, accepted, wrong>>
slipVars == <<slip, redeeming, redeemed>>
codeVars == <<otpVars, slipVars, disturbed>>

-----------------------------------------------------------------------------
Code == 1..MaxCodes
Entry == [code : Code, attempts : 0..MaxAttempts]
SlipKind == {"VERIFY", "RESET"}

TypeOK ==
    /\ redis \in Entry \cup {NoEntry}
    /\ memory \in Entry \cup {NoEntry}
    /\ reachable \in BOOLEAN
    /\ issued \in 0..MaxCodes
    /\ verifying \in [Verifier -> [guess : 0..MaxCodes, entry : Entry] \cup {NoEntry}]
    /\ accepted \in [Code -> Nat]
    /\ wrong \in [Code -> 0..MaxWrong]
    /\ slip \in [Slip -> [kind : SlipKind, state : {"OPEN", "USED", "EXPIRED"}] \cup {NoEntry}]
    /\ redeeming \in [Verifier -> [slip : Slip, marked : BOOLEAN] \cup {NoEntry}]
    /\ redeemed \in [Slip -> Nat]
    /\ disturbed \in BOOLEAN

Init ==
    /\ redis = NoEntry
    /\ memory = NoEntry
    /\ reachable = TRUE
    /\ issued = 0
    /\ verifying = [v \in Verifier |-> NoEntry]
    /\ accepted = [c \in Code |-> 0]
    /\ wrong = [c \in Code |-> 0]
    /\ slip = [s \in Slip |-> NoEntry]
    /\ redeeming = [v \in Verifier |-> NoEntry]
    /\ redeemed = [s \in Slip |-> 0]
    /\ disturbed = FALSE

-----------------------------------------------------------------------------
\* A call is in progress besides the ones of W.
Busy(W) == \E v \in Verifier \ W : verifying[v] # NoEntry \/ redeeming[v] # NoEntry

\* generate: a new code takes the place of the last one, without attempts.
\* (The e-mail that carries it is a job of Notifications.)
Generate ==
    /\ issued < MaxCodes
    /\ issued' = issued + 1
    /\ LET entry == [code |-> issued', attempts |-> 0] IN
         IF reachable THEN redis' = entry /\ UNCHANGED memory
                      ELSE memory' = entry /\ UNCHANGED redis
    /\ disturbed' = (disturbed \/ Busy({}))
    /\ UNCHANGED <<reachable, verifying, accepted, wrong, slipVars>>

Accept(c) == accepted' = [accepted EXCEPT ![c] = @ + 1] /\ UNCHANGED wrong
Reject(c) == wrong[c] < MaxWrong /\ wrong' = [wrong EXCEPT ![c] = @ + 1] /\ UNCHANGED accepted

\* Mutant: the entry is written back without the attempt.
BugCounted(entry) == entry

\* One attempt more.
Counted(entry) == [entry EXCEPT !.attempts = @ + 1]

\* verifyFallback: not interrupted, it reads the process's own memory.
Fallback(guess) ==
    \/ /\ memory = NoEntry
       /\ UNCHANGED <<memory, accepted, wrong>>
    \/ /\ memory # NoEntry
       /\ memory.attempts >= MaxAttempts
       /\ memory' = NoEntry
       /\ UNCHANGED <<accepted, wrong>>
    \/ /\ memory # NoEntry
       /\ memory.attempts < MaxAttempts
       /\ IF memory.code = guess
          THEN memory' = NoEntry /\ Accept(guess)
          ELSE memory' = Counted(memory) /\ Reject(memory.code)

\* verify up to the entry it reads.  A missing key and an unreachable Redis
\* both lead to the fallback, in the same turn of the event loop.
Verify(v, guess) ==
    /\ verifying[v] = NoEntry
    /\ redeeming[v] = NoEntry
    /\ \/ /\ ~reachable \/ redis = NoEntry
          /\ Fallback(guess)
          /\ UNCHANGED verifying
       \/ /\ reachable
          /\ redis # NoEntry
          /\ verifying' = [verifying EXCEPT ![v] = [guess |-> guess, entry |-> redis]]
          /\ UNCHANGED <<memory, accepted, wrong>>
    /\ disturbed' = (disturbed \/ Busy({v}))
    /\ UNCHANGED <<redis, reachable, issued, slipVars>>

\* What verify does with the entry it has read: too many attempts delete the
\* key, a wrong guess writes the entry back with one attempt more (and gives
\* it 60 seconds if it had expired), a right one deletes it and is accepted.
Conclude(v) ==
    /\ verifying[v] # NoEntry
    /\ LET guess == verifying[v].guess
           entry == verifying[v].entry
       IN \/ /\ reachable
             /\ entry.attempts >= MaxAttempts
             /\ redis' = NoEntry
             /\ UNCHANGED <<memory, accepted, wrong>>
          \/ /\ reachable
             /\ entry.attempts < MaxAttempts
             /\ entry.code # guess
             /\ redis' = Counted(entry)
             /\ Reject(entry.code)
             /\ UNCHANGED memory
          \/ /\ reachable
             /\ entry.attempts < MaxAttempts
             /\ entry.code = guess
             /\ redis' = NoEntry
             /\ Accept(guess)
             /\ UNCHANGED memory
          \/ /\ ~reachable
             /\ Fallback(guess)
             /\ UNCHANGED redis
    /\ verifying' = [verifying EXCEPT ![v] = NoEntry]
    /\ UNCHANGED <<reachable, issued, slipVars, disturbed>>

\* Redis is lost and found again; it keeps its keys.
Outage ==
    /\ reachable' = ~reachable
    /\ disturbed' = TRUE
    /\ UNCHANGED <<redis, memory, issued, verifying, accepted, wrong, slipVars>>

\* The time to live of an entry ends.
Expire ==
    /\ \/ redis # NoEntry /\ redis' = NoEntry /\ UNCHANGED memory
       \/ memory # NoEntry /\ memory' = NoEntry /\ UNCHANGED redis
    /\ UNCHANGED <<reachable, issued, verifying, accepted, wrong, slipVars, disturbed>>

-----------------------------------------------------------------------------
\* register inserts a code that proves the address, forgot-password a token.
IssueSlip(s, kind) ==
    /\ slip[s] = NoEntry
    /\ slip' = [slip EXCEPT ![s] = [kind |-> kind, state |-> "OPEN"]]
    /\ UNCHANGED <<otpVars, redeeming, redeemed, disturbed>>

ExpireSlip(s) ==
    /\ slip[s] # NoEntry
    /\ slip[s].state = "OPEN"
    /\ slip' = [slip EXCEPT ![s].state = "EXPIRED"]
    /\ UNCHANGED <<otpVars, redeeming, redeemed, disturbed>>

\* verify-otp and reset-password find a slip that is neither used nor expired.
Present(v, s) ==
    /\ verifying[v] = NoEntry
    /\ redeeming[v] = NoEntry
    /\ slip[s] # NoEntry
    /\ slip[s].state = "OPEN"
    /\ redeeming' = [redeeming EXCEPT ![v] = [slip |-> s, marked |-> FALSE]]
    /\ disturbed' = (disturbed \/ Busy({v}))
    /\ UNCHANGED <<otpVars, slip, redeemed>>

Serve(v, s) ==
    /\ redeemed' = [redeemed EXCEPT ![s] = @ + 1]
    /\ redeeming' = [redeeming EXCEPT ![v] = NoEntry]

\* reset-password: the new password and the used mark in one transaction.
Reset(v) ==
    /\ redeeming[v] # NoEntry
    /\ LET s == redeeming[v].slip IN
         /\ slip[s].kind = "RESET"
         /\ slip' = [slip EXCEPT ![s].state = "USED"]
         /\ Serve(v, s)
    /\ UNCHANGED <<otpVars, disturbed>>

\* verify-otp: first the used mark, then the verified address and the token.
MarkUsed(v) ==
    /\ redeeming[v] # NoEntry
    /\ ~redeeming[v].marked
    /\ slip[redeeming[v].slip].kind = "VERIFY"
    /\ slip' = [slip EXCEPT ![redeeming[v].slip].state = "USED"]
    /\ redeeming' = [redeeming EXCEPT ![v].marked = TRUE]
    /\ UNCHANGED <<otpVars, redeemed, disturbed>>

SetVerified(v) ==
    /\ redeeming[v] # NoEntry
    /\ redeeming[v].marked
    /\ Serve(v, redeeming[v].slip)
    /\ UNCHANGED <<otpVars, slip, disturbed>>

\* The process restarts: its calls and its memory are gone.
Restart ==
    /\ memory' = NoEntry
    /\ verifying' = [v \in Verifier |-> NoEntry]
    /\ redeeming' = [v \in Verifier |-> NoEntry]
    /\ UNCHANGED <<redis, reachable, issued, accepted, wrong, slip, redeemed, disturbed>>

Next ==
    \/ Generate
    \/ \E v \in Verifier, guess \in 0..issued : Verify(v, guess)
    \/ \E v \in Verifier : Conclude(v)
    \/ Outage
    \/ Expire
    \/ \E s \in Slip, kind \in SlipKind : IssueSlip(s, kind)
    \/ \E s \in Slip : ExpireSlip(s)
    \/ \E v \in Verifier, s \in Slip : Present(v, s)
    \/ \E v \in Verifier : Reset(v)
    \/ \E v \in Verifier : MarkUsed(v)
    \/ \E v \in Verifier : SetVerified(v)
    \/ Restart

Spec == Init /\ [][Next]_codeVars

-----------------------------------------------------------------------------
\* Until calls overlap or Redis is lost, a code is accepted only while it is
\* the newest, and no code, token or address check serves twice; whatever
\* happens, what a slip did is preceded by its used mark.
UsedOnce ==
    /\ \A s \in Slip : redeemed[s] > 0 => slip[s].state = "USED"
    /\ ~disturbed => /\ \A c \in Code : accepted[c] <= 1
                     /\ \A s \in Slip : redeemed[s] <= 1
                     /\ \A e \in {redis} \ {NoEntry} : e.code = issued /\ accepted[e.code] = 0

\* Until calls overlap or Redis is lost, no more than MaxAttempts wrong
\* guesses are compared with a code: the counter that is read and written in
\* two calls of Redis then counts every one of them.
GuessesCounted ==
    ~disturbed => \A c \in Code : wrong[c] <= MaxAttempts
=============================================================================
