---------------------------- MODULE WebSession ----------------------------
(***************************************************************************)
(* The session of a browser in the admin console or in the partner web:    *)
(* the two cookies, what an expired token does to the calls in flight, and *)
(* what signs the user out.  The partner web never refreshes a token.      *)
(*                                                                         *)
(* Going to /login by location.href unloads the page and its calls; the    *)
(* router's own moves, and logout in the console, leave them running.      *)
(***************************************************************************)
EXTENDS FiniteSets

CONSTANTS
    Tab,            \* calls of the page that may be in flight (a bound)
    Idle

VARIABLES
    web,            \* "admin" or "partner"
    access,         \* the cookie access_token: "none", "live", or "dead" once
                    \* the API answers it with 401
    refresh,        \* the cookie refresh_token
    user,           \* the page has a user
    flight,         \* flight[t]: the call in flight, or Idle
    loggedOut,      \* ghost: the user pressed logout and did not sign in since
    lateAnswer      \* ghost: and a refresh was in flight then

sessionVars == <<web, access, refresh, user, flight, loggedOut, lateAnswer>>

-----------------------------------------------------------------------------
Token == {"none", "live", "dead"}
NoFlight == [t \in Tab |-> Idle]
Step(t, s) == flight[t] # Idle /\ flight[t].step = s

Init ==
    /\ web \in {"admin", "partner"}
    /\ access = "none" /\ refresh = "none"
    /\ user = FALSE
    /\ flight = NoFlight
    /\ loggedOut = FALSE
    /\ lateAnswer = FALSE

\* What is in flight: a call of a page with a user, the question who the user
\* is, or an attempt to sign in.
Sent(for) == [for |-> for, step |-> "SENT", token |-> access, again |-> FALSE]
Ends(t) == flight' = [flight EXCEPT ![t] = Idle]

\* The page loads: without an access token there is no user, with one it asks
\* who that is.
Load(t) ==
    /\ user' = FALSE
    /\ flight' = IF access = "none" THEN NoFlight ELSE [NoFlight EXCEPT ![t] = Sent("ME")]
    /\ UNCHANGED <<web, access, refresh, loggedOut, lateAnswer>>

\* The answer is there: the page has a user.
Loaded(t) ==
    /\ Step(t, "SENT") /\ flight[t].for = "ME" /\ flight[t].token = "live"
    /\ user' = TRUE
    /\ Ends(t)
    /\ UNCHANGED <<web, access, refresh, loggedOut, lateAnswer>>

\* A failure of any kind drops the cookies.
LoadFails(t) ==
    /\ Step(t, "SENT") /\ flight[t].for = "ME"
    /\ access' = "none" /\ refresh' = "none"
    /\ Ends(t)
    /\ UNCHANGED <<web, user, loggedOut, lateAnswer>>

\* A token runs out, and so does its cookie.
Expire ==
    /\ \/ access' \in {"dead", "none"} /\ access # "none" /\ UNCHANGED refresh
       \/ refresh' \in {"dead", "none"} /\ refresh # "none" /\ UNCHANGED access
    /\ UNCHANGED <<web, user, flight, loggedOut, lateAnswer>>

\* The page calls the API with the token the cookie holds; the login page
\* sends what was typed, one attempt at a time.
Call(t) ==
    /\ flight[t] = Idle
    /\ \/ user /\ flight' = [flight EXCEPT ![t] = Sent("CALL")]
       \/ /\ ~user /\ \A s \in Tab : flight[s] # Idle => flight[s].for # "SIGN_IN"
          /\ flight' = [flight EXCEPT ![t] = Sent("SIGN_IN")]
    /\ UNCHANGED <<web, access, refresh, user, loggedOut, lateAnswer>>

\* The call is answered, or fails for another reason than its token.
Done(t) ==
    /\ Step(t, "SENT") /\ flight[t].for # "ME"
    /\ Ends(t)
    /\ UNCHANGED <<web, access, refresh, user, loggedOut, lateAnswer>>

\* The attempt succeeds and sets both cookies.  The console then loads anew,
\* the partner web has its user.
SignedIn(t) ==
    /\ Step(t, "SENT") /\ flight[t].for = "SIGN_IN"
    /\ access' = "live" /\ refresh' = "live"
    /\ user' = (web = "partner")
    /\ IF web = "admin" THEN flight' = NoFlight ELSE Ends(t)
    /\ loggedOut' = FALSE
    /\ lateAnswer' = FALSE
    /\ UNCHANGED web

\* clearTokens, and off to the login page.
Leave ==
    /\ access' = "none" /\ refresh' = "none"
    /\ user' = FALSE
    /\ flight' = NoFlight

\* A first 401, for a token or a role that does not do, or for what was typed
\* in the login page: the console refreshes with the cookie it has now, and
\* goes to the login page with the tokens it has when there is none, but for
\* what LoadFails drops; the partner web drops the tokens.  A second 401 fails
\* the call.
Unauthorized(t) ==
    /\ Step(t, "SENT") /\ ~flight[t].again
    /\ \/ /\ web = "admin" /\ refresh # "none"
          /\ flight' = [flight EXCEPT ![t].step = "REFRESHING", ![t].token = refresh]
          /\ UNCHANGED <<access, refresh, user>>
       \/ /\ web = "admin" /\ refresh = "none"
          /\ access' = IF flight[t].for = "ME" THEN "none" ELSE access
          /\ user' = FALSE
          /\ flight' = NoFlight
          /\ UNCHANGED refresh
       \/ /\ web = "partner"
          /\ Leave
    /\ UNCHANGED <<web, loggedOut, lateAnswer>>

\* The refresh is answered: both cookies are set and the call is sent again.
Refreshed(t) ==
    /\ Step(t, "REFRESHING") /\ flight[t].token = "live"
    /\ access' = "live" /\ refresh' = "live"
    /\ flight' = [flight EXCEPT ![t].step = "SENT", ![t].token = "live", ![t].again = TRUE]
    /\ UNCHANGED <<web, user, loggedOut, lateAnswer>>

\* The refresh is refused, or not answered in time.
RefreshFails(t) ==
    /\ Step(t, "REFRESHING")
    /\ Leave
    /\ UNCHANGED <<web, loggedOut, lateAnswer>>

\* Mutant: logout drops the access token and forgets the other cookie.
BugLogout ==
    /\ user
    /\ access' = "none" /\ UNCHANGED refresh
    /\ user' = FALSE
    /\ loggedOut' = TRUE
    /\ lateAnswer' = (web = "admin" /\ \E t \in Tab : flight[t] # Idle)
    /\ flight' = IF web = "partner" THEN NoFlight ELSE flight
    /\ UNCHANGED web

\* Logout tells the API, whatever it answers, and drops the cookies.  The
\* console stays on its page, the partner web loads the login page.
Logout ==
    /\ user
    /\ access' = "none" /\ refresh' = "none"
    /\ user' = FALSE
    /\ loggedOut' = TRUE
    /\ lateAnswer' = (web = "admin" /\ \E t \in Tab : flight[t] # Idle)
    /\ flight' = IF web = "partner" THEN NoFlight ELSE flight
    /\ UNCHANGED web

Next ==
    \/ Expire \/ Logout
    \/ \E t \in Tab :
          \/ Load(t) \/ Loaded(t) \/ LoadFails(t)
          \/ Call(t) \/ Done(t) \/ SignedIn(t)
          \/ Unauthorized(t) \/ Refreshed(t) \/ RefreshFails(t)

Spec == Init /\ [][Next]_sessionVars

-----------------------------------------------------------------------------
TypeOK ==
    /\ web \in {"admin", "partner"}
    /\ {access, refresh} \subseteq Token
    /\ {user, loggedOut, lateAnswer} \subseteq BOOLEAN
    /\ DOMAIN flight = Tab

\* A user who pressed logout stays signed out, whatever is typed in the login
\* page that is refused: no cookie comes back, unless a call of the console was
\* in flight, whose refresh may set both again.
LoggedOutForGood ==
    loggedOut /\ ~lateAnswer => access = "none" /\ refresh = "none" /\ ~user
=============================================================================
