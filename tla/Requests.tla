------------------------------ MODULE Requests ------------------------------
(***************************************************************************)
(* What every request passes before and after its handler: the guard of    *)
(* roles, the guard of a feature flag, the interceptor that audits calls   *)
(* that succeed, and the filter that turns what is thrown into an answer.  *)
(***************************************************************************)
EXTENDS FiniteSets

CONSTANTS
    Request,        \* requests of the handler that creates trips
    Nil

VARIABLES
    flag,           \* the row of the flag trips_enabled, or Nil
    req,            \* req[r]: the request and how far it is, or Nil
    audit,          \* requests with an entry in the audit log
    switched        \* ghost: requests during which the flag was switched

requestVars == <<flag, req, audit, switched>>

-----------------------------------------------------------------------------
Thrown == {"BadRequest", "Unauthorized", "Forbidden", "NotFound", "Conflict", "Http", "Error"}

\* What the message of an exception mentions, of what the filter looks for,
\* in its order; for a few exceptions the message is the filter's own.
Mention == {"Invalid transition", "Actor", "not found", "already", "must be", "nothing"}

\* catch: status, code and whether the client may try again.
Answer(thrown, mention) ==
    LET own == CASE thrown = "BadRequest"   -> [status |-> 400, code |-> "BAD_REQUEST"]
                 [] thrown = "Unauthorized" -> [status |-> 401, code |-> "UNAUTHORIZED"]
                 [] thrown = "Forbidden"    -> [status |-> 403, code |-> "FORBIDDEN"]
                 [] thrown = "NotFound"     -> [status |-> 404, code |-> "NOT_FOUND"]
                 [] thrown = "Conflict"     -> [status |-> 409, code |-> "CONFLICT"]
                 [] thrown = "Http"         -> [status |-> 503, code |-> "FEATURE_DISABLED"]
                 [] thrown = "Error"        -> [status |-> 500, code |-> "INTERNAL_ERROR"]
        said == IF thrown \in {"Unauthorized", "Forbidden", "Error"} THEN "nothing" ELSE mention
    IN  [status    |-> own.status,
         code      |-> CASE said = "Invalid transition" -> "INVALID_STATE_TRANSITION"
                         [] said = "Actor"              -> "FORBIDDEN_TRANSITION"
                         [] said = "not found"          -> "NOT_FOUND"
                         [] said = "already"            -> "CONFLICT"
                         [] said = "must be"            -> "VALIDATION_ERROR"
                         [] OTHER                       -> own.code,
         retryable |-> thrown \in {"Conflict", "Error"}]

Ok == [status |-> 201, code |-> "OK", retryable |-> FALSE]

Init ==
    /\ flag = Nil
    /\ req = [r \in Request |-> Nil]
    /\ audit = {}
    /\ switched = {}

-----------------------------------------------------------------------------
At(r, stage) == req[r] # Nil /\ req[r].stage = stage
Go(r, stage) == req' = [req EXCEPT ![r].stage = stage]
Refuse(r, thrown, mention) ==
    req' = [req EXCEPT ![r] = [@ EXCEPT !.stage = "ANSWERED", !.answer = Answer(thrown, mention)]]

\* A request with a token, with or without a role the handler takes.
Receive(r, permitted) ==
    /\ req[r] = Nil
    /\ req' = [req EXCEPT ![r] = [stage |-> "ROLES", permitted |-> permitted, on |-> FALSE, ran |-> FALSE, answer |-> Ok]]
    /\ UNCHANGED <<flag, audit, switched>>

\* RolesGuard answers a role that does not do like a token that does not.
CheckRoles(r) ==
    /\ At(r, "ROLES")
    /\ IF req[r].permitted THEN Go(r, "FLAG") ELSE Refuse(r, "Unauthorized", "nothing")
    /\ UNCHANGED <<flag, audit, switched>>

\* FeatureFlagGuard: a flag without a row is off.
CheckFlag(r) ==
    /\ At(r, "FLAG")
    /\ IF flag = "ON"
       THEN req' = [req EXCEPT ![r] = [@ EXCEPT !.stage = "HANDLER", !.on = TRUE]]
       ELSE Refuse(r, "Http", "nothing")
    /\ UNCHANGED <<flag, audit, switched>>

\* The handler throws, or does its work; the interceptor then starts the
\* entry of the log and lets the answer go without waiting for it.
Handle(r, thrown, mention) ==
    /\ At(r, "HANDLER")
    /\ Refuse(r, thrown, mention)
    /\ UNCHANGED <<flag, audit, switched>>

Succeed(r) ==
    /\ At(r, "HANDLER")
    /\ req' = [req EXCEPT ![r] = [@ EXCEPT !.stage = "AUDIT", !.ran = TRUE]]
    /\ UNCHANGED <<flag, audit, switched>>

\* The entry is written, or its failure is printed and it is lost.
WriteAudit(r) ==
    /\ At(r, "AUDIT")
    /\ audit' \in {audit, audit \cup {r}}
    /\ Go(r, "ANSWERED")
    /\ UNCHANGED <<flag, switched>>

\* set: an upsert of the flag.
SetFlag(to) ==
    /\ to # flag
    /\ flag' = to
    /\ switched' = switched \cup {r \in Request : req[r] # Nil /\ req[r].stage # "ANSWERED"}
    /\ UNCHANGED <<req, audit>>

Next ==
    \/ \E r \in Request, permitted \in BOOLEAN : Receive(r, permitted)
    \/ \E r \in Request : CheckRoles(r)
    \/ \E r \in Request : CheckFlag(r)
    \/ \E r \in Request, thrown \in Thrown, mention \in Mention : Handle(r, thrown, mention)
    \/ \E r \in Request : Succeed(r)
    \/ \E r \in Request : WriteAudit(r)
    \/ \E to \in {"ON", "OFF"} : SetFlag(to)

Spec == Init /\ [][Next]_requestVars

-----------------------------------------------------------------------------
TypeOK ==
    /\ flag \in {"ON", "OFF", Nil}
    /\ \A r \in Request : req[r] # Nil => req[r].stage \in {"ROLES", "FLAG", "HANDLER", "AUDIT", "ANSWERED"}
    /\ audit \cup switched \subseteq Request

\* The log has entries only of calls whose handler did its work, which was
\* behind both guards; until the flag is switched during the call, it is on
\* as long as the handler works; and what was refused with "try again" or by
\* a guard changed nothing.
LogTellsTruth ==
    /\ \A r \in audit : req[r].ran /\ req[r].permitted /\ req[r].on
    /\ \A r \in Request \ switched : At(r, "HANDLER") \/ At(r, "AUDIT") => flag = "ON"
    /\ \A r \in Request : At(r, "ANSWERED") /\ req[r].answer.code # "OK" => ~req[r].ran /\ r \notin audit
    /\ \A r \in Request : At(r, "ANSWERED") /\ req[r].answer.retryable => req[r].answer.status \in {409, 500}
=============================================================================
