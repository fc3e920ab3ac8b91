------------------------------- MODULE Thoth --------------------------------
(***************************************************************************)
(* THOTH, the assistant: a chat plans a tool by keywords, asks the policy  *)
(* engine for the tool's row in the allow-list, and runs the tool, files   *)
(* an action for approval, or refuses.  Staff edit the allow-list and      *)
(* decide actions meanwhile.  Nothing runs an action that was approved.    *)
(***************************************************************************)
EXTENDS Naturals, FiniteSets

CONSTANTS
    Chat,           \* calls of chat
    Staff,          \* calls of decideAction and simulateAction
    Action,         \* rows of thoth_actions
    Topic,          \* what messages may mention, of TopicOrder
    Risk,           \* risk levels that staff set
    Nothing

VARIABLES
    tool,           \* tool[t]: the row of the allow-list, or Nothing
    chat,           \* chat[c]: the call and what has become of it, or Nothing
    action,         \* action[a]: a filed action, or Nothing
    handling,       \* handling[s]: a staff call in progress, or Nothing
    written,        \* <<table, chat>>: rows that tools wrote
    decided,        \* ghost: decided[a]: decisions that were answered
    overtaken,      \* ghost: chats whose tool changed after its check
    raced           \* ghost: two decisions of one action overlapped

thothVars == <<tool, chat, action, handling, written, decided, overtaken, raced>>

-----------------------------------------------------------------------------
\* The planner: the first of these topics that the message mentions decides.
TopicOrder == <<"ride", "payment", "booking", "trip", "budget", "search", "support", "destination">>
PlannedTool ==
    <<"estimate_ride", "create_payment_intent", "create_booking_draft", "create_itinerary_draft",
      "calculate_budget", "search_services", "create_support_ticket", "search_destination_knowledge">>

Plan(mentioned) ==
    LET First(i) == TopicOrder[i] \in mentioned /\ \A k \in 1..i - 1 : TopicOrder[k] \notin mentioned
    IN  PlannedTool[CHOOSE i \in DOMAIN TopicOrder : First(i)]

Tool == {PlannedTool[i] : i \in {k \in DOMAIN TopicOrder : TopicOrder[k] \in Topic}}

\* THOTH_TOOLS: the risk and the gate that a tool has when it is seeded.
Seeded(t) ==
    [risk |-> CASE t = "create_payment_intent" -> "HIGH"
                [] t \in {"create_booking_draft", "create_itinerary_draft", "create_support_ticket"} -> "MEDIUM"
                [] OTHER -> "LOW",
     gated |-> t = "create_payment_intent",
     enabled |-> TRUE]

\* evaluate: the verdict on a tool's row, in the order of the code.
Evaluate(row, super) ==
    CASE row = Nothing                                                   -> "BLOCK"
      [] row # Nothing /\ ~row.enabled                                   -> "BLOCK"
      [] row # Nothing /\ row.enabled /\ row.risk \in {"HIGH", "CRITICAL"} /\ ~super /\ row.gated -> "ASK"
      [] row # Nothing /\ row.enabled /\ row.risk = "CRITICAL" /\ ~super /\ ~row.gated -> "BLOCK"
      [] OTHER                                                           -> "RUN"

\* The executor's handlers: the table a tool writes a row of.  The drafts of
\* bookings and the payment intents of this phase are made up and not stored.
RowOf(t) ==
    CASE t = "create_itinerary_draft" -> "TRIP"
      [] t = "create_support_ticket" -> "TICKET"
      [] OTHER -> "NONE"

\* Handlers that write a row refuse a chat without a user.
Succeeds(t, user) == RowOf(t) # "NONE" => user

\* How far a chat is; of one that was answered the status of the answer.
Stage == {"CHECK", "RUN", "ASK", "BLOCK", "RAN", "FILED", "DEAD"}
         \cup {"COMPLETED", "AWAITING_APPROVAL", "BLOCKED"}

TypeOK ==
    /\ tool \in [Tool -> [risk : Risk \cup {"LOW", "MEDIUM", "HIGH"}, gated : BOOLEAN, enabled : BOOLEAN]
                         \cup {Nothing}]
    /\ chat \in [Chat -> [tool : Tool, user : BOOLEAN, super : BOOLEAN, stage : Stage] \cup {Nothing}]
    /\ action \in [Action -> [tool : Tool, status : {"PENDING", "APPROVED", "REJECTED"}] \cup {Nothing}]
    /\ \A s \in Staff : handling[s] # Nothing =>
           handling[s] \in [op : {"SIMULATE"}, tool : Tool] \cup [op : {"DECIDE"}, action : Action, to : {"APPROVED", "REJECTED"}]
    /\ written \subseteq {"TRIP", "TICKET"} \X Chat
    /\ decided \in [Action -> SUBSET {"APPROVED", "REJECTED"}]
    /\ overtaken \subseteq Chat
    /\ raced \in BOOLEAN

Init ==
    /\ tool = [t \in Tool |-> Nothing]
    /\ chat = [c \in Chat |-> Nothing]
    /\ action = [a \in Action |-> Nothing]
    /\ handling = [s \in Staff |-> Nothing]
    /\ written = {}
    /\ decided = [a \in Action |-> {}]
    /\ overtaken = {}
    /\ raced = FALSE

-----------------------------------------------------------------------------
\* The row of tool t is written; chats that had checked it are overtaken.
WriteTool(t, row) ==
    /\ tool' = [tool EXCEPT ![t] = row]
    /\ overtaken' = overtaken \cup {c \in Chat : chat[c] # Nothing /\ chat[c].tool = t /\ chat[c].stage = "RUN"}

\* onModuleInit: a tool that is missing is seeded, one that exists is left as
\* staff made it.  An error ends the seeding and is only logged.
Boot(t) ==
    /\ tool[t] = Nothing
    /\ WriteTool(t, Seeded(t))
    /\ UNCHANGED <<chat, action, handling, written, decided, raced>>

CreateTool(t, risk, gated) ==
    /\ tool[t] = Nothing
    /\ WriteTool(t, [risk |-> risk, gated |-> gated, enabled |-> TRUE])
    /\ UNCHANGED <<chat, action, handling, written, decided, raced>>

UpdateTool(t, risk, gated, enabled) ==
    /\ tool[t] # Nothing
    /\ WriteTool(t, [risk |-> risk, gated |-> gated, enabled |-> enabled])
    /\ UNCHANGED <<chat, action, handling, written, decided, raced>>

-----------------------------------------------------------------------------
Advance(c, stage) == chat' = [chat EXCEPT ![c].stage = stage]

\* chat up to the plan: the message is saved, the context and the names of
\* enabled tools are read, and the planner uses neither.  A message without a
\* topic is answered with what THOTH can do.
Say(c, user, super, mentioned) ==
    /\ chat[c] = Nothing
    /\ mentioned # {}
    /\ chat' = [chat EXCEPT ![c] = [tool |-> Plan(mentioned), user |-> user, super |-> super, stage |-> "CHECK"]]
    /\ UNCHANGED <<tool, action, handling, written, decided, overtaken, raced>>

Check(c) ==
    /\ chat[c] # Nothing
    /\ chat[c].stage = "CHECK"
    /\ Advance(c, Evaluate(tool[chat[c].tool], chat[c].super))
    /\ UNCHANGED <<tool, action, handling, written, decided, overtaken, raced>>

\* A gated tool: the action that staff will find.
AskApproval(c, a) ==
    /\ chat[c] # Nothing
    /\ chat[c].stage = "ASK"
    /\ action[a] = Nothing
    /\ action' = [action EXCEPT ![a] = [tool |-> chat[c].tool, status |-> "PENDING"]]
    /\ Advance(c, "FILED")
    /\ UNCHANGED <<tool, handling, written, decided, overtaken, raced>>

\* execute: errors of the handler are caught and become the answer.
Execute(c) ==
    /\ chat[c] # Nothing
    /\ chat[c].stage = "RUN"
    /\ LET t == chat[c].tool IN
         \/ /\ RowOf(t) # "NONE" /\ Succeeds(t, chat[c].user)
            /\ written' = written \cup {<<RowOf(t), c>>}
         \/ UNCHANGED written
    /\ Advance(c, "RAN")
    /\ UNCHANGED <<tool, action, handling, decided, overtaken, raced>>

\* The assistant's message.
Answer(c) ==
    /\ chat[c] # Nothing
    /\ \/ chat[c].stage = "RAN" /\ Advance(c, "COMPLETED")
       \/ chat[c].stage = "FILED" /\ Advance(c, "AWAITING_APPROVAL")
       \/ chat[c].stage = "BLOCK" /\ Advance(c, "BLOCKED")
    /\ UNCHANGED <<tool, action, handling, written, decided, overtaken, raced>>

Die(c) ==
    /\ chat[c] # Nothing
    /\ chat[c].stage \in {"CHECK", "RUN", "ASK", "BLOCK", "RAN", "FILED"}
    /\ Advance(c, "DEAD")
    /\ UNCHANGED <<tool, action, handling, written, decided, overtaken, raced>>

-----------------------------------------------------------------------------
\* simulateAction finds an enabled tool, then files an action for it.
Simulate(s, t) ==
    /\ handling[s] = Nothing
    /\ tool[t] # Nothing
    /\ tool[t].enabled
    /\ handling' = [handling EXCEPT ![s] = [op |-> "SIMULATE", tool |-> t]]
    /\ UNCHANGED <<tool, chat, action, written, decided, overtaken, raced>>

FileSimulated(s, a) ==
    /\ handling[s] # Nothing
    /\ handling[s].op = "SIMULATE"
    /\ action[a] = Nothing
    /\ action' = [action EXCEPT ![a] = [tool |-> handling[s].tool, status |-> "PENDING"]]
    /\ handling' = [handling EXCEPT ![s] = Nothing]
    /\ UNCHANGED <<tool, chat, written, decided, overtaken, raced>>

\* Mutant: an action that was decided is decided again.
BugDecide(s, a, to) ==
    /\ handling[s] = Nothing
    /\ action[a] # Nothing
    /\ handling' = [handling EXCEPT ![s] = [op |-> "DECIDE", action |-> a, to |-> to]]
    /\ raced' = (raced \/ \E o \in Staff : handling[o] # Nothing /\ handling[o].op = "DECIDE" /\ handling[o].action = a)
    /\ UNCHANGED <<tool, chat, action, written, decided, overtaken>>

\* decideAction finds the action pending, then writes the decision.
Decide(s, a, to) ==
    /\ handling[s] = Nothing
    /\ action[a] # Nothing
    /\ action[a].status = "PENDING"
    /\ handling' = [handling EXCEPT ![s] = [op |-> "DECIDE", action |-> a, to |-> to]]
    /\ raced' = (raced \/ \E o \in Staff : handling[o] # Nothing /\ handling[o].op = "DECIDE" /\ handling[o].action = a)
    /\ UNCHANGED <<tool, chat, action, written, decided, overtaken>>

WriteDecision(s) ==
    /\ handling[s] # Nothing
    /\ handling[s].op = "DECIDE"
    /\ LET a == handling[s].action IN
         /\ action' = [action EXCEPT ![a].status = handling[s].to]
         /\ decided' = [decided EXCEPT ![a] = @ \cup {handling[s].to}]
    /\ handling' = [handling EXCEPT ![s] = Nothing]
    /\ UNCHANGED <<tool, chat, written, overtaken, raced>>

StaffFails(s) ==
    /\ handling[s] # Nothing
    /\ handling' = [handling EXCEPT ![s] = Nothing]
    /\ UNCHANGED <<tool, chat, action, written, decided, overtaken, raced>>

Next ==
    \/ \E t \in Tool : Boot(t)
    \/ \E t \in Tool, risk \in Risk, gated \in BOOLEAN : CreateTool(t, risk, gated)
    \/ \E t \in Tool, risk \in Risk, gated, enabled \in BOOLEAN : UpdateTool(t, risk, gated, enabled)
    \/ \E c \in Chat, user, super \in BOOLEAN, mentioned \in SUBSET Topic : Say(c, user, super, mentioned)
    \/ \E c \in Chat : Check(c)
    \/ \E c \in Chat, a \in Action : AskApproval(c, a)
    \/ \E c \in Chat : Execute(c)
    \/ \E c \in Chat : Answer(c)
    \/ \E c \in Chat : Die(c)
    \/ \E s \in Staff, t \in Tool : Simulate(s, t)
    \/ \E s \in Staff, a \in Action : FileSimulated(s, a)
    \/ \E s \in Staff, a \in Action, to \in {"APPROVED", "REJECTED"} : Decide(s, a, to)
    \/ \E s \in Staff : WriteDecision(s)
    \/ \E s \in Staff : StaffFails(s)

Spec == Init /\ [][Next]_thothVars

-----------------------------------------------------------------------------
\* The gates a tool cannot be run past: it is on the list and enabled, and it
\* takes a super administrator if it is CRITICAL, or HIGH and gated.  The comment
\* above the first of them wants approval for every HIGH tool; a HIGH tool whose
\* row has no gate runs all the same.
Allowed(t, super) ==
    /\ tool[t] # Nothing /\ tool[t].enabled
    /\ tool[t].risk = "CRITICAL" => super
    /\ tool[t].risk = "HIGH" /\ tool[t].gated => super

\* However staff edit the list and decide actions meanwhile: a chat about to
\* run its tool, which nobody changed after the check, passes every gate now;
\* rows are written by the tools of chats that have a user, and never by one
\* that was refused or is told to wait for approval, decided or not; and whoever
\* waits has an action of his tool on file.
RunsAsAllowed ==
    /\ \A c \in Chat \ overtaken :
           chat[c] # Nothing /\ chat[c].stage = "RUN" => Allowed(chat[c].tool, chat[c].super)
    /\ \A w \in written : /\ w[1] = RowOf(chat[w[2]].tool) /\ chat[w[2]].user
                          /\ chat[w[2]].stage \in {"RAN", "COMPLETED", "DEAD"}
    /\ \A c \in Chat :
           chat[c] # Nothing /\ chat[c].stage \in {"FILED", "AWAITING_APPROVAL"} =>
               \E a \in Action : action[a] # Nothing /\ action[a].tool = chat[c].tool

\* An action is pending exactly until a decision was answered, and its status
\* is one that was; unless two decisions of one action overlap it is decided
\* once and for good.
DecidedOnce ==
    \A a \in Action :
        /\ decided[a] = {} <=> action[a] = Nothing \/ (action[a] # Nothing /\ action[a].status = "PENDING")
        /\ decided[a] # {} => action[a].status \in decided[a]
        /\ ~raced /\ decided[a] # {} => decided[a] = {action[a].status}
=============================================================================
