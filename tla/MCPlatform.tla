----------------------------- MODULE MCPlatform -----------------------------
(* A small instance of Platform for TLC.                                    *)
EXTENDS Platform, ConsolePages

AllParts ==
    {"Codes", "Accounts", "Notifications", "Thoth", "Desk", "Reports", "Settlements",
     "Catalogue", "SearchIndex", "Fleet", "TripPlans", "Portal", "Requests", "Console",
     "WebSession"}

\* An amount, and one below nothing.
EitherAmount == {-35, 35}

\* What a part does after its calls have crossed or failed is followed one
\* step and no further where its properties promise nothing from there on; and
\* of tables that share nothing, one at a time is followed: codes or slips, a
\* referral link or webhooks.
Ahead ==
    /\ ~crossed /\ ~stepped /\ ~muddled
    /\ issued = 0 \/ \A s \in Slip : slip[s] = Nil
    /\ link = Nil \/ \A e \in EventId : emitted[e] = "NONE"
=============================================================================
