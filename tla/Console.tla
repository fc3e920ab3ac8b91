------------------------------ MODULE Console ------------------------------
(***************************************************************************)
(* The pages of the admin console and of the partner web.  A page asks the *)
(* API for a list and for the row staff open, shows what the answers say,  *)
(* offers buttons by the status it shows, and asks again after a button's  *)
(* call.  Answers come in any order, rows move meanwhile, calls time out.  *)
(*                                                                         *)
(* All pages have this machine in common; the record of a page says what   *)
(* differs (module ConsolePages).  Its rows are those staff can see; the   *)
(* module follows row 1, row 2 stands for the others.  Lists that a page   *)
(* sorts and filters itself, totals, forms and the layout are left out.    *)
(***************************************************************************)
EXTENDS Naturals, Sequences, SequencesExt

CONSTANTS
    Pages,          \* the pages to follow, a set of the records below
    MaxAsks,        \* requests in flight at once (a bound)
    MaxMoves,       \* moves of row 1 by somebody else (a bound)
    Nil

VARIABLES
    page,           \* the page that is open
    server,         \* the status of row 1 in the database
    filter,         \* the filter shown in the page
    picked,         \* the row staff opened last, or Nil
    asks,           \* requests for a list or a row in flight, oldest first
    list,           \* the list shown: its filter, and the status of row 1
    drawer,         \* the row open in the drawer and its status, or Nil
    acting,         \* the button's call in progress, or Nil
    moves,          \* moves of row 1 by somebody else
    muddled         \* ghost: answers crossed or failed, or staff went on
                    \* working in the page during a button's call

consoleVars ==
    <<page, server, filter, picked, asks, list, drawer, acting, moves, muddled>>

-----------------------------------------------------------------------------
StartStatuses(p) == IF p.takes = {} THEN {"ROW"} ELSE {q[1] : q \in p.offers}

\* A request: what it is for, whether a button's call awaits it, and the
\* status the API read for row 1, Nil until it read.
Ask(view, key, awaited) == [view |-> view, key |-> key, awaited |-> awaited, got |-> Nil]
Pending(view) == \E i \in DOMAIN asks : asks[i].view = view

\* The new queue: react-query drops the one in flight for the same view.
Of(q, view) == {i \in DOMAIN q : q[i].view = view}
Queue(q, a) ==
    IF page.newest /\ Of(q, a.view) # {}
    THEN Append(RemoveAt(q, CHOOSE i \in Of(q, a.view) : TRUE), a)
    ELSE Append(q, a)
Send(a) == Len(asks) < MaxAsks /\ asks' = Queue(asks, a)

Init ==
    /\ page \in Pages
    /\ server \in StartStatuses(page)
    /\ filter = 1
    /\ picked = Nil
    /\ asks = <<Ask("list", 1, FALSE)>>
    /\ list = Nil
    /\ drawer = Nil
    /\ acting = Nil
    /\ moves = 0
    /\ muddled = FALSE

-----------------------------------------------------------------------------
\* Staff choose a filter, or search.  A page that lags asks for the list of
\* the filter before.
SetFilter(k) ==
    /\ page.filters /\ k # filter
    /\ filter' = k
    /\ Send(Ask("list", IF page.lags THEN filter ELSE k, FALSE))
    /\ UNCHANGED <<page, server, picked, list, drawer, acting, moves, muddled>>

\* Staff open a row of the list.
Open(r) ==
    /\ list # Nil /\ page.drawer # "none"
    /\ picked' = r
    /\ drawer' = CASE page.drawer = "stub"   -> [key |-> r, status |-> Nil]
                   [] page.drawer = "row"    -> [key |-> r, status |-> list.status]
                   [] page.drawer = "answer" -> drawer
    /\ IF page.drawer = "row" THEN UNCHANGED asks ELSE Send(Ask("drawer", r, FALSE))
    /\ muddled' = (muddled \/ acting # Nil)
    /\ UNCHANGED <<page, server, filter, list, acting, moves>>

\* Staff close the drawer; the answer for its row, if one is still to come,
\* opens it again.
Close ==
    /\ drawer # Nil
    /\ drawer' = Nil
    /\ picked' = Nil
    /\ muddled' = (muddled \/ acting # Nil \/ Pending("drawer"))
    /\ UNCHANGED <<page, server, filter, asks, list, acting, moves>>

\* The API reads the rows of request i.
Read(i) ==
    /\ asks[i].got = Nil
    /\ asks' = [asks EXCEPT ![i].got = server]
    /\ UNCHANGED <<page, server, filter, picked, list, drawer, acting, moves, muddled>>

\* The answer of request i arrives and is shown, whatever was asked since.
Answer(i) ==
    LET a     == asks[i]
        shown == [key |-> a.key, status |-> a.got]
    IN  /\ a.got # Nil
        /\ asks' = RemoveAt(asks, i)
        /\ list' = IF a.view = "list" THEN shown ELSE list
        /\ drawer' = IF a.view = "drawer" THEN shown ELSE drawer
        /\ acting' = IF a.awaited THEN [acting EXCEPT !.todo = Tail(@)] ELSE acting
        /\ muddled' = (muddled \/ \E j \in 1 .. i - 1 : asks[j].view = a.view)
        /\ UNCHANGED <<page, server, filter, picked, moves>>

\* A request fails or times out: what was shown stays.
AskFails(i) ==
    /\ asks' = RemoveAt(asks, i)
    /\ acting' = IF asks[i].awaited THEN Nil ELSE acting
    /\ muddled' = TRUE
    /\ UNCHANGED <<page, server, filter, picked, list, drawer, moves>>

-----------------------------------------------------------------------------
\* Staff press a button of row 1 that is offered by the status shown there.
\* The call goes on with what the page knew then: whether row 1 was open.
OpenRow == drawer # Nil /\ drawer.key = 1
Press(view, t) ==
    LET shown == IF view = "list" THEN list ELSE drawer
    IN  /\ acting = Nil
        /\ view \in page.buttons
        /\ IF view = "list" THEN list # Nil ELSE OpenRow
        /\ <<shown.status, t>> \in page.offers
        /\ acting' = [to |-> t, called |-> TRUE, todo |-> page.after, open |-> OpenRow]
        /\ muddled' = (muddled \/ Pending("drawer"))
        /\ UNCHANGED <<page, server, filter, picked, asks, list, drawer, moves>>

\* The API takes the move: the page goes on, or has given up waiting.
Take ==
    /\ acting # Nil /\ acting.called
    /\ <<server, acting.to>> \in page.takes \ page.vain
    /\ server' = acting.to
    /\ \/ /\ acting' = [acting EXCEPT !.called = FALSE]
          /\ UNCHANGED muddled
       \/ /\ acting' = Nil
          /\ muddled' = TRUE
    /\ UNCHANGED <<page, filter, picked, asks, list, drawer, moves>>

\* The API refuses it: the page says so and keeps what it shows.
Refuse ==
    /\ acting # Nil /\ acting.called
    /\ <<server, acting.to>> \notin page.takes \ page.vain
    /\ acting' = Nil
    /\ UNCHANGED <<page, server, filter, picked, asks, list, drawer, moves, muddled>>

\* What follows the call, one after the other: ask for the list, ask for the
\* row if it was open, or write the new status into what is shown.
Follow ==
    /\ acting # Nil /\ ~acting.called /\ acting.todo # <<>>
    /\ ~ \E i \in DOMAIN asks : asks[i].awaited
    /\ LET next == Head(acting.todo)
           done == acting' = [acting EXCEPT !.todo = Tail(@)]
       IN  \/ /\ next = "list"
              /\ Send(Ask("list", filter, TRUE))
              /\ UNCHANGED <<list, drawer, acting, muddled>>
           \/ /\ next = "detail" /\ acting.open
              /\ Send(Ask("drawer", 1, TRUE))
              /\ drawer' = IF page.drawer = "stub" THEN [key |-> 1, status |-> Nil]
                                                   ELSE drawer
              /\ UNCHANGED <<list, acting, muddled>>
           \/ /\ next = "detail" /\ ~acting.open
              /\ done
              /\ UNCHANGED <<asks, list, drawer, muddled>>
           \/ /\ next = "patch"
              /\ done
              /\ IF page.drawer = "answer"
                 THEN /\ drawer' = [key |-> 1, status |-> acting.to]
                      /\ UNCHANGED list
                 ELSE /\ list' = [list EXCEPT !.status = acting.to]
                      /\ UNCHANGED drawer
              /\ muddled' = (muddled \/ asks # <<>>)
              /\ UNCHANGED asks
    /\ UNCHANGED <<page, server, filter, picked, moves>>

\* Nothing is left to do.
Finish ==
    /\ acting # Nil /\ ~acting.called /\ acting.todo = <<>>
    /\ acting' = Nil
    /\ UNCHANGED <<page, server, filter, picked, asks, list, drawer, moves, muddled>>

\* Somebody else moves row 1.
OtherMoves(t) ==
    /\ moves < MaxMoves
    /\ <<server, t>> \in page.takes
    /\ server' = t
    /\ moves' = moves + 1
    /\ UNCHANGED <<page, filter, picked, asks, list, drawer, acting, muddled>>

Next ==
    \/ \E k \in 1 .. 2 : SetFilter(k) \/ Open(k)
    \/ Close
    \/ \E i \in DOMAIN asks : Read(i) \/ Answer(i) \/ AskFails(i)
    \/ \E q \in page.offers \cup page.takes :
          OtherMoves(q[2]) \/ \E view \in page.buttons : Press(view, q[2])
    \/ Take \/ Refuse \/ Follow \/ Finish

Spec == Init /\ [][Next]_consoleVars

-----------------------------------------------------------------------------
\* With no request in flight the list is the one of the filter shown, and the
\* drawer shows the row staff opened last, as long as answers come in order
\* and staff wait for a button's call.
ShowsWhatWasAsked ==
    muddled \/ /\ Pending("list") \/ page.lags \/ list.key = filter
               /\ \/ Pending("drawer") \/ acting # Nil
                  \/ picked = (IF drawer = Nil THEN Nil ELSE drawer.key)

\* When a button's call is over and nobody else moved the row, the list
\* shows the status the call gave it.
ShowsOwnMove ==
    acting = Nil /\ moves = 0 /\ asks = <<>> /\ ~muddled => list.status = server

ConsoleHolds == ShowsWhatWasAsked /\ ShowsOwnMove
=============================================================================
