------------------------------ MODULE OrderFeed ------------------------------
(***************************************************************************)
(* The feed of orders: 1C reads GET one-c/orders/export page by page, a    *)
(* view over the outbox rows order.created (PrismaOneCOrderExportSource).  *)
(*                                                                         *)
(* A row gets its created_at when it is written, and can be seen only when *)
(* its transaction commits, later; rows of one millisecond are ordered by  *)
(* their random ids.  Rows whose delivery fails for good become dead       *)
(* letters, which the feed hides, and the database keeps them so.          *)
(*                                                                         *)
(* Abstracted: what a page says of each order.                             *)
(***************************************************************************)
EXTENDS Integers, FiniteSets

CONSTANTS
    NewOrders,   \* the orders' outbox rows, by their ids, as numbers
    Limit,       \* query.limit
    Moments      \* times, in milliseconds

ASSUME FeedNumbersAssumption == NewOrders \subseteq Nat \ {0} /\ Moments \subseteq Nat
ASSUME LimitAssumption == Limit \in Nat \ {0}

VARIABLES
    moment,   \* the time
    row,      \* the outbox rows
    walk      \* one walk of 1C through the feed

feedVars == <<moment, row, walk>>

-------------------------------------------------------------------------------
Row == [state : {"none", "written", "visible", "dlq"}, at : Moments]

\* A cursor is the time and id of the last row of a page; Top is none.
Top == <<0, 0>>
Cursor == {Top} \cup (Moments \X NewOrders)

\* asks: the next page is asked for with cursor; before: the last one was asked
\* for with this.  given: the rows of the pages so far; due: rows that were
\* visible when the walk began and have not been hidden since.
Walk == [stage : {"off", "asks", "ended"}, cursor : Cursor, before : Cursor,
         given : SUBSET NewOrders, due : SUBSET NewOrders]

FeedTypeOK ==
    /\ moment \in Moments
    /\ row \in [NewOrders -> Row]
    /\ walk \in Walk

NoWalk == [stage |-> "off", cursor |-> Top, before |-> Top, given |-> {}, due |-> {}]

FeedInit ==
    /\ moment \in Moments /\ \A m \in Moments : moment <= m
    /\ row = [o \in NewOrders |-> [state |-> "none", at |-> moment]]
    /\ walk = NoWalk

Visible == {o \in NewOrders : row[o].state = "visible"}

-------------------------------------------------------------------------------
\* An order is placed: its row is written, and committed some time later.
Write(o) ==
    /\ row[o].state = "none"
    /\ row' = [row EXCEPT ![o] = [state |-> "written", at |-> moment]]
    /\ UNCHANGED <<moment, walk>>

Commit(o) ==
    /\ row[o].state = "written"
    /\ row' = [row EXCEPT ![o].state = "visible"]
    /\ UNCHANGED <<moment, walk>>

\* Its delivery failed for good.
Bury(o) ==
    /\ row[o].state = "visible"
    /\ row' = [row EXCEPT ![o].state = "dlq"]
    /\ walk' = [walk EXCEPT !.due = walk.due \ {o}]
    /\ UNCHANGED moment

\* Time moves on.
Later ==
    /\ \E m \in Moments : m > moment /\ moment' = m
    /\ UNCHANGED <<row, walk>>

-------------------------------------------------------------------------------
\* The order of the feed.
After(c, o) == row[o].at > c[1] \/ (row[o].at = c[1] /\ o > c[2])

\* The rows a request finds, and the page it gives.
Slip_ByTime(c) == {o \in Visible : c = Top \/ row[o].at > c[1]}
Found(c) == {o \in Visible : After(c, o)}

Position(o) == <<row[o].at, o>>
Page(c) == {o \in Found(c) : Cardinality({p \in Found(c) : After(Position(p), o)}) < Limit}

\* 1C begins at the top.
Start ==
    /\ walk' = [NoWalk EXCEPT !.stage = "asks", !.due = Visible]
    /\ UNCHANGED <<moment, row>>

\* It asks for a page, goes on with its nextCursor, and is done if there is none.
Fetch(c) ==
    LET page == Page(c)
        given == walk.given \cup page
    IN /\ walk.stage = "asks"
       /\ \/ /\ Cardinality(Found(c)) <= Limit
             /\ walk' = [walk EXCEPT !.stage = "ended", !.given = given]
          \/ /\ Cardinality(Found(c)) > Limit
             /\ \E last \in page :
                   /\ \A o \in page : o = last \/ After(Position(o), last)
                   /\ walk' = [walk EXCEPT !.cursor = Position(last), !.before = c,
                                           !.given = given]
       /\ UNCHANGED <<moment, row>>

\* The next page, or the last one again because its answer was lost.
NextPage == Fetch(walk.cursor)
SamePage == Fetch(walk.before)

FeedNext ==
    \/ \E o \in NewOrders : Write(o) \/ Commit(o) \/ Bury(o)
    \/ Later
    \/ Start
    \/ NextPage
    \/ SamePage

FeedSpec == FeedInit /\ [][FeedNext]_feedVars

-------------------------------------------------------------------------------
(* What 1C may rely on when it reads the feed                              *)

\* A walk from the top to the page without nextCursor gives every order that was
\* there when it began and is not hidden by the time it ends, whatever is placed,
\* committed late or hidden in the meantime, however many orders share a
\* millisecond, and although any page was asked for twice.
WalksAreComplete == walk.stage = "ended" => walk.due \subseteq walk.given
==============================================================================
