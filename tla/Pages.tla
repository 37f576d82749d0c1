------------------------------- MODULE Pages --------------------------------
(***************************************************************************)
(* Walking through a list page by page.  getGames, getUsers and            *)
(* getGameReviews answer one page of a SELECT ... ORDER BY c LIMIT o, l;   *)
(* a client that wants the whole list asks for page 0, 1, 2 ... until one  *)
(* is empty.  Nothing ties the requests together: between two of them rows *)
(* are added, hidden, shown again and given another date, and each shifts  *)
(* the rows behind it.                                                     *)
(*                                                                         *)
(* The module follows one table, sorted by one column, and one walk at a   *)
(* time.  A SELECT is one step; MySQL may order rows with equal keys as it *)
(* likes, and differently each time.  Left out: the filters a client may   *)
(* add, which choose a table's rows once and for all; sorting by rating,   *)
(* difficulty or likes, where a key changes with each review; the lists    *)
(* an administrator sees.                                                  *)
(***************************************************************************)
EXTENDS Naturals, FiniteSets

CONSTANTS
    MaxLimit,    \* the greatest limit a page may have: 50
    MaxAsked,    \* bound on the limits a client asks for, for model checking
    MaxRows,     \* bound on the rows, for model checking
    MaxKey,      \* bound on the keys, for model checking
    MaxChanges   \* bound on the changes during a walk, for model checking

ASSUME LimitAssumption == MaxLimit \in Nat \ {0}
ASSUME BoundAssumption == MaxAsked \in Nat /\ MaxKey \in Nat

VARIABLES
    table,    \* the table: its rows are 1, 2, ... in the order of their ids
    column,   \* the column it is sorted by
    key,      \* the value of that column in each row
    removed,  \* the rows whose column removed is set
    banned,   \* the rows whose author, or who themselves, are banned
    walk,     \* where the walk stands
    down,     \* whether it sorts by DESC
    asked,    \* the limit it asks for
    page,     \* the page it asks for next
    seen,     \* the rows it has been given
    repeats,  \* history: how often it was given a row once more
    steady,   \* history: the rows that have not left the list since it began
    left,     \* history: how many times a row left the list meanwhile
    came,     \* history: how many times a row came to the list meanwhile
    tied      \* history: a page was taken from a list with equal keys

tableVars == <<table, column, key, removed, banned>>
askVars == <<walk, down, asked, page, seen, repeats, tied>>
changeVars == <<steady, left, came>>
pagesVars == <<tableVars, askVars, changeVars>>

Rows == DOMAIN key

GamesColumns == {"sortname", "date_created"}
UsersColumns == {"id", "date_created", "name"}
ReviewsColumns == {"date_created"}

Columns ==
    [games |-> GamesColumns, users |-> UsersColumns,
     reviews |-> ReviewsColumns]

PagesTypeOK ==
    /\ table \in DOMAIN Columns
    /\ column \in Columns[table]
    /\ key \in [1..Cardinality(Rows) -> Nat]
    /\ removed \subseteq Rows
    /\ banned \subseteq Rows
    /\ walk \in {"idle", "paging"}
    /\ down \in BOOLEAN
    /\ asked \in 0..MaxAsked
    /\ page \in Nat
    /\ seen \subseteq Rows
    /\ repeats \in Nat
    /\ steady \subseteq Rows
    /\ left \in Nat
    /\ came \in Nat
    /\ tied \in BOOLEAN

PagesInit ==
    /\ table \in DOMAIN Columns
    /\ column \in Columns[table]
    /\ key = <<>>
    /\ removed = {}
    /\ banned = {}
    /\ walk = "idle"
    /\ down = FALSE
    /\ asked = 0
    /\ page = 0
    /\ seen = {}
    /\ repeats = 0
    /\ steady = {}
    /\ left = 0
    /\ came = 0
    /\ tied = FALSE

-----------------------------------------------------------------------------
(* What a SELECT returns.                                                  *)

\* removed = 0; users who are not administrators never see the others.
GamesListed == Rows \ removed

\* banned = 0
UsersListed == Rows \ banned

\* r.removed = 0 AND u.banned = 0
ReviewsListed == Rows \ (removed \cup banned)

Listed ==
    [games |-> GamesListed, users |-> UsersListed,
     reviews |-> ReviewsListed][table]

Before(r, s) == IF down THEN key[r] > key[s] ELSE key[r] < key[s]

Ties == \E r, s \in Listed : r # s /\ key[r] = key[s]

Least(m, n) == IF m < n THEN m ELSE n

\* Mutant of Clamp: a limit of nothing is let through.
ClampAbove(limit) == Least(limit, MaxLimit)

\* Math.min(Math.max(limit, 1), 50).  No limit at all is as good as 50.
Clamp(limit) == Least(IF limit < 1 THEN 1 ELSE limit, MaxLimit)

\* Mutant of Offset: the limit before it was clamped.
OffsetAsked == page * asked

\* params.page * params.limit
Offset == page * Clamp(asked)

\* P may be the page, and B the rows before it, in some order MySQL may give
\* the list.
IsPage(B, P) ==
    /\ B \cap P = {}
    /\ Cardinality(B) = Least(Offset, Cardinality(Listed))
    /\ Cardinality(P) = Least(Clamp(asked), Cardinality(Listed \ B))
    /\ \A r \in P, s \in B : ~Before(r, s)
    /\ \A r \in Listed \ (B \cup P), s \in B \cup P : ~Before(r, s)

-----------------------------------------------------------------------------
(* The walk.                                                               *)

Start(limit, desc) ==
    /\ walk = "idle"
    /\ walk' = "paging"
    /\ asked' = limit
    /\ down' = desc
    /\ steady' = Listed
    /\ UNCHANGED <<tableVars, page, seen, repeats, tied, left, came>>

StartGames ==
    /\ table = "games"
    /\ \E limit \in 0..MaxAsked, desc \in BOOLEAN : Start(limit, desc)

StartUsers ==
    /\ table = "users"
    /\ \E limit \in 0..MaxAsked, desc \in BOOLEAN : Start(limit, desc)

\* The reviews of a game come newest first.
StartReviews ==
    /\ table = "reviews"
    /\ \E limit \in 0..MaxAsked : Start(limit, TRUE)

TakePage ==
    /\ walk = "paging"
    /\ \E B, P \in SUBSET Listed :
          /\ P # {}
          /\ IsPage(B, P)
          /\ seen' = seen \cup P
          /\ repeats' = repeats + Cardinality(P \cap seen)
    /\ page' = page + 1
    /\ tied' = (tied \/ Ties)
    /\ UNCHANGED <<tableVars, changeVars, walk, down, asked>>

Reset ==
    /\ down' = FALSE
    /\ asked' = 0
    /\ page' = 0
    /\ seen' = {}
    /\ repeats' = 0
    /\ steady' = {}
    /\ left' = 0
    /\ came' = 0
    /\ tied' = FALSE

\* The walk is over, and nobody knows of it any more.
EmptyPage ==
    /\ walk = "paging"
    /\ \E B \in SUBSET Listed : IsPage(B, {})
    /\ walk' = "idle"
    /\ Reset
    /\ UNCHANGED tableVars

-----------------------------------------------------------------------------
(* What happens to the table meanwhile.                                    *)

\* For the properties: who left the list and who came to it.
Track ==
    IF walk = "paging"
      THEN /\ left + came < MaxChanges
           /\ left' = left + Cardinality(Listed \ Listed')
           /\ came' = came + Cardinality(Listed' \ Listed)
           /\ steady' = steady \cap Listed'
      ELSE UNCHANGED changeVars

\* The keys a new row may have.  Ids and the names of users are unique; a
\* row created later has no earlier date, but it may have the same one.
NewKeys ==
    LET new == Cardinality(Rows) + 1
    IN  CASE column = "id" -> {new}
          [] column = "name" -> (1..MaxKey) \ {key[r] : r \in Rows}
          [] column = "date_created" ->
                 {k \in 1..MaxKey : \A r \in Rows : key[r] <= k}
          [] column = "sortname" -> 1..MaxKey

Create ==
    /\ Cardinality(Rows) < MaxRows
    /\ \E k \in NewKeys :
          key' = [r \in 1..(Cardinality(Rows) + 1) |->
                     IF r \in Rows THEN key[r] ELSE k]
    /\ UNCHANGED <<table, column, removed, banned, askVars>>
    /\ Track

\* Games and reviews are removed and restored.
SetRemoved(r) ==
    /\ table # "users"
    /\ removed' = (removed \ {r}) \cup ({r} \ removed)
    /\ UNCHANGED <<table, column, key, banned, askVars>>
    /\ Track

\* Users are banned and let in again, and with them their reviews.
SetBanned(r) ==
    /\ table # "games"
    /\ banned' = (banned \ {r}) \cup ({r} \ banned)
    /\ UNCHANGED <<table, column, key, removed, askVars>>
    /\ Track

\* A game's date may be changed: it leaves its place and comes to another.
Redate(r) ==
    /\ table = "games"
    /\ column = "date_created"
    /\ \E k \in 1..MaxKey : key' = [key EXCEPT ![r] = k]
    /\ IF walk = "paging" /\ r \in Listed
         THEN /\ left + came < MaxChanges
              /\ left' = left + 1
              /\ came' = came + 1
              /\ steady' = steady \ {r}
         ELSE UNCHANGED changeVars
    /\ UNCHANGED <<table, column, removed, banned, askVars>>

PagesNext ==
    \/ StartGames \/ StartUsers \/ StartReviews
    \/ TakePage \/ EmptyPage
    \/ Create
    \/ \E r \in Rows : SetRemoved(r) \/ SetBanned(r) \/ Redate(r)

PagesSpec == PagesInit /\ [][PagesNext]_pagesVars

-----------------------------------------------------------------------------

\* A walk to the end misses no more rows that were there all the time than
\* rows have left the list meanwhile, if no two rows have the same key
\* (getGames, getUsers and getReviews of datastore.ts; the comment in
\* getGames of game.controller.ts speaks of calling it "to get every matching
\* row").
MissesFollowDepartures ==
    [][walk = "paging" /\ walk' = "idle" /\ ~tied =>
           Cardinality(steady \ seen) <= left]_pagesVars

\* A walk is given no row again more often than rows have come to the list
\* meanwhile, if no two rows have the same key (the same functions).
RepeatsFollowArrivals == ~tied => repeats <= came

-----------------------------------------------------------------------------

\* The rows before the next page, in each order MySQL may give the list.
Heads ==
    {B \in SUBSET Listed :
        /\ Cardinality(B) = Least(Offset, Cardinality(Listed))
        /\ \A r \in Listed \ B, s \in B : ~Before(r, s)}

\* Inductive form of both properties.  The rows already given that have been
\* pushed behind the next page will be repeated, and count with those that
\* were; the rows that have slipped before it will be missed.
WalkInv ==
    \A B \in Heads :
        /\ repeats + Cardinality(seen \cap (Listed \ B)) <= came
        /\ Cardinality((steady \cap B) \ seen) <= left

\* Between two walks nothing is known of the last.
IdleInv ==
    walk = "idle" => /\ page = 0 /\ seen = {} /\ repeats = 0
                     /\ steady = {} /\ left = 0 /\ came = 0
                     /\ tied = FALSE

\* The inductive invariant.
PagesInv ==
    /\ IsFiniteSet(Rows)
    /\ IdleInv
    /\ steady \subseteq Listed
    /\ RepeatsFollowArrivals
    /\ tied \/ WalkInv

=============================================================================
