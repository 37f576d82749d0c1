------------------------------ MODULE GamePage ------------------------------
(***************************************************************************)
(* The page of a game (getGameCompositeAll, and getGame of                 *)
(* game.controller.ts up to the owner's review), composed with what        *)
(* changes the game (Games) and its reviews.  A page reads the game        *)
(* through the cache, then the review of the owner it has found, then the  *)
(* first reviews of everyone but the owner the row has by now.             *)
(*                                                                         *)
(* The owner of a version of the row is fixed by its number, like its      *)
(* removed flag.  Left out: ratings, tags and screenshots, which the page  *)
(* reads next to the reviews; by what the reviews are ordered, so that any *)
(* of them may come first; a random game, which is this one.               *)
(***************************************************************************)
EXTENDS Games, FiniteSets

CONSTANTS
    Authors,    \* of the reviews of the game
    Owner,      \* the owner of each version of the game
    PageSize    \* `limit`: the reviews a page lists at most

None == "none"

ASSUME OwnerAssumption == Owner \in [1..MaxVersion -> Authors \cup {None}]
ASSUME PageSizeAssumption == PageSize \in Nat

VARIABLES
    shown,      \* the authors who have a review that is not removed and are
                \* not banned
    page        \* where each page stands, and what it has read

askVars == <<asking, askBegan, askSince, known>>
rowVars == <<db, viewing, viewBegan, viewSince, viewed>>
pageVars == <<shown, page>>

\* `could`: history, the authors whose review each query so far could see.
Page ==
    [at : {"closed", "game", "owner", "list", "sent"},
     bio : SUBSET Authors,      \* ownerBio
     listed : SUBSET Authors,
     could : SUBSET Authors]

Closed == [at |-> "closed", bio |-> {}, listed |-> {}, could |-> {}]

PageTypeOK ==
    /\ TypeOK
    /\ shown \subseteq Authors
    /\ page \in [Procs -> Page]

PageInit ==
    /\ Init
    /\ shown \in SUBSET Authors
    /\ page = [p \in Procs |-> Closed]

-----------------------------------------------------------------------------

\* getReviews, with removed: false, asks for r.removed = 0, u.banned = 0 and
\* g.removed = 0 of the game as it is.
Visible == IF db \in Removed THEN {} ELSE shown

\* What LIMIT 0, PageSize may leave of the rows R, whatever their order.
FirstPage(R) ==
    {L \in SUBSET R :
        /\ Cardinality(L) <= PageSize
        /\ L # R => Cardinality(L) = PageSize}

Move(p, from, to) ==
    /\ page[p].at = from
    /\ page' = [page EXCEPT ![p].at = to]

Open(p) ==
    /\ pc[p] = "idle"
    /\ Move(p, "closed", "game")
    /\ View!Begin(p)
    /\ UNCHANGED <<askVars, requestVars, shown>>

\* The game, removed or not, from the cache or the table.
ReadGame(p) ==
    /\ Move(p, "game", "owner")
    /\ \E v \in 1..db : View!Return(p, v)
    /\ UNCHANGED <<askVars, requestVars, shown>>

\* Mutant of ReadOwner: `ownerReviews.length > 1`.
ReadOwnerNever(p) ==
    /\ page[p].at = "owner"
    /\ page' = [page EXCEPT ![p].at = "list", ![p].could = Visible]
    /\ UNCHANGED <<rowVars, askVars, requestVars, shown>>

\* The review of the owner the page knows, if there is one.
ReadOwner(p) ==
    /\ page[p].at = "owner"
    /\ page' = [page EXCEPT ![p].at = "list",
                            ![p].bio = Visible \cap {Owner[viewed[p]]},
                            ![p].could = Visible]
    /\ UNCHANGED <<rowVars, askVars, requestVars, shown>>

\* Mutant of ReadReviews: includeOwnerReview is not given.
ReadReviewsAll(p) ==
    /\ page[p].at = "list"
    /\ \E list \in FirstPage(Visible) :
          page' = [page EXCEPT ![p].at = "sent",
                               ![p].listed = list,
                               ![p].could = @ \cap Visible]
    /\ UNCHANGED <<rowVars, askVars, requestVars, shown>>

\* g.owner_id is null or g.owner_id <> r.user_id, of the row as it is; the
\* first PageSize of them.
ReadReviews(p) ==
    /\ page[p].at = "list"
    /\ \E list \in FirstPage(Visible \ {Owner[db]}) :
          page' = [page EXCEPT ![p].at = "sent",
                               ![p].listed = list,
                               ![p].could = @ \cap Visible]
    /\ UNCHANGED <<rowVars, askVars, requestVars, shown>>

\* The answer is sent, by getGame without the list; or a statement fails.
Close(p) ==
    /\ page[p].at # "closed"
    /\ page' = [page EXCEPT ![p] = Closed]
    /\ IF p \in viewing THEN View!Fail(p) ELSE UNCHANGED rowVars
    /\ UNCHANGED <<askVars, requestVars, shown>>

\* A review is written, removed or restored, or its author is banned or let
\* in again (Reviews).
ChangeReview(a) ==
    /\ shown' \in {shown \cup {a}, shown \ {a}}
    /\ UNCHANGED <<rowVars, askVars, requestVars, page>>

PageStep(p) ==
    Open(p) \/ ReadGame(p) \/ ReadOwner(p) \/ ReadReviews(p) \/ Close(p)

GameStep(p) ==
    /\ page[p].at = "closed"
    /\ Request(p)
    /\ UNCHANGED pageVars

PageNext ==
    /\ \/ \E p \in Procs : PageStep(p) \/ GameStep(p)
       \/ \E a \in Authors : ChangeReview(a)
    /\ View!Settle
    /\ Known!Settle

PageSpec == PageInit /\ [][PageNext]_<<vars, pageVars>>

-----------------------------------------------------------------------------

\* The versions of the game from the oldest copy a page could have been given
\* to the row as it is.
Met(p) == viewSince[p]..db

\* The game has changed hands among them.
ChangedHands(p) == \E v, w \in Met(p) : Owner[v] # Owner[w]

\* A page shows no review twice, as the owner's and in the list, unless the
\* game has changed hands since the oldest copy of it in the cache when the
\* page was opened (composite.controller.ts, getGameCompositeAll).
ShownOnce ==
    \A p \in Procs :
        page[p].at = "sent" /\ page[p].bio \cap page[p].listed # {} =>
            ChangedHands(p)

\* The page lists as many reviews as it may: five, in the code.
Full(p) == Cardinality(page[p].listed) = PageSize

\* A review that both queries could see and that is not on the page is not
\* that of the owner the page has read; and either the list is full without
\* it, or its author has come to own the game since the version the page has
\* read (composite.controller.ts, getGameCompositeAll; datastore.ts,
\* getReviews).
NoneMissing ==
    \A p \in Procs :
        page[p].at = "sent" =>
            \A a \in page[p].could \ (page[p].bio \cup page[p].listed) :
                /\ a # Owner[viewed[p]]
                /\ Full(p) \/ \E v \in viewed[p]..db : a = Owner[v]

-----------------------------------------------------------------------------

\* The inductive invariant behind the four.  A read that has begun or returned
\* is bounded by the versions of the row, and a page that has looked for the
\* owner's review has found it if it could be seen.
ReadInv(p) ==
    /\ page[p].at # "closed" => pc[p] = "idle" /\ viewSince[p] \in 1..db
    /\ page[p].at = "game" => p \in viewing
    /\ page[p].at \in {"owner", "list", "sent"} =>
          p \notin viewing /\ viewed[p] \in Met(p)
    /\ page[p].at = "list" =>
          /\ page[p].bio \subseteq {Owner[viewed[p]]}
          /\ page[p].could \cap {Owner[viewed[p]]} \subseteq page[p].bio

PageInv ==
    /\ NotFoundIsTrue
    /\ RepeatedDeleteIdle
    /\ ShownOnce
    /\ NoneMissing
    /\ \A p \in Procs : ReadInv(p)
    /\ \A p \in Procs : p \in viewing => viewSince[p] \in 1..db
    /\ \A p \in Procs : pc[p] = "remove" => p \notin viewing
    /\ \A p \in Procs : reply[p] = "missing" => p \notin asking

=============================================================================
