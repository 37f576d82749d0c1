------------------------------- MODULE Reviews -------------------------------
(***************************************************************************)
(* The reviews of one game: the table Rating, putGameReview of             *)
(* game.controller.ts with datastore.addReview, patchReview of             *)
(* review.controller.ts with datastore.updateReview, and the bans that     *)
(* decide which rows getReviews sees.                                      *)
(*                                                                         *)
(* A put is a chain of autocommitted statements: is the author banned, has *)
(* the author a review, does the game exist, DELETE the author's review,   *)
(* INSERT the new one, SELECT it for the answer.  A patch is a SELECT and  *)
(* an UPDATE.  Everything interleaves, and a request may stop between any  *)
(* two of its statements.                                                  *)
(*                                                                         *)
(* Scores, comments and tags are left out.  canUserReview and gameExists   *)
(* answer either way.                                                      *)
(***************************************************************************)
EXTENDS Naturals

CONSTANTS
    Procs,     \* requests in progress
    Users,     \* authors
    MaxReviews \* bound on the number of INSERTs, for model checking

ASSUME BoundAssumption == MaxReviews \in Nat

Ids == 1..MaxReviews
None == 0

VARIABLES
    last,     \* the newest id given (AUTO_INCREMENT)
    rows,     \* the ids of the rows in Rating
    author,   \* user_id of each row ever inserted
    hidden,   \* the ids whose removed flag is set
    banned,   \* the users who are banned
    pc,       \* where each request stands
    user,     \* for a put: its author
    target,   \* the review a patch is about, or a put has inserted
    flag,     \* for a patch: the removed flag it will write
    reply,    \* what the latest request of a process answered
    mark,     \* history: last when a put saw no review of its author
    blind,    \* history: puts whose author was banned when they looked
    reviewed, \* history: users who have had a review
    cut       \* history: authors whose latest review a stopped put deleted

vars == <<last, rows, author, hidden, banned, pc, user, target, flag, reply,
          mark, blind, reviewed, cut>>

TypeOK ==
    /\ last \in 0..MaxReviews
    /\ rows \subseteq 1..last
    /\ author \in [Ids -> Users \cup {None}]
    /\ hidden \subseteq rows
    /\ banned \subseteq Users
    /\ pc \in [Procs -> {"idle", "permit", "check", "exists", "delete",
                         "insert", "reload", "update"}]
    /\ user \in [Procs -> Users \cup {None}]
    /\ \A p \in Procs : pc[p] \notin {"idle", "update"} => user[p] \in Users
    /\ target \in [Procs -> Ids \cup {None}]
    /\ flag \in [Procs -> BOOLEAN]
    /\ reply \in [Procs -> {"none", "saved", "missing", "denied", "previous",
                            "updated", "unmatched", "error"}]
    /\ mark \in [Procs -> 0..MaxReviews]
    /\ blind \subseteq Procs
    /\ reviewed \subseteq Users
    /\ cut \subseteq Users

Init ==
    /\ last = 0
    /\ rows = {}
    /\ author = [i \in Ids |-> None]
    /\ hidden = {}
    /\ banned = {}
    /\ pc = [p \in Procs |-> "idle"]
    /\ user = [p \in Procs |-> None]
    /\ target = [p \in Procs |-> None]
    /\ flag = [p \in Procs |-> FALSE]
    /\ reply = [p \in Procs |-> "none"]
    /\ mark = [p \in Procs |-> 0]
    /\ blind = {}
    /\ reviewed = {}
    /\ cut = {}

RowsOf(u) == {i \in rows : author[i] = u}

table == <<last, rows, author, hidden, banned, reviewed, cut>>

Goto(p, label) == pc' = [pc EXCEPT ![p] = label]

\* The request ends, and what it knew is forgotten.
Answer(p, r) ==
    /\ Goto(p, "idle")
    /\ reply' = [reply EXCEPT ![p] = r]
    /\ user' = [user EXCEPT ![p] = None]
    /\ target' = [target EXCEPT ![p] = None]
    /\ flag' = [flag EXCEPT ![p] = FALSE]
    /\ mark' = [mark EXCEPT ![p] = 0]
    /\ blind' = blind \ {p}

-----------------------------------------------------------------------------
(* putGameReview.                                                          *)

StartPut(p, u) ==
    /\ pc[p] = "idle"
    /\ Goto(p, "permit")
    /\ user' = [user EXCEPT ![p] = u]
    /\ reply' = [reply EXCEPT ![p] = "none"]
    /\ UNCHANGED <<table, target, flag, mark, blind>>

Permit(p) ==
    /\ pc[p] = "permit"
    /\ user[p] \notin banned
    /\ Goto(p, "check")
    /\ UNCHANGED <<table, user, target, flag, reply, mark, blind>>

\* Banned, or not permitted to review.
Deny(p) ==
    /\ pc[p] = "permit"
    /\ Answer(p, "denied")
    /\ UNCHANGED table

\* getReviews joins the author with u.banned = 0: it sees every review of
\* the author, removed or not, and none of an author who is banned by now.
SeenBy(u) == IF u \in banned THEN {} ELSE RowsOf(u)

\* Mutant of NoPrevious: a removed review is not looked for.
NoPreviousShown(p) ==
    /\ pc[p] = "check"
    /\ SeenBy(user[p]) \ hidden = {}
    /\ Goto(p, "exists")
    /\ mark' = [mark EXCEPT ![p] = last]
    /\ blind' = IF user[p] \in banned THEN blind \cup {p} ELSE blind
    /\ UNCHANGED <<table, user, target, flag, reply>>

NoPrevious(p) ==
    /\ pc[p] = "check"
    /\ SeenBy(user[p]) = {}
    /\ Goto(p, "exists")
    /\ mark' = [mark EXCEPT ![p] = last]
    /\ blind' = IF user[p] \in banned THEN blind \cup {p} ELSE blind
    /\ UNCHANGED <<table, user, target, flag, reply>>

HasPrevious(p) ==
    /\ pc[p] = "check"
    /\ SeenBy(user[p]) # {}
    /\ Answer(p, "previous")
    /\ UNCHANGED table

GameExists(p) ==
    /\ pc[p] = "exists"
    /\ Goto(p, "delete")
    /\ UNCHANGED <<table, user, target, flag, reply, mark, blind>>

\* Mutant of NoSuchGame: the game is checked after the DELETE.
NoSuchGameLate(p) ==
    /\ pc[p] \in {"exists", "insert"}
    /\ Answer(p, "missing")
    /\ UNCHANGED table

NoSuchGame(p) ==
    /\ pc[p] = "exists"
    /\ Answer(p, "missing")
    /\ UNCHANGED table

DeleteOld(p) ==
    /\ pc[p] = "delete"
    /\ rows' = rows \ RowsOf(user[p])
    /\ hidden' = hidden \ RowsOf(user[p])
    /\ Goto(p, "insert")
    /\ UNCHANGED <<last, author, banned, user, target, flag, reply, mark, blind,
                   reviewed, cut>>

\* Mutant of InsertNew: no UNIQUE key on author and game.
InsertAnyway(p) ==
    /\ pc[p] = "insert"
    /\ last < MaxReviews
    /\ last' = last + 1
    /\ rows' = rows \cup {last + 1}
    /\ author' = [author EXCEPT ![last + 1] = user[p]]
    /\ reviewed' = reviewed \cup {user[p]}
    /\ cut' = cut \ {user[p]}
    /\ target' = [target EXCEPT ![p] = last + 1]
    /\ Goto(p, "reload")
    /\ UNCHANGED <<hidden, banned, user, flag, reply, mark, blind>>

InsertNew(p) ==
    /\ pc[p] = "insert"
    /\ RowsOf(user[p]) = {}
    /\ last < MaxReviews
    /\ last' = last + 1
    /\ rows' = rows \cup {last + 1}
    /\ author' = [author EXCEPT ![last + 1] = user[p]]
    /\ reviewed' = reviewed \cup {user[p]}
    /\ cut' = cut \ {user[p]}
    /\ target' = [target EXCEPT ![p] = last + 1]
    /\ Goto(p, "reload")
    /\ UNCHANGED <<hidden, banned, user, flag, reply, mark, blind>>

\* UNIQUE (user_id, game_id): another put of this author came in between.
Duplicate(p) ==
    /\ pc[p] = "insert"
    /\ RowsOf(user[p]) # {}
    /\ Answer(p, "error")
    /\ UNCHANGED table

\* getReview of the new id; addReview throws when it is not to be seen.
Reload(p) ==
    /\ pc[p] = "reload"
    /\ Answer(p, IF target[p] \in SeenBy(user[p]) THEN "saved" ELSE "error")
    /\ UNCHANGED table

-----------------------------------------------------------------------------
(* patchReview, by the author or an admin.                                 *)

StartPatch(p, i, removed) ==
    /\ pc[p] = "idle"
    /\ i \in rows
    /\ author[i] \notin banned
    /\ target' = [target EXCEPT ![p] = i]
    /\ flag' = [flag EXCEPT ![p] = removed]
    /\ reply' = [reply EXCEPT ![p] = "none"]
    /\ Goto(p, "update")
    /\ UNCHANGED <<table, user, mark, blind>>

\* The UPDATE writes removed whatever the body says of it.  Its row count
\* is returned by updateReview and not looked at: 204 in either case.
Update(p) ==
    /\ pc[p] = "update"
    /\ hidden' = IF flag[p] THEN hidden \cup ({target[p]} \cap rows)
                            ELSE hidden \ {target[p]}
    /\ Answer(p, IF target[p] \in rows THEN "updated" ELSE "unmatched")
    /\ UNCHANGED <<last, rows, author, banned, reviewed, cut>>

-----------------------------------------------------------------------------

\* A statement fails or the instance stops.
Stop(p) ==
    /\ pc[p] # "idle"
    /\ cut' = IF pc[p] = "insert" THEN cut \cup {user[p]} ELSE cut
    /\ Answer(p, "error")
    /\ UNCHANGED <<last, rows, author, hidden, banned, reviewed>>

\* An admin bans or unbans an author.
SetBanned(u) ==
    /\ banned' \in {banned \cup {u}, banned \ {u}}
    /\ UNCHANGED <<last, rows, author, hidden, pc, user, target, flag, reply,
                   mark, blind, reviewed, cut>>

Next ==
    \/ \E p \in Procs :
        \/ \E u \in Users : StartPut(p, u)
        \/ Permit(p) \/ Deny(p) \/ NoPrevious(p) \/ HasPrevious(p)
        \/ GameExists(p) \/ NoSuchGame(p)
        \/ DeleteOld(p) \/ InsertNew(p) \/ Duplicate(p) \/ Reload(p)
        \/ \E i \in Ids, removed \in BOOLEAN : StartPatch(p, i, removed)
        \/ Update(p) \/ Stop(p)
    \/ \E u \in Users : SetBanned(u)

Spec == Init /\ [][Next]_vars

-----------------------------------------------------------------------------

\* An author never has two reviews of the game, whatever puts interleave
\* between the check, the DELETE and the INSERT (datastore.ts, addReview).
OneReviewEach == \A i, j \in rows : author[i] = author[j] => i = j

\* An author who has had a review still has one, unless a put is between
\* its DELETE and its INSERT or was stopped there: a put that is refused,
\* fails its checks or meets another put loses nothing
\* (game.controller.ts, putGameReview; datastore.ts, addReview).
ReviewKept ==
    \A u \in reviewed : RowsOf(u) = {} =>
        u \in cut \/ \E p \in Procs : pc[p] = "insert" /\ user[p] = u

\* A put never deletes a review that was there when it looked, so a review
\* a moderator has removed is not replaced: it deletes one that came after,
\* from a concurrent put, or its author was banned between two of its
\* checks (game.controller.ts, putGameReview, hasPreviousReview).
OnlyOverlapReplaces ==
    [][\A i \in rows \ rows' : \E p \in Procs :
          /\ pc[p] = "delete"
          /\ author[i] = user[p]
          /\ mark[p] < i \/ p \in blind]_vars

-----------------------------------------------------------------------------

\* The inductive invariant behind the three: rows are known ids with one
\* row to an author, and what a put has seen is older than what came since.
MarksInv ==
    /\ \A p \in Procs : mark[p] <= last
    /\ \A p \in Procs : pc[p] \in {"exists", "delete"} =>
           p \in blind \/ \A i \in RowsOf(user[p]) : mark[p] < i

ReviewInv ==
    /\ OneReviewEach
    /\ ReviewKept
    /\ MarksInv

=============================================================================
