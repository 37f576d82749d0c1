-------------------------------- MODULE Tags ---------------------------------
(***************************************************************************)
(* The tags one user has given to one game: their GameTag rows, and        *)
(* setTags of datastore.ts, which deletes them all and inserts the new     *)
(* ones one statement after the other.  postGameSetTags checks the tags    *)
(* first (tagsExist); putGameReview passes on what the body holds.         *)
(*                                                                         *)
(* The primary key (game, tag, user) refuses a row that is there already,  *)
(* and the handler ends with an error where it stands.  The cached lists   *)
(* of tags are left out: CacheAside says what holds of an entry that is    *)
(* dropped, as game-tag-<game>-<user> is at the end of setTags.            *)
(***************************************************************************)
EXTENDS Naturals, Sequences, FiniteSets, Functions

CONSTANTS
    Procs,     \* requests in progress
    TagIds,    \* the tags a body may name
    Known,     \* those that exist
    MaxTags    \* bound on the length of a body, for model checking

ASSUME KnownAssumption == Known \subseteq TagIds
ASSUME BoundAssumption == MaxTags \in Nat

VARIABLES
    rows,      \* the tags of the user's rows
    pc,        \* where each request stands
    wanted,    \* the tags it was given
    todo,      \* those still to be inserted
    alone,     \* history: the requests no other has overlapped
    deleter,   \* history: {p} if p deleted the rows last and is under way
    promised,  \* history: the tags it was given, unless it failed
    entitled,  \* history: its tags, and those others were still to insert
    settled    \* history: {tags} once a request that was alone has finished

historyVars == <<alone, deleter, promised, entitled, settled>>
vars == <<rows, pc, wanted, todo, historyVars>>

Bodies == UNION {[1..n -> TagIds] : n \in 0..MaxTags}

TypeOK ==
    /\ rows \subseteq TagIds
    /\ pc \in [Procs -> {"idle", "check", "delete", "insert"}]
    /\ wanted \in [Procs -> Seq(TagIds)]
    /\ todo \in [Procs -> Seq(TagIds)]
    /\ alone \subseteq Procs
    /\ deleter \subseteq Procs
    /\ promised \subseteq TagIds
    /\ entitled \subseteq TagIds
    /\ settled \subseteq SUBSET TagIds

Init ==
    /\ rows = {}
    /\ pc = [p \in Procs |-> "idle"]
    /\ wanted = [p \in Procs |-> <<>>]
    /\ todo = [p \in Procs |-> <<>>]
    /\ alone = {}
    /\ deleter = {}
    /\ promised = {}
    /\ entitled = {}
    /\ settled = {{}}

Goto(p, from, to) ==
    /\ pc[p] = from
    /\ pc' = [pc EXCEPT ![p] = to]

\* The request ends, with an answer or with an error.
Done(p, from) ==
    /\ Goto(p, from, "idle")
    /\ wanted' = [wanted EXCEPT ![p] = <<>>]
    /\ todo' = [todo EXCEPT ![p] = <<>>]
    /\ deleter' = deleter \ {p}

\* An error cuts short what the request still had to insert.
Broken(p, from) ==
    /\ Done(p, from)
    /\ promised' = IF p \in deleter THEN {} ELSE promised
    /\ UNCHANGED <<rows, alone, entitled, settled>>

\* tagsExist: the tags found are as many as the body names.
TagsExist(tags) == Cardinality(Range(tags) \cap Known) = Len(tags)

-----------------------------------------------------------------------------

Start(p, from) ==
    /\ Goto(p, "idle", from)
    /\ \E tags \in Bodies : /\ wanted' = [wanted EXCEPT ![p] = tags]
                            /\ todo' = [todo EXCEPT ![p] = tags]
    /\ alone' = IF \A q \in Procs : pc[q] = "idle" THEN {p} ELSE {}
    /\ UNCHANGED <<rows, deleter, promised, entitled, settled>>

\* postGameSetTags
StartTags(p) == Start(p, "check")

\* putGameReview, whose review is stored by now.  patchReview does the same
\* to the game whose number its review has.
StartReview(p) == Start(p, "delete")

Refused(p) ==
    /\ Done(p, "check")
    /\ ~TagsExist(wanted[p])
    /\ UNCHANGED <<rows, alone, promised, entitled, settled>>

Allowed(p) ==
    /\ Goto(p, "check", "delete")
    /\ TagsExist(wanted[p])
    /\ UNCHANGED <<rows, wanted, todo, historyVars>>

\* Mutant of Delete: the rows are left, the new tags are added to them.
DeleteNothing(p) ==
    /\ Goto(p, "delete", "insert")
    /\ deleter' = {p}
    /\ promised' = Range(wanted[p])
    /\ entitled' = Range(todo[p]) \cup
           UNION {Range(todo[q]) : q \in {r \in Procs : pc[r] = "insert"}}
    /\ settled' = {}
    /\ UNCHANGED <<rows, wanted, todo, alone>>

\* DELETE FROM GameTag WHERE game_id=? AND user_id=?
Delete(p) ==
    /\ Goto(p, "delete", "insert")
    /\ rows' = {}
    /\ deleter' = {p}
    /\ promised' = Range(wanted[p])
    /\ entitled' = Range(todo[p]) \cup
           UNION {Range(todo[q]) : q \in {r \in Procs : pc[r] = "insert"}}
    /\ settled' = {}
    /\ UNCHANGED <<wanted, todo, alone>>

\* Mutant of Insert: a row that is there already is replaced and the rest
\* skipped.
InsertSkips(p) ==
    /\ pc[p] = "insert"
    /\ todo[p] # <<>>
    /\ rows' = rows \cup {Head(todo[p])}
    /\ todo' = [todo EXCEPT ![p] =
                  IF Head(todo[p]) \in rows THEN <<>> ELSE Tail(todo[p])]
    /\ UNCHANGED <<pc, wanted, historyVars>>

\* Mutant of Insert: a statement whose answer is lost is sent again.
InsertAgain(p) ==
    /\ pc[p] = "insert"
    /\ todo[p] # <<>>
    /\ Head(todo[p]) \notin rows
    /\ rows' = rows \cup {Head(todo[p])}
    /\ todo' \in {todo, [todo EXCEPT ![p] = Tail(todo[p])]}
    /\ UNCHANGED <<pc, wanted, historyVars>>

\* INSERT INTO GameTag, for the next tag of the body.
Insert(p) ==
    /\ pc[p] = "insert"
    /\ todo[p] # <<>>
    /\ Head(todo[p]) \notin rows
    /\ rows' = rows \cup {Head(todo[p])}
    /\ todo' = [todo EXCEPT ![p] = Tail(todo[p])]
    /\ UNCHANGED <<pc, wanted, historyVars>>

\* The primary key refuses the row; the rest is never inserted.
Duplicate(p) ==
    /\ pc[p] = "insert"
    /\ todo[p] # <<>>
    /\ Head(todo[p]) \in rows
    /\ Broken(p, "insert")

\* The uncache, and the answer.
Finish(p) ==
    /\ pc[p] = "insert"
    /\ todo[p] = <<>>
    /\ Done(p, "insert")
    /\ settled' = IF p \in alone THEN {Range(wanted[p])} ELSE settled
    /\ UNCHANGED <<rows, alone, promised, entitled>>

\* A statement fails or the instance stops.
Fail(p) ==
    /\ pc[p] # "idle"
    /\ Broken(p, pc[p])

Next ==
    \E p \in Procs :
        \/ StartTags(p) \/ StartReview(p) \/ Refused(p) \/ Allowed(p)
        \/ Delete(p) \/ Insert(p) \/ Duplicate(p) \/ Finish(p) \/ Fail(p)

Spec == Init /\ [][Next]_vars

-----------------------------------------------------------------------------

\* "Clears and sets an array of tag IDs": when a request that nothing
\* overlapped has finished, the user's tags are the ones it was given, until
\* another deletes them (game.controller.ts, postGameSetTags).
LoneSetStands == \A tags \in settled : rows = tags

\* An insert meets a row that is there only if another request overlapped,
\* or if a body names a tag twice, which only the tags of a review can: a
\* set of checked tags that is alone never stops half way
\* (datastore.ts, setTags and tagsExist).
DuplicateHasCause ==
    \A p \in Procs :
        /\ pc[p] = "insert" /\ todo[p] # <<>>
        /\ Head(todo[p]) \in rows
        /\ p \in alone
        => Cardinality(Range(wanted[p])) < Len(wanted[p])

\* However requests overlap, no tag survives from before the last delete,
\* and the tags given to the last request to delete are there, or it still
\* has them to insert, unless an error stopped it: what others insert comes on
\* top, and nothing of its own is lost (datastore.ts, setTags).
LastDeleteWins ==
    /\ rows \subseteq entitled
    /\ promised \subseteq rows \cup UNION {Range(todo[p]) : p \in deleter}

-----------------------------------------------------------------------------

\* The inductive invariant behind them.  A request that is alone has all its
\* tags in the rows or still to insert; once one has settled the rows, nobody
\* inserts.
RequestInv ==
    /\ \A p \in Procs : pc[p] \in {"check", "delete"} => todo[p] = wanted[p]
    /\ \A p \in alone : \A q \in Procs \ {p} : pc[q] = "idle"
    /\ \A p \in alone : pc[p] = "insert" =>
           rows \cup Range(todo[p]) = Range(wanted[p])
    /\ settled # {} => \A p \in Procs : pc[p] # "insert"

\* A request that is alone goes through its tags in their order: the rows are
\* the first of them, those still to insert are the others.
Inserted(p) == Len(wanted[p]) - Len(todo[p])

OrderInv ==
    \A p \in alone : pc[p] = "insert" =>
        /\ Inserted(p) >= 0
        /\ rows = {wanted[p][i] : i \in 1..Inserted(p)}
        /\ \A i \in 1..Len(todo[p]) : todo[p][i] = wanted[p][Inserted(p) + i]

\* Whoever inserts may; the last to delete inserts, until it is done.
DeleterInv ==
    /\ \A p \in Procs : pc[p] = "insert" => Range(todo[p]) \subseteq entitled
    /\ \A p \in deleter : pc[p] = "insert"

TagsInv ==
    /\ RequestInv
    /\ OrderInv
    /\ DeleterInv
    /\ LoneSetStands
    /\ LastDeleteWins

=============================================================================
