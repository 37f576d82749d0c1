------------------------------ MODULE GameLists ------------------------------
(***************************************************************************)
(* A user's bookmarks, favorites, clears and follows: one row (user, game) *)
(* of Bookmark, Favorite or Clear, or one row of UserFollow, and the       *)
(* requests of list.controller.ts and user.controller.ts that put it       *)
(* (INSERT IGNORE), delete it and ask for it.                              *)
(*                                                                         *)
(* Each request is one autocommitted statement on a connection of its own. *)
(* The statement takes effect at some moment after it is sent.  Put and    *)
(* get always wait for it; delete waits for bookmarks but answers at once  *)
(* for favorites and clears.  Awaited holds the lists whose delete waits.  *)
(* The put and delete of a follow look for the user to be followed first.  *)
(***************************************************************************)
CONSTANTS
    Procs,       \* requests in progress
    Lists,       \* the four lists
    Awaited,     \* those whose delete handler awaits its DELETE: bookmarks, follows
    Checked      \* those whose put and delete look for their target: follows

ASSUME AwaitedAssumption == Awaited \subseteq Lists

VARIABLES
    list,   \* the list the row belongs to
    known,  \* whether its target exists, where that is looked at
    row,    \* whether the row exists: "in" or "out"
    pc,     \* where each request stands
    op,     \* what it was asked to do
    stmts,  \* the requests whose statement has not taken effect yet
    got,    \* what the latest get of a request answered: {} or {value}
    may,    \* history: the values the answers given so far leave possible
    during, \* history: those possible at some moment of a get
    alone,  \* history: the writes no other write overlapped
    early   \* history: a delete was answered early, and no write has taken
            \* effect since with none such still to come

vars == <<list, known, row, pc, op, stmts, got, may, during, alone, early>>

Ops == {"put", "delete", "get"}
Writes == {"put", "delete"}
Values == {"in", "out"}

\* What a write leaves in the database.
Outcome(o) == IF o = "put" THEN "in" ELSE "out"

TypeOK ==
    /\ list \in Lists
    /\ known \in BOOLEAN
    /\ row \in Values
    /\ pc \in [Procs -> {"idle", "look", "sent", "done", "lost"}]
    /\ op \in [Procs -> Ops]
    /\ stmts \subseteq Procs
    /\ got \in [Procs -> SUBSET Values]
    /\ may \subseteq Values
    /\ during \in [Procs -> SUBSET Values]
    /\ alone \subseteq Procs
    /\ early \in BOOLEAN

Init ==
    /\ list \in Lists
    /\ known \in BOOLEAN
    /\ list \notin Checked => known
    /\ row = "out"
    /\ pc = [p \in Procs |-> "idle"]
    /\ op = [p \in Procs |-> "get"]
    /\ stmts = {}
    /\ got = [p \in Procs |-> {}]
    /\ may = {"out"}
    /\ during = [p \in Procs |-> {}]
    /\ alone = {}
    /\ early = FALSE

\* A put or delete that its client cannot take for finished.
Open(p) == pc[p] # "idle" /\ op[p] \in Writes

\* A delete that was answered early and has yet to take effect.
Leftover(p) == pc[p] = "idle" /\ p \in stmts

-----------------------------------------------------------------------------

\* The put and delete of a follow begin with the SELECT of a user; every
\* other request begins with its only statement.
Looks(o) == list \in Checked /\ o \in Writes

Send(p, o) ==
    /\ pc[p] = "idle"
    /\ p \notin stmts
    /\ pc' = [pc EXCEPT ![p] = IF Looks(o) THEN "look" ELSE "sent"]
    /\ op' = [op EXCEPT ![p] = o]
    /\ stmts' = IF Looks(o) THEN stmts ELSE stmts \cup {p}
    /\ got' = [got EXCEPT ![p] = {}]
    /\ UNCHANGED <<list, known, row, early>>

\* A write may take effect from now on; writes that overlap leave it open
\* which of them was the last.
StartWrite(p, o) ==
    /\ Send(p, o)
    /\ may' = may \cup {Outcome(o)}
    /\ during' = [q \in Procs |-> during[q] \cup {Outcome(o)}]
    /\ alone' = IF \E q \in Procs : Open(q) THEN {} ELSE {p}

\* getUser of the handler finds the user, and the write is sent ...
Found(p) ==
    /\ pc[p] = "look"
    /\ known
    /\ pc' = [pc EXCEPT ![p] = "sent"]
    /\ stmts' = stmts \cup {p}
    /\ UNCHANGED <<list, known, row, op, got, may, during, alone, early>>

\* ... or it does not: 404.
NotFound(p) ==
    /\ pc[p] = "look"
    /\ ~known
    /\ pc' = [pc EXCEPT ![p] = "idle"]
    /\ UNCHANGED <<list, known, row, op, stmts, got, may, during, alone, early>>

StartGet(p) ==
    /\ Send(p, "get")
    /\ during' = [during EXCEPT ![p] = may]
    /\ UNCHANGED <<may, alone>>

\* The database runs the statement, waited for or not.
Execute(p) ==
    /\ p \in stmts
    /\ row' = IF op[p] = "get" THEN row ELSE Outcome(op[p])
    /\ stmts' = stmts \ {p}
    /\ got' = IF op[p] = "get" /\ pc[p] = "sent"
                THEN [got EXCEPT ![p] = {row}] ELSE got
    /\ pc' = [pc EXCEPT ![p] = IF pc[p] = "sent" THEN "done" ELSE "idle"]
    /\ early' = (early /\ (Open(p) => \E q \in Procs : Leftover(q)))
    /\ UNCHANGED <<list, known, op, may, during, alone>>

\* The answers 204 and 200.  A write nothing overlapped settles the value.
Conclude(p) ==
    /\ pc' = [pc EXCEPT ![p] = "idle"]
    /\ may' = IF op[p] \in Writes /\ p \in alone THEN {Outcome(op[p])} ELSE may

\* Mutant of Respond: no request waits for its statement.
RespondUnawaited(p) ==
    /\ pc[p] \in {"sent", "done"}
    /\ Conclude(p)
    /\ UNCHANGED <<list, known, row, op, stmts, got, during, alone, early>>

Respond(p) ==
    /\ pc[p] = "done"
    /\ Conclude(p)
    /\ UNCHANGED <<list, known, row, op, stmts, got, during, alone, early>>

\* Mutant of RespondEarly: deletes of bookmarks are not awaited either.
RespondEarlyAlways(p) ==
    /\ pc[p] = "sent"
    /\ op[p] = "delete"
    /\ Conclude(p)
    /\ early' = TRUE
    /\ UNCHANGED <<list, known, row, op, stmts, got, during, alone>>

\* deleteFavoritedGame and deleteClearedGame do not await the DELETE.
RespondEarly(p) ==
    /\ list \notin Awaited
    /\ pc[p] = "sent"
    /\ op[p] = "delete"
    /\ Conclude(p)
    /\ early' = TRUE
    /\ UNCHANGED <<list, known, row, op, stmts, got, during, alone>>

\* The instance stops or the connection breaks.  The client gets an error;
\* a statement already sent may still take effect later (Execute) ...
Break(p) ==
    /\ pc[p] \in {"look", "sent", "done"}
    /\ pc' = [pc EXCEPT ![p] = IF p \in stmts THEN "lost" ELSE "idle"]
    /\ got' = [got EXCEPT ![p] = {}]
    /\ UNCHANGED <<list, known, row, op, stmts, may, during, alone, early>>

\* ... or never does, like one that was answered early and then failed.
Vanish(p) ==
    /\ pc[p] \in {"lost", "idle"}
    /\ p \in stmts
    /\ stmts' = stmts \ {p}
    /\ pc' = [pc EXCEPT ![p] = "idle"]
    /\ UNCHANGED <<list, known, row, op, got, may, during, alone, early>>

Next ==
    \E p \in Procs :
        \/ \E o \in Writes : StartWrite(p, o)
        \/ StartGet(p)
        \/ Found(p) \/ NotFound(p)
        \/ Execute(p) \/ Respond(p) \/ RespondEarly(p)
        \/ Break(p) \/ Vanish(p)

Spec == Init /\ [][Next]_vars

-----------------------------------------------------------------------------

\* A get answers with a value the answers given before it, and the writes
\* under way during it, leave possible: "Favorite Removed" means that the
\* next get says no, until the game is a favorite again
\* (list.controller.ts, the put, get and delete of each list).
GetsRespectAnswers ==
    \A p \in Procs : got[p] \subseteq during[p]

\* It holds for bookmarks and follows, whose delete is awaited, across
\* overlapping writes, broken connections and statements that take effect
\* late (list.controller.ts, user.controller.ts).
AwaitedGetsRespectAnswers == list \in Awaited => GetsRespectAnswers

\* When the row is not what the answers say, an early answer to a delete is
\* to blame, and the first put or delete to take effect after it, with no
\* such delete left, repairs the row (list.controller.ts, favorites and
\* clears).
DriftIsEarly == row \in may \/ early

-----------------------------------------------------------------------------

\* The inductive invariant behind both.  While no early answer has made the
\* row drift, it is one of the values the answers leave possible, and a
\* write that overlapped no other has left its own outcome.
SettledInv ==
    ~early =>
        /\ row \in may
        /\ \A p \in Procs : ~Leftover(p)
        /\ \A p \in Procs : pc[p] = "done" /\ op[p] \in Writes /\ p \in alone =>
               row = Outcome(op[p])

\* A get still waiting for its SELECT may find any value that is possible.
WindowInv ==
    \A p \in Procs :
        /\ pc[p] = "sent" /\ op[p] = "get" => may \subseteq during[p]
        /\ pc[p] # "idle" /\ op[p] \in Writes => Outcome(op[p]) \in may

\* A statement that is waited for, and only such a one, is outstanding; a
\* write nothing overlapped is the only one open.
RequestInv ==
    /\ \A p \in Procs : pc[p] \in {"sent", "lost"} => p \in stmts
    /\ \A p \in Procs : pc[p] \in {"look", "done"} => p \notin stmts
    /\ \A p \in Procs : pc[p] = "look" => op[p] \in Writes
    /\ \A p \in Procs : Open(p) /\ p \in alone =>
           \A q \in Procs : Open(q) => q = p

ListInv ==
    /\ SettledInv
    /\ WindowInv
    /\ RequestInv
    /\ list \in Awaited => ~early /\ GetsRespectAnswers

=============================================================================
