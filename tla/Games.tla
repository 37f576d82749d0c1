-------------------------------- MODULE Games --------------------------------
(***************************************************************************)
(* One row of Game and the handlers of game.controller.ts that trust the   *)
(* cached reads of it: deleteGame looks at getGame before it updates,      *)
(* patchGame answers with getGame after it has updated, and putGameReview, *)
(* like the other handlers that check gameExists first, is stopped by it.  *)
(*                                                                         *)
(* The row has two cache entries, game-<id> and game-exists-<id>, which    *)
(* updateGame drops together and memcached keeps apart.  Each is a         *)
(* StaleRegister over the same row, the specification that CacheAside      *)
(* implements.  A version of the row is removed or live by its number:     *)
(* Removed says which, and an update takes the number its value asks for.  *)
(* The reports that deleteGame and patchGame write without waiting for     *)
(* them are left out: nothing reads them back.                             *)
(***************************************************************************)
EXTENDS Naturals

CONSTANTS
    Procs,      \* requests in progress
    Removed,    \* the versions in which the removed flag is set
    MaxVersion  \* bound on the number of updates, for model checking

ASSUME RemovedAssumption == Removed \subseteq Nat \ {0, 1}
ASSUME BoundAssumption == MaxVersion \in Nat \ {0}

VARIABLES
    db,             \* committed version of the row
    viewFloor, viewing, viewBegan, viewSince, viewed,      \* getGame
    knownFloor, asking, askBegan, askSince, known,         \* gameExists
    pc,             \* where each request stands
    reply           \* what the latest request of a process answered

viewVars == <<viewFloor, viewing, viewBegan, viewSince, viewed>>
knownVars == <<knownFloor, asking, askBegan, askSince, known>>
requestVars == <<pc, reply>>
vars == <<db, viewVars, knownVars, requestVars>>

View == INSTANCE StaleRegister
          WITH Falsy <- {}, floor <- viewFloor, reading <- viewing,
               began <- viewBegan, since <- viewSince, answer <- viewed
Known == INSTANCE StaleRegister
           WITH Falsy <- Removed, floor <- knownFloor, reading <- asking,
                began <- askBegan, since <- askSince, answer <- known

TypeOK ==
    /\ db \in 1..MaxVersion
    /\ {viewFloor, knownFloor} \subseteq 1..db
    /\ viewing \subseteq Procs /\ asking \subseteq Procs
    /\ {viewBegan, viewSince, viewed} \subseteq [Procs -> 0..MaxVersion]
    /\ {askBegan, askSince, known} \subseteq [Procs -> 0..MaxVersion]
    /\ pc \in [Procs -> {"idle", "look", "remove", "reload", "ask"}]
    /\ reply \in [Procs -> {"none", "already", "removed", "patched", "found",
                            "missing", "error"}]

Init ==
    /\ View!AInit
    /\ Known!AInit
    /\ pc = [p \in Procs |-> "idle"]
    /\ reply = [p \in Procs |-> "none"]

-----------------------------------------------------------------------------

Goto(p, from, to) ==
    /\ pc[p] = from
    /\ pc' = [pc EXCEPT ![p] = to]

Answer(p, r) == reply' = [reply EXCEPT ![p] = r]

\* updateGame: the UPDATE and the two uncaches.
Commit(version) ==
    /\ version = db + 1
    /\ View!Commit
    /\ Known!Commit

-----------------------------------------------------------------------------
(* deleteGame.                                                             *)

StartDelete(p) ==
    /\ Goto(p, "idle", "look")
    /\ Answer(p, "none")
    /\ View!Begin(p)
    /\ UNCHANGED <<asking, askBegan, askSince, known>>

\* `if (game.removed) return this.setStatus(204)`
AlreadyRemoved(p) ==
    /\ Goto(p, "look", "idle")
    /\ \E v \in Removed : View!Return(p, v)
    /\ Answer(p, "already")
    /\ UNCHANGED <<asking, askBegan, askSince, known>>

\* Mutant of SeenLive: the removed flag of the answer is not looked at.
SeenAnything(p) ==
    /\ Goto(p, "look", "remove")
    /\ \E v \in 1..db : View!Return(p, v)
    /\ UNCHANGED <<asking, askBegan, askSince, known, reply>>

SeenLive(p) ==
    /\ Goto(p, "look", "remove")
    /\ \E v \in 1..db \ Removed : View!Return(p, v)
    /\ UNCHANGED <<asking, askBegan, askSince, known, reply>>

Remove(p) ==
    /\ Goto(p, "remove", "idle")
    /\ \E v \in Removed : Commit(v)
    /\ Answer(p, "removed")

-----------------------------------------------------------------------------
(* patchGame: may set or clear removed, or leave it.                       *)

Patch(p) ==
    /\ Goto(p, "idle", "reload")
    /\ Answer(p, "none")
    /\ \E v \in 1..MaxVersion : Commit(v)

\* getGame after the update.
Reload(p) ==
    /\ pc[p] = "reload"
    /\ View!Begin(p)
    /\ UNCHANGED <<pc, asking, askBegan, askSince, known, reply>>

Reloaded(p) ==
    /\ Goto(p, "reload", "idle")
    /\ \E v \in 1..db : View!Return(p, v)
    /\ Answer(p, "patched")
    /\ UNCHANGED <<asking, askBegan, askSince, known>>

-----------------------------------------------------------------------------
(* putGameReview's check of gameExists.                                    *)

StartReview(p) ==
    /\ Goto(p, "idle", "ask")
    /\ Answer(p, "none")
    /\ Known!Begin(p)
    /\ UNCHANGED <<viewing, viewBegan, viewSince, viewed>>

\* Mutant of Checked: a cached "no" is an answer like any other.
CheckedStale(p) ==
    /\ Goto(p, "ask", "idle")
    /\ \E v \in askSince[p]..db :
          /\ known' = [known EXCEPT ![p] = v]
          /\ Answer(p, IF v \in Removed THEN "missing" ELSE "found")
    /\ asking' = asking \ {p}
    /\ UNCHANGED <<db, askBegan, askSince, viewing, viewBegan, viewSince,
                   viewed>>

Checked(p) ==
    /\ Goto(p, "ask", "idle")
    /\ \E v \in 1..db :
          /\ Known!Return(p, v)
          /\ Answer(p, IF v \in Removed THEN "missing" ELSE "found")
    /\ UNCHANGED <<viewing, viewBegan, viewSince, viewed>>

-----------------------------------------------------------------------------

\* A statement fails or the instance stops.
Fail(p) ==
    /\ pc[p] # "idle"
    /\ Goto(p, pc[p], "idle")
    /\ IF p \in viewing THEN View!Fail(p)
                        ELSE UNCHANGED <<viewing, viewBegan, viewSince, viewed>>
    /\ IF p \in asking THEN Known!Fail(p)
                       ELSE UNCHANGED <<asking, askBegan, askSince, known>>
    /\ Answer(p, "error")
    /\ UNCHANGED <<db>>

Request(p) ==
    \/ StartDelete(p) \/ AlreadyRemoved(p) \/ SeenLive(p) \/ Remove(p)
    \/ Patch(p) \/ Reload(p) \/ Reloaded(p)
    \/ StartReview(p) \/ Checked(p) \/ Fail(p)

Next ==
    /\ (\E p \in Procs : Request(p))
    /\ View!Settle
    /\ Known!Settle

Spec == Init /\ [][Next]_vars

-----------------------------------------------------------------------------

\* A review is turned away with 404 only if the game was removed at some
\* moment of that request, however stale game-exists-<id> may be
\* (game.controller.ts, putGameReview; datastore.ts, gameExists).
NotFoundIsTrue ==
    \A p \in Procs : reply[p] = "missing" =>
        \E v \in askBegan[p]..db : v \in Removed

\* "repeated deletions of the same game have no effect": a delete that goes
\* on to update has found the game live at or after the version every copy
\* had reached when it began, so once the caches have settled on a removed
\* game no further delete touches it (game.controller.ts, deleteGame).
RepeatedDeleteIdle ==
    \A p \in Procs : pc[p] = "remove" =>
        \E v \in viewSince[p]..db : v \notin Removed

=============================================================================
