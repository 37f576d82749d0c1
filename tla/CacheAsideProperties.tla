------------------------ MODULE CacheAsideProperties ------------------------
(***************************************************************************)
(* The properties of the read-through cache, over module CacheAside.       *)
(***************************************************************************)
EXTENDS CacheAside

\* An invalidation of the entry is still to come: a writer that has updated
\* the row and not yet called uncache, or a del command on its way.
InvalidationPending ==
    \E p \in Procs : pc[p] = "drop" \/ out[p].op = "del"

\* A cached value that differs from the row is there for one of three
\* reasons only: its invalidation is still on its way, it was stored by a
\* read that a write overtook, or its invalidation was lost.  So a writer
\* that updates the row and forgets uncache, or calls it before the UPDATE,
\* breaks this (datastore.ts, every UPDATE followed by uncache).
StaleExplained ==
    entry \notin {NoEntry, db} => InvalidationPending \/ lateFill \/ lostDrop

\* A read never returns a version older than one at which, before the read
\* began, no older copy was left in memcached, in a request or on the wire
\* (datastore.ts, cache).  Staleness is bounded by the copies in flight.
AnswersAboveFloor ==
    \A p \in Procs : answer[p] # NoAnswer => answer[p] >= since[p]

\* "No such game", a removed game for gameExists: a falsy answer always
\* comes from the database during the read, never from the cache.
FalsyAnswersFresh ==
    \A p \in Procs : answer[p] \in Falsy => answer[p] >= began[p]

-----------------------------------------------------------------------------

\* A request has at most one command on its way, sent as it ends.
OneCommand == \A p \in Procs : pc[p] # "idle" => out[p].op = "none"

\* Strengthening of AnswersAboveFloor and FalsyAnswersFresh.  Every copy of
\* the row, in memcached, on the wire or in a request, is a committed
\* version not below floor.
CopiesInv ==
    /\ floor >= 1 /\ floor <= db
    /\ entry # NoEntry => entry >= floor /\ entry <= db
    /\ \A p \in Procs : out[p].op = "set" =>
           out[p].ver >= floor /\ out[p].ver <= db
    /\ \A p \in Procs : pc[p] = "store" => held[p] >= floor /\ held[p] <= db

\* A read in progress has not answered, and what it has selected is not
\* older than the read.
ReadsInv ==
    \A p \in Procs :
        /\ since[p] <= floor
        /\ pc[p] \in Reading => answer[p] = NoAnswer
        /\ pc[p] = "query" => began[p] <= db
        /\ pc[p] = "get" => began[p] <= db
        /\ pc[p] = "store" => held[p] >= began[p]

\* The inductive invariant behind both properties of the answers: no copy
\* of the row outlives the floor (datastore.ts, cache).
RegisterInv == OneCommand /\ CopiesInv /\ ReadsInv

-----------------------------------------------------------------------------

\* The abstract register, seen through the cache.
Register == INSTANCE StaleRegister
              WITH reading <- {p \in Procs : pc[p] \in Reading}

\* The cache implements the register that may be stale but never below its
\* floor and never on a falsy answer (datastore.ts, cache and uncache).
ImplementsRegister == Register!ASpec

-----------------------------------------------------------------------------

\* Node's event loop runs every pending continuation, and a get, a SELECT
\* or an UPDATE is answered or fails; nothing is assumed of writers that
\* have not begun, of evictions, or of which outcome a step has.
Fairness ==
    /\ \A p \in Procs :
          WF_vars((Hit(p) \/ Miss(p) \/ Query(p) \/ Fill(p)) /\ TrackFloor)
    /\ \A p \in Procs : WF_vars(Drop(p) /\ TrackFloor)
    /\ \A p \in Procs :
          WF_vars((ApplySet(p) \/ ApplyDel(p) \/ Lose(p)) /\ TrackFloor)

FairSpec == Spec /\ Fairness

\* A read that has begun ends, whatever is cached: a falsy entry or an
\* unreachable memcached sends it to the database, not into a wait.
ReadsEnd == \A p \in Procs : pc[p] \in Reading ~> pc[p] \notin Reading

=============================================================================
