------------------------------ MODULE CacheAside ------------------------------
(***************************************************************************)
(* The read-through cache of src/src/datastore.ts: the helpers `cache` and *)
(* `uncache`, one memcached key, and the database row its supplier reads.  *)
(*                                                                         *)
(*   cache(key, supplier): memcached.get; a truthy hit is returned; a miss *)
(*     or an error runs the supplier's SELECT, sends memcached.set without *)
(*     waiting for it, and returns what the SELECT gave.                   *)
(*   a writer of the row: UPDATE, then uncache(key), which sends           *)
(*     memcached.del without waiting for it.                               *)
(*                                                                         *)
(* A value is the VERSION of the row it was read from.  Every statement is *)
(* its own transaction, so a version is committed when it exists.  The two *)
(* commands nobody waits for travel on memcached's connection pool: they   *)
(* arrive in any order, or never.  A process is one request of one server  *)
(* instance, with the command it may have left behind.                     *)
(***************************************************************************)
EXTENDS Naturals

CONSTANTS
    Procs,        \* requests in progress, over all server instances
    Falsy,        \* versions whose cached value is falsy: null, false
    MaxVersion    \* bound on the number of writes, for model checking

Version == Nat \ {0}

ASSUME FalsyAssumption == Falsy \subseteq Version

ASSUME BoundAssumption == MaxVersion \in Nat

VARIABLES
    db,       \* version of the row in the database
    entry,    \* version held by memcached, NoEntry if it holds none
    pc,       \* where each request stands
    held,     \* what the SELECT of a read returned
    out,      \* the memcached command a request sent and did not wait for
    answer,   \* what the latest read of a request returned to its caller
    began,    \* history: db when that read began
    since,    \* history: floor when that read began
    floor,    \* history: db when no older copy of the row was left anywhere
    lateFill, \* history: entry was already outdated when it was stored
    lostDrop  \* history: an invalidation was lost since entry was stored

vars == <<db, entry, pc, held, out, answer, began, since, floor, lateFill,
          lostDrop>>

NoEntry == 0
NoAnswer == 0

NoCommand == [op |-> "none", ver |-> 0]
SetCommand(v) == [op |-> "set", ver |-> v]
DelCommand == [op |-> "del", ver |-> 0]

Reading == {"get", "query", "store"}
Labels == Reading \cup {"idle", "drop"}

TypeOK ==
    /\ db \in Version
    /\ entry \in Nat
    /\ pc \in [Procs -> Labels]
    /\ held \in [Procs -> Nat]
    /\ out \in [Procs -> [op : {"none", "set", "del"}, ver : Nat]]
    /\ answer \in [Procs -> Nat]
    /\ began \in [Procs -> Nat]
    /\ since \in [Procs -> Nat]
    /\ floor \in Nat
    /\ lateFill \in BOOLEAN
    /\ lostDrop \in BOOLEAN

Init ==
    /\ db = 1
    /\ entry = NoEntry
    /\ pc = [p \in Procs |-> "idle"]
    /\ held = [p \in Procs |-> 0]
    /\ out = [p \in Procs |-> NoCommand]
    /\ answer = [p \in Procs |-> NoAnswer]
    /\ began = [p \in Procs |-> 0]
    /\ since = [p \in Procs |-> 0]
    /\ floor = 1
    /\ lateFill = FALSE
    /\ lostDrop = FALSE

-----------------------------------------------------------------------------
(* Reads: cache(key, supplier).                                            *)

StartRead(p) ==
    /\ pc[p] = "idle"
    /\ out[p].op = "none"
    /\ pc' = [pc EXCEPT ![p] = "get"]
    /\ answer' = [answer EXCEPT ![p] = NoAnswer]
    /\ began' = [began EXCEPT ![p] = db]
    /\ since' = [since EXCEPT ![p] = floor]
    /\ UNCHANGED <<db, entry, held, out, lateFill, lostDrop>>

\* Mutant of IsHit: whatever memcached holds is a hit.
IsHitAnyEntry(v) == v # NoEntry

\* `if (cached) return cached`: a falsy value in the cache is not a hit.
IsHit(v) == v # NoEntry /\ v \notin Falsy

Hit(p) ==
    /\ pc[p] = "get"
    /\ IsHit(entry)
    /\ answer' = [answer EXCEPT ![p] = entry]
    /\ pc' = [pc EXCEPT ![p] = "idle"]
    /\ UNCHANGED <<db, entry, held, out, began, since, lateFill, lostDrop>>

\* Mutant of Miss: an entry that is no hit does not reach the supplier.
MissOnNothing(p) ==
    /\ pc[p] = "get"
    /\ entry = NoEntry
    /\ pc' = [pc EXCEPT ![p] = "query"]
    /\ UNCHANGED <<db, entry, held, out, answer, began, since, lateFill,
                   lostDrop>>

\* No usable entry, or the get failed: the catch falls through to the supplier.
Miss(p) ==
    /\ pc[p] = "get"
    /\ pc' = [pc EXCEPT ![p] = "query"]
    /\ UNCHANGED <<db, entry, held, out, answer, began, since, lateFill,
                   lostDrop>>

\* Mutant of Query: the result of an earlier request is used again.
QueryMemo(p) ==
    /\ pc[p] = "query"
    /\ held' = [held EXCEPT ![p] = IF held[p] = 0 THEN db ELSE held[p]]
    /\ pc' = [pc EXCEPT ![p] = "store"]
    /\ UNCHANGED <<db, entry, out, answer, began, since, lateFill, lostDrop>>

Query(p) ==
    /\ pc[p] = "query"
    /\ held' = [held EXCEPT ![p] = db]
    /\ pc' = [pc EXCEPT ![p] = "store"]
    /\ UNCHANGED <<db, entry, out, answer, began, since, lateFill, lostDrop>>

Fill(p) ==
    /\ pc[p] = "store"
    /\ out' = [out EXCEPT ![p] = SetCommand(held[p])]
    /\ answer' = [answer EXCEPT ![p] = held[p]]
    /\ pc' = [pc EXCEPT ![p] = "idle"]
    /\ UNCHANGED <<db, entry, held, began, since, lateFill, lostDrop>>

-----------------------------------------------------------------------------
(* Writes: the UPDATE, then uncache(key).                                  *)

Write(p) ==
    /\ pc[p] = "idle"
    /\ out[p].op = "none"
    /\ db < MaxVersion
    /\ db' = db + 1
    /\ pc' = [pc EXCEPT ![p] = "drop"]
    /\ UNCHANGED <<entry, held, out, answer, began, since, lateFill, lostDrop>>

\* Mutant of Drop: the writer forgets uncache.
DropForgotten(p) ==
    /\ pc[p] = "drop"
    /\ pc' = [pc EXCEPT ![p] = "idle"]
    /\ UNCHANGED <<db, entry, held, out, answer, began, since, lateFill,
                   lostDrop>>

Drop(p) ==
    /\ pc[p] = "drop"
    /\ out' = [out EXCEPT ![p] = DelCommand]
    /\ pc' = [pc EXCEPT ![p] = "idle"]
    /\ UNCHANGED <<db, entry, held, answer, began, since, lateFill, lostDrop>>

\* The connection fails or the instance stops: the rest of the request,
\* the uncache of a writer included, does not happen.
Abandon(p) ==
    /\ pc[p] # "idle"
    /\ pc' = [pc EXCEPT ![p] = "idle"]
    /\ lostDrop' = (lostDrop \/ pc[p] = "drop")
    /\ UNCHANGED <<db, entry, held, out, answer, began, since, lateFill>>

-----------------------------------------------------------------------------
(* memcached, external: commands are applied late, out of order or never,  *)
(* and entries are evicted or expire.                                      *)

ApplySet(p) ==
    /\ out[p].op = "set"
    /\ entry' = out[p].ver
    /\ out' = [out EXCEPT ![p] = NoCommand]
    /\ lateFill' = (out[p].ver # db)
    /\ lostDrop' = FALSE
    /\ UNCHANGED <<db, pc, held, answer, began, since>>

ApplyDel(p) ==
    /\ out[p].op = "del"
    /\ entry' = NoEntry
    /\ out' = [out EXCEPT ![p] = NoCommand]
    /\ lateFill' = FALSE
    /\ lostDrop' = FALSE
    /\ UNCHANGED <<db, pc, held, answer, began, since>>

Lose(p) ==
    /\ out[p].op # "none"
    /\ out' = [out EXCEPT ![p] = NoCommand]
    /\ lostDrop' = (lostDrop \/ out[p].op = "del")
    /\ UNCHANGED <<db, entry, pc, held, answer, began, since, lateFill>>

Evict ==
    /\ entry # NoEntry
    /\ entry' = NoEntry
    /\ lateFill' = FALSE
    /\ lostDrop' = FALSE
    /\ UNCHANGED <<db, pc, held, out, answer, began, since>>

-----------------------------------------------------------------------------

\* No copy of the row older than version v is left in memcached, in a
\* request that has read it, or in a set command on its way.
NoCopyBelow(v) ==
    /\ entry # NoEntry => entry >= v
    /\ \A p \in Procs : pc[p] = "store" => held[p] >= v
    /\ \A p \in Procs : out[p].op = "set" => out[p].ver >= v

\* floor follows db whenever every copy is current.
TrackFloor == floor' = IF NoCopyBelow(db)' THEN db' ELSE floor

Request(p) ==
    \/ StartRead(p) \/ Hit(p) \/ Miss(p) \/ Query(p) \/ Fill(p)
    \/ Write(p) \/ Drop(p) \/ Abandon(p)

Memcached ==
    \/ \E p \in Procs : ApplySet(p) \/ ApplyDel(p) \/ Lose(p)
    \/ Evict

Step == (\E p \in Procs : Request(p)) \/ Memcached

Next == Step /\ TrackFloor

Spec == Init /\ [][Next]_vars

=============================================================================
