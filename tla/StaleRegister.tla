---------------------------- MODULE StaleRegister ----------------------------
(***************************************************************************)
(* What the cached reads of src/src/datastore.ts promise: a register whose *)
(* reads may be stale, but never without bound.                            *)
(*                                                                         *)
(*   - An answer is a version of the row that was committed, and never one *)
(*     older than floor was when the read began.                           *)
(*   - A falsy answer (no such game, no such row) is never stale: it was   *)
(*     the row's value at some moment of that very read.                   *)
(*                                                                         *)
(* floor is a version below which the cache has forgotten everything.  It  *)
(* only moves up to the current version, at moments the caller cannot see. *)
(* CacheAside implements this specification.                               *)
(***************************************************************************)
EXTENDS Naturals

CONSTANTS
    Procs,
    Falsy,
    MaxVersion

VARIABLES
    db,       \* committed version of the row
    floor,    \* no read that begins now returns an older version
    reading,  \* the requests whose read has begun and not returned
    began,    \* db when the read began
    since,    \* floor when the read began
    answer    \* what the latest read of a request returned, 0 for nothing

avars == <<db, floor, reading, began, since, answer>>

AInit ==
    /\ db = 1
    /\ floor = 1
    /\ reading = {}
    /\ began = [p \in Procs |-> 0]
    /\ since = [p \in Procs |-> 0]
    /\ answer = [p \in Procs |-> 0]

Begin(p) ==
    /\ p \notin reading
    /\ reading' = reading \cup {p}
    /\ began' = [began EXCEPT ![p] = db]
    /\ since' = [since EXCEPT ![p] = floor]
    /\ answer' = [answer EXCEPT ![p] = 0]
    /\ UNCHANGED db

Answerable(p, v) ==
    /\ v >= since[p]
    /\ v <= db
    /\ v \in Falsy => v >= began[p]

Return(p, v) ==
    /\ p \in reading
    /\ Answerable(p, v)
    /\ reading' = reading \ {p}
    /\ answer' = [answer EXCEPT ![p] = v]
    /\ UNCHANGED <<db, began, since>>

Fail(p) ==
    /\ p \in reading
    /\ reading' = reading \ {p}
    /\ UNCHANGED <<db, began, since, answer>>

Commit ==
    /\ db < MaxVersion
    /\ db' = db + 1
    /\ UNCHANGED <<reading, began, since, answer>>

\* Every step may also settle the register at its new current version.
Settle == floor' \in {floor, db'}

ANext ==
    /\ \/ \E p \in Procs : Begin(p) \/ Fail(p) \/ \E v \in 1..db : Return(p, v)
       \/ Commit
       \/ UNCHANGED <<db, reading, began, since, answer>>
    /\ Settle

ASpec == AInit /\ [][ANext]_avars

=============================================================================
