----------------------------- MODULE Screenshots -----------------------------
(***************************************************************************)
(* The screenshots of one user and the permission that lets them appear    *)
(* without approval: postGameScreenshot (game.controller.ts),              *)
(* patchScreenshot (screenshot.controller.ts), patchUsersPermissions       *)
(* (user.controller.ts) and the datastore calls behind them.               *)
(*                                                                         *)
(* An administrator's patch approves a screenshot and then counts: with    *)
(* Threshold approved screenshots the uploader is granted                  *)
(* AUTO_APPROVE_SCREENSHOT.  Uploads read the permission through the cache *)
(* entry user-perm-<id>, a StaleRegister over the user's UserPermission    *)
(* row, of which granted holds every version.  Its value is never falsy.   *)
(*                                                                         *)
(* Left out: removal, which neither approval nor the count looks at; the   *)
(* other permissions and checks of an upload, which may refuse it (Refuse);*)
(* the reports and the S3 upload, started without waiting and read by no   *)
(* step here; the end of a revocation when its date passes.                *)
(***************************************************************************)
EXTENDS Naturals, Sequences, FiniteSets

CONSTANTS
    Procs,      \* requests in progress
    Shots,      \* the ids of the screenshots of this user
    Threshold,  \* approved screenshots that earn the permission (10)
    MaxVersion  \* bound on the changes of the permission, for model checking

ASSUME ThresholdAssumption == Threshold \in Nat \ {0}
ASSUME BoundAssumption == MaxVersion \in Nat

VARIABLES
    shots,      \* the approved column of each screenshot, or "absent"
    granted,    \* the versions of the permission's row so far
    db,         \* the number of the current one
    floor, reading, began, since, answer,   \* getPermissions
    pc,         \* where each request stands
    auto,       \* the uploads that are to be approved at once
    ruled,      \* history: what an administrator set the permission to last
    earned,     \* history: the threshold was met, or an administrator ruled
    dropped     \* history: a patch stopped before it counted or granted, and
                \* none has updated a screenshot since

permVars == <<floor, reading, began, since, answer>>
historyVars == <<ruled, earned, dropped>>
vars == <<shots, granted, db, permVars, pc, auto, historyVars>>

Perms == INSTANCE StaleRegister WITH Falsy <- {}

Approvals == {"undecided", "approved", "rejected"}
Values == {"none", "granted", "revoked"}

TypeOK ==
    /\ shots \in [Shots -> Approvals \cup {"absent"}]
    /\ granted \in Seq(Values)
    /\ db = Len(granted) /\ db >= 1
    /\ floor \in 1..db
    /\ reading \subseteq Procs
    /\ {began, since, answer} \subseteq [Procs -> Nat]
    /\ pc \in [Procs -> {"idle", "ask", "insert", "count", "grant", "reread"}]
    /\ auto \subseteq Procs
    /\ ruled \in Values
    /\ earned \in BOOLEAN /\ dropped \in BOOLEAN

Init ==
    /\ shots = [s \in Shots |-> "absent"]
    /\ granted = <<"none">>
    /\ Perms!AInit
    /\ pc = [p \in Procs |-> "idle"]
    /\ auto = {}
    /\ ruled = "none"
    /\ earned = FALSE
    /\ dropped = FALSE

-----------------------------------------------------------------------------

Goto(p, from, to) ==
    /\ pc[p] = from
    /\ pc' = [pc EXCEPT ![p] = to]

\* getScreenshots({addedById, approved: true})
Approved(column) == {s \in Shots : column[s] = "approved"}

\* `userScreenshots.length >= 10`
MeetsThreshold(column) == Cardinality(Approved(column)) >= Threshold

\* A committed change of the permission; the uncache is the register's.
Change(value) ==
    /\ Perms!Commit
    /\ granted' = Append(granted, value)

\* Mutant of HasPermission: the row counts, whatever its revoked_until.
HasRow(value) == value # "none"

HasPermission(value) == value = "granted"

-----------------------------------------------------------------------------
(* postGameScreenshot.                                                     *)

StartUpload(p) ==
    /\ Goto(p, "idle", "ask")
    /\ Perms!Begin(p)
    /\ auto' = auto \ {p}
    /\ UNCHANGED <<shots, granted, historyVars>>

\* autoApprove is decided here and used after two more awaits.
Asked(p) ==
    /\ Goto(p, "ask", "insert")
    /\ \E v \in 1..db :
          /\ Perms!Return(p, v)
          /\ auto' = IF HasPermission(granted[v]) THEN auto \cup {p} ELSE auto
    /\ UNCHANGED <<shots, granted, historyVars>>

\* CAN_SCREENSHOT is revoked, or there is no such game.
Refuse(p) ==
    /\ Goto(p, "insert", "idle")
    /\ UNCHANGED <<shots, granted, db, reading, began, since, answer, auto,
                   historyVars>>

\* addScreenshot
Insert(p) ==
    /\ Goto(p, "insert", "idle")
    /\ \E s \in Shots :
          /\ shots[s] = "absent"
          /\ shots' = [shots EXCEPT ![s] = IF p \in auto THEN "approved"
                                                         ELSE "undecided"]
    /\ earned' = (earned \/ MeetsThreshold(shots'))
    /\ UNCHANGED <<granted, db, reading, began, since, answer, auto, ruled,
                   dropped>>

-----------------------------------------------------------------------------
(* patchScreenshot.                                                        *)

\* updateScreenshot: the body approves, rejects or says nothing about it.
Update(p) ==
    /\ Goto(p, "idle", "count")
    /\ \E s \in Shots : \E a \in {"approved", "rejected", shots[s]} :
          /\ shots[s] # "absent"
          /\ shots' = [shots EXCEPT ![s] = a]
    /\ earned' = (earned \/ MeetsThreshold(shots'))
    /\ dropped' = FALSE
    /\ UNCHANGED <<granted, db, reading, began, since, answer, auto, ruled>>

\* Mutant of Count: only the patch that makes the count equal to the
\* threshold grants.
CountExact(p) ==
    /\ Goto(p, "count",
            IF Cardinality(Approved(shots)) = Threshold THEN "grant"
                                                        ELSE "idle")
    /\ UNCHANGED <<shots, granted, db, reading, began, since, answer, auto,
                   historyVars>>

\* Mutant of Count: getScreenshots without its approved filter.
CountUploads(p) ==
    /\ Goto(p, "count",
            IF Cardinality({s \in Shots : shots[s] # "absent"}) >= Threshold
              THEN "grant" ELSE "idle")
    /\ UNCHANGED <<shots, granted, db, reading, began, since, answer, auto,
                   historyVars>>

\* The screenshot is read again and its uploader's approved ones are counted.
Count(p) ==
    /\ Goto(p, "count", IF MeetsThreshold(shots) THEN "grant" ELSE "idle")
    /\ UNCHANGED <<shots, granted, db, reading, began, since, answer, auto,
                   historyVars>>

\* Mutant of Grant: ON DUPLICATE KEY UPDATE, as in updatePermission.
GrantAnew(p) ==
    /\ Goto(p, "grant", "idle")
    /\ Change("granted")
    /\ UNCHANGED <<shots, auto, historyVars>>

\* grantPermission: INSERT IGNORE.
Grant(p) ==
    /\ Goto(p, "grant", "idle")
    /\ IF granted[db] = "none"
         THEN Change("granted")
         ELSE UNCHANGED <<granted, db, reading, began, since, answer>>
    /\ UNCHANGED <<shots, auto, historyVars>>

-----------------------------------------------------------------------------
(* patchUsersPermissions.                                                  *)

\* updatePermission: INSERT ... ON DUPLICATE KEY UPDATE.
Rule(p) ==
    /\ Goto(p, "idle", "reread")
    /\ \E value \in {"granted", "revoked"} :
          /\ Change(value)
          /\ ruled' = value
    /\ earned' = TRUE
    /\ UNCHANGED <<shots, auto, dropped>>

Reread(p) ==
    /\ pc[p] = "reread"
    /\ Perms!Begin(p)
    /\ UNCHANGED <<pc, shots, granted, auto, historyVars>>

Reply(p) ==
    /\ Goto(p, "reread", "idle")
    /\ \E v \in 1..db : Perms!Return(p, v)
    /\ UNCHANGED <<shots, granted, auto, historyVars>>

-----------------------------------------------------------------------------

\* A statement fails or the instance stops.
Fail(p) ==
    /\ pc[p] # "idle"
    /\ Goto(p, pc[p], "idle")
    /\ IF p \in reading THEN Perms!Fail(p)
                        ELSE UNCHANGED <<db, reading, began, since, answer>>
    /\ dropped' = (dropped \/ pc[p] \in {"count", "grant"})
    /\ UNCHANGED <<shots, granted, auto, ruled, earned>>

Request(p) ==
    \/ StartUpload(p) \/ Asked(p) \/ Refuse(p) \/ Insert(p)
    \/ Update(p) \/ Count(p) \/ Grant(p)
    \/ Rule(p) \/ Reread(p) \/ Reply(p)
    \/ Fail(p)

Next ==
    /\ \E p \in Procs : Request(p)
    /\ Perms!Settle

Spec == Init /\ [][Next]_vars

-----------------------------------------------------------------------------

\* "grants auto-approve once the approve threshold has been met": whichever
\* patches overlap, enough approved screenshots and no permission means that
\* a patch is still on its way to grant it, or was stopped before it could
\* (screenshot.controller.ts, patchScreenshot).
EarnedIsGranted ==
    MeetsThreshold(shots) /\ granted[db] = "none" =>
        dropped \/ \E p \in Procs : pc[p] \in {"count", "grant"}

\* No upload is approved by itself unless the threshold was met at some
\* moment or an administrator has set the permission, however patches,
\* cached permissions and uploads interleave (screenshot.controller.ts,
\* patchScreenshot; game.controller.ts, postGameScreenshot).
AutoIsEarned == auto # {} => earned

\* What an administrator set last stands: a patch that counted before the
\* permission was revoked does not restore it (datastore.ts,
\* grantPermission and updatePermission).
RulingStands == ruled # "none" => granted[db] = ruled

\* An upload is approved, or left for approval, as the permission was at or
\* after the version every copy had reached when the upload began: once the
\* cache has settled on a revocation or a grant, it decides
\* (game.controller.ts, postGameScreenshot; datastore.ts, getPermissions).
UploadFollowsPermission ==
    \A p \in Procs : pc[p] = "insert" =>
        \E v \in since[p]..db : p \in auto <=> granted[v] = "granted"

-----------------------------------------------------------------------------

\* The inductive invariant behind them.  Once there is a row there always
\* is; a request that is to grant, and every version with a row, was earned.
RowsInv ==
    /\ \A v \in 1..db : granted[v] # "none" => granted[db] # "none" /\ earned
    /\ \A p \in Procs : pc[p] = "grant" => earned
    /\ MeetsThreshold(shots) => earned
    /\ ruled # "none" => earned

\* An upload decides once, by a version that exists, and one that is to be
\* approved has read a row.
DecisionInv ==
    /\ \A p \in Procs : pc[p] = "ask" => p \notin auto
    /\ \A p \in Procs : pc[p] \in {"ask", "insert"} => since[p] >= 1
    /\ auto # {} => granted[db] # "none"

ScreenshotInv ==
    /\ RowsInv
    /\ DecisionInv
    /\ EarnedIsGranted
    /\ RulingStands
    /\ UploadFollowsPermission

=============================================================================
