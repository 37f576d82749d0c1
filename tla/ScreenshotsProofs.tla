-------------------------- MODULE ScreenshotsProofs --------------------------
(***************************************************************************)
(* Proofs about screenshots and the permission they earn, for any number   *)
(* of requests and screenshots, any threshold and any bound.               *)
(***************************************************************************)
EXTENDS Screenshots, FiniteSetTheorems, TLAPS

\* The steps of the register, spelled out: what a begun, answered or failed
\* read and a change of the permission do to the cached permission
\* (datastore.ts, getPermissions, grantPermission, updatePermission).
USE DEF Perms!Begin, Perms!Return, Perms!Fail, Perms!Commit, Perms!Settle,
        Perms!Answerable

\* The versions of the row are numbered from 1, and a change adds the next.
LEMMA ChangeAppends ==
    ASSUME TypeOK, NEW value \in Values, Change(value)
    PROVE  /\ granted' \in Seq(Values)
           /\ db' = Len(granted') /\ db' = db + 1
           /\ granted'[db'] = value
           /\ \A v \in 1..db : granted'[v] = granted[v]
  BY DEF TypeOK, Change

\* Every reachable state is well typed (screenshot.controller.ts,
\* game.controller.ts, user.controller.ts).
THEOREM TypeCorrect == Spec => []TypeOK
<1>1. Init => TypeOK
  <2> SUFFICES ASSUME Init PROVE TypeOK
    OBVIOUS
  <2>1. granted \in Seq(Values) /\ Len(granted) = 1
    BY DEF Init, Values
  <2>2. {began, since, answer} \subseteq [Procs -> Nat]
    BY DEF Init, Perms!AInit
  <2>3. /\ db = 1 /\ floor = 1 /\ ruled \in Values /\ reading = {}
        /\ earned \in BOOLEAN /\ dropped \in BOOLEAN /\ auto = {}
        /\ pc = [p \in Procs |-> "idle"]
        /\ shots = [s \in Shots |-> "absent"]
    BY DEF Init, Perms!AInit, Values
  <2> QED
    BY <2>1, <2>2, <2>3 DEF TypeOK
<1>2. TypeOK /\ [Next]_vars => TypeOK'
  <2> SUFFICES ASSUME TypeOK, [Next]_vars PROVE TypeOK'
    OBVIOUS
  <2>1. CASE UNCHANGED vars
    BY <2>1 DEF vars, permVars, historyVars, TypeOK
  <2>2. ASSUME NEW p \in Procs, Request(p), Perms!Settle PROVE TypeOK'
    <3> USE <2>2 DEF TypeOK, Goto, historyVars
    <3>1. CASE StartUpload(p)
      BY <3>1 DEF StartUpload
    <3>2. CASE Asked(p)
      BY <3>2 DEF Asked
    <3>3. CASE Refuse(p)
      BY <3>3 DEF Refuse
    <3>4. CASE Insert(p)
      BY <3>4 DEF Insert, Approvals
    <3>5. CASE Update(p)
      <4>1. PICK s \in Shots, a \in Approvals \cup {"absent"} :
              shots' = [shots EXCEPT ![s] = a]
        BY <3>5 DEF Update, Approvals
      <4>2. shots' \in [Shots -> Approvals \cup {"absent"}]
        BY <4>1
      <4>3. earned' \in BOOLEAN /\ dropped' \in BOOLEAN
        BY <3>5 DEF Update, MeetsThreshold
      <4>4. /\ pc' = [pc EXCEPT ![p] = "count"]
            /\ UNCHANGED <<granted, db, reading, began, since, answer, auto,
                           ruled>>
        BY <3>5 DEF Update
      <4> QED
        BY <4>2, <4>3, <4>4
    <3>6. CASE Count(p)
      BY <3>6 DEF Count
    <3>7. CASE Grant(p)
      <4>1. CASE granted[db] = "none"
        <5>1. Change("granted") /\ "granted" \in Values
          BY <3>7, <4>1 DEF Grant, Values
        <5>2. db' = Len(granted') /\ db' = db + 1 /\ granted' \in Seq(Values)
          BY <5>1, ChangeAppends
        <5>3. UNCHANGED <<reading, began, since, answer>>
          BY <5>1 DEF Change
        <5>4. /\ pc' = [pc EXCEPT ![p] = "idle"]
              /\ UNCHANGED <<shots, auto, ruled, earned, dropped>>
          BY <3>7 DEF Grant
        <5>5. floor' \in 1..db'
          BY <5>2
        <5> QED
          BY <5>2, <5>3, <5>4, <5>5
      <4>2. CASE granted[db] # "none"
        BY <3>7, <4>2 DEF Grant
      <4> QED
        BY <4>1, <4>2
    <3>8. CASE Rule(p)
      <4>1. PICK value \in {"granted", "revoked"} :
              Change(value) /\ ruled' = value
        BY <3>8 DEF Rule
      <4>2. db' = Len(granted') /\ db' = db + 1 /\ granted' \in Seq(Values)
        BY <4>1, ChangeAppends DEF Values
      <4> QED
        BY <3>8, <4>1, <4>2 DEF Rule, Change, Values
    <3>9. CASE Reread(p)
      BY <3>9 DEF Reread
    <3>10. CASE Reply(p)
      BY <3>10 DEF Reply
    <3>11. CASE Fail(p)
      BY <3>11 DEF Fail
    <3> QED
      BY <2>2, <3>1, <3>2, <3>3, <3>4, <3>5, <3>6, <3>7, <3>8, <3>9, <3>10,
         <3>11 DEF Request
  <2> QED
    BY <2>1, <2>2 DEF Next
<1> QED
  BY <1>1, <1>2, PTL DEF Spec

-----------------------------------------------------------------------------

\* What a change of the permission leaves of the facts about its versions:
\* a grant of a missing permission, or an administrator's ruling
\* (datastore.ts, grantPermission and updatePermission).
LEMMA ChangeKeepsRows ==
    ASSUME TypeOK, ScreenshotInv,
           NEW value \in {"granted", "revoked"}, Change(value), earned',
           UNCHANGED <<shots, auto, since>>,
           ruled' # "none" => ruled' = value,
           \A p \in Procs : pc'[p] \in {"ask", "insert"} => pc'[p] = pc[p]
    PROVE  ScreenshotInv'
<1>1. value \in Values
  BY DEF Values
<1>2. /\ db' = db + 1 /\ granted'[db'] = value
      /\ \A v \in 1..db : granted'[v] = granted[v]
  BY <1>1, ChangeAppends
<1>3. RowsInv'
  BY <1>2 DEF RowsInv
<1>4. DecisionInv'
  BY <1>2 DEF ScreenshotInv, DecisionInv
<1>5. EarnedIsGranted' /\ RulingStands'
  BY <1>2 DEF EarnedIsGranted, RulingStands
<1>6. UploadFollowsPermission'
  <2> SUFFICES ASSUME NEW p \in Procs, pc'[p] = "insert"
               PROVE  \E v \in since[p]..db' : p \in auto <=>
                                                 granted'[v] = "granted"
    BY DEF UploadFollowsPermission
  <2>1. PICK v \in since[p]..db : p \in auto <=> granted[v] = "granted"
    BY DEF ScreenshotInv, UploadFollowsPermission
  <2>2. since[p] \in Nat /\ since[p] >= 1 /\ db \in Nat
    BY DEF TypeOK, ScreenshotInv, DecisionInv
  <2>3. v \in since[p]..db' /\ granted'[v] = granted[v]
    BY <1>2, <2>2
  <2> QED
    BY <2>1, <2>2, <2>3
<1> QED
  BY <1>3, <1>4, <1>5, <1>6 DEF ScreenshotInv

\* The inductive invariant behind the permission: who is still to grant it,
\* what was earned, and what an administrator ruled
\* (screenshot.controller.ts, patchScreenshot; game.controller.ts,
\* postGameScreenshot; user.controller.ts, patchUsersPermissions).
THEOREM ScreenshotInvariant == Spec => []ScreenshotInv
<1>1. Init => ScreenshotInv
  <2> SUFFICES ASSUME Init PROVE ScreenshotInv
    OBVIOUS
  <2>1. ~MeetsThreshold(shots)
    <3>1. Approved(shots) = {}
      BY DEF Init, Approved
    <3> QED
      BY <3>1, FS_EmptySet, ThresholdAssumption DEF MeetsThreshold
  <2> QED
    BY <2>1 DEF Init, Perms!AInit, ScreenshotInv, RowsInv, DecisionInv,
                EarnedIsGranted, RulingStands, UploadFollowsPermission
<1>2. TypeOK /\ ScreenshotInv /\ [Next]_vars => ScreenshotInv'
  <2> SUFFICES ASSUME TypeOK, ScreenshotInv, [Next]_vars
               PROVE  ScreenshotInv'
    OBVIOUS
  <2>1. CASE UNCHANGED vars
    BY <2>1 DEF vars, permVars, historyVars, ScreenshotInv, RowsInv,
       DecisionInv, EarnedIsGranted, RulingStands, UploadFollowsPermission,
       MeetsThreshold, Approved
  <2>2. ASSUME NEW p \in Procs, Request(p), Perms!Settle
        PROVE  ScreenshotInv'
    <3> USE <2>2 DEF TypeOK, Goto, historyVars, ScreenshotInv, RowsInv,
                     DecisionInv, EarnedIsGranted, RulingStands,
                     UploadFollowsPermission
    <3>1. CASE StartUpload(p)
      <4>1. RowsInv' /\ EarnedIsGranted' /\ RulingStands'
        BY <3>1 DEF StartUpload, MeetsThreshold, Approved
      <4>2. DecisionInv'
        BY <3>1 DEF StartUpload
      <4>3. UploadFollowsPermission'
        <5> SUFFICES ASSUME NEW q \in Procs, pc'[q] = "insert"
                     PROVE  \E v \in since'[q]..db' :
                              q \in auto' <=> granted'[v] = "granted"
          OBVIOUS
        <5>1. q # p /\ pc[q] = "insert"
          BY <3>1 DEF StartUpload
        <5>2. /\ since'[q] = since[q]
              /\ q \in auto' <=> q \in auto
              /\ UNCHANGED <<db, granted>>
          BY <3>1, <5>1 DEF StartUpload
        <5> QED
          BY <5>1, <5>2
      <4> QED
        BY <4>1, <4>2, <4>3
    <3>2. CASE Asked(p)
      BY <3>2 DEF Asked, HasPermission, MeetsThreshold, Approved
    <3>3. CASE Refuse(p)
      BY <3>3 DEF Refuse, MeetsThreshold, Approved
    <3>4. CASE Insert(p)
      <4>1. p \notin auto => Approved(shots') = Approved(shots)
        BY <3>4 DEF Insert, Approved
      <4>2. EarnedIsGranted'
        BY <3>4, <4>1 DEF Insert, MeetsThreshold
      <4>3. RowsInv' /\ DecisionInv' /\ RulingStands' /\ UploadFollowsPermission'
        BY <3>4 DEF Insert
      <4> QED
        BY <4>2, <4>3
    <3>5. CASE Update(p)
      BY <3>5 DEF Update
    <3>6. CASE Count(p)
      BY <3>6 DEF Count
    <3>7. CASE Grant(p)
      <4>1. CASE granted[db] = "none"
        <5>1. Change("granted")
          BY <3>7, <4>1 DEF Grant
        <5>2. earned' /\ ruled' = "none" /\ UNCHANGED <<shots, auto, since>>
          BY <3>7, <4>1, <5>1 DEF Grant, Change
        <5>3. \A q \in Procs : pc'[q] \in {"ask", "insert"} => pc'[q] = pc[q]
          BY <3>7 DEF Grant
        <5> QED
          BY <5>1, <5>2, <5>3, ChangeKeepsRows
      <4>2. CASE granted[db] # "none"
        BY <3>7, <4>2 DEF Grant, MeetsThreshold, Approved
      <4> QED
        BY <4>1, <4>2
    <3>8. CASE Rule(p)
      <4>1. PICK value \in {"granted", "revoked"} :
              Change(value) /\ ruled' = value
        BY <3>8 DEF Rule
      <4>2. earned' /\ UNCHANGED <<shots, auto, since>>
        BY <3>8, <4>1 DEF Rule, Change
      <4>3. \A q \in Procs : pc'[q] \in {"ask", "insert"} => pc'[q] = pc[q]
        BY <3>8 DEF Rule
      <4> QED
        BY <4>1, <4>2, <4>3, ChangeKeepsRows
    <3>9. CASE Reread(p)
      BY <3>9 DEF Reread
    <3>10. CASE Reply(p)
      BY <3>10 DEF Reply
    <3>11. CASE Fail(p)
      BY <3>11 DEF Fail
    <3> QED
      BY <2>2, <3>1, <3>2, <3>3, <3>4, <3>5, <3>6, <3>7, <3>8, <3>9, <3>10,
         <3>11 DEF Request
  <2> QED
    BY <2>1, <2>2 DEF Next
<1> QED
  BY <1>1, <1>2, TypeCorrect, PTL DEF Spec

-----------------------------------------------------------------------------

\* Enough approved screenshots and no permission: a patch will grant it, or
\* was stopped (screenshot.controller.ts, patchScreenshot).
THEOREM ThresholdIsRewarded == Spec => []EarnedIsGranted
<1>1. ScreenshotInv => EarnedIsGranted
  BY DEF ScreenshotInv
<1> QED
  BY <1>1, ScreenshotInvariant, PTL

\* An upload is approved by itself only after the threshold was met or an
\* administrator ruled (game.controller.ts, postGameScreenshot).
THEOREM AutoApprovalIsEarned == Spec => []AutoIsEarned
<1>1. TypeOK /\ ScreenshotInv => AutoIsEarned
  BY DEF TypeOK, ScreenshotInv, RowsInv, DecisionInv, AutoIsEarned
<1> QED
  BY <1>1, TypeCorrect, ScreenshotInvariant, PTL

\* No grant undoes a revocation (datastore.ts, grantPermission).
THEOREM RulingsStand == Spec => []RulingStands
<1>1. ScreenshotInv => RulingStands
  BY DEF ScreenshotInv
<1> QED
  BY <1>1, ScreenshotInvariant, PTL

\* An upload is treated as the permission was at or after the version every
\* copy had reached when it began (datastore.ts, getPermissions).
THEOREM UploadsFollowPermission == Spec => []UploadFollowsPermission
<1>1. ScreenshotInv => UploadFollowsPermission
  BY DEF ScreenshotInv
<1> QED
  BY <1>1, ScreenshotInvariant, PTL

-----------------------------------------------------------------------------

\* The handlers use the cached permission as a StaleRegister allows, and so
\* no further than the cache implements it (datastore.ts, getPermissions,
\* updatePermission, grantPermission).
THEOREM PermissionIsRegister == Spec => Perms!ASpec
<1>1. Init => Perms!AInit
  BY DEF Init
<1>2. [Next]_vars => [Perms!ANext]_Perms!avars
  <2> SUFFICES ASSUME [Next]_vars PROVE [Perms!ANext]_Perms!avars
    OBVIOUS
  <2> DEFINE Same == UNCHANGED <<db, reading, began, since, answer>>
             Step == \/ \E p \in Procs : \/ Perms!Begin(p) \/ Perms!Fail(p)
                                         \/ \E v \in 1..db : Perms!Return(p, v)
                     \/ Perms!Commit
                     \/ Same
  <2>1. ASSUME NEW p \in Procs, Request(p) PROVE Step
    <3>1. CASE StartUpload(p)
      BY <3>1 DEF StartUpload
    <3>2. CASE Asked(p)
      BY <3>2 DEF Asked
    <3>3. CASE Refuse(p)
      BY <3>3 DEF Refuse
    <3>4. CASE Insert(p)
      BY <3>4 DEF Insert
    <3>5. CASE Update(p)
      BY <3>5 DEF Update
    <3>6. CASE Count(p)
      BY <3>6 DEF Count
    <3>7. CASE Grant(p)
      BY <3>7 DEF Grant, Change
    <3>8. CASE Rule(p)
      BY <3>8 DEF Rule, Change
    <3>9. CASE Reread(p)
      BY <3>9 DEF Reread
    <3>10. CASE Reply(p)
      BY <3>10 DEF Reply
    <3>11. CASE Fail(p)
      BY <3>11 DEF Fail
    <3> QED
      BY <2>1, <3>1, <3>2, <3>3, <3>4, <3>5, <3>6, <3>7, <3>8, <3>9, <3>10,
         <3>11 DEF Request
  <2>2. CASE Next
    <3>1. Step /\ Perms!Settle
      BY <2>1, <2>2 DEF Next
    <3> QED
      BY <3>1 DEF Perms!ANext
  <2>3. CASE UNCHANGED vars
    BY <2>3 DEF vars, permVars, Perms!avars
  <2> QED
    BY <2>2, <2>3
<1> QED
  BY <1>1, <1>2, PTL DEF Spec, Perms!ASpec

=============================================================================
