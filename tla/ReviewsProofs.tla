---------------------------- MODULE ReviewsProofs ----------------------------
(***************************************************************************)
(* Proofs about the reviews of a game, for any number of requests, any     *)
(* authors and any number of INSERTs; and about the likes of one of them.  *)
(***************************************************************************)
EXTENDS Reviews, ReviewLikes, TLAPS

\* The steps that end a request and leave the tables as they are
\* (putGameReview and its refusals).
Refusal(p) ==
    Deny(p) \/ HasPrevious(p) \/ NoSuchGame(p) \/ Duplicate(p) \/ Reload(p)

\* Every reachable state is well typed (putGameReview, patchReview).
THEOREM TypeCorrect == Spec => []TypeOK
<1>1. Init => TypeOK
  BY BoundAssumption DEF Init, TypeOK
<1>2. TypeOK /\ [Next]_vars => TypeOK'
  <2> SUFFICES ASSUME TypeOK, [Next]_vars PROVE TypeOK'
    OBVIOUS
  <2> USE BoundAssumption DEF TypeOK, table, Goto
  <2>1. CASE UNCHANGED vars
    BY <2>1 DEF vars
  <2>2. ASSUME NEW p \in Procs, NEW u \in Users, StartPut(p, u) PROVE TypeOK'
    BY <2>2 DEF StartPut
  <2>3. ASSUME NEW p \in Procs, Permit(p) \/ GameExists(p) PROVE TypeOK'
    BY <2>3 DEF Permit, GameExists
  <2>4. ASSUME NEW p \in Procs, NoPrevious(p) PROVE TypeOK'
    BY <2>4 DEF NoPrevious
  <2>5. ASSUME NEW p \in Procs, Refusal(p) PROVE TypeOK'
    <3>1. PICK r \in {"denied", "previous", "missing", "error", "saved"} :
            Answer(p, r)
      BY <2>5 DEF Refusal, Deny, HasPrevious, NoSuchGame, Duplicate, Reload
    <3>2. UNCHANGED table
      BY <2>5 DEF Refusal, Deny, HasPrevious, NoSuchGame, Duplicate, Reload
    <3> QED
      BY <3>1, <3>2 DEF Answer
  <2>6. ASSUME NEW p \in Procs, DeleteOld(p) PROVE TypeOK'
    BY <2>6 DEF DeleteOld
  <2>7. ASSUME NEW p \in Procs, InsertNew(p) PROVE TypeOK'
    <3>1. last + 1 \in Ids /\ last' = last + 1 /\ last' \in 0..MaxReviews
      BY <2>7 DEF InsertNew, Ids
    <3>2. rows' \subseteq 1..last' /\ hidden' \subseteq rows'
      BY <2>7, <3>1 DEF InsertNew
    <3>3. user[p] \in Users
      BY <2>7 DEF InsertNew
    <3>4. /\ author' = [author EXCEPT ![last + 1] = user[p]]
          /\ target' = [target EXCEPT ![p] = last + 1]
          /\ pc' = [pc EXCEPT ![p] = "reload"]
          /\ reviewed' = reviewed \cup {user[p]} /\ cut' = cut \ {user[p]}
          /\ UNCHANGED <<banned, user, flag, reply, mark, blind>>
      BY <2>7 DEF InsertNew
    <3> QED
      BY <3>1, <3>2, <3>3, <3>4
  <2>8. ASSUME NEW p \in Procs, NEW i \in Ids, NEW removed \in BOOLEAN,
               StartPatch(p, i, removed)
        PROVE  TypeOK'
    BY <2>8 DEF StartPatch
  <2>9. ASSUME NEW p \in Procs, Update(p) PROVE TypeOK'
    <3>1. PICK r \in {"updated", "unmatched"} : Answer(p, r)
      BY <2>9 DEF Update
    <3>2. /\ hidden' \subseteq rows
          /\ UNCHANGED <<last, rows, author, banned, reviewed, cut>>
      BY <2>9 DEF Update
    <3> QED
      BY <3>1, <3>2 DEF Answer
  <2>10. ASSUME NEW p \in Procs, Stop(p) PROVE TypeOK'
    <3>1. cut' \subseteq Users
      BY <2>10 DEF Stop
    <3>2. /\ Answer(p, "error")
          /\ UNCHANGED <<last, rows, author, hidden, banned, reviewed>>
      BY <2>10 DEF Stop
    <3> QED
      BY <3>1, <3>2 DEF Answer
  <2>11. ASSUME NEW u \in Users, SetBanned(u) PROVE TypeOK'
    BY <2>11 DEF SetBanned
  <2> QED
    BY <2>1, <2>2, <2>3, <2>4, <2>5, <2>6, <2>7, <2>8, <2>9, <2>10, <2>11
       DEF Next, Refusal
<1> QED
  BY <1>1, <1>2, PTL DEF Spec

\* The inductive invariant (addReview, putGameReview).
THEOREM ReviewInvariant == Spec => []ReviewInv
<1>1. Init => ReviewInv
  BY DEF Init, ReviewInv, OneReviewEach, ReviewKept, MarksInv
<1>2. TypeOK /\ ReviewInv /\ [Next]_vars => ReviewInv'
  <2> SUFFICES ASSUME TypeOK, ReviewInv, [Next]_vars PROVE ReviewInv'
    OBVIOUS
  <2> USE DEF ReviewInv, RowsOf
  <2>a. last \in Nat /\ \A p \in Procs : mark[p] \in Nat
    BY BoundAssumption DEF TypeOK
  <2>1. CASE UNCHANGED vars
    BY <2>1 DEF vars, OneReviewEach, ReviewKept, MarksInv
  \* A put begins, or goes on to its next check.
  <2>2. ASSUME NEW p \in Procs, NEW u \in Users, StartPut(p, u)
        PROVE  ReviewInv'
    BY <2>2 DEF StartPut, table, Goto, TypeOK, OneReviewEach, ReviewKept,
                MarksInv
  <2>3. ASSUME NEW p \in Procs, Permit(p) \/ GameExists(p) PROVE ReviewInv'
    <3>1. /\ pc[p] \in {"permit", "exists"}
          /\ pc' = [pc EXCEPT ![p] = IF pc[p] = "permit" THEN "check"
                                                        ELSE "delete"]
          /\ UNCHANGED <<table, user, mark, blind>>
      BY <2>3 DEF Permit, GameExists, Goto
    <3>2. OneReviewEach' /\ ReviewKept'
      BY <3>1 DEF table, TypeOK, OneReviewEach, ReviewKept
    <3>3. MarksInv'
      BY <3>1 DEF table, TypeOK, MarksInv
    <3> QED
      BY <3>2, <3>3
  <2>4. ASSUME NEW p \in Procs, NoPrevious(p) PROVE ReviewInv'
    <3>1. /\ pc[p] = "check" /\ pc' = [pc EXCEPT ![p] = "exists"]
          /\ mark' = [mark EXCEPT ![p] = last]
          /\ UNCHANGED <<last, rows, author, reviewed, cut, user>>
          /\ blind \subseteq blind'
      BY <2>4 DEF NoPrevious, Goto, table
    <3>2. p \in blind' \/ RowsOf(user[p]) = {}
      BY <2>4 DEF NoPrevious, SeenBy
    <3>3. OneReviewEach' /\ ReviewKept'
      BY <3>1 DEF TypeOK, OneReviewEach, ReviewKept
    <3>4. MarksInv'
      BY <2>a, <3>1, <3>2 DEF TypeOK, MarksInv
    <3> QED
      BY <3>3, <3>4
  <2>5. ASSUME NEW p \in Procs,
               Refusal(p) \/ Update(p) \/ Stop(p)
        PROVE  ReviewInv'
    <3>1. /\ pc' = [pc EXCEPT ![p] = "idle"]
          /\ user' = [user EXCEPT ![p] = None]
          /\ mark' = [mark EXCEPT ![p] = 0]
          /\ blind' = blind \ {p}
          /\ UNCHANGED <<last, rows, author, reviewed>>
      BY <2>5 DEF Refusal, Deny, HasPrevious, NoSuchGame, Duplicate, Reload,
                  Update, Stop, Answer, Goto, table
    <3>2. \/ cut' = cut /\ pc[p] # "insert"
          \/ cut' = cut /\ RowsOf(user[p]) # {}
          \/ cut' = cut \cup {user[p]}
      BY <2>5 DEF Refusal, Deny, HasPrevious, NoSuchGame, Duplicate, Reload,
                  Update, Stop, table
    <3>3. OneReviewEach'
      BY <3>1 DEF OneReviewEach
    <3>4. ASSUME NEW u \in reviewed, RowsOf(u) = {}
          PROVE  u \in cut' \/ \E q \in Procs : pc'[q] = "insert" /\ user'[q] = u
      <4>1. CASE u \in cut
        BY <3>2, <4>1
      <4>2. CASE \E q \in Procs \ {p} : pc[q] = "insert" /\ user[q] = u
        BY <3>1, <4>2 DEF TypeOK
      <4>3. CASE pc[p] = "insert" /\ user[p] = u
        BY <3>2, <3>4, <4>3
      <4> QED
        BY <3>4, <4>1, <4>2, <4>3 DEF ReviewKept
    <3>5. ReviewKept'
      BY <3>1, <3>4 DEF ReviewKept
    <3>6. MarksInv'
      BY <2>a, <3>1 DEF TypeOK, MarksInv
    <3> QED
      BY <3>3, <3>5, <3>6
  \* The rows of one author are deleted: a put of that author is to insert.
  <2>6. ASSUME NEW p \in Procs, DeleteOld(p) PROVE ReviewInv'
    <3>1. /\ pc[p] = "delete" /\ pc' = [pc EXCEPT ![p] = "insert"]
          /\ rows' = rows \ RowsOf(user[p])
          /\ UNCHANGED <<last, author, user, mark, blind, reviewed, cut>>
      BY <2>6 DEF DeleteOld, Goto
    <3>2. OneReviewEach'
      BY <3>1 DEF OneReviewEach
    <3>3. ASSUME NEW u \in reviewed, RowsOf(u)' = {}
          PROVE  u \in cut \/ \E q \in Procs : pc'[q] = "insert" /\ user[q] = u
      <4>1. CASE u = user[p]
        BY <3>1, <4>1 DEF TypeOK
      <4>2. CASE u # user[p]
        <5>1. RowsOf(u) = {}
          BY <3>1, <3>3, <4>2
        <5> QED
          BY <3>1, <5>1 DEF TypeOK, ReviewKept
      <4> QED
        BY <4>1, <4>2
    <3>4. ReviewKept'
      BY <3>1, <3>3 DEF ReviewKept
    <3>5. MarksInv'
      BY <3>1 DEF TypeOK, MarksInv
    <3> QED
      BY <3>2, <3>4, <3>5
  \* The new row is the newest: no put has seen it.
  <2>7. ASSUME NEW p \in Procs, InsertNew(p) PROVE ReviewInv'
    <3>1. /\ pc[p] = "insert" /\ pc' = [pc EXCEPT ![p] = "reload"]
          /\ RowsOf(user[p]) = {}
          /\ last' = last + 1 /\ rows' = rows \cup {last + 1}
          /\ author' = [author EXCEPT ![last + 1] = user[p]]
          /\ reviewed' = reviewed \cup {user[p]}
          /\ cut' = cut \ {user[p]}
          /\ UNCHANGED <<user, mark, blind>>
      BY <2>7 DEF InsertNew, Goto
    <3>2. /\ author'[last + 1] = user[p]
          /\ \A i \in rows : i # last + 1 /\ author'[i] = author[i]
      <4>1. last + 1 \in Ids
        BY <2>a, <2>7, BoundAssumption DEF InsertNew, Ids
      <4>2. \A i \in rows : i \in Ids /\ i # last + 1
        BY <2>a, BoundAssumption DEF TypeOK, Ids
      <4> QED
        BY <3>1, <4>1, <4>2 DEF TypeOK
    <3>3. OneReviewEach'
      BY <3>1, <3>2 DEF OneReviewEach
    <3>4. ReviewKept'
      <4> SUFFICES ASSUME NEW u \in reviewed', RowsOf(u)' = {}
                   PROVE  \/ u \in cut'
                          \/ \E q \in Procs : pc'[q] = "insert" /\ user'[q] = u
        BY DEF ReviewKept
      <4>1. u # user[p]
        BY <3>1, <3>2
      <4>2. u \in reviewed /\ RowsOf(u) = {}
        BY <3>1, <3>2, <4>1
      <4> QED
        BY <3>1, <4>1, <4>2 DEF ReviewKept, TypeOK
    <3>5. \A q \in Procs : mark'[q] < last + 1 /\ mark'[q] <= last'
      BY <2>a, <3>1 DEF MarksInv
    <3>6. ASSUME NEW q \in Procs, pc'[q] \in {"exists", "delete"},
                 q \notin blind', NEW i \in RowsOf(user[q])'
          PROVE  mark'[q] < i
      <4>1. pc[q] = pc'[q]
        BY <3>1, <3>6 DEF TypeOK
      <4>2. i = last + 1 \/ i \in RowsOf(user[q])
        BY <3>1, <3>2, <3>6
      <4> QED
        BY <3>1, <3>5, <3>6, <4>1, <4>2 DEF MarksInv
    <3>7. MarksInv'
      BY <3>5, <3>6 DEF MarksInv
    <3> QED
      BY <3>3, <3>4, <3>7
  <2>8. ASSUME NEW p \in Procs, NEW i \in Ids, NEW removed \in BOOLEAN,
               StartPatch(p, i, removed)
        PROVE  ReviewInv'
    BY <2>8 DEF StartPatch, table, Goto, TypeOK, OneReviewEach, ReviewKept,
                MarksInv
  <2>9. ASSUME NEW u \in Users, SetBanned(u) PROVE ReviewInv'
    BY <2>9 DEF SetBanned, OneReviewEach, ReviewKept, MarksInv
  <2> QED
    BY <2>1, <2>2, <2>3, <2>4, <2>5, <2>6, <2>7, <2>8, <2>9 DEF Next, Refusal
<1> QED
  BY <1>1, <1>2, TypeCorrect, PTL DEF Spec

\* An author never has two reviews of the game (addReview).
THEOREM OneReviewToAnAuthor == Spec => []OneReviewEach
<1>1. ReviewInv => OneReviewEach
  BY DEF ReviewInv
<1> QED
  BY <1>1, ReviewInvariant, PTL

\* No review is lost but in a put that stopped between its DELETE and its
\* INSERT (putGameReview, addReview).
THEOREM ReviewsAreKept == Spec => []ReviewKept
<1>1. ReviewInv => ReviewKept
  BY DEF ReviewInv
<1> QED
  BY <1>1, ReviewInvariant, PTL

\* A put deletes no review that was there when it looked, unless its author
\* was banned then (putGameReview, hasPreviousReview).
THEOREM OverlapsReplace == Spec => OnlyOverlapReplaces
<1>1. ReviewInv /\ [Next]_vars =>
        [\A i \in rows \ rows' : \E p \in Procs :
            /\ pc[p] = "delete"
            /\ author[i] = user[p]
            /\ mark[p] < i \/ p \in blind]_vars
  <2> SUFFICES ASSUME ReviewInv, [Next]_vars, NEW i \in rows \ rows'
               PROVE  \E p \in Procs : /\ pc[p] = "delete"
                                       /\ author[i] = user[p]
                                       /\ mark[p] < i \/ p \in blind
    OBVIOUS
  <2>1. PICK p \in Procs : DeleteOld(p)
    BY DEF Next, vars, table, StartPut, Permit, Deny, NoPrevious, HasPrevious,
           GameExists, NoSuchGame, InsertNew, Duplicate, Reload, StartPatch,
           Update, Stop, SetBanned
  <2>2. pc[p] = "delete" /\ i \in RowsOf(user[p])
    BY <2>1 DEF DeleteOld
  <2> QED
    BY <2>2 DEF ReviewInv, MarksInv, RowsOf
<1> QED
  BY <1>1, ReviewInvariant, PTL DEF Spec, OnlyOverlapReplaces

-----------------------------------------------------------------------------
(* The likes of a review.                                                  *)

\* Every reachable state of the likes is well typed; the cached array has at
\* most one user (isLiked).
THEOREM LikesTypeCorrect == LikesSpec => []LikesTypeOK
<1>1. LikesInit => LikesTypeOK
  BY DEF LikesInit, LikesTypeOK, Arrays, Commands, NoCommand
<1>2. LikesTypeOK /\ [LikesNext]_likesVars => LikesTypeOK'
  <2> SUFFICES ASSUME LikesTypeOK, [LikesNext]_likesVars
               PROVE  LikesTypeOK'
    OBVIOUS
  <2> USE DEF LikesTypeOK
  <2>1. CASE UNCHANGED likesVars
    BY <2>1 DEF likesVars
  <2>2. ASSUME NEW p \in Requests, NEW u \in Likers,
               NEW op \in {"like", "unlike", "get"}, Start(p, u, op)
        PROVE  LikesTypeOK'
    BY <2>2 DEF Start
  <2>3. ASSUME NEW p \in Requests, addLikeToReview(p) PROVE LikesTypeOK'
    <3>1. liker[p] \in Likers
      OBVIOUS
    <3> QED
      BY <2>3, <3>1 DEF addLikeToReview
  <2>4. ASSUME NEW p \in Requests, removeLikeFromReview(p)
        PROVE  LikesTypeOK'
    BY <2>4 DEF removeLikeFromReview
  <2>5. ASSUME NEW p \in Requests, uncache(p) PROVE LikesTypeOK'
    BY <2>5 DEF uncache, Commands
  <2>6. ASSUME NEW p \in Requests, isLikedHit(p) \/ isLikedMiss(p)
        PROVE  LikesTypeOK'
    BY <2>6 DEF isLikedHit, isLikedMiss, Tell
  <2>7. ASSUME NEW p \in Requests, isLikedQuery(p) PROVE LikesTypeOK'
    <3>1. likes \cap {liker[p]} \in Arrays
      BY DEF Arrays
    <3> QED
      BY <2>7, <3>1 DEF isLikedQuery
  <2>8. ASSUME NEW p \in Requests, isLikedFill(p) PROVE LikesTypeOK'
    <3>1. [op |-> "set", val |-> held[p]] \in Commands
      BY DEF Commands
    <3> QED
      BY <2>8, <3>1 DEF isLikedFill, Tell
  <2>9. ASSUME NEW p \in Requests, ApplyCommand(p) \/ LoseCommand(p)
        PROVE  LikesTypeOK'
    <3>1. NoCommand \in Commands
      BY DEF NoCommand, Commands
    <3>2. out[p].op = "set" => out[p].val \in Arrays
      BY DEF Commands
    <3> QED
      BY <2>9, <3>1, <3>2 DEF ApplyCommand, LoseCommand
  <2>10. CASE Evict
    BY <2>10 DEF Evict
  <2> QED
    BY <2>1, <2>2, <2>3, <2>4, <2>5, <2>6, <2>7, <2>8, <2>9, <2>10
       DEF LikesNext
<1> QED
  BY <1>1, <1>2, PTL DEF LikesSpec

\* The inductive invariant: no array anywhere names a user who has never
\* liked the review (isLiked).
THEOREM LikesInvariant == LikesSpec => []LikesInv
<1> USE DEF LikesInv, YesOnlyToLikers
<1>1. LikesInit => LikesInv
  BY DEF LikesInit, NoCommand
<1>2. LikesTypeOK /\ LikesInv /\ [LikesNext]_likesVars => LikesInv'
  <2> SUFFICES ASSUME LikesTypeOK, LikesInv, [LikesNext]_likesVars
               PROVE  LikesInv'
    OBVIOUS
  <2> USE DEF LikesTypeOK
  <2>1. CASE UNCHANGED likesVars
    BY <2>1 DEF likesVars
  <2>2. ASSUME NEW p \in Requests, NEW u \in Likers,
               NEW op \in {"like", "unlike", "get"}, Start(p, u, op)
        PROVE  LikesInv'
    BY <2>2 DEF Start
  <2>3. ASSUME NEW p \in Requests,
               addLikeToReview(p) \/ removeLikeFromReview(p)
        PROVE  LikesInv'
    BY <2>3 DEF addLikeToReview, removeLikeFromReview
  <2>4. ASSUME NEW p \in Requests, uncache(p) \/ isLikedMiss(p)
        PROVE  LikesInv'
    BY <2>4 DEF uncache, isLikedMiss
  <2>5. ASSUME NEW p \in Requests, NEW array \in entry \cup {held[p]},
               Tell(p, array), UNCHANGED <<liker, ever>>
        PROVE  YesOnlyToLikers'
    BY <2>5 DEF Tell
  <2>6. ASSUME NEW p \in Requests, isLikedHit(p) PROVE LikesInv'
    BY <2>5, <2>6 DEF isLikedHit
  <2>7. ASSUME NEW p \in Requests, isLikedQuery(p) PROVE LikesInv'
    BY <2>7 DEF isLikedQuery
  <2>8. ASSUME NEW p \in Requests, isLikedFill(p) PROVE LikesInv'
    BY <2>5, <2>8 DEF isLikedFill
  <2>9. ASSUME NEW p \in Requests, ApplyCommand(p) \/ LoseCommand(p)
        PROVE  LikesInv'
    BY <2>9 DEF ApplyCommand, LoseCommand, NoCommand
  <2>10. CASE Evict
    BY <2>10 DEF Evict
  <2> QED
    BY <2>1, <2>2, <2>3, <2>4, <2>6, <2>7, <2>8, <2>9, <2>10 DEF LikesNext
<1> QED
  BY <1>1, <1>2, LikesTypeCorrect, PTL DEF LikesSpec

\* "Yes" is told to nobody who has never liked the review, however the
\* answers of different users mix under one key (isLiked).
THEOREM YesToLikersOnly == LikesSpec => []YesOnlyToLikers
<1>1. LikesInv => YesOnlyToLikers
  BY DEF LikesInv
<1> QED
  BY <1>1, LikesInvariant, PTL

=============================================================================
