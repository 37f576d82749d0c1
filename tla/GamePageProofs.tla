--------------------------- MODULE GamePageProofs ---------------------------
(***************************************************************************)
(* Theorems about GamePage, and through it about Games.                    *)
(***************************************************************************)
EXTENDS GamePage, TLAPS

Registers ==
    /\ db \in 1..MaxVersion
    /\ viewing \subseteq Procs /\ asking \subseteq Procs
    /\ {viewBegan, viewSince, viewed} \subseteq [Procs -> 0..MaxVersion]
    /\ {askBegan, askSince, known} \subseteq [Procs -> 0..MaxVersion]

Floors == {viewFloor, knownFloor} \subseteq 1..db

\* What a step of a register does to it (StaleRegister).
LEMMA RegisterSteps ==
    ASSUME Registers, Floors, NEW p \in Procs
    PROVE
      /\ View!Begin(p) /\ UNCHANGED askVars => Registers' /\ db' = db
      /\ Known!Begin(p) /\ UNCHANGED <<viewing, viewBegan, viewSince, viewed>>
             => Registers' /\ db' = db
      /\ \A v \in 1..db :
             View!Return(p, v) /\ UNCHANGED askVars => Registers' /\ db' = db
      /\ \A v \in 1..db :
             Known!Return(p, v) /\ UNCHANGED <<viewing, viewBegan, viewSince, viewed>>
                 => Registers' /\ db' = db
      /\ View!Fail(p) /\ UNCHANGED askVars => Registers' /\ db' = db
      /\ \A v \in Nat : Commit(v) => Registers' /\ db' = db + 1
      /\ UNCHANGED <<rowVars, askVars>> => Registers' /\ db' = db
<1> USE BoundAssumption
<1>1. View!Begin(p) /\ UNCHANGED askVars => Registers' /\ db' = db
  BY DEF View!Begin, Registers, Floors, askVars
<1>2. Known!Begin(p) /\ UNCHANGED <<viewing, viewBegan, viewSince, viewed>>
             => Registers' /\ db' = db
  BY DEF Known!Begin, Registers, Floors
<1>3. ASSUME NEW v \in 1..db
      PROVE View!Return(p, v) /\ UNCHANGED askVars => Registers' /\ db' = db
  BY DEF View!Return, Registers, askVars
<1>4. ASSUME NEW v \in 1..db
      PROVE Known!Return(p, v) /\ UNCHANGED <<viewing, viewBegan, viewSince, viewed>>
                 => Registers' /\ db' = db
  BY DEF Known!Return, Registers
<1>5. View!Fail(p) /\ UNCHANGED askVars => Registers' /\ db' = db
  BY DEF View!Fail, Registers, askVars
<1>6. ASSUME NEW v \in Nat PROVE Commit(v) => Registers' /\ db' = db + 1
  BY DEF Commit, View!Commit, Known!Commit, Registers
<1>7. UNCHANGED <<rowVars, askVars>> => Registers' /\ db' = db
  BY DEF Registers, rowVars, askVars
<1> QED
  BY <1>1, <1>2, <1>3, <1>4, <1>5, <1>6, <1>7

\* No step goes back to an older version, and each leaves the registers well
\* typed.
LEMMA RegistersKept ==
    ASSUME Registers, Floors, PageNext
    PROVE Registers' /\ Floors' /\ db' \in {db, db + 1}
<1> USE BoundAssumption, RemovedAssumption
<1>1. ASSUME NEW p \in Procs, PageStep(p) PROVE Registers' /\ db' \in {db, db + 1}
  <2>1. CASE Open(p)
    BY <2>1, RegisterSteps DEF Open
  <2>2. CASE ReadGame(p)
    BY <2>2, RegisterSteps DEF ReadGame
  <2>3. CASE ReadOwner(p) \/ ReadReviews(p)
    BY <2>3, RegisterSteps DEF ReadOwner, ReadReviews
  <2>4. CASE Close(p)
    BY <2>4, RegisterSteps DEF Close
  <2> QED
    BY <1>1, <2>1, <2>2, <2>3, <2>4 DEF PageStep
<1>2. ASSUME NEW p \in Procs, Request(p) PROVE Registers' /\ db' \in {db, db + 1}
  <2>1. CASE StartDelete(p) \/ Reload(p)
    BY <2>1, RegisterSteps DEF StartDelete, Reload, askVars
  <2>2. CASE AlreadyRemoved(p)
    <3>1. PICK v \in Removed : View!Return(p, v)
      BY <2>2 DEF AlreadyRemoved
    <3>2. v \in 1..db
      BY <3>1 DEF View!Return, View!Answerable, Registers
    <3> QED
      BY <2>2, <3>1, <3>2, RegisterSteps DEF AlreadyRemoved, askVars
  <2>3. CASE SeenLive(p) \/ Reloaded(p)
    BY <2>3, RegisterSteps DEF SeenLive, Reloaded, askVars
  <2>4. CASE Remove(p) \/ Patch(p)
    BY <2>4, RegisterSteps DEF Remove, Patch
  <2>5. CASE StartReview(p)
    BY <2>5, RegisterSteps DEF StartReview
  <2>6. CASE Checked(p)
    BY <2>6, RegisterSteps DEF Checked
  <2>7. CASE Fail(p)
    BY <2>7 DEF Fail, View!Fail, Known!Fail, Registers
  <2> QED
    BY <1>2, <2>1, <2>2, <2>3, <2>4, <2>5, <2>6, <2>7 DEF Request
<1>3. ASSUME NEW a \in Authors, ChangeReview(a)
      PROVE Registers' /\ db' \in {db, db + 1}
  BY <1>3 DEF ChangeReview, rowVars, askVars, Registers
<1>4. Registers' /\ db' \in {db, db + 1}
  BY <1>1, <1>2, <1>3 DEF PageNext, GameStep
<1>5. Floors'
  BY <1>4 DEF PageNext, View!Settle, Known!Settle, Floors, Registers
<1> QED
  BY <1>4, <1>5

\* The variables of every step have the types the modules give them.
THEOREM TypeCorrect == PageSpec => []PageTypeOK
<1>1. PageInit => PageTypeOK
  <2> SUFFICES ASSUME PageInit PROVE PageTypeOK
    OBVIOUS
  <2>1. MaxVersion \in Nat \ {0}
    BY BoundAssumption
  <2>2. TypeOK
    BY <2>1 DEF PageInit, Init, View!AInit, Known!AInit, TypeOK
  <2> QED
    BY <2>2 DEF PageInit, PageTypeOK, Page, Closed
<1>2. PageTypeOK /\ [PageNext]_<<vars, pageVars>> => PageTypeOK'
  <2> SUFFICES ASSUME PageTypeOK, PageNext PROVE PageTypeOK'
    BY DEF vars, viewVars, knownVars, requestVars, pageVars, PageTypeOK, TypeOK
  <2>1. Registers' /\ Floors'
    BY RegistersKept DEF PageTypeOK, TypeOK, Registers, Floors
  <2>2. /\ pc' \in [Procs -> {"idle", "look", "remove", "reload", "ask"}]
        /\ reply' \in [Procs -> {"none", "already", "removed", "patched",
                                 "found", "missing", "error"}]
    <3>1. ASSUME NEW p \in Procs, Request(p) PROVE <2>2
      BY <3>1 DEF Request, StartDelete, AlreadyRemoved, SeenLive, Remove, Patch,
         Reload, Reloaded, StartReview, Checked, Fail, Goto, Answer, PageTypeOK,
         TypeOK
    <3>2. ASSUME NEW p \in Procs, PageStep(p) PROVE <2>2
      BY <3>2 DEF PageStep, Open, ReadGame, ReadOwner, ReadReviews, Close,
         requestVars, PageTypeOK, TypeOK
    <3>3. ASSUME NEW a \in Authors, ChangeReview(a) PROVE <2>2
      BY <3>3 DEF ChangeReview, requestVars, PageTypeOK, TypeOK
    <3> QED
      BY <3>1, <3>2, <3>3 DEF PageNext, GameStep
  <2>3. shown' \subseteq Authors /\ page' \in [Procs -> Page]
    <3>1. ASSUME NEW p \in Procs, PageStep(p) PROVE <2>3
      <4>1. CASE ReadReviews(p)
        <5>1. PICK list \in FirstPage(Visible \ {Owner[db]}) :
                  page' = [page EXCEPT ![p].at = "sent",
                                       ![p].listed = list,
                                       ![p].could = @ \cap Visible]
          BY <4>1 DEF ReadReviews
        <5>2. list \subseteq Authors
          BY DEF FirstPage, Visible, PageTypeOK
        <5>3. [page[p] EXCEPT !.at = "sent", !.listed = list,
                              !.could = @ \cap Visible] \in Page
          BY <5>2 DEF Page, PageTypeOK
        <5> QED
          BY <4>1, <5>1, <5>3 DEF ReadReviews, PageTypeOK
      <4>2. CASE Open(p) \/ ReadGame(p) \/ ReadOwner(p) \/ Close(p)
        BY <4>2 DEF Open, ReadGame, ReadOwner, Close, Move, Visible, Closed,
           Page, PageTypeOK
      <4> QED
        BY <3>1, <4>1, <4>2 DEF PageStep
    <3>2. ASSUME NEW a \in Authors, ChangeReview(a) PROVE <2>3
      BY <3>2 DEF ChangeReview, PageTypeOK
    <3> QED
      BY <3>1, <3>2 DEF PageNext, GameStep, pageVars, PageTypeOK
  <2> QED
    BY <2>1, <2>2, <2>3 DEF PageTypeOK, TypeOK, Registers, Floors
<1> QED
  BY <1>1, <1>2, PTL DEF PageSpec

-----------------------------------------------------------------------------

\* What an answer of 404 rests on.
AskInv ==
    /\ NotFoundIsTrue
    /\ \A p \in Procs : reply[p] = "missing" => p \notin asking

LEMMA AskKept ==
    ASSUME PageTypeOK, AskInv, PageNext, db' \in {db, db + 1}
    PROVE AskInv'
<1> USE BoundAssumption, RemovedAssumption
<1>1. ASSUME UNCHANGED <<asking, askBegan, reply>> PROVE AskInv'
  BY <1>1 DEF AskInv, NotFoundIsTrue, PageTypeOK, TypeOK
<1>2. ASSUME NEW p \in Procs, PageStep(p) PROVE AskInv'
  BY <1>1, <1>2 DEF PageStep, Open, ReadGame, ReadOwner, ReadReviews, Close,
     askVars, requestVars
<1>3. ASSUME NEW a \in Authors, ChangeReview(a) PROVE AskInv'
  BY <1>1, <1>3 DEF ChangeReview, askVars, requestVars
<1>4. ASSUME NEW p \in Procs, reply'[p] # "missing",
             \A q \in Procs \ {p} : reply'[q] = reply[q],
             \A q \in Procs \ {p} : askBegan'[q] = askBegan[q],
             asking' \subseteq asking \cup {p}
      PROVE AskInv'
  BY <1>4 DEF AskInv, NotFoundIsTrue, PageTypeOK, TypeOK
<1>5. ASSUME NEW p \in Procs, Request(p) PROVE AskInv'
  <2>1. CASE StartDelete(p) \/ AlreadyRemoved(p) \/ Reloaded(p)
    BY <2>1, <1>4 DEF StartDelete, AlreadyRemoved, Reloaded, Answer,
       PageTypeOK, TypeOK
  <2>2. CASE Remove(p) \/ Patch(p)
    BY <2>2, <1>4 DEF Remove, Patch, Commit, Known!Commit, Answer, PageTypeOK,
       TypeOK
  <2>3. CASE SeenLive(p) \/ Reload(p)
    BY <2>3, <1>1 DEF SeenLive, Reload
  <2>4. CASE StartReview(p)
    BY <2>4, <1>4 DEF StartReview, Known!Begin, Answer, PageTypeOK, TypeOK
  <2>5. CASE Checked(p)
    <3>1. PICK v \in 1..db :
              /\ Known!Return(p, v)
              /\ Answer(p, IF v \in Removed THEN "missing" ELSE "found")
      BY <2>5 DEF Checked
    <3>2. /\ db' = db /\ askBegan' = askBegan /\ asking' = asking \ {p}
          /\ v \in Removed => v >= askBegan[p]
          /\ \A q \in Procs \ {p} : reply'[q] = reply[q]
          /\ reply'[p] = "missing" => v \in Removed
      BY <3>1 DEF Known!Return, Known!Answerable, Answer, PageTypeOK, TypeOK
    <3> QED
      BY <3>2 DEF AskInv, NotFoundIsTrue, PageTypeOK, TypeOK
  <2>6. CASE Fail(p)
    BY <2>6, <1>4 DEF Fail, Known!Fail, Answer, PageTypeOK, TypeOK
  <2> QED
    BY <1>5, <2>1, <2>2, <2>3, <2>4, <2>5, <2>6 DEF Request
<1> QED
  BY <1>2, <1>3, <1>5 DEF PageNext, GameStep

\* What a delete rests on.
DeleteInv ==
    /\ RepeatedDeleteIdle
    /\ \A p \in Procs : p \in viewing => viewSince[p] \in 1..db
    /\ \A p \in Procs : pc[p] = "remove" => p \notin viewing

LEMMA DeleteKept ==
    ASSUME PageTypeOK, DeleteInv, PageNext, db' \in {db, db + 1}
    PROVE DeleteInv'
<1> USE BoundAssumption, RemovedAssumption
<1>1. ASSUME viewing' \subseteq viewing, viewSince' = viewSince,
             \A q \in Procs : pc'[q] = "remove" => pc[q] = "remove"
      PROVE DeleteInv'
  BY <1>1 DEF DeleteInv, RepeatedDeleteIdle, PageTypeOK, TypeOK
<1>2. ASSUME NEW p \in Procs, View!Begin(p), pc[p] # "remove", pc'[p] # "remove",
             \A q \in Procs \ {p} : pc'[q] = pc[q]
      PROVE DeleteInv'
  BY <1>2 DEF DeleteInv, RepeatedDeleteIdle, View!Begin, PageTypeOK, TypeOK
<1>3. ASSUME NEW p \in Procs, PageStep(p) PROVE DeleteInv'
  <2>1. CASE Open(p)
    BY <2>1, <1>2 DEF Open, requestVars
  <2>2. CASE ReadGame(p)
    BY <2>2, <1>1 DEF ReadGame, View!Return, requestVars
  <2>3. CASE ReadOwner(p) \/ ReadReviews(p)
    BY <2>3, <1>1 DEF ReadOwner, ReadReviews, rowVars, requestVars
  <2>4. CASE Close(p)
    BY <2>4, <1>1 DEF Close, View!Fail, rowVars, requestVars
  <2> QED
    BY <1>3, <2>1, <2>2, <2>3, <2>4 DEF PageStep
<1>4. ASSUME NEW a \in Authors, ChangeReview(a) PROVE DeleteInv'
  BY <1>4, <1>1 DEF ChangeReview, rowVars, requestVars
<1>5. ASSUME NEW p \in Procs, Request(p) PROVE DeleteInv'
  <2>1. CASE StartDelete(p) \/ Reload(p)
    BY <2>1, <1>2 DEF StartDelete, Reload, Goto, PageTypeOK, TypeOK
  <2>2. CASE AlreadyRemoved(p) \/ Reloaded(p)
    BY <2>2, <1>1 DEF AlreadyRemoved, Reloaded, View!Return, Goto, PageTypeOK,
       TypeOK
  <2>3. CASE SeenLive(p)
    <3>1. PICK v \in 1..db \ Removed : View!Return(p, v)
      BY <2>3 DEF SeenLive
    <3>2. /\ db' = db /\ viewSince' = viewSince /\ viewing' = viewing \ {p}
          /\ v >= viewSince[p]
          /\ \A q \in Procs \ {p} : pc'[q] = pc[q]
      BY <2>3, <3>1 DEF SeenLive, View!Return, View!Answerable, Goto, PageTypeOK,
         TypeOK
    <3> QED
      BY <3>2 DEF DeleteInv, RepeatedDeleteIdle, PageTypeOK, TypeOK
  <2>4. CASE Remove(p) \/ Patch(p)
    BY <2>4, <1>1 DEF Remove, Patch, Commit, View!Commit, Goto, PageTypeOK, TypeOK
  <2>5. CASE StartReview(p) \/ Checked(p)
    BY <2>5, <1>1 DEF StartReview, Checked, Goto, PageTypeOK, TypeOK
  <2>6. CASE Fail(p)
    BY <2>6, <1>1 DEF Fail, View!Fail, Goto, PageTypeOK, TypeOK
  <2> QED
    BY <1>5, <2>1, <2>2, <2>3, <2>4, <2>5, <2>6 DEF Request
<1> QED
  BY <1>3, <1>4, <1>5 DEF PageNext, GameStep

-----------------------------------------------------------------------------

\* What one page promises and rests on.
Sound(p) ==
    /\ ReadInv(p)
    /\ page[p].at = "sent" /\ page[p].bio \cap page[p].listed # {} =>
           ChangedHands(p)
    /\ page[p].at = "sent" =>
           \A a \in page[p].could \ (page[p].bio \cup page[p].listed) :
               /\ a # Owner[viewed[p]]
               /\ Full(p) \/ \E v \in viewed[p]..db : a = Owner[v]

LEMMA PagesAreSound ==
    ShownOnce /\ NoneMissing /\ (\A p \in Procs : ReadInv(p))
        <=> \A p \in Procs : Sound(p)
BY DEF ShownOnce, NoneMissing, Sound

\* A page that a step leaves alone stays sound, however the game changes.
LEMMA OtherPage ==
    ASSUME PageTypeOK, db' \in {db, db + 1}, NEW q \in Procs, Sound(q),
           page'[q] = page[q],
           page[q].at # "closed" =>
               /\ pc'[q] = pc[q]
               /\ q \in viewing' <=> q \in viewing
               /\ viewSince'[q] = viewSince[q]
               /\ viewed'[q] = viewed[q]
    PROVE Sound(q)'
<1>1. CASE page[q].at = "closed"
  BY <1>1 DEF Sound, ReadInv
<1>2. CASE page[q].at # "closed"
  <2>1. viewSince[q] \in 1..db /\ db \in Nat
    BY <1>2, BoundAssumption DEF Sound, ReadInv, PageTypeOK, TypeOK
  <2>2. /\ Met(q) \subseteq Met(q)'
        /\ viewed[q] \in Nat => viewed[q]..db \subseteq viewed'[q]..db'
    BY <2>1, <1>2 DEF Met
  <2>3. ChangedHands(q) => ChangedHands(q)'
    BY <2>2 DEF ChangedHands
  <2>4. ReadInv(q)'
    BY <1>2, <2>1, <2>2 DEF Sound, ReadInv
  <2> QED
    BY <1>2, <2>2, <2>3, <2>4 DEF Sound, Full, PageTypeOK, TypeOK
<1> QED
  BY <1>1, <1>2

LEMMA PagesKept ==
    ASSUME PageTypeOK, DeleteInv, \A p \in Procs : Sound(p), PageNext,
           db' \in {db, db + 1}
    PROVE \A p \in Procs : Sound(p)'
<1> USE BoundAssumption, RemovedAssumption
<1>1. ASSUME NEW p \in Procs, PageStep(p), NEW q \in Procs \ {p} PROVE Sound(q)'
  <2>1. page'[q] = page[q] /\ pc' = pc
    BY <1>1 DEF PageStep, Open, ReadGame, ReadOwner, ReadReviews, Close, Move,
       requestVars, PageTypeOK
  <2>2. /\ q \in viewing' <=> q \in viewing
        /\ viewSince'[q] = viewSince[q] /\ viewed'[q] = viewed[q]
    BY <1>1 DEF PageStep, Open, ReadGame, ReadOwner, ReadReviews, Close,
       View!Begin, View!Return, View!Fail, rowVars, PageTypeOK, TypeOK
  <2> QED
    BY <2>1, <2>2, OtherPage
<1>2. ASSUME NEW p \in Procs, PageStep(p) PROVE Sound(p)'
  <2>1. CASE Open(p)
    BY <2>1 DEF Open, Move, View!Begin, Sound, ReadInv, Closed, requestVars,
       PageTypeOK, Page, TypeOK
  <2>2. CASE ReadGame(p)
    BY <2>2 DEF ReadGame, Move, View!Return, View!Answerable, Sound, ReadInv, Met,
       requestVars, PageTypeOK, Page, TypeOK
  <2>3. CASE ReadOwner(p)
    BY <2>3 DEF ReadOwner, Sound, ReadInv, Met, rowVars, requestVars, PageTypeOK,
       Page, TypeOK
  <2>4. CASE ReadReviews(p)
    <3>1. /\ page[p].at = "list" /\ page'[p].at = "sent"
          /\ page'[p].bio = page[p].bio
          /\ page'[p].listed \in FirstPage(Visible \ {Owner[db]})
          /\ page'[p].could = page[p].could \cap Visible
          /\ UNCHANGED <<rowVars, requestVars>>
      BY <2>4 DEF ReadReviews, PageTypeOK, Page
    <3>2. /\ viewSince[p] \in 1..db /\ viewed[p] \in Met(p) /\ db \in Met(p)
          /\ page[p].bio \subseteq {Owner[viewed[p]]}
          /\ page[p].could \cap {Owner[viewed[p]]} \subseteq page[p].bio
      BY <3>1 DEF Sound, ReadInv, Met, PageTypeOK, TypeOK
    <3>3. Met(p)' = Met(p) /\ (ChangedHands(p)' <=> ChangedHands(p))
      BY <3>1 DEF Met, ChangedHands, rowVars
    <3>4. Owner[viewed[p]] # Owner[db] => ChangedHands(p)
      BY <3>2 DEF ChangedHands
    <3>5. ReadInv(p)'
      BY <3>1, <3>2, <3>3 DEF Sound, ReadInv, rowVars, requestVars
    <3>6. page'[p].bio \cap page'[p].listed # {} => ChangedHands(p)'
      <4>1. page'[p].listed \subseteq Visible \ {Owner[db]}
        BY <3>1 DEF FirstPage
      <4> QED
        BY <3>1, <3>2, <3>3, <3>4, <4>1
    <3>7. ASSUME NEW a \in page'[p].could \ (page'[p].bio \cup page'[p].listed)
          PROVE  /\ a # Owner[viewed'[p]]
                 /\ Full(p)' \/ \E v \in viewed'[p]..db' : a = Owner[v]
      <4>1. a # Owner[viewed'[p]]
        BY <3>1, <3>2, <3>7 DEF rowVars
      <4>2. CASE page'[p].listed = Visible \ {Owner[db]}
        <5>1. a = Owner[db]
          BY <3>1, <3>7, <4>2
        <5>2. db \in viewed[p]..db
          BY <3>2 DEF Met, PageTypeOK, TypeOK
        <5> QED
          BY <3>1, <4>1, <5>1, <5>2 DEF rowVars
      <4>3. CASE page'[p].listed # Visible \ {Owner[db]}
        BY <3>1, <4>1, <4>3 DEF FirstPage, Full
      <4> QED
        BY <4>2, <4>3
    <3> QED
      BY <3>1, <3>5, <3>6, <3>7 DEF Sound
  <2>5. CASE Close(p)
    BY <2>5 DEF Close, Closed, Sound, ReadInv, PageTypeOK
  <2> QED
    BY <1>2, <2>1, <2>2, <2>3, <2>4, <2>5 DEF PageStep
<1>3. ASSUME NEW a \in Authors, ChangeReview(a), NEW q \in Procs PROVE Sound(q)'
  BY <1>3, OtherPage DEF ChangeReview, rowVars, requestVars
<1>4. ASSUME NEW p \in Procs, GameStep(p), NEW q \in Procs PROVE Sound(q)'
  <2>1. page' = page /\ page[p].at = "closed" /\ Request(p)
    BY <1>4 DEF GameStep, pageVars
  <2>2. q # p => /\ pc'[q] = pc[q]
                 /\ q \in viewing' <=> q \in viewing
                 /\ viewSince'[q] = viewSince[q] /\ viewed'[q] = viewed[q]
    <3>1. CASE StartDelete(p) \/ Reload(p)
      BY <3>1 DEF StartDelete, Reload, View!Begin, Goto, PageTypeOK, TypeOK
    <3>2. CASE AlreadyRemoved(p) \/ SeenLive(p) \/ Reloaded(p)
      BY <3>2 DEF AlreadyRemoved, SeenLive, Reloaded, View!Return, Goto,
         PageTypeOK, TypeOK
    <3>3. CASE Remove(p) \/ Patch(p)
      BY <3>3 DEF Remove, Patch, Commit, View!Commit, Goto, PageTypeOK, TypeOK
    <3>4. CASE StartReview(p) \/ Checked(p)
      BY <3>4 DEF StartReview, Checked, Goto, PageTypeOK, TypeOK
    <3>5. CASE Fail(p)
      BY <3>5 DEF Fail, View!Fail, Goto, PageTypeOK, TypeOK
    <3> QED
      BY <2>1, <3>1, <3>2, <3>3, <3>4, <3>5 DEF Request
  <2> QED
    BY <2>1, <2>2, OtherPage
<1> QED
  BY <1>1, <1>2, <1>3, <1>4 DEF PageNext

\* PageInv is an invariant: PageInv and PageTypeOK are inductive together.
THEOREM PageInvariant == PageSpec => []PageInv
<1> DEFINE Inv == AskInv /\ DeleteInv /\ \A p \in Procs : Sound(p)
<1>1. Inv <=> PageInv
  BY PagesAreSound DEF AskInv, DeleteInv, PageInv
<1>2. PageInit /\ PageTypeOK => Inv
  BY DEF PageInit, Init, View!AInit, Known!AInit, AskInv, NotFoundIsTrue,
     DeleteInv, RepeatedDeleteIdle, Sound, ReadInv, Closed
<1>3. PageTypeOK /\ PageTypeOK' /\ Inv /\ [PageNext]_<<vars, pageVars>> => Inv'
  <2>1. ASSUME PageTypeOK, Inv, PageNext PROVE Inv'
    <3>1. db' \in {db, db + 1}
      BY <2>1, RegistersKept DEF PageTypeOK, TypeOK, Registers, Floors
    <3> QED
      BY <2>1, <3>1, AskKept, DeleteKept, PagesKept
  <2>2. ASSUME Inv, UNCHANGED <<vars, pageVars>> PROVE Inv'
    BY <2>2 DEF AskInv, NotFoundIsTrue, DeleteInv, RepeatedDeleteIdle, Sound,
       ReadInv, ChangedHands, Full, Met, vars, viewVars, knownVars, requestVars, pageVars
  <2> QED
    BY <2>1, <2>2
<1> QED
  BY <1>1, <1>2, <1>3, TypeCorrect, PTL DEF PageSpec

\* A review is turned away with 404 only if the game was removed at some
\* moment of the request (game.controller.ts, putGameReview).
THEOREM NotFoundWasTrue == PageSpec => []NotFoundIsTrue
<1>1. PageInv => NotFoundIsTrue
  BY DEF PageInv
<1> QED
  BY <1>1, PageInvariant, PTL

\* A delete that goes on to update has found the game live at or after the
\* version every copy had reached (game.controller.ts, deleteGame).
THEOREM RepeatedDeletesIdle == PageSpec => []RepeatedDeleteIdle
<1>1. PageInv => RepeatedDeleteIdle
  BY DEF PageInv
<1> QED
  BY <1>1, PageInvariant, PTL

\* A page shows no review twice while the game stays in the same hands
\* (composite.controller.ts, getGameCompositeAll).
THEOREM ReviewsShownOnce == PageSpec => []ShownOnce
<1>1. PageInv => ShownOnce
  BY DEF PageInv
<1> QED
  BY <1>1, PageInvariant, PTL

\* A review that a page misses is one for which its list, of at most PageSize,
\* has no room, or that of somebody who has come to own the game since the
\* version the page has read; it is never that of the owner it has read
\* (composite.controller.ts, getGameCompositeAll).
THEOREM NoReviewMissing == PageSpec => []NoneMissing
<1>1. PageInv => NoneMissing
  BY DEF PageInv
<1> QED
  BY <1>1, PageInvariant, PTL

-----------------------------------------------------------------------------

\* Both cached reads are used as a StaleRegister allows, and so no further
\* than the cache implements it (datastore.ts, getGame, gameExists,
\* updateGame).
THEOREM GameReadsAreRegisters == PageSpec => View!ASpec /\ Known!ASpec
<1>1. PageInit => View!AInit /\ Known!AInit
  BY DEF PageInit, Init
<1> DEFINE Pages == <<vars, pageVars>>
           ViewStep == \/ \E p \in Procs : \/ View!Begin(p) \/ View!Fail(p)
                                           \/ \E v \in 1..db : View!Return(p, v)
                       \/ View!Commit
                       \/ UNCHANGED rowVars
           KnownStep == \/ \E p \in Procs : \/ Known!Begin(p) \/ Known!Fail(p)
                                            \/ \E v \in 1..db : Known!Return(p, v)
                        \/ Known!Commit
                        \/ UNCHANGED <<db, askVars>>
<1>2. ASSUME NEW p \in Procs, Request(p), PageTypeOK PROVE ViewStep /\ KnownStep
  <2>1. CASE StartDelete(p) \/ Reload(p)
    BY <2>1 DEF StartDelete, Reload, View!Begin, askVars
  <2>2. CASE AlreadyRemoved(p)
    <3>1. PICK v \in Removed : View!Return(p, v)
      BY <2>2 DEF AlreadyRemoved
    <3>2. v \in 1..db
      BY <1>2, <3>1, RemovedAssumption
         DEF View!Return, View!Answerable, PageTypeOK, TypeOK
    <3> QED
      BY <2>2, <3>1, <3>2 DEF AlreadyRemoved, View!Return, askVars
  <2>3. CASE SeenLive(p) \/ Reloaded(p)
    BY <2>3 DEF SeenLive, Reloaded, View!Return, askVars
  <2>4. CASE Remove(p) \/ Patch(p)
    BY <2>4 DEF Remove, Patch, Commit
  <2>5. CASE StartReview(p)
    BY <2>5 DEF StartReview, Known!Begin, rowVars
  <2>6. CASE Checked(p)
    BY <2>6 DEF Checked, Known!Return, rowVars
  <2>7. CASE Fail(p)
    BY <2>7 DEF Fail, rowVars, askVars
  <2> QED
    BY <1>2, <2>1, <2>2, <2>3, <2>4, <2>5, <2>6, <2>7 DEF Request
<1>3. ASSUME NEW p \in Procs, PageStep(p) PROVE ViewStep /\ KnownStep
  <2>1. CASE Open(p)
    BY <2>1 DEF Open, View!Begin, askVars
  <2>2. CASE ReadGame(p)
    BY <2>2 DEF ReadGame, View!Return, askVars
  <2>3. CASE ReadOwner(p) \/ ReadReviews(p)
    BY <2>3 DEF ReadOwner, ReadReviews, rowVars, askVars
  <2>4. CASE Close(p)
    BY <2>4 DEF Close, View!Fail, rowVars, askVars
  <2> QED
    BY <1>3, <2>1, <2>2, <2>3, <2>4 DEF PageStep
<1>4. ASSUME PageTypeOK, [PageNext]_Pages
      PROVE  [View!ANext]_View!avars /\ [Known!ANext]_Known!avars
  <2>1. CASE PageNext
    <3>1. ViewStep /\ KnownStep
      <4>1. ASSUME NEW a \in Authors, ChangeReview(a) PROVE ViewStep /\ KnownStep
        BY <4>1 DEF ChangeReview, rowVars, askVars
      <4> QED
        BY <1>2, <1>3, <1>4, <2>1, <4>1 DEF PageNext, GameStep
    <3>2. View!Settle /\ Known!Settle
      BY <2>1 DEF PageNext
    <3> QED
      BY <3>1, <3>2 DEF View!ANext, Known!ANext, rowVars, askVars
  <2>2. CASE UNCHANGED Pages
    BY <2>2 DEF vars, viewVars, knownVars, View!avars, Known!avars
  <2> QED
    BY <1>4, <2>1, <2>2
<1> QED
  BY <1>1, <1>4, TypeCorrect, PTL DEF PageSpec, View!ASpec, Known!ASpec

=============================================================================
