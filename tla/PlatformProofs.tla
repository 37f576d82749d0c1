--------------------------- MODULE PlatformProofs ---------------------------
(***************************************************************************)
(* Proofs about what every handler rests on: the read-through cache, for   *)
(* any number of requests and versions; and the process that serves, with  *)
(* its configuration and its database connections, for any number of       *)
(* requests, starts and texts of the file.                                 *)
(***************************************************************************)
EXTENDS CacheAsideProperties, Server, TLAPS


\* The type invariant of the cache holds in every reachable state
\* (datastore.ts, cache and uncache).
THEOREM TypeCorrect == Spec => []TypeOK
<1>1. Init => TypeOK
  <2> SUFFICES ASSUME Init PROVE TypeOK
    OBVIOUS
  <2>1. NoCommand \in [op : {"none", "set", "del"}, ver : Nat]
    BY DEF NoCommand
  <2>2. out \in [Procs -> [op : {"none", "set", "del"}, ver : Nat]]
    BY <2>1 DEF Init
  <2>3. lateFill \in BOOLEAN /\ lostDrop \in BOOLEAN
    BY DEF Init
  <2> QED
    BY <2>2, <2>3 DEF Init, TypeOK, Version, NoEntry, NoAnswer, Labels, Reading
<1>2. TypeOK /\ [Next]_vars => TypeOK'
  <2> SUFFICES ASSUME TypeOK, [Next]_vars PROVE TypeOK'
    OBVIOUS
  <2> USE DEF TypeOK, Version, NoEntry, NoAnswer, NoCommand, SetCommand,
              DelCommand, Labels, Reading
  <2>0. CASE UNCHANGED vars
    BY <2>0 DEF vars
  <2>1. ASSUME NEW p \in Procs, Request(p), TrackFloor PROVE TypeOK'
    <3>0. floor' \in Nat /\ db' \in Version
      BY <2>1 DEF Request, StartRead, Hit, Miss, Query, Fill, Write, Drop,
                  Abandon, TrackFloor
    <3>1. CASE StartRead(p)
      BY <3>0, <3>1 DEF StartRead
    <3>2. CASE Hit(p)
      BY <3>0, <3>2 DEF Hit
    <3>3. CASE Miss(p)
      BY <3>0, <3>3 DEF Miss
    <3>4. CASE Query(p)
      BY <3>0, <3>4 DEF Query
    <3>5. CASE Fill(p)
      BY <3>0, <3>5 DEF Fill
    <3>6. CASE Write(p)
      BY <3>0, <3>6 DEF Write
    <3>7. CASE Drop(p)
      BY <3>0, <3>7 DEF Drop
    <3>8. CASE Abandon(p)
      BY <3>0, <3>8 DEF Abandon
    <3> QED
      BY <2>1, <3>1, <3>2, <3>3, <3>4, <3>5, <3>6, <3>7, <3>8 DEF Request
  <2>2. ASSUME NEW p \in Procs, ApplySet(p) \/ ApplyDel(p) \/ Lose(p), TrackFloor
        PROVE TypeOK'
    <3>0. floor' \in Nat
      BY <2>2 DEF ApplySet, ApplyDel, Lose, TrackFloor
    <3>1. CASE ApplySet(p)
      BY <3>0, <3>1 DEF ApplySet
    <3>2. CASE ApplyDel(p)
      BY <3>0, <3>2 DEF ApplyDel
    <3>3. CASE Lose(p)
      BY <3>0, <3>3 DEF Lose
    <3> QED
      BY <2>2, <3>1, <3>2, <3>3
  <2>3. ASSUME Evict, TrackFloor PROVE TypeOK'
    BY <2>3 DEF Evict, TrackFloor
  <2> QED
    BY <2>0, <2>1, <2>2, <2>3 DEF Next, Step, Memcached
<1> QED
  BY <1>1, <1>2, PTL DEF Spec

-----------------------------------------------------------------------------

\* A request sends its command as it ends, and no request begins on a
\* process whose last command is still on its way.
LEMMA OneCommandAtATime == Spec => []OneCommand
<1>1. Init => OneCommand
  BY DEF Init, OneCommand
<1>2. TypeOK /\ OneCommand /\ [Next]_vars => OneCommand'
  <2> SUFFICES ASSUME TypeOK, OneCommand, [Next]_vars PROVE OneCommand'
    OBVIOUS
  <2> USE DEF TypeOK, OneCommand, NoCommand
  <2>0. CASE UNCHANGED vars
    BY <2>0 DEF vars
  <2>1. ASSUME NEW p \in Procs, Request(p) PROVE OneCommand'
    BY <2>1 DEF Request, StartRead, Hit, Miss, Query, Fill, Write, Drop, Abandon
  <2>2. ASSUME NEW p \in Procs, ApplySet(p) \/ ApplyDel(p) \/ Lose(p)
        PROVE  OneCommand'
    BY <2>2 DEF ApplySet, ApplyDel, Lose
  <2>3. ASSUME Evict PROVE OneCommand'
    BY <2>3 DEF Evict
  <2> QED
    BY <2>0, <2>1, <2>2, <2>3 DEF Next, Step, Memcached
<1> QED
  BY <1>1, <1>2, TypeCorrect, PTL DEF Spec

\* A stale entry has one of the three causes StaleExplained names; in
\* particular no write whose invalidation arrives leaves a stale entry,
\* unless a read that had already selected the old row stores it later.
THEOREM StaleHasCause == Spec => []StaleExplained
<1>1. Init => StaleExplained
  BY DEF Init, StaleExplained
<1>2. TypeOK /\ OneCommand /\ StaleExplained /\ [Next]_vars => StaleExplained'
  <2> SUFFICES ASSUME TypeOK, OneCommand, StaleExplained, [Next]_vars
               PROVE  StaleExplained'
    OBVIOUS
  <2> USE DEF StaleExplained, InvalidationPending, TypeOK, NoCommand,
              SetCommand, DelCommand, NoEntry
  <2>0. CASE UNCHANGED vars
    BY <2>0 DEF vars
  <2>1. ASSUME NEW p \in Procs, StartRead(p) PROVE StaleExplained'
    BY <2>1 DEF StartRead
  <2>2. ASSUME NEW p \in Procs, Hit(p) PROVE StaleExplained'
    BY <2>2 DEF Hit
  <2>3. ASSUME NEW p \in Procs, Miss(p) PROVE StaleExplained'
    BY <2>3 DEF Miss
  <2>4. ASSUME NEW p \in Procs, Query(p) PROVE StaleExplained'
    BY <2>4 DEF Query
  <2>5. ASSUME NEW p \in Procs, Fill(p) PROVE StaleExplained'
    <3>1. out[p].op = "none"
      BY <2>5 DEF Fill, OneCommand
    <3> QED
      BY <2>5, <3>1 DEF Fill
  <2>6. ASSUME NEW p \in Procs, Write(p) PROVE StaleExplained'
    <3>1. pc'[p] = "drop"
      BY <2>6 DEF Write
    <3> QED
      BY <3>1
  <2>7. ASSUME NEW p \in Procs, Drop(p) PROVE StaleExplained'
    <3>1. out'[p].op = "del"
      BY <2>7 DEF Drop
    <3> QED
      BY <3>1
  <2>8. ASSUME NEW p \in Procs, Abandon(p) PROVE StaleExplained'
    <3>1. CASE pc[p] = "drop"
      BY <2>8, <3>1 DEF Abandon
    <3>2. CASE pc[p] # "drop"
      BY <2>8, <3>2 DEF Abandon
    <3> QED
      BY <3>1, <3>2
  <2>9. ASSUME NEW p \in Procs, ApplySet(p) PROVE StaleExplained'
    BY <2>9 DEF ApplySet
  <2>10. ASSUME NEW p \in Procs, ApplyDel(p) PROVE StaleExplained'
    BY <2>10 DEF ApplyDel
  <2>11. ASSUME NEW p \in Procs, Lose(p) PROVE StaleExplained'
    <3>1. CASE out[p].op = "del"
      BY <2>11, <3>1 DEF Lose
    <3>2. CASE out[p].op # "del"
      BY <2>11, <3>2 DEF Lose
    <3> QED
      BY <3>1, <3>2
  <2>12. ASSUME Evict PROVE StaleExplained'
    BY <2>12 DEF Evict
  <2> QED
    BY <2>0, <2>1, <2>2, <2>3, <2>4, <2>5, <2>6, <2>7, <2>8, <2>9, <2>10,
       <2>11, <2>12 DEF Next, Step, Request, Memcached
<1> QED
  BY <1>1, <1>2, TypeCorrect, OneCommandAtATime, PTL DEF Spec

-----------------------------------------------------------------------------

\* Where floor moves it moves to the current version, and then every copy
\* is current; elsewhere it stays.
LEMMA FloorStep ==
  ASSUME TypeOK, TrackFloor, db' \in Nat
  PROVE  \/ floor' = floor
         \/ floor' = db' /\ NoCopyBelow(db)'
BY DEF TrackFloor

\* No copy of the row outlives the floor, step by step.
LEMMA CopiesStep ==
  ASSUME TypeOK, OneCommand, CopiesInv, Next
  PROVE  CopiesInv'
<1> USE DEF TypeOK, Version, CopiesInv, NoEntry, NoCommand, SetCommand,
            DelCommand
<1>1. db' \in Nat /\ db' >= db
  BY DEF Next, Step, Request, Memcached, StartRead, Hit, Miss, Query, Fill,
         Write, Drop, Abandon, ApplySet, ApplyDel, Lose, Evict
<1>2. ASSUME Step PROVE
        /\ entry' # NoEntry => entry' >= floor /\ entry' <= db'
        /\ \A p \in Procs : out'[p].op = "set" =>
               out'[p].ver >= floor /\ out'[p].ver <= db'
        /\ \A p \in Procs : pc'[p] = "store" =>
               held'[p] >= floor /\ held'[p] <= db'
  <2>1. ASSUME NEW q \in Procs, Request(q)
        PROVE  /\ entry' # NoEntry => entry' >= floor /\ entry' <= db'
               /\ \A p \in Procs : out'[p].op = "set" =>
                      out'[p].ver >= floor /\ out'[p].ver <= db'
               /\ \A p \in Procs : pc'[p] = "store" =>
                      held'[p] >= floor /\ held'[p] <= db'
    <3>1. CASE StartRead(q) \/ Hit(q) \/ Miss(q) \/ Drop(q) \/ Abandon(q)
      BY <1>1, <3>1 DEF StartRead, Hit, Miss, Drop, Abandon
    <3>2. CASE Query(q)
      BY <1>1, <3>2 DEF Query
    <3>3. CASE Fill(q)
      BY <1>1, <3>3 DEF Fill
    <3>4. CASE Write(q)
      BY <1>1, <3>4 DEF Write
    <3> QED
      BY <2>1, <3>1, <3>2, <3>3, <3>4 DEF Request
  <2>2. ASSUME NEW q \in Procs, ApplySet(q) \/ ApplyDel(q) \/ Lose(q)
        PROVE  /\ entry' # NoEntry => entry' >= floor /\ entry' <= db'
               /\ \A p \in Procs : out'[p].op = "set" =>
                      out'[p].ver >= floor /\ out'[p].ver <= db'
               /\ \A p \in Procs : pc'[p] = "store" =>
                      held'[p] >= floor /\ held'[p] <= db'
    BY <1>1, <2>2 DEF ApplySet, ApplyDel, Lose
  <2>3. CASE Evict
    BY <1>1, <2>3 DEF Evict
  <2> QED
    BY <1>2, <2>1, <2>2, <2>3 DEF Step, Memcached
<1>3. CASE floor' = floor
  BY <1>1, <1>2, <1>3 DEF Next
<1>4. CASE floor' = db' /\ NoCopyBelow(db)'
  BY <1>1, <1>2, <1>4 DEF Next, NoCopyBelow
<1> QED
  BY <1>1, <1>3, <1>4, FloorStep DEF Next

\* What a read has selected is not older than the read, and no read begins
\* below the floor, step by step.
LEMMA ReadsStep ==
  ASSUME TypeOK, CopiesInv, CopiesInv', ReadsInv, Next
  PROVE  ReadsInv'
<1> USE DEF TypeOK, Version, ReadsInv, Reading
<1>1. floor' \in Nat /\ floor' >= floor
  <2>1. db' \in Nat /\ db' >= db
    BY DEF Next, Step, Request, Memcached, StartRead, Hit, Miss, Query, Fill,
           Write, Drop, Abandon, ApplySet, ApplyDel, Lose, Evict
  <2> QED
    BY <2>1, FloorStep DEF CopiesInv, Next
<1>2. ASSUME NEW q \in Procs, Request(q) PROVE ReadsInv'
  <2>1. CASE StartRead(q)
    BY <1>1, <2>1 DEF StartRead, CopiesInv
  <2>2. CASE Hit(q)
    BY <1>1, <2>2 DEF Hit
  <2>3. CASE Miss(q)
    BY <1>1, <2>3 DEF Miss
  <2>4. CASE Query(q)
    BY <1>1, <2>4 DEF Query
  <2>5. CASE Fill(q)
    BY <1>1, <2>5 DEF Fill
  <2>6. CASE Write(q)
    BY <1>1, <2>6 DEF Write
  <2>7. CASE Drop(q) \/ Abandon(q)
    BY <1>1, <2>7 DEF Drop, Abandon
  <2> QED
    BY <1>2, <2>1, <2>2, <2>3, <2>4, <2>5, <2>6, <2>7 DEF Request
<1>3. CASE Memcached
  BY <1>1, <1>3 DEF Memcached, ApplySet, ApplyDel, Lose, Evict
<1> QED
  BY <1>2, <1>3 DEF Next, Step

\* The inductive invariant holds: every copy of the row anywhere is a
\* committed version not below the floor (datastore.ts, cache).
THEOREM RegisterInvariant == Spec => []RegisterInv
<1>1. Init => CopiesInv /\ ReadsInv
  BY DEF Init, CopiesInv, ReadsInv, NoEntry, NoCommand, Reading
<1>2. TypeOK /\ OneCommand /\ CopiesInv /\ ReadsInv /\ [Next]_vars
        => CopiesInv' /\ ReadsInv'
  <2>1. CASE Next
    BY <2>1, CopiesStep, ReadsStep
  <2>2. CASE UNCHANGED vars
    BY <2>2 DEF vars, CopiesInv, ReadsInv
  <2> QED
    BY <2>1, <2>2
<1> QED
  BY <1>1, <1>2, TypeCorrect, OneCommandAtATime, PTL DEF Spec, RegisterInv

-----------------------------------------------------------------------------

\* One step keeps both promises about answers, given the invariant.
LEMMA AnswersStep ==
  ASSUME TypeOK, CopiesInv, ReadsInv, AnswersAboveFloor, FalsyAnswersFresh,
         [Next]_vars
  PROVE  AnswersAboveFloor' /\ FalsyAnswersFresh'
<1> USE FalsyAssumption
    DEF TypeOK, AnswersAboveFloor, FalsyAnswersFresh, Version, NoAnswer, NoEntry
<1>1. ASSUME NEW q \in Procs, Request(q)
      PROVE  AnswersAboveFloor' /\ FalsyAnswersFresh'
  <2>1. CASE StartRead(q)
    BY <2>1 DEF StartRead
  <2>2. CASE Hit(q)
    BY <2>2 DEF Hit, IsHit, CopiesInv, ReadsInv
  <2>3. CASE Fill(q)
    BY <2>3 DEF Fill, CopiesInv, ReadsInv
  <2>4. CASE Miss(q) \/ Query(q) \/ Write(q) \/ Drop(q) \/ Abandon(q)
    BY <2>4 DEF Miss, Query, Write, Drop, Abandon
  <2> QED
    BY <1>1, <2>1, <2>2, <2>3, <2>4 DEF Request
<1>2. CASE Memcached
  BY <1>2 DEF Memcached, ApplySet, ApplyDel, Lose, Evict
<1>3. CASE UNCHANGED vars
  BY <1>3 DEF vars
<1> QED
  BY <1>1, <1>2, <1>3 DEF Next, Step

\* The answers of the cached reads keep both promises of the register: they
\* are no older than the floor, and a falsy one is current (cache()).
LEMMA AnswersKeepPromises == Spec => [](AnswersAboveFloor /\ FalsyAnswersFresh)
<1>1. Init => AnswersAboveFloor /\ FalsyAnswersFresh
  BY FalsyAssumption
     DEF Init, AnswersAboveFloor, FalsyAnswersFresh, NoAnswer, Version
<1>2. TypeOK /\ RegisterInv /\ (AnswersAboveFloor /\ FalsyAnswersFresh)
        /\ [Next]_vars => (AnswersAboveFloor /\ FalsyAnswersFresh)'
  BY AnswersStep DEF RegisterInv
<1> QED
  BY <1>1, <1>2, TypeCorrect, RegisterInvariant, PTL DEF Spec

\* No read returns a version older than the floor it began with, for any
\* number of requests, losses and reorderings (datastore.ts, cache).
THEOREM AnswersBounded == Spec => []AnswersAboveFloor
BY AnswersKeepPromises, PTL

\* A falsy answer is never served from the cache (datastore.ts, cache: the
\* test `if (cached)`), so it was true of the row during the read.
THEOREM FalsyAnswersAreFresh == Spec => []FalsyAnswersFresh
BY AnswersKeepPromises, PTL

-----------------------------------------------------------------------------

\* Every step of the cache is a step of the abstract register, or leaves it
\* alone.
LEMMA RegisterStep ==
  ASSUME TypeOK, CopiesInv, ReadsInv, [Next]_vars
  PROVE  [Register!ANext]_(Register!avars)
<1> DEFINE rd == {p \in Procs : pc[p] \in Reading}
<1> USE DEF TypeOK, Version, Reading, Labels, NoEntry, NoAnswer
<1>1. CASE UNCHANGED vars
  BY <1>1 DEF vars, Register!avars
<1>2. ASSUME Next PROVE Register!Settle
  BY <1>2 DEF Next, TrackFloor, Register!Settle
<1>3. ASSUME NEW p \in Procs, StartRead(p) PROVE Register!Begin(p)
  BY <1>3 DEF StartRead, Register!Begin
<1>4. ASSUME NEW p \in Procs, Hit(p) PROVE \E v \in 1..db : Register!Return(p, v)
  <2>1. entry \in 1..db
    BY <1>4 DEF Hit, IsHit, CopiesInv
  <2>2. Register!Return(p, entry)
    <3>1. Register!Answerable(p, entry)
      BY <1>4, <2>1 DEF Hit, IsHit, CopiesInv, ReadsInv, Register!Answerable
    <3> QED
      BY <1>4, <3>1 DEF Hit, Register!Return
  <2> QED
    BY <2>1, <2>2 DEF Register!Return, Register!Answerable
<1>5. ASSUME NEW p \in Procs, Fill(p) PROVE \E v \in 1..db : Register!Return(p, v)
  <2>1. held[p] \in 1..db
    BY <1>5 DEF Fill, CopiesInv
  <2>2. Register!Return(p, held[p])
    <3>1. Register!Answerable(p, held[p])
      BY <1>5, <2>1 DEF Fill, CopiesInv, ReadsInv, Register!Answerable
    <3> QED
      BY <1>5, <3>1 DEF Fill, Register!Return
  <2> QED
    BY <2>1, <2>2 DEF Register!Return, Register!Answerable
<1>6. ASSUME NEW p \in Procs, Miss(p) \/ Query(p) \/ Drop(p)
      PROVE  UNCHANGED <<db, rd, began, since, answer>>
  BY <1>6 DEF Miss, Query, Drop
<1>7. ASSUME NEW p \in Procs, Abandon(p)
      PROVE  \/ Register!Fail(p)
             \/ UNCHANGED <<db, rd, began, since, answer>>
  BY <1>7 DEF Abandon, Register!Fail
<1>8. ASSUME NEW p \in Procs, Write(p) PROVE Register!Commit
  BY <1>8 DEF Write, Register!Commit
<1>9. ASSUME Memcached PROVE UNCHANGED <<db, rd, began, since, answer>>
  BY <1>9 DEF Memcached, ApplySet, ApplyDel, Lose, Evict
<1> QED
  BY <1>1, <1>2, <1>3, <1>4, <1>5, <1>6, <1>7, <1>8, <1>9
     DEF Next, Step, Request, Register!ANext

\* The cache implements the register that StaleRegister specifies: for its
\* callers it is a register whose reads are committed, bounded by the floor,
\* and fresh when falsy (datastore.ts, cache and uncache).
THEOREM CacheImplementsRegister == Spec => ImplementsRegister
<1>1. Init => Register!AInit
  BY DEF Init, Register!AInit, Reading, NoAnswer
<1>2. TypeOK /\ RegisterInv /\ [Next]_vars => [Register!ANext]_(Register!avars)
  BY RegisterStep DEF RegisterInv
<1> QED
  BY <1>1, <1>2, TypeCorrect, RegisterInvariant, PTL
     DEF Spec, ImplementsRegister, Register!ASpec

-----------------------------------------------------------------------------
(* The process.                                                            *)

\* Every reachable state of the configuration and of the process is well
\* typed (config.ts, server.ts).
THEOREM ServerTypeCorrect == ServerSpec => []ServerTypeOK
<1> USE DEF ServerTypeOK, ConfigTypeOK, Stages, Call, NoCall, Kinds
<1>1. ServerInit => ServerTypeOK
  <2> SUFFICES ASSUME ServerInit PROVE ServerTypeOK
    OBVIOUS
  <2>1. whole \in BOOLEAN /\ watched \in BOOLEAN /\ database \in BOOLEAN
    BY DEF ServerInit, ConfigInit
  <2>2. ConfigTypeOK
    BY <2>1 DEF ServerInit, ConfigInit
  <2>3. call \in [Requests -> Call \cup {NoCall}]
    BY DEF ServerInit
  <2> QED
    BY <2>1, <2>2, <2>3 DEF ServerInit
<1>2. ServerTypeOK /\ [ServerNext]_processVars => ServerTypeOK'
  <2> SUFFICES ASSUME ServerTypeOK, [ServerNext]_processVars
               PROVE  ServerTypeOK'
    OBVIOUS
  <2> USE DEF configVars, fileVars, loadedVars, setupVars, requestVars,
              serverVars
  <2>1. CASE UNCHANGED processVars
    BY <2>1 DEF processVars
  <2>2. CASE Edit
    <3>1. /\ file' \in {file, file + 1}
          /\ whole' \in BOOLEAN /\ watched' \in BOOLEAN
      BY <2>2 DEF Edit, BeginSave, EndSave, Replace
    <3>2. \E text \in {file, file'} : Notify(text)
      BY <2>2 DEF Edit, BeginSave, EndSave, Replace
    <3>3. events' \in Nat /\ notified' \in Nat
      BY <3>1, <3>2 DEF Notify
    <3>4. UNCHANGED <<loadedVars, serverVars>>
      BY <2>2 DEF Edit, BeginSave, EndSave, Replace
    <3> QED
      BY <3>1, <3>3, <3>4
  <2>3. ASSUME End PROVE ServerTypeOK'
    BY <2>3 DEF End, Forget
  <2>4. CASE Reconfigure
    BY <2>3, <2>4 DEF Reconfigure, Change, Reload, ReloadFails, Parsed
  <2>5. CASE InitConfig
    BY <2>3, <2>5 DEF InitConfig, Advance, Read, Watch
  <2>6. CASE Migrate \/ AddAccount \/ AccountExists \/ GrantAdmin
    BY <2>3, <2>6 DEF Migrate, AddAccount, AccountExists, GrantAdmin, Advance
  <2>7. CASE MakeBucket \/ BucketExists \/ SetPolicy \/ Listen
    BY <2>7 DEF MakeBucket, BucketExists, SetPolicy, Listen, Advance
  <2>8. CASE StartFails \/ Terminate \/ Wake
    BY <2>3, <2>8 DEF StartFails, Terminate, Wake, Advance
  <2>9. CASE Restart
    BY <2>9 DEF Restart
  <2>10. ASSUME NEW r \in Requests, NEW result \in {"answered", "failed"},
                NEW closes \in BOOLEAN, closes \/ call[r] # NoCall,
                Finish(r, result, closes)
         PROVE  ServerTypeOK'
    <3>1. closes \/ call[r] \in Call
      BY <2>10
    <3>2. call' \in [Requests -> Call \cup {NoCall}]
      BY <2>10, <3>1 DEF Finish
    <3>3. holds' \subseteq Requests
      BY <2>10 DEF Finish
    <3> QED
      BY <2>10, <3>2, <3>3 DEF Finish
  <2>11. ASSUME NEW r \in Requests, Accept(r) \/ Connect(r)
         PROVE  ServerTypeOK'
    BY <2>11 DEF Accept, Connect
  <2>12. ASSUME NEW r \in Requests,
                Succeed(r) \/ StatementFails(r) \/ ConnectionFails(r)
         PROVE  ServerTypeOK'
    <3>1. call[r].at \in {"running", "late"}
      BY <2>12, Zenon DEF Succeed, StatementFails, ConnectionFails, Running
    <3>2. call[r] # NoCall
      BY <3>1
    <3> HIDE DEF ServerTypeOK, NoCall
    <3> QED
      BY <2>3, <2>10, <2>12, <3>2 DEF Succeed, StatementFails, ConnectionFails
  <2>13. ASSUME NEW r \in Requests, LateFails(r) \/ Expire(r)
         PROVE  ServerTypeOK'
    <3> HIDE DEF ServerTypeOK, NoCall
    <3> QED
      BY <2>3, <2>10, <2>13 DEF LateFails, Expire
  <2>14. CASE Toggle
    BY <2>14 DEF Toggle
  <2> QED
    BY <2>1, <2>2, <2>4, <2>5, <2>6, <2>7, <2>8, <2>9, <2>11, <2>12, <2>13, <2>14
       DEF ServerNext, Startup, Serve
<1> QED
  BY <1>1, <1>2, PTL DEF ServerSpec

\* What is read is never later than the file, step by step: a text is read
\* from the file or was read before (config.ts, loadConfigFromFile).
LEMMA TextsKept ==
  ASSUME ServerTypeOK, TextsInv, [ServerNext]_processVars
  PROVE  TextsInv' /\ (inner' >= inner \/ stage' = "ended")
<1> USE DEF ServerTypeOK, ConfigTypeOK, TextsInv
<1> USE DEF configVars, fileVars, loadedVars, serverVars
<1>1. ASSUME UNCHANGED configVars
      PROVE  TextsInv' /\ inner' >= inner
  BY <1>1
<1>2. ASSUME End PROVE TextsInv' /\ stage' = "ended"
  BY <1>2 DEF End, Forget
<1>3. CASE Edit
  <2>1. /\ file' \in {file, file + 1}
        /\ UNCHANGED <<contents, inner>>
    BY <1>3 DEF Edit, BeginSave, EndSave, Replace
  <2>2. notified' \in {notified, file, file'}
    BY <1>3 DEF Edit, BeginSave, EndSave, Replace, Notify
  <2> QED
    BY <2>1, <2>2
<1>4. CASE Reconfigure
  BY <1>2, <1>4 DEF Reconfigure, Change, Reload, ReloadFails, Parsed
<1>5. CASE InitConfig
  BY <1>2, <1>5 DEF InitConfig, Read, Watch
<1>6. CASE Startup /\ ~InitConfig
  <2> HIDE DEF TextsInv
  <2> QED
    BY <1>1, <1>2, <1>6
       DEF Startup, Migrate, AddAccount, AccountExists, GrantAdmin, MakeBucket,
           BucketExists, SetPolicy, Listen, StartFails
<1>7. CASE Terminate \/ Wake \/ Restart \/ Toggle
  <2> HIDE DEF TextsInv
  <2> QED
    BY <1>1, <1>2, <1>7 DEF Terminate, Wake, Restart, Toggle
<1>8. ASSUME NEW r \in Requests, Serve(r)
      PROVE  TextsInv' /\ (inner' >= inner \/ stage' = "ended")
  <2>1. End \/ UNCHANGED configVars
    BY <1>8, Zenon
       DEF Serve, Accept, Connect, Succeed, StatementFails, ConnectionFails,
           LateFails, Expire, Finish
  <2> QED
    BY <1>1, <1>2, <2>1
<1>9. CASE UNCHANGED processVars
  BY <1>1, <1>9 DEF processVars
<1> QED
  BY <1>3, <1>4, <1>5, <1>6, <1>7, <1>8, <1>9 DEF ServerNext

\* What a start has made is unfinished only in the stage that finishes it,
\* step by step (main).
LEMMA SetupKept ==
  ASSUME ServerTypeOK, SetupInv, [ServerNext]_processVars
  PROVE  SetupInv'
<1> USE DEF ServerTypeOK, SetupInv, setupVars
<1>1. ASSUME UNCHANGED <<stage, starts, setupVars>> PROVE SetupInv'
  BY <1>1
<1>2. ASSUME End PROVE SetupInv'
  BY <1>2 DEF End
<1>3. CASE UNCHANGED processVars \/ Edit \/ Toggle
  BY <1>1, <1>3 DEF processVars, serverVars, Edit, Toggle
<1>4. CASE Reconfigure
  BY <1>1, <1>2, <1>4 DEF Reconfigure, ReloadFails, serverVars
<1>5. CASE InitConfig \/ Migrate
  BY <1>2, <1>5 DEF InitConfig, Migrate, Advance
<1>6. CASE AddAccount \/ AccountExists \/ GrantAdmin
  BY <1>2, <1>6 DEF AddAccount, AccountExists, GrantAdmin, Advance
<1>7. CASE MakeBucket \/ BucketExists \/ SetPolicy \/ Listen
  BY <1>7 DEF MakeBucket, BucketExists, SetPolicy, Listen, Advance
<1>8. CASE StartFails \/ Terminate \/ Wake
  BY <1>2, <1>8 DEF StartFails, Terminate, Wake, Advance
<1>9. CASE Restart
  BY <1>9 DEF Restart
<1>10. ASSUME NEW r \in Requests, Serve(r) PROVE SetupInv'
  <2>1. End \/ UNCHANGED <<stage, starts, setupVars>>
    BY <1>10, Zenon
       DEF Serve, Accept, Connect, Succeed, StatementFails, ConnectionFails,
           LateFails, Expire, Finish
  <2> QED
    BY <1>1, <1>2, <2>1
<1> QED
  BY <1>3, <1>4, <1>5, <1>6, <1>7, <1>8, <1>9, <1>10 DEF ServerNext, Startup

\* A connection is left open only as the four kinds of calls leave it, step by
\* step (Database.close and its callers).
LEMMA ConnectionsKept ==
  ASSUME ServerTypeOK, RequestInv, IdleConnectionsExplained,
         [ServerNext]_processVars
  PROVE  RequestInv' /\ IdleConnectionsExplained'
<1> USE DEF ServerTypeOK, RequestInv, IdleConnectionsExplained, Running,
            requestVars
<1>1. ASSUME UNCHANGED requestVars,
             stage \in {"up", "closing"} => stage' \in {"up", "closing"}
                                              \/ call = [r \in Requests |-> NoCall]
      PROVE  RequestInv' /\ IdleConnectionsExplained'
  BY <1>1
<1>2. ASSUME End PROVE RequestInv' /\ IdleConnectionsExplained'
  BY <1>2 DEF End, NoCall
<1>3. CASE UNCHANGED processVars \/ Edit \/ Toggle
  BY <1>1, <1>3 DEF processVars, serverVars, Edit, Toggle
<1>4. CASE Reconfigure
  BY <1>1, <1>2, <1>4 DEF Reconfigure, ReloadFails, serverVars
<1>5. CASE Startup \/ Wake \/ Restart \/ Terminate
  <2>1. \/ End
        \/ /\ UNCHANGED requestVars
           /\ stage # "closing"
           /\ stage = "up" => stage' = "closing"
    BY <1>5
       DEF Startup, InitConfig, Migrate, AddAccount, AccountExists, GrantAdmin,
           MakeBucket, BucketExists, SetPolicy, Listen, StartFails, Wake,
           Restart, Terminate, Advance
  <2> QED
    BY <1>1, <1>2, <2>1
<1>6. ASSUME NEW r \in Requests, Accept(r)
      PROVE  RequestInv' /\ IdleConnectionsExplained'
  <2>1. r \notin holds
    BY <1>6 DEF Accept, NoCall
  <2>2. PICK kind \in Kinds :
          call' = [call EXCEPT ![r] =
                     [kind |-> kind,
                      at |-> IF kind = "early" THEN "late" ELSE "running"]]
    BY <1>6 DEF Accept
  <2>3. holds' = holds /\ stage' = stage /\ stage \in {"up", "closing"}
    BY <1>6 DEF Accept
  <2> QED
    BY <2>1, <2>2, <2>3
<1>7. ASSUME NEW r \in Requests, Connect(r)
      PROVE  RequestInv' /\ IdleConnectionsExplained'
  BY <1>7 DEF Connect
<1>8. ASSUME NEW r \in Requests, UNCHANGED stage,
             call' = [call EXCEPT ![r] = NoCall], holds' = holds \ {r}
      PROVE  RequestInv' /\ IdleConnectionsExplained'
  BY <1>8 DEF NoCall
<1>9. ASSUME NEW r \in Requests, NEW result \in {"answered", "failed"},
             UNCHANGED stage, stage \in {"up", "closing"},
             call' = [call EXCEPT ![r] =
                        [kind |-> call[r].kind, at |-> result]],
             holds' = holds,
             \/ call[r].kind = "never"
             \/ call[r].kind = "after" /\ result = "failed"
      PROVE  RequestInv' /\ IdleConnectionsExplained'
  BY <1>9
<1>10. ASSUME NEW r \in Requests, Succeed(r) \/ StatementFails(r)
       PROVE  RequestInv' /\ IdleConnectionsExplained'
  <2>1. call[r].at \in {"running", "late"} /\ r \in holds
    BY <1>10, Zenon DEF Succeed, StatementFails
  <2>2. stage \in {"up", "closing"} /\ call[r] \in Call
    BY <2>1 DEF NoCall
  <2>3. StatementFails(r) => call[r].kind \in {"finally", "after", "never"}
    BY <2>2 DEF StatementFails, Call, Kinds
  <2> QED
    BY <1>8, <1>9, <1>10, <2>2, <2>3 DEF Succeed, StatementFails, Finish
<1>11. ASSUME NEW r \in Requests,
              ConnectionFails(r) \/ LateFails(r) \/ Expire(r)
       PROVE  RequestInv' /\ IdleConnectionsExplained'
  <2>1. End \/ Finish(r, "failed", TRUE)
    BY <1>11, Zenon DEF ConnectionFails, LateFails, Expire
  <2> QED
    BY <1>2, <1>8, <2>1 DEF Finish
<1> QED
  BY <1>3, <1>4, <1>5, <1>6, <1>7, <1>10, <1>11
     DEF ServerNext, Serve

\* The inductive invariant of the process and its configuration (server.ts,
\* config.ts, database.ts).
THEOREM ServerInvariant == ServerSpec => []ServerInv
<1>1. ServerInit => ServerInv
  BY DEF ServerInit, ConfigInit, ServerInv, TextsInv, SetupInv, RequestInv,
         IdleConnectionsExplained, NoCall
<1>2. ServerTypeOK /\ ServerInv /\ [ServerNext]_processVars => ServerInv'
  BY TextsKept, SetupKept, ConnectionsKept DEF ServerInv
<1> QED
  BY <1>1, <1>2, ServerTypeCorrect, PTL DEF ServerSpec

\* A process that serves is set up, unless an earlier start was interrupted
\* between making a thing and finishing it (main).
THEOREM SetupWhole == ServerSpec => []SetupIsWhole
<1>1. ServerTypeOK /\ ServerInv => SetupIsWhole
  BY DEF ServerTypeOK, ServerInv, SetupInv, SetupIsWhole
<1> QED
  BY <1>1, ServerTypeCorrect, ServerInvariant, PTL

\* A connection that nobody uses belongs to a call that never closes, or to
\* one that failed before it closed (database.ts and its callers).
THEOREM IdleConnectionsHaveCause == ServerSpec => []IdleConnectionsExplained
<1>1. ServerInv => IdleConnectionsExplained
  BY DEF ServerInv
<1> QED
  BY <1>1, ServerInvariant, PTL

\* The configuration never goes back to an earlier text while the process
\* lives, however many reloads overlap (clearAndReload).
THEOREM ConfigNeverGoesBack == ServerSpec => ConfigMovesForward
<1>1. ServerTypeOK /\ ServerInv /\ [ServerNext]_processVars
        => [inner' >= inner \/ stage' = "ended"]_processVars
  BY TextsKept DEF ServerInv
<1> QED
  BY <1>1, ServerTypeCorrect, ServerInvariant, PTL
     DEF ServerSpec, ConfigMovesForward

\* A request in progress is cut off for one of five causes, and a failing
\* statement is none of them (main, clearAndReload, Database).
THEOREM CutsHaveCause == ServerSpec => CutHasCause
<1>1. ASSUME ServerTypeOK, ServerInv, [ServerNext]_processVars
      PROVE  [stage' = "ended" /\ (\E r \in Requests : call[r].at = "running") =>
                \/ stage = "closing"
                \/ reloads > 0 /\ Unreadable
                \/ \E r \in Requests : call[r].at = "late"
                \/ ~database
                \/ Full /\ \E r \in Requests : Running(r) /\ r \notin holds
             ]_processVars
  <2> SUFFICES ASSUME stage' = "ended", processVars' # processVars,
                      NEW q \in Requests, call[q].at = "running"
               PROVE  \/ stage = "closing"
                      \/ reloads > 0 /\ Unreadable
                      \/ \E r \in Requests : call[r].at = "late"
                      \/ ~database
                      \/ Full /\ \E r \in Requests : Running(r) /\ r \notin holds
    OBVIOUS
  <2>1. stage \in {"up", "closing"}
    BY <1>1 DEF ServerInv, RequestInv, NoCall
  <2>2. ServerNext
    BY <1>1
  <2>3. CASE Edit \/ Restart \/ Toggle
    BY <2>1, <2>3 DEF Edit, Restart, Toggle, serverVars
  <2>4. CASE Reconfigure
    BY <2>1, <2>4 DEF Reconfigure, ReloadFails, serverVars
  <2>5. CASE Startup \/ Terminate \/ Wake
    BY <2>1, <2>5
       DEF Startup, InitConfig, Migrate, AddAccount, AccountExists, GrantAdmin,
           MakeBucket, BucketExists, SetPolicy, Listen, StartFails, Terminate,
           Wake, Advance
  <2>6. ASSUME NEW r \in Requests, ConnectionFails(r)
        PROVE  ~database \/ (Full /\ Running(r) /\ r \notin holds)
    BY <2>6, Zenon DEF ConnectionFails, Running
  <2>7. ASSUME NEW r \in Requests, LateFails(r) PROVE call[r].at = "late"
    BY <2>7 DEF LateFails
  <2>8. ASSUME NEW r \in Requests,
               Accept(r) \/ Connect(r) \/ Succeed(r) \/ StatementFails(r)
                 \/ Expire(r)
        PROVE  FALSE
    <3>1. UNCHANGED stage
      BY <2>8, Zenon
         DEF Accept, Connect, Succeed, StatementFails, Expire, Finish
    <3> QED
      BY <2>1, <3>1
  <2> QED
    BY <2>2, <2>3, <2>4, <2>5, <2>6, <2>7, <2>8 DEF ServerNext, Serve
<1> QED
  BY <1>1, ServerTypeCorrect, ServerInvariant, PTL DEF ServerSpec, CutHasCause

=============================================================================
