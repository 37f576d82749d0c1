--------------------------- MODULE AccountsProofs ---------------------------
(***************************************************************************)
(* Proofs about one account, for any number of requests, any length of an  *)
(* hour and any bounds.  First what PasswordReset says of resets alone;    *)
(* then that a reset is just that, whatever registrations, logins and      *)
(* patches do to the row meanwhile, and what the composition adds.         *)
(***************************************************************************)
EXTENDS Accounts, TLAPS

-----------------------------------------------------------------------------
(* PasswordReset.                                                          *)

\* What appending to a history keeps and adds (the mails of postResetRequest,
\* the resets of postFinalizePassReset).
LEMMA AppendGrows ==
    ASSUME NEW S, NEW s \in Seq(S), NEW e \in S
    PROVE  /\ Append(s, e) \in Seq(S)
           /\ Len(Append(s, e)) = Len(s) + 1
           /\ Append(s, e)[Len(s) + 1] = e
           /\ \A i \in 1..Len(s) : Append(s, e)[i] = s[i]
  OBVIOUS

\* What a request sees when it looks at the row is well typed
\* (auth.controller.ts, both SELECTs).
LEMMA SightTyped == TypeOK => Sighted \in Sight
<1> SUFFICES ASSUME TypeOK PROVE Sighted \in Sight
  OBVIOUS
<1>1. Len(mails) \in Nat /\ Len(resets) \in Nat
  BY DEF TypeOK
<1>2. LastCleared \in Nat
  <2>1. CASE resets = <<>>
    BY <2>1 DEF LastCleared
  <2>2. CASE resets # <<>>
    <3>1. resets[Len(resets)] \in Reset
      BY <2>2 DEF TypeOK
    <3> QED
      BY <2>2, <3>1 DEF LastCleared, Reset
  <2> QED
    BY <2>1, <2>2
<1> QED
  BY <1>1, <1>2 DEF Sighted, Sight

\* Every reachable state is well typed (auth.controller.ts).
THEOREM TypeCorrect == Spec => []TypeOK
<1>0. Nothing \in Sight
  BY DEF Nothing, Sight
<1>1. Init => TypeOK
  BY <1>0 DEF Init, TypeOK
<1>2. TypeOK /\ [Next]_vars => TypeOK'
  <2> SUFFICES ASSUME TypeOK, [Next]_vars PROVE TypeOK'
    OBVIOUS
  <2> USE <1>0, SightTyped DEF TypeOK
  <2>1. CASE UNCHANGED vars
    BY <2>1 DEF vars, requestVars
  <2>2. CASE Tick
    BY <2>2 DEF Tick, requestVars
  <2>3. ASSUME NEW p \in Procs, StartRequest(p) PROVE TypeOK'
    BY <2>3 DEF StartRequest, Goto
  <2>4. ASSUME NEW p \in Procs, TooSoon(p) \/ Reject(p) \/ Fail(p)
        PROVE  TypeOK'
    <3>1. /\ pc' = [pc EXCEPT ![p] = "idle"] /\ Done(p)
          /\ UNCHANGED <<now, token, setTime, mails, resets>>
      BY <2>4 DEF TooSoon, Reject, Fail, Goto
    <3> QED
      BY <3>1 DEF Done
  <2>5. ASSUME NEW p \in Procs, MayRequest(p) \/ Accept(p) PROVE TypeOK'
    BY <2>5 DEF MayRequest, Accept, Goto, Look
  <2>6. ASSUME NEW p \in Procs, Store(p) PROVE TypeOK'
    <3>1. [at |-> now, seen |-> seen[p]] \in Mail
      BY DEF Mail
    <3>2. mails' \in Seq(Mail) /\ Len(mails') = Len(mails) + 1
      BY <2>6, <3>1, AppendGrows DEF Store
    <3>3. token' \in 0..Len(mails') /\ setTime' \in 0..now'
      BY <2>6, <3>2 DEF Store
    <3> QED
      BY <2>6, <3>2, <3>3 DEF Store, Goto, Done
  <2>7. ASSUME NEW p \in Procs, StartFinalize(p) PROVE TypeOK'
    <3>1. PICK t \in 1..Len(mails) : given' = [given EXCEPT ![p] = t]
      BY <2>7 DEF StartFinalize
    <3>2. given' \in [Procs -> Nat]
      BY <3>1
    <3> QED
      BY <2>7, <3>2 DEF StartFinalize, Goto
  <2>8. ASSUME NEW p \in Procs, Change(p) PROVE TypeOK'
    <3>1. [token |-> given[p], mails |-> Len(mails), seen |-> seen[p]]
            \in Reset
      BY DEF Reset
    <3>2. resets' \in Seq(Reset)
      BY <2>8, <3>1, AppendGrows DEF Change
    <3> QED
      BY <2>8, <3>2 DEF Change, Goto, Done
  <2> QED
    BY <2>1, <2>2, <2>3, <2>4, <2>5, <2>6, <2>7, <2>8 DEF Next
<1> QED
  BY <1>1, <1>2, PTL DEF Spec

-----------------------------------------------------------------------------

\* The inductive invariant of the row, of the requests between their look
\* and their update, and of the history they leave (auth.controller.ts).
THEOREM ResetInvariant == Spec => []ResetInv
<1>1. Init => ResetInv
  BY DEF Init, Nothing, ResetInv, RowInv, LastCleared, RequestInv, HistoryInv,
         MailsAreSpaced, TokensAreSpentOnce, LastLinkWorks
<1>2. TypeOK /\ ResetInv /\ [Next]_vars => ResetInv'
  <2> SUFFICES ASSUME TypeOK, ResetInv, [Next]_vars PROVE ResetInv'
    OBVIOUS
  <2>a. Len(mails) \in Nat /\ Len(resets) \in Nat
    BY DEF TypeOK
  <2>b. \A n \in 1..Len(mails) : mails[n].at \in Nat \ {0}
    <3> SUFFICES ASSUME NEW n \in 1..Len(mails)
                 PROVE  mails[n].at \in Nat \ {0}
      OBVIOUS
    <3>1. mails[n] \in Mail
      BY DEF TypeOK
    <3> QED
      BY <3>1 DEF Mail
  <2>c. \A q \in Procs : /\ seen[q].mails \in Nat /\ seen[q].resets \in Nat
                         /\ seen[q].cleared \in Nat /\ given[q] \in Nat
    BY DEF TypeOK, Sight
  <2>d. Nothing.mails = 0 /\ Nothing.resets = 0
    BY DEF Nothing
  <2>1. ASSUME UNCHANGED <<token, setTime, mails, resets, pc, given, seen>>,
               now' \in Nat, now' >= now
        PROVE  ResetInv'
    BY <2>1, <2>a, <2>b, HourAssumption
       DEF TypeOK, ResetInv, RowInv, LastCleared, RequestInv, HistoryInv,
           MailsAreSpaced, TokensAreSpentOnce, LastLinkWorks
  <2>2. CASE UNCHANGED vars \/ Tick
    BY <2>1, <2>2 DEF vars, requestVars, Tick, TypeOK
  <2>3. ASSUME UNCHANGED <<now, token, setTime, mails, resets>>,
               RequestInv', HistoryInv'
        PROVE  ResetInv'
    BY <2>3 DEF ResetInv, RowInv, LastCleared, MailsAreSpaced,
                TokensAreSpentOnce, LastLinkWorks
  <2>4. ASSUME NEW p \in Procs,
               StartRequest(p) \/ TooSoon(p) \/ Reject(p) \/ Fail(p)
                 \/ StartFinalize(p)
        PROVE  ResetInv'
    <3>1. RequestInv'
      BY <2>4 DEF StartRequest, TooSoon, Reject, Fail, StartFinalize, Goto,
                  Done, TypeOK, ResetInv, RequestInv
    <3>2. HistoryInv'
      BY <2>4, <2>a DEF StartRequest, TooSoon, Reject, Fail, StartFinalize,
                        Done, Nothing, TypeOK, ResetInv, HistoryInv
    <3> QED
      BY <2>3, <2>4, <3>1, <3>2
         DEF StartRequest, TooSoon, Reject, Fail, StartFinalize
  <2>5. ASSUME NEW p \in Procs, MayRequest(p) \/ Accept(p) PROVE ResetInv'
    <3>0. seen'[p] = Sighted /\ \A q \in Procs \ {p} : seen'[q] = seen[q]
      BY <2>5 DEF MayRequest, Accept, Look, TypeOK
    <3>a. Sighted.mails = Len(mails) /\ Sighted.resets = Len(resets)
      BY DEF Sighted
    <3>b. UNCHANGED <<mails, resets>>
      BY <2>5 DEF MayRequest, Accept
    <3>1. HistoryInv'
      BY <2>a, <3>0, <3>a, <3>b DEF ResetInv, HistoryInv
    <3>2. RequestInv'
      <4>1. CASE MayRequest(p)
        <5>1. \/ setTime = 0
              \/ setTime + Hour <= now
          BY <4>1, HourAssumption DEF MayRequest, TooSoonFor, TypeOK
        <5>2. mails # <<>> => \/ Sighted.cleared >= Len(mails)
                              \/ mails[Len(mails)].at + Hour <= now
          BY <5>1, <2>a, <2>b DEF Sighted, TypeOK, ResetInv, RowInv
        <5> QED
          BY <4>1, <5>2, <3>0
             DEF MayRequest, Goto, TypeOK, ResetInv, RequestInv
      <4>2. CASE Accept(p)
        <5>1. given[p] = Sighted.mails /\ token = given[p]
          <6>1. token # 0 => token = Len(mails)
            BY DEF ResetInv, RowInv
          <6>2. token = given[p] /\ given[p] # 0
            BY <4>2 DEF Accept, Goto, ResetInv, RequestInv
          <6> QED
            BY <6>1, <6>2, <3>a
        <5> QED
          BY <4>2, <5>1, <3>0
             DEF Accept, Goto, TypeOK, ResetInv, RequestInv, RowInv
      <4> QED
        BY <2>5, <4>1, <4>2
    <3> QED
      BY <2>3, <2>5, <3>1, <3>2 DEF MayRequest, Accept
  <2>6. ASSUME NEW p \in Procs, Store(p) PROVE ResetInv'
    <3> DEFINE mail == [at |-> now, seen |-> seen[p]]
    <3>0. mail \in Mail
      BY DEF Mail, TypeOK
    <3>1. /\ Len(mails') = Len(mails) + 1
          /\ mails'[Len(mails) + 1] = mail
          /\ \A n \in 1..Len(mails) : mails'[n] = mails[n]
      BY <2>6, <3>0, AppendGrows DEF Store, TypeOK
    <3>2. /\ pc[p] = "store" /\ pc' = [pc EXCEPT ![p] = "idle"]
          /\ token' = Len(mails) + 1 /\ setTime' = now
          /\ given' = [given EXCEPT ![p] = 0]
          /\ seen' = [seen EXCEPT ![p] = Nothing]
          /\ UNCHANGED <<now, resets>>
      BY <2>6, <3>1 DEF Store, Goto, Done
    <3> HIDE DEF mail
    <3>3. mail.at = now /\ mail.seen = seen[p]
      BY DEF mail
    <3>4. RowInv'
      BY <2>a, <3>1, <3>2, <3>3 DEF ResetInv, HistoryInv, RowInv
    <3>5. HistoryInv'
      <4>1. \A q \in Procs : seen'[q] = IF q = p THEN Nothing ELSE seen[q]
        BY <3>2 DEF TypeOK
      <4>2. \A n \in 1..Len(resets) : resets[n].token \in Nat
        <5> SUFFICES ASSUME NEW n \in 1..Len(resets)
                     PROVE  resets[n].token \in Nat
          OBVIOUS
        <5>1. resets[n] \in Reset
          BY DEF TypeOK
        <5> QED
          BY <5>1 DEF Reset
      <4> QED
        BY <2>a, <2>c, <2>d, <3>1, <3>2, <4>1, <4>2 DEF ResetInv, HistoryInv
    <3>6. RequestInv'
      BY <2>a, <3>1, <3>2 DEF TypeOK, ResetInv, HistoryInv, RequestInv
    <3>7. MailsAreSpaced'
      <4> SUFFICES ASSUME NEW n \in 2..Len(mails'),
                          mails'[n].at < mails'[n - 1].at + Hour
                   PROVE  \/ mails'[n].seen.mails < n - 1
                          \/ mails'[n].seen.cleared >= n - 1
        BY DEF MailsAreSpaced
      <4>1. CASE n \in 2..Len(mails)
        BY <4>1, <2>a, <3>1 DEF ResetInv, MailsAreSpaced
      <4>2. CASE n = Len(mails) + 1
        <5>1. mails # <<>> /\ mails'[n - 1] = mails[Len(mails)]
          BY <4>2, <2>a, <3>1
        <5>2. ~(mails[Len(mails)].at + Hour <= now)
          <6>1. mails'[n].at = now
            BY <4>2, <3>1, <3>3
          <6>2. Len(mails) \in 1..Len(mails)
            BY <5>1, <2>a
          <6>3. mails[Len(mails)].at \in Nat
            BY <6>2, <2>b
          <6>4. now < mails[Len(mails)].at + Hour
            BY <5>1, <6>1
          <6> QED
            BY <6>3, <6>4, HourAssumption DEF TypeOK
        <5>3. seen[p].mails < Len(mails) \/ seen[p].cleared >= Len(mails)
          <6>1. seen[p].mails \in Nat
            BY DEF TypeOK, Sight
          <6> QED
            BY <5>1, <5>2, <6>1, <2>a, <3>2
               DEF ResetInv, RequestInv, HistoryInv
        <5> QED
          BY <4>2, <5>3, <2>a, <3>1, <3>3
      <4> QED
        BY <4>1, <4>2, <2>a, <3>1
    <3>8. TokensAreSpentOnce' /\ LastLinkWorks'
      BY <3>1, <3>2 DEF ResetInv, TokensAreSpentOnce, LastLinkWorks
    <3> QED
      BY <3>4, <3>5, <3>6, <3>7, <3>8 DEF ResetInv
  <2>7. ASSUME NEW p \in Procs, Change(p) PROVE ResetInv'
    <3> DEFINE reset == [token |-> given[p], mails |-> Len(mails),
                         seen |-> seen[p]]
    <3>0. reset \in Reset
      BY <2>a DEF Reset, TypeOK
    <3>1. /\ Len(resets') = Len(resets) + 1
          /\ resets'[Len(resets) + 1] = reset
          /\ \A n \in 1..Len(resets) : resets'[n] = resets[n]
      BY <2>7, <3>0, AppendGrows DEF Change, TypeOK
    <3>2. /\ pc[p] = "change" /\ pc' = [pc EXCEPT ![p] = "idle"]
          /\ token' = 0 /\ setTime' = 0
          /\ given' = [given EXCEPT ![p] = 0]
          /\ seen' = [seen EXCEPT ![p] = Nothing]
          /\ UNCHANGED <<now, mails>>
      BY <2>7 DEF Change, Goto, Done
    <3> HIDE DEF reset
    <3>3. /\ reset.token = given[p] /\ reset.mails = Len(mails)
          /\ reset.seen = seen[p]
      BY DEF reset
    <3>4. RowInv'
      BY <2>a, <3>1, <3>2, <3>3 DEF RowInv, LastCleared
    <3>a. given[p] = seen[p].mails /\ given[p] <= Len(mails)
      BY <3>2 DEF ResetInv, RequestInv, HistoryInv
    <3>5. HistoryInv'
      <4>1. \A q \in Procs : seen'[q] = IF q = p THEN Nothing ELSE seen[q]
        BY <3>2 DEF TypeOK
      <4>2. \A n \in 1..Len(resets') : resets'[n].token <= Len(mails')
        BY <2>a, <3>1, <3>2, <3>3, <3>a DEF ResetInv, HistoryInv
      <4> QED
        BY <2>a, <2>c, <2>d, <3>1, <3>2, <4>1, <4>2 DEF ResetInv, HistoryInv
    <3>b. \A n \in 1..Len(resets') : n \in 1..Len(resets) \/ n = Len(resets) + 1
      BY <2>a, <3>1
    <3>6. RequestInv'
      BY <2>a, <2>c, <3>1, <3>2, <3>b
         DEF TypeOK, ResetInv, HistoryInv, RequestInv
    <3>7. MailsAreSpaced'
      BY <3>2 DEF ResetInv, MailsAreSpaced
    <3>8. TokensAreSpentOnce'
      <4> SUFFICES ASSUME NEW m \in 1..Len(resets'), NEW n \in 1..Len(resets'),
                          m < n, resets'[m].token = resets'[n].token
                   PROVE  resets'[n].seen.resets < m
        BY DEF TokensAreSpentOnce
      <4>1. m \in 1..Len(resets) /\ resets'[m] = resets[m]
        BY <2>a, <3>1
      <4>2. CASE n \in 1..Len(resets)
        BY <4>1, <4>2, <3>1 DEF ResetInv, TokensAreSpentOnce
      <4>3. CASE n = Len(resets) + 1
        BY <4>1, <4>3, <3>1, <3>2, <3>3 DEF ResetInv, RequestInv
      <4> QED
        BY <4>2, <4>3, <3>b
    <3>9. LastLinkWorks'
      <4>1. Len(resets) + 1 \in 1..Len(resets')
        BY <2>a, <3>1
      <4>2. given[p] = Len(mails) \/ seen[p].mails < Len(mails)
        BY <2>a, <2>c, <3>a
      <4> QED
        BY <4>1, <4>2, <3>1, <3>2, <3>3 DEF LastLinkWorks
    <3> QED
      BY <3>4, <3>5, <3>6, <3>7, <3>8, <3>9 DEF ResetInv
  <2> QED
    BY <2>2, <2>4, <2>5, <2>6, <2>7 DEF Next
<1> QED
  BY <1>1, <1>2, TypeCorrect, PTL DEF Spec

-----------------------------------------------------------------------------

\* Mails within an hour come from requests that overlapped, or have a
\* finished reset between them (auth.controller.ts, postResetRequest).
THEOREM MailsKeepTheirDistance == Spec => []MailsAreSpaced
<1>1. ResetInv => MailsAreSpaced
  BY DEF ResetInv
<1> QED
  BY <1>1, ResetInvariant, PTL

\* A token is used twice only by resets that overlapped
\* (auth.controller.ts, postFinalizePassReset).
THEOREM TokensSpentOnce == Spec => []TokensAreSpentOnce
<1>1. ResetInv => TokensAreSpentOnce
  BY DEF ResetInv
<1> QED
  BY <1>1, ResetInvariant, PTL

\* The last mail's link works until it is used, or until a reset that
\* overlapped its request clears it (auth.controller.ts).
THEOREM LinksWork == Spec => []LastLinkWorks
<1>1. ResetInv => LastLinkWorks
  BY DEF ResetInv
<1> QED
  BY <1>1, ResetInvariant, PTL

-----------------------------------------------------------------------------
(* Accounts.                                                               *)

\* Every step of an account is a step of PasswordReset or leaves its
\* variables alone: the theorems about the reset carry over.
THEOREM AccountsImplementReset == AccountsSpec => Spec
<1>1. AccountsInit => Init
  BY DEF AccountsInit
<1>2. [AccountsNext]_<<vars, accountVars>> => [Next]_vars
  <2> SUFFICES ASSUME AccountsNext \/ UNCHANGED <<vars, accountVars>>,
                      ~UNCHANGED vars
               PROVE  Next
    OBVIOUS
  <2>1. ASSUME NEW p \in Procs, ResetStep(p) PROVE Next
    <3>1. CASE NameAddress(p) BY <3>1 DEF NameAddress, Next
    <3>2. CASE NoAccount(p) BY <3>2 DEF NoAccount, Next
    <3>3. CASE AskedTooSoon(p) BY <3>3 DEF AskedTooSoon, Next
    <3>4. CASE LookAtRow(p) BY <3>4 DEF LookAtRow, Next
    <3>5. CASE MailLink(p) BY <3>5 DEF MailLink, Next
    <3>6. CASE FollowLink(p) BY <3>6 DEF FollowLink, Next
    <3>7. CASE RefuseLink(p) BY <3>7 DEF RefuseLink, Next
    <3>8. CASE AcceptLink(p) BY <3>8 DEF AcceptLink, Next
    <3>9. CASE ResetPassword(p) BY <3>9 DEF ResetPassword, Next
    <3>10. CASE ResetFails(p) BY <3>10 DEF ResetFails, Next
    <3>11. CASE Reply(p) BY <3>11 DEF Reply
    <3> QED
      BY <2>1, <3>1, <3>2, <3>3, <3>4, <3>5, <3>6, <3>7, <3>8, <3>9, <3>10,
         <3>11 DEF ResetStep
  <2>2. ASSUME NEW p \in Procs, ClientStep(p) PROVE UNCHANGED vars
    BY <2>2 DEF ClientStep, SignUp, NameFree, AddUser, Login, Patch, Begin,
                Verify, WritePassword, WriteProfile, Answer
  <2>3. ASSUME Tick PROVE Next
    BY <2>3 DEF Next
  <2> QED
    BY <2>1, <2>2, <2>3 DEF AccountsNext
<1> QED
  BY <1>1, <1>2, PTL DEF AccountsSpec, Spec

\* The three promises of the reset hold in the life of the whole account.
THEOREM ResetPromisesKept ==
  AccountsSpec => [](MailsAreSpaced /\ TokensAreSpentOnce /\ LastLinkWorks)
BY AccountsImplementReset, MailsKeepTheirDistance, TokensSpentOnce, LinksWork,
   PTL

\* One step of an account.
LEMMA AccountStep ==
  ASSUME AccountsTypeOK, AccountsInv, ResetInv, TypeOK', AccountsNext
  PROVE  AccountsTypeOK' /\ AccountsInv'
<1> USE PasswordsAssumption
    DEF AccountsTypeOK, AccountsInv, LinkInv, TokenIsReachable, AccessIsEarned,
        Client, TypeOK, ResetInv, RowInv, vars, requestVars, accountVars,
        linkVars
<1>1. ASSUME NEW p \in Procs, NameAddress(p)
      PROVE  AccountsTypeOK' /\ AccountsInv'
  BY <1>1 DEF NameAddress, StartRequest, Goto, Free
<1>2. ASSUME NEW p \in Procs, NoAccount(p)
      PROVE  AccountsTypeOK' /\ AccountsInv'
  BY <1>2 DEF NoAccount, Fail, Goto, Done, Release
<1>3. ASSUME NEW p \in Procs, AskedTooSoon(p)
      PROVE  AccountsTypeOK' /\ AccountsInv'
  BY <1>3 DEF AskedTooSoon, TooSoon, Goto, Done, Release
<1>4. ASSUME NEW p \in Procs, LookAtRow(p)
      PROVE  AccountsTypeOK' /\ AccountsInv'
  BY <1>4 DEF LookAtRow, MayRequest, Goto, Matches
<1>5. ASSUME NEW p \in Procs, MailLink(p) PROVE AccountsTypeOK' /\ AccountsInv'
  <2>1. /\ named[p] \in Addresses
        /\ mailedTo' = Append(mailedTo, named[p])
        /\ Len(mails') = Len(mails) + 1
        /\ token' = Len(mails')
    BY <1>5 DEF MailLink, Store, Goto
  <2>2. /\ mailedTo' \in Seq(Addresses)
        /\ Len(mailedTo') = Len(mails')
        /\ mailedTo'[token'] = named[p]
    BY <2>1
  <2>3. /\ named' = [named EXCEPT ![p] = None]
        /\ moved' = moved \ {p}
        /\ strayed' = (p \in moved)
        /\ pc[p] = "store" /\ pc' = [pc EXCEPT ![p] = "idle"]
        /\ UNCHANGED <<password, address, replying, client>>
    BY <1>5 DEF MailLink, Store, Goto, Release
  <2>4. AccountsTypeOK'
    <3>1. strayed' \in BOOLEAN
      BY <2>3
    <3>2. /\ named' \in [Procs -> Addresses \cup {None}]
          /\ moved' \subseteq Procs
      BY <2>3
    <3> QED
      BY <2>2, <2>3, <3>1, <3>2
  <2>5. LinkInv'
    BY <2>2, <2>3
  <2>6. TokenIsReachable'
    BY <2>2, <2>3
  <2>7. AccessIsEarned' /\ \A q \in Procs : client'[q].since <= password'
    BY <2>3
  <2> QED
    BY <2>4, <2>5, <2>6, <2>7
<1>6. ASSUME NEW p \in Procs, FollowLink(p)
      PROVE  AccountsTypeOK' /\ AccountsInv'
  BY <1>6 DEF FollowLink, StartFinalize, Goto, Free
<1>7. ASSUME NEW p \in Procs, RefuseLink(p)
      PROVE  AccountsTypeOK' /\ AccountsInv'
  BY <1>7 DEF RefuseLink, Reject, Fail, Goto, Release
<1>8. ASSUME NEW p \in Procs, AcceptLink(p)
      PROVE  AccountsTypeOK' /\ AccountsInv'
  BY <1>8 DEF AcceptLink, Accept, Goto, Matches
<1>9. ASSUME NEW p \in Procs, ResetPassword(p)
      PROVE  AccountsTypeOK' /\ AccountsInv'
  BY <1>9 DEF ResetPassword, Change, Goto, SetPassword
<1>10. ASSUME NEW p \in Procs, Reply(p) PROVE AccountsTypeOK' /\ AccountsInv'
  BY <1>10 DEF Reply, Release
<1>11. ASSUME NEW p \in Procs, ResetFails(p)
       PROVE  AccountsTypeOK' /\ AccountsInv'
  BY <1>11 DEF ResetFails, Fail, Goto, Release
<1>12. ASSUME NEW p \in Procs, SignUp(p) PROVE AccountsTypeOK' /\ AccountsInv'
  BY <1>12 DEF SignUp, Begin, Free
<1>13. ASSUME NEW p \in Procs, NameFree(p)
       PROVE  AccountsTypeOK' /\ AccountsInv'
  BY <1>13 DEF NameFree, Move
<1>14. ASSUME NEW p \in Procs, AddUser(p) PROVE AccountsTypeOK' /\ AccountsInv'
  BY <1>14 DEF AddUser, SetPassword, Leave, NoClient
<1>15. ASSUME NEW p \in Procs, Login(p) PROVE AccountsTypeOK' /\ AccountsInv'
  BY <1>15 DEF Login, Begin, Free
<1>16. ASSUME NEW p \in Procs, Patch(p) PROVE AccountsTypeOK' /\ AccountsInv'
  BY <1>16 DEF Patch, Begin, Free
<1>17. ASSUME NEW p \in Procs, Verify(p) PROVE AccountsTypeOK' /\ AccountsInv'
  <2>1. /\ UNCHANGED <<vars, password, address, linkVars>>
        /\ client[p].knows = password
    BY <1>17 DEF Verify, Move
  <2>8. PICK to \in {"stamp", "write"} : client' = [client EXCEPT ![p].at = to]
    BY <1>17 DEF Verify, Move
  <2>9. /\ client[p] \in Client
        /\ client' = [client EXCEPT ![p] = [client[p] EXCEPT !.at = to]]
    BY <2>8
  <2>10. [client[p] EXCEPT !.at = to] \in Client
    BY <2>9
  <2>2. client' \in [Procs -> Client]
    BY <2>9, <2>10
  <2>3. \A q \in Procs : /\ client'[q].knows = client[q].knows
                         /\ client'[q].since = client[q].since
                         /\ q # p => client'[q] = client[q]
    BY <2>9
  <2>4. /\ UNCHANGED <<pc, mails, token, password, address, named, mailedTo,
                       replying, moved, strayed>>
    BY <2>1 DEF vars, requestVars, linkVars
  <2>6. AccountsTypeOK'
    BY <2>2, <2>4
  <2>7. LinkInv' /\ TokenIsReachable'
    BY <2>4
  <2>5. AccessIsEarned' /\ \A q \in Procs : client'[q].since <= password'
    <3>1. ASSUME NEW q \in Procs
          PROVE  client[q].knows \in Nat /\ client[q].since \in Nat
      <4>1. client[q] \in Client
        OBVIOUS
      <4> QED
        BY <4>1
    <3>2. ASSUME NEW q \in Procs, q # p PROVE client'[q].at = client[q].at
      BY <2>3, <3>2
    <3>3. client'[p].knows >= client'[p].since
      BY <2>1, <2>3
    <3> QED
      BY <2>3, <2>4, <3>1, <3>2, <3>3
  <2> QED
    BY <2>5, <2>6, <2>7
<1>18. ASSUME NEW p \in Procs, WritePassword(p)
       PROVE  AccountsTypeOK' /\ AccountsInv'
  <2>1. /\ UNCHANGED <<vars, named, mailedTo, replying>>
        /\ client' = [client EXCEPT ![p] = NoClient]
        /\ password < MaxPasswords /\ password' = password + 1
    BY <1>18 DEF WritePassword, SetPassword, Leave
  <2>2. PICK a \in Addresses : SetAddress(a)
    BY <1>18 DEF WritePassword
  <2>3. /\ client' \in [Procs -> Client]
        /\ AccessIsEarned' /\ \A q \in Procs : client'[q].since <= password'
    <3>1. NoClient \in Client /\ NoClient.at = "idle" /\ NoClient.since = 0
      BY DEF NoClient
    <3>2. \A q \in Procs : client[q] \in Client
      OBVIOUS
    <3>3. \A q \in Procs : client'[q] = IF q = p THEN NoClient ELSE client[q]
      BY <2>1
    <3>4. client' \in [Procs -> Client]
      BY <2>1, <3>1
    <3>5. AccessIsEarned'
      BY <3>1, <3>3
    <3>6. \A q \in Procs : client[q].since \in Nat /\ client[q].since <= password
      BY <3>2
    <3>7. password \in Nat /\ password' = password + 1
      BY <2>1
    <3> HIDE DEF AccountsTypeOK, AccountsInv, LinkInv, TokenIsReachable, Client,
                 TypeOK, ResetInv, RowInv
    <3>8. \A q \in Procs : client'[q].since <= password'
      <4> SUFFICES ASSUME NEW q \in Procs PROVE client'[q].since <= password'
        OBVIOUS
      <4>1. CASE q = p
        BY <4>1, <3>1, <3>3, <3>7
      <4>2. CASE q # p
        BY <4>2, <3>3, <3>6, <3>7
      <4> QED
        BY <4>1, <4>2
    <3> QED
      BY <3>4, <3>5, <3>8
  <2>4. AccountsTypeOK'
    <3>1. UNCHANGED <<mails, pc, named, mailedTo, replying>>
      BY <2>1 DEF vars, requestVars
    <3>2. address' \in Addresses /\ password' \in 0..MaxPasswords
      BY <2>1, <2>2 DEF SetAddress
    <3>3. moved' \subseteq Procs /\ strayed' \in BOOLEAN
      BY <2>2 DEF SetAddress
    <3> QED
      BY <2>3, <3>1, <3>2, <3>3
  <2>5. LinkInv' /\ TokenIsReachable'
    <3>1. UNCHANGED <<pc, mails, token, named, mailedTo, replying>>
      BY <2>1 DEF vars, requestVars
    <3>2. CASE a = address
      BY <2>2, <3>1, <3>2 DEF SetAddress
    <3>3. CASE a # address
      BY <2>2, <3>1, <3>3 DEF SetAddress
    <3> QED
      BY <3>2, <3>3
  <2> QED
    BY <2>3, <2>4, <2>5
<1>19. ASSUME NEW p \in Procs, WriteProfile(p)
       PROVE  AccountsTypeOK' /\ AccountsInv'
  BY <1>19 DEF WriteProfile, SetAddress
<1>20. ASSUME NEW p \in Procs, Answer(p) PROVE AccountsTypeOK' /\ AccountsInv'
  BY <1>20 DEF Answer, Leave, NoClient
<1>21. ASSUME Tick, UNCHANGED accountVars PROVE AccountsTypeOK' /\ AccountsInv'
  BY <1>21 DEF Tick, accountVars, linkVars, requestVars
<1> QED
  BY <1>1, <1>2, <1>3, <1>4, <1>5, <1>6, <1>7, <1>8, <1>9, <1>10, <1>11,
     <1>12, <1>13, <1>14, <1>15, <1>16, <1>17, <1>18, <1>19, <1>20, <1>21
  DEF AccountsNext, ResetStep, ClientStep

\* The inductive invariant of the composition, with its types, holds in every
\* reachable state, for any number of requests, addresses and passwords.
THEOREM AccountInvariant == AccountsSpec => [](AccountsTypeOK /\ AccountsInv)
<1>1. AccountsInit /\ TypeOK => AccountsTypeOK /\ AccountsInv
  <2> SUFFICES ASSUME AccountsInit, TypeOK PROVE AccountsTypeOK /\ AccountsInv
    OBVIOUS
  <2>1. NoClient \in Client /\ NoClient.at = "idle" /\ NoClient.since = 0
    BY PasswordsAssumption DEF NoClient, Client
  <2>2. AccountsTypeOK
    <3>1. /\ client \in [Procs -> Client]
          /\ named \in [Procs -> Addresses \cup {None}]
      BY <2>1 DEF AccountsInit
    <3>2. /\ password \in 0..MaxPasswords /\ address \in Addresses
          /\ mailedTo \in Seq(Addresses) /\ replying \subseteq Procs
          /\ moved \subseteq Procs
      BY PasswordsAssumption DEF AccountsInit
    <3>3. strayed \in BOOLEAN
      BY DEF AccountsInit
    <3> QED
      BY <3>1, <3>2, <3>3 DEF AccountsTypeOK
  <2>3. LinkInv /\ TokenIsReachable
    BY DEF AccountsInit, Init, LinkInv, TokenIsReachable
  <2>4. AccessIsEarned /\ \A p \in Procs : client[p].since <= password
    BY <2>1 DEF AccountsInit, AccessIsEarned
  <2> QED
    BY <2>2, <2>3, <2>4 DEF AccountsInv
<1>2. AccountsTypeOK /\ AccountsInv /\ ResetInv /\ TypeOK'
        /\ [AccountsNext]_<<vars, accountVars>>
        => AccountsTypeOK' /\ AccountsInv'
  <2>1. ASSUME AccountsTypeOK, AccountsInv, UNCHANGED <<vars, accountVars>>
        PROVE  AccountsTypeOK' /\ AccountsInv'
    BY <2>1 DEF vars, requestVars, accountVars, linkVars, AccountsTypeOK,
                AccountsInv, LinkInv, TokenIsReachable, AccessIsEarned, TypeOK,
                Sight
  <2> QED
    BY <2>1, AccountStep
<1> QED
  BY <1>1, <1>2, AccountsImplementReset, TypeCorrect, ResetInvariant, PTL
  DEF AccountsSpec

\* Who is given a token or may write a password has known the password in
\* force (auth.controller.ts, postLogin; user.controller.ts, patchUser).
THEOREM AccessEarned == AccountsSpec => []AccessIsEarned
BY AccountInvariant, PTL DEF AccountsInv

\* A finalization fails to find the account it has written only if the
\* address was changed (auth.controller.ts, postFinalizePassReset).
THEOREM ResetsFindThemselves == AccountsSpec => []ResetFindsItself
<1>1. AccountsTypeOK /\ AccountsInv => ResetFindsItself
  BY DEF AccountsTypeOK, AccountsInv, LinkInv, ResetFindsItself
<1> QED
  BY <1>1, AccountInvariant, PTL

\* A stored token can be redeemed at the address it was mailed to, unless the
\* address was changed (auth.controller.ts, postResetRequest).
THEOREM TokensAreReachable == AccountsSpec => []TokenIsReachable
BY AccountInvariant, PTL DEF AccountsInv

=============================================================================
