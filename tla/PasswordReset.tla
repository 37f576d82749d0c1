---------------------------- MODULE PasswordReset ----------------------------
(***************************************************************************)
(* Resetting the password of one account: postResetRequest and             *)
(* postFinalizePassReset of auth.controller.ts over the columns            *)
(* reset_token and reset_token_set_time of the account's User row.         *)
(*                                                                         *)
(* A request looks at the time of the last token, and later stores a new   *)
(* token and mails it.  A finalization looks for the row with its token,   *)
(* hashes the new password, and later updates the row by its id.  Between  *)
(* look and update of one request any step of another may fall.            *)
(*                                                                         *)
(* Tokens are random and never repeat: they are numbered in the order in   *)
(* which they are stored.  Left out: the password itself, which no step    *)
(* here reads; the captcha and the report; accounts that share an email    *)
(* address.  A mail may be lost: nobody has to use a token.                *)
(***************************************************************************)
EXTENDS Naturals, Sequences

CONSTANTS
    Procs,      \* requests in progress
    Hour,       \* an hour, in ticks of the clock
    MaxTime,    \* bound on the clock, for model checking
    MaxMails,   \* bound on the mails, for model checking
    MaxResets   \* bound on the resets, for model checking

ASSUME HourAssumption == Hour \in Nat \ {0}

VARIABLES
    now,        \* the time
    token,      \* reset_token, 0 for NULL
    setTime,    \* reset_token_set_time, 0 for NULL
    pc,         \* where each request stands
    given,      \* the token a finalization was called with
    mails,      \* history: the mails, number n carrying token n
    resets,     \* history: the finished resets
    seen        \* history: what each request could have seen when it looked

requestVars == <<pc, given, seen>>
vars == <<now, token, setTime, requestVars, mails, resets>>

\* How much had happened when a request looked at the row: the mails sent,
\* the resets finished, and the mails sent before the last of those.
Sight == [mails : Nat, resets : Nat, cleared : Nat]

Mail == [at : Nat \ {0}, seen : Sight]
Reset == [token : Nat, mails : Nat, seen : Sight]

TypeOK ==
    /\ now \in Nat \ {0}
    /\ mails \in Seq(Mail)
    /\ resets \in Seq(Reset)
    /\ token \in 0..Len(mails)
    /\ setTime \in 0..now
    /\ pc \in [Procs -> {"idle", "look", "store", "find", "change"}]
    /\ given \in [Procs -> Nat]
    /\ seen \in [Procs -> Sight]

LastCleared == IF resets = <<>> THEN 0 ELSE resets[Len(resets)].mails

Sighted ==
    [mails |-> Len(mails), resets |-> Len(resets), cleared |-> LastCleared]

Nothing == [mails |-> 0, resets |-> 0, cleared |-> 0]

Init ==
    /\ now = 1
    /\ token = 0
    /\ setTime = 0
    /\ pc = [p \in Procs |-> "idle"]
    /\ given = [p \in Procs |-> 0]
    /\ mails = <<>>
    /\ resets = <<>>
    /\ seen = [p \in Procs |-> Nothing]

-----------------------------------------------------------------------------

Goto(p, from, to) ==
    /\ pc[p] = from
    /\ pc' = [pc EXCEPT ![p] = to]

\* The row is read: remember, for the properties, what it could show.
Look(p) == seen' = [seen EXCEPT ![p] = Sighted]

\* The request is answered.
Done(p) ==
    /\ given' = [given EXCEPT ![p] = 0]
    /\ seen' = [seen EXCEPT ![p] = Nothing]

Tick ==
    /\ now < MaxTime
    /\ now' = now + 1
    /\ UNCHANGED <<token, setTime, requestVars, mails, resets>>

-----------------------------------------------------------------------------
(* postResetRequest.                                                       *)

StartRequest(p) ==
    /\ Goto(p, "idle", "look")
    /\ UNCHANGED <<now, token, setTime, given, seen, mails, resets>>

\* Mutant of TooSoonFor: off by one at the boundary of the hour.
TooSoonUntil(time) == time # 0 /\ time + Hour > now + 1

\* `rsts && moment(rsts).isAfter(moment().subtract(1, "hours"))`
TooSoonFor(time) == time # 0 /\ time + Hour > now

TooSoon(p) ==
    /\ Goto(p, "look", "idle")
    /\ TooSoonFor(setTime)
    /\ Done(p)
    /\ UNCHANGED <<now, token, setTime, mails, resets>>

MayRequest(p) ==
    /\ Goto(p, "look", "store")
    /\ ~TooSoonFor(setTime)
    /\ Look(p)
    /\ UNCHANGED <<now, token, setTime, given, mails, resets>>

\* The UPDATE, and the mail that is sent without waiting for it.
Store(p) ==
    /\ Len(mails) < MaxMails
    /\ Goto(p, "store", "idle")
    /\ mails' = Append(mails, [at |-> now, seen |-> seen[p]])
    /\ token' = Len(mails')
    /\ setTime' = now
    /\ Done(p)
    /\ UNCHANGED <<now, resets>>

-----------------------------------------------------------------------------
(* postFinalizePassReset.                                                  *)

StartFinalize(p) ==
    /\ Goto(p, "idle", "find")
    /\ \E t \in 1..Len(mails) : given' = [given EXCEPT ![p] = t]
    /\ UNCHANGED <<now, token, setTime, seen, mails, resets>>

\* isBefore(moment().subtract(2, "hours"))
Expired == setTime # 0 /\ setTime + 2 * Hour < now

\* 401: no row has this token.  422: it is too old.
Reject(p) ==
    /\ Goto(p, "find", "idle")
    /\ token # given[p] \/ Expired
    /\ Done(p)
    /\ UNCHANGED <<now, token, setTime, mails, resets>>

\* Mutant of Accept: the token is cleared before the password is hashed.
AcceptAndClear(p) ==
    /\ Goto(p, "find", "change")
    /\ token = given[p]
    /\ ~Expired
    /\ Look(p)
    /\ token' = 0
    /\ UNCHANGED <<now, setTime, given, mails, resets>>

Accept(p) ==
    /\ Goto(p, "find", "change")
    /\ token = given[p]
    /\ ~Expired
    /\ Look(p)
    /\ UNCHANGED <<now, token, setTime, given, mails, resets>>

\* Mutant of Change: reset_token = null is missing.
ChangeOnly(p) ==
    /\ Len(resets) < MaxResets
    /\ Goto(p, "change", "idle")
    /\ resets' = Append(resets, [token |-> given[p], mails |-> Len(mails),
                                 seen |-> seen[p]])
    /\ setTime' = 0
    /\ Done(p)
    /\ UNCHANGED <<now, token, mails>>

\* The UPDATE by id clears whatever token is there by now.
Change(p) ==
    /\ Len(resets) < MaxResets
    /\ Goto(p, "change", "idle")
    /\ resets' = Append(resets, [token |-> given[p], mails |-> Len(mails),
                                 seen |-> seen[p]])
    /\ token' = 0
    /\ setTime' = 0
    /\ Done(p)
    /\ UNCHANGED <<now, mails>>

-----------------------------------------------------------------------------

\* A statement or the hash fails, or the instance stops.
Fail(p) ==
    /\ Goto(p, pc[p], "idle")
    /\ pc[p] # "idle"
    /\ Done(p)
    /\ UNCHANGED <<now, token, setTime, mails, resets>>

Next ==
    \/ Tick
    \/ \E p \in Procs :
          \/ StartRequest(p) \/ TooSoon(p) \/ MayRequest(p) \/ Store(p)
          \/ StartFinalize(p) \/ Reject(p) \/ Accept(p) \/ Change(p)
          \/ Fail(p)

Spec == Init /\ [][Next]_vars

-----------------------------------------------------------------------------

\* "we only allow resets every hour": a mail follows the one before it in
\* less than an hour only if its request looked before that one was stored,
\* or if a reset was finished in between (auth.controller.ts,
\* postResetRequest).
MailsAreSpaced ==
    \A n \in 2..Len(mails) :
        mails[n].at < mails[n - 1].at + Hour =>
            \/ mails[n].seen.mails < n - 1
            \/ mails[n].seen.cleared >= n - 1

\* "token was already used": two resets use the same token only if the later
\* one had found the token before the earlier one cleared it
\* (auth.controller.ts, postFinalizePassReset).
TokensAreSpentOnce ==
    \A m, n \in 1..Len(resets) :
        m < n /\ resets[m].token = resets[n].token => resets[n].seen.resets < m

\* "This link is valid for 2 hours": the link in the last mail works until it
\* is used, or until a reset that had found its own token before this mail
\* clears the row by its id (auth.controller.ts, postResetRequest and
\* postFinalizePassReset).
LastLinkWorks ==
    mails # <<>> /\ token # Len(mails) =>
        \E n \in 1..Len(resets) :
            /\ resets[n].mails = Len(mails)
            /\ \/ resets[n].token = Len(mails)
               \/ resets[n].seen.mails < Len(mails)

-----------------------------------------------------------------------------

\* The inductive invariant behind them.  A stored token is the last mail's,
\* with its time, and no reset has used it or come after that mail.
RowInv ==
    /\ token # 0 => /\ token = Len(mails)
                    /\ setTime = mails[token].at
                    /\ \A n \in 1..Len(resets) : resets[n].token # token
    /\ token = 0 => setTime = 0 /\ LastCleared = Len(mails)

\* A request that is to store a token saw none, or one an hour old, unless
\* another was stored meanwhile.  A request that is to change the password
\* found its token in the row; who used it before did so after that.
RequestInv ==
    \A p \in Procs :
        /\ pc[p] = "store" /\ seen[p].mails = Len(mails) /\ mails # <<>> =>
               \/ seen[p].cleared >= Len(mails)
               \/ mails[Len(mails)].at + Hour <= now
        /\ pc[p] = "find" => given[p] # 0
        /\ pc[p] = "change" =>
               /\ given[p] = seen[p].mails
               /\ \A n \in 1..Len(resets) :
                      resets[n].token = given[p] => seen[p].resets < n

\* Nobody has seen more than there is.
HistoryInv ==
    /\ \A p \in Procs : seen[p].mails <= Len(mails)
                        /\ seen[p].resets <= Len(resets)
    /\ \A n \in 1..Len(resets) : resets[n].token <= Len(mails)

ResetInv ==
    /\ RowInv
    /\ RequestInv
    /\ HistoryInv
    /\ MailsAreSpaced
    /\ TokensAreSpentOnce
    /\ LastLinkWorks

=============================================================================
