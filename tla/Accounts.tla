------------------------------ MODULE Accounts ------------------------------
(***************************************************************************)
(* The life of one account: registration (postUser, datastore.addUser),    *)
(* login (postLogin), changes by its owner (patchUser), composed with the  *)
(* reset of its password (PasswordReset), over the columns name, phash2,   *)
(* email and reset_token of one User row.                                  *)
(*                                                                         *)
(* Every request reads the row, computes a hash or waits for another       *)
(* statement, and writes by name or id without looking again.  A step of   *)
(* PasswordReset is taken with what it does to the columns it leaves out:  *)
(* the address a request names has to be the row's, and a finalization     *)
(* looks for its account by address once more after it has written.        *)
(*                                                                         *)
(* Passwords are numbered in the order in which they are written.  Left    *)
(* out: the captcha, the verification key, other columns of the row, the   *)
(* tokens that logins hand out, which no step here reads, and the column   *)
(* banned: a login refused for it is an Answer like any other refusal.     *)
(***************************************************************************)
EXTENDS PasswordReset

CONSTANTS
    Addresses,
    MaxPasswords    \* bound on the passwords written, for model checking

ASSUME PasswordsAssumption == MaxPasswords \in Nat

VARIABLES
    password,   \* the one in force, 0 while there is no account
    address,    \* email
    named,      \* the address a reset request or finalization was called with
    mailedTo,   \* the address in each mail
    replying,   \* finalizations that have written and look for the account
    client,     \* where each other request stands, and what it knows
    moved,      \* history: resets after whose look the address changed
    strayed     \* history: so did it after the look behind the last mail

linkVars == <<named, mailedTo, replying, moved, strayed>>
accountVars == <<password, address, linkVars, client>>

None == "none"

\* `since`: history, the password in force when the request began.
Client ==
    [at : {"idle", "exists", "insert", "login", "patch", "stamp", "write"},
     knows : 0..MaxPasswords,
     since : 0..MaxPasswords]

AccountsTypeOK ==
    /\ TypeOK
    /\ password \in 0..MaxPasswords
    /\ address \in Addresses
    /\ named \in [Procs -> Addresses \cup {None}]
    /\ mailedTo \in Seq(Addresses)
    /\ replying \subseteq Procs
    /\ client \in [Procs -> Client]
    /\ moved \subseteq Procs
    /\ strayed \in BOOLEAN

NoClient == [at |-> "idle", knows |-> 0, since |-> 0]

AccountsInit ==
    /\ Init
    /\ password = 0
    /\ address \in Addresses
    /\ named = [p \in Procs |-> None]
    /\ mailedTo = <<>>
    /\ replying = {}
    /\ client = [p \in Procs |-> NoClient]
    /\ moved = {}
    /\ strayed = FALSE

Exists == password # 0

Free(p) == pc[p] = "idle" /\ p \notin replying /\ client[p].at = "idle"

SetPassword ==
    /\ password < MaxPasswords
    /\ password' = password + 1

\* The row's address changes under the resets in progress.
SetAddress(a) ==
    /\ address' = a
    /\ IF a = address
       THEN UNCHANGED <<moved, strayed>>
       ELSE /\ moved' = {p \in Procs : \/ p \in replying
                                      \/ pc[p] \in {"store", "change"}}
            /\ strayed' = (mails # <<>>)

\* A reset is answered.
Release(p) ==
    /\ named' = [named EXCEPT ![p] = None]
    /\ moved' = moved \ {p}

-----------------------------------------------------------------------------
(* PasswordReset, with the rest of the row.                                *)

\* Someone names the address the account has or had.
NameAddress(p) ==
    /\ Free(p)
    /\ StartRequest(p)
    /\ \E a \in Addresses : named' = [named EXCEPT ![p] = a]
    /\ UNCHANGED <<password, address, mailedTo, replying, moved, strayed,
                   client>>

\* WHERE name = ? AND email = ?
Matches(p) == Exists /\ named[p] = address

\* No row: 204 all the same.
NoAccount(p) ==
    /\ pc[p] = "look"
    /\ ~Matches(p)
    /\ Fail(p)
    /\ Release(p)
    /\ UNCHANGED <<password, address, mailedTo, replying, strayed, client>>

\* The last token is not an hour old: 425.
AskedTooSoon(p) ==
    /\ Matches(p)
    /\ TooSoon(p)
    /\ Release(p)
    /\ UNCHANGED <<password, address, mailedTo, replying, strayed, client>>

\* Mutant of LookAtRow: the row is found by its name alone.
LookByName(p) ==
    /\ Exists
    /\ MayRequest(p)
    /\ UNCHANGED accountVars

LookAtRow(p) ==
    /\ Matches(p)
    /\ MayRequest(p)
    /\ UNCHANGED accountVars

\* UPDATE ... WHERE name = ?, whatever the address is by now.
MailLink(p) ==
    /\ Store(p)
    /\ mailedTo' = Append(mailedTo, named[p])
    /\ strayed' = (p \in moved)
    /\ Release(p)
    /\ UNCHANGED <<password, address, replying, client>>

FollowLink(p) ==
    /\ Free(p)
    /\ StartFinalize(p)
    /\ named' = [named EXCEPT ![p] = mailedTo[given'[p]]]
    /\ UNCHANGED <<password, address, mailedTo, replying, moved, strayed,
                   client>>

RefuseLink(p) ==
    /\ pc[p] = "find"
    /\ Reject(p) \/ (~Matches(p) /\ Fail(p))
    /\ Release(p)
    /\ UNCHANGED <<password, address, mailedTo, replying, strayed, client>>

\* Mutant of AcceptLink: the row is found by its token alone.
AcceptAnyAddress(p) ==
    /\ Accept(p)
    /\ UNCHANGED accountVars

\* WHERE email = ? AND reset_token = ?
AcceptLink(p) ==
    /\ Matches(p)
    /\ Accept(p)
    /\ UNCHANGED accountVars

\* The new password is written; the request goes on to look for the row.
ResetPassword(p) ==
    /\ Change(p)
    /\ SetPassword
    /\ replying' = replying \cup {p}
    /\ UNCHANGED <<address, named, mailedTo, moved, strayed, client>>

\* SELECT ... WHERE email = ?: the account and its token, or 401.
Reply(p) ==
    /\ p \in replying
    /\ replying' = replying \ {p}
    /\ Release(p)
    /\ UNCHANGED <<vars, password, address, mailedTo, strayed, client>>

\* A reset request or finalization fails.
ResetFails(p) ==
    /\ Fail(p)
    /\ Release(p)
    /\ UNCHANGED <<password, address, mailedTo, replying, strayed, client>>

-----------------------------------------------------------------------------
(* The other requests.                                                     *)

Begin(p, step, known) ==
    /\ Free(p)
    /\ client' = [client EXCEPT ![p] =
                     [at |-> step, knows |-> known, since |-> password]]
    /\ UNCHANGED <<vars, password, address, linkVars>>

Move(p, from, to) ==
    /\ client[p].at = from
    /\ client' = [client EXCEPT ![p].at = to]

Leave(p) == client' = [client EXCEPT ![p] = NoClient]

\* postUser.  addUser: SELECT 1 FROM User WHERE name = ?
SignUp(p) == Begin(p, "exists", 0)

NameFree(p) ==
    /\ Move(p, "exists", "insert")
    /\ ~Exists
    /\ UNCHANGED <<vars, password, address, linkVars>>

\* INSERT INTO User, under the UNIQUE KEY on the name; then the key is mailed.
AddUser(p) ==
    /\ client[p].at = "insert"
    /\ ~Exists
    /\ SetPassword
    /\ Leave(p)
    /\ UNCHANGED <<vars, address, linkVars>>

\* postLogin with a password the account has or had.
Login(p) == \E known \in 1..password : Begin(p, "login", known)

\* patchUser with a new password.
Patch(p) == \E known \in 1..password : Begin(p, "patch", known)

\* Mutant of Verify: verifyPassword is not awaited, and a promise is true.
VerifyNothing(p) ==
    /\ Move(p, "login", "stamp") \/ Move(p, "patch", "write")
    /\ UNCHANGED <<vars, password, address, linkVars>>

\* getUserForLogin, and bcrypt.compare with the hash it has read.
Verify(p) ==
    /\ client[p].knows = password
    /\ Move(p, "login", "stamp") \/ Move(p, "patch", "write")
    /\ UNCHANGED <<vars, password, address, linkVars>>

\* UPDATE User SET phash2 = ?, email = ? WHERE id = ?
WritePassword(p) ==
    /\ client[p].at = "write"
    /\ SetPassword
    /\ \E a \in Addresses : SetAddress(a)
    /\ Leave(p)
    /\ UNCHANGED <<vars, named, mailedTo, replying>>

\* patchUser without a password: one UPDATE.
WriteProfile(p) ==
    /\ Free(p)
    /\ Exists
    /\ \E a \in Addresses \ {address} : SetAddress(a)
    /\ UNCHANGED <<vars, password, named, mailedTo, replying, client>>

\* The request is answered: the name is claimed, the password does not match
\* (a login then fails in updateUser, which is given nothing to set), the
\* user is banned, the token is made; or it ends with an error.
Answer(p) ==
    /\ client[p].at # "idle"
    /\ Leave(p)
    /\ UNCHANGED <<vars, password, address, linkVars>>

-----------------------------------------------------------------------------

ResetStep(p) ==
    \/ NameAddress(p) \/ NoAccount(p) \/ AskedTooSoon(p) \/ LookAtRow(p)
    \/ MailLink(p) \/ FollowLink(p) \/ RefuseLink(p) \/ AcceptLink(p)
    \/ ResetPassword(p) \/ Reply(p) \/ ResetFails(p)

ClientStep(p) ==
    \/ SignUp(p) \/ NameFree(p) \/ AddUser(p) \/ Login(p) \/ Patch(p)
    \/ Verify(p) \/ WritePassword(p) \/ WriteProfile(p) \/ Answer(p)

AccountsNext ==
    \/ \E p \in Procs : ResetStep(p) \/ ClientStep(p)
    \/ Tick /\ UNCHANGED accountVars

AccountsSpec == AccountsInit /\ [][AccountsNext]_<<vars, accountVars>>

-----------------------------------------------------------------------------

\* A request that is about to hand out a token or to write a password knows
\* a password that was in force at some moment of the request, whatever was
\* reset or changed between its statements: a password that was set before the
\* request is never overwritten by one who knows only an older one.  One that
\* is set during it may be: nothing looks again (auth.controller.ts, postLogin;
\* user.controller.ts, patchUser).
AccessIsEarned ==
    \A p \in Procs :
        client[p].at \in {"stamp", "write"} =>
            client[p].knows >= client[p].since

\* "i think the predicate below has a 0% chance of ever happening": a
\* finalization that has written the new password finds its account again,
\* unless the address was changed meanwhile (auth.controller.ts,
\* postFinalizePassReset).
ResetFindsItself ==
    \A p \in replying : named[p] = address \/ p \in moved

\* A token in the row can be redeemed by the link that was mailed with it,
\* unless the address was changed after its request had looked; until then a
\* new request is refused for an hour (auth.controller.ts, postResetRequest).
TokenIsReachable ==
    token # 0 => mailedTo[token] = address \/ strayed

-----------------------------------------------------------------------------

\* The inductive invariant behind them.  A reset that has found its row by
\* address still would, or knows that the address was changed.
LinkInv ==
    /\ Len(mailedTo) = Len(mails)
    /\ \A p \in Procs : p \in replying => pc[p] = "idle"
    /\ \A p \in Procs : pc[p] # "idle" => named[p] \in Addresses
    /\ \A p \in Procs :
          p \in replying \/ pc[p] \in {"store", "change"} =>
              named[p] = address \/ p \in moved

AccountsInv ==
    /\ LinkInv
    /\ TokenIsReachable
    /\ AccessIsEarned
    /\ \A p \in Procs : client[p].since <= password

=============================================================================
