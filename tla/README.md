# Delfruit backend: specifications and proofs

The repository is the backend of a fangame review site: a TypeScript/Express
server whose controllers (`src/src/controllers/`, with tsoa routes) call one
data access object (`src/src/datastore.ts`), which talks to MySQL and to
memcached. Several stateless instances may run side by side (README.md,
"Stateless and scalable"). This directory holds TLA+ modules of the parts whose
behaviour depends on how requests interleave, TLC configurations that check
them on small instances, and theorems that TLAPS checks for every instance.

## 1. The system

Every request is a chain of awaited steps. Between two `await`s of one request
any other request, of this or another instance, may run. The state they share:

* **MySQL.** `new Database()` opens a connection of its own for each datastore
  call; there are no transactions, every statement commits by itself. A
  statement is therefore one atomic step in every module, and a handler is a
  sequence of them that may stop after any one (error, crash, deployment).
* **memcached.** `cache(key, supplier)` and `uncache(key)` at the end of
  datastore.ts. `set` and `del` are sent without waiting and without retry.
* Everything else (S3 uploads, mail, captcha) is a call out of the system.

| Component | Its state | Its operations | Who it works with | What makes it correct |
|---|---|---|---|---|
| Read-through cache (`datastore.ts` 2005-2026) | one memcached entry per key | `cache`, `uncache` | every cached read and its writers | staleness has a cause and a bound; "no" is never stale; reads end |
| Games (`game.controller.ts`, `datastore.ts` 115-187, 747-822) | `Game` row, entries `game-<id>`, `game-exists-<id>` | post, get, patch, delete, list, random | cache, reports, every handler that asks `gameExists` | nothing is refused for a game that was there; removal is idempotent |
| Reviews (`game.controller.ts` 336-443, `review.controller.ts` 108-152) | `Rating`, unique per user and game | put, patch, list | users' bans, games, tags | one review each; none lost; a moderated one is not replaced |
| Review likes (`review.controller.ts` 162-230) | `LikeReview`, entry `review-likes-<id>` | like, unlike, ask | cache, reviews | the answer is the asking user's |
| Messages (`message.controller.ts`) | `Message` with `thread_id`, `reply_to_id` | post, inbox, outbox, thread | users' bans and permissions | threads are rooted and whole; what is sent and not delivered has a cause |
| Bookmarks, favorites, clears (`list.controller.ts` 199-352), follows (`user.controller.ts` 455-536) | three tables of (user, game), one of (user, user) | put, get, delete | users | an answer says what is so |
| Paged lists (`getGames`, `getUsers`, `getReviews` of `datastore.ts`) | none of their own | one page of a sorted list | every writer of the table | a walk through the pages misses and repeats no more than the changes during it explain |
| Custom lists (`list.controller.ts` 40-198) | `List`, `ListGame` | create, list, add game | users | — |
| Screenshots, permissions (`screenshot.controller.ts`, `datastore.ts` 824-927, 1421-1484) | `Screenshot`, `UserPermission`, entry `user-perm-<id>` | upload, approve, delete, grant, revoke | S3, cache, games | the grant follows the approvals |
| Tags (`tag.controller.ts`, `datastore.ts` 929-1105) | `Tag`, `GameTag`, entries `game-tag-...`, `game-tag-sets-<id>` | create, set, get | reviews, games, cache | a user's tags are the last set given |
| Accounts and sessions (`auth.controller.ts`, `user.controller.ts`) | `User`: name, address, password, reset token and its time | register, login, patch, reset, finalize | mail, permissions | who gets in has known the password; a token works once, and where it was mailed to; one mail an hour |
| The page of a game (`composite.controller.ts` 75-125, `game.controller.ts` 245-280) | none of its own | one page | the cached game, its reviews | each review once |
| Reports, news, users' pages | one table each, or none | single statements | — | — |
| Lifecycle (`server.ts`, `repository/config.ts`) | stage of `main()`, configuration, bucket, fallback account | start, reload, SIGTERM, restart | the requests it serves | set-up is whole; the configuration moves forward and catches up; what cuts requests off has a cause |
| Database connections (`database.ts`) | one connection per datastore call | connect, query, close | every handler, the lifecycle | a connection nobody uses has a cause |

Hard behaviours: a check and the act that relies on it are always two
statements; cached values are used after they are outdated; commands to
memcached are lost or reordered; some statements are not awaited (deletes of
favorites and clears, every `addReport` after an answer), so they take effect
after the answer, or fail with nobody to tell; handlers stop between two
statements. PROJECT.json lists each under "hazards", at its line.

## 2. Modules

| Module | Models |
|---|---|
| `StaleRegister` | abstract: what the callers of a cached read may count on |
| `CacheAside` | `cache`, `uncache`, one row, one memcached entry, commands in flight |
| `CacheAsideProperties` | properties, refinement mapping and fairness of `CacheAside` |
| `Games` | `deleteGame`, `patchGame`, the `gameExists` check, over two instances of `StaleRegister` |
| `GamePage`, `GamePageProofs` | the page of a game, composed with `Games` and with reviews that come and go; theorems of both |
| `ReviewLikes` | likes and the entry they share |
| `Reviews`, `ReviewsProofs` | `putGameReview`/`addReview`, `patchReview`/`updateReview`, bans; theorems of both |
| `Messages`, `MessagesProofs` | `postMessage` and threads; its theorems |
| `GameLists` | bookmarks and follows (in `Awaited`; follows in `Checked`), favorites and clears (in neither) |
| `Pages` | walks through paged lists while the table changes |
| `ListsProofs` | theorems of `GameLists` and of `Pages`, and the lemmas about sorted lists these rest on |
| `Screenshots`, `ScreenshotsProofs` | uploads, approvals and the permission they earn, over an instance of `StaleRegister`; its theorems |
| `PasswordReset` | abstract: reset tokens, mails and their distance, finalizations |
| `Accounts`, `AccountsProofs` | registration, login, `patchUser` and resets over one row of `User`; theorems of both, and that `Accounts` implements `PasswordReset` |
| `Tags`, `TagsProofs` | `setTags` and its callers; its theorems |
| `Config` | `repository/config.ts`: the file, the watcher, overlapping reloads |
| `Server` | one process of `server.ts` over `Config`: start-up, requests and their connections, what ends it |
| `PlatformProofs` | theorems of the cache, and of `Server` with `Config` |
| `MCCacheAside`, `MCGamePage`, `MCScreenshots`, `MCAccounts`, `MCTags` | constants and symmetry for TLC |

Conventions. `Procs` are requests in progress; one member stands for as many
requests, one after another, as the bounds allow. `pc[p]` names the statement
the request is about to make. Variables marked *history* in the declarations
are not in the code: properties use them to relate a state to an earlier one
and no action's guard reads them. Operators whose comment begins "Mutant of"
are wrong versions of the operator that follows; no specification uses them.
They are what the checks substitute to see that each property can fail.
An error or a stop is one action (`Abandon`, `Stop`, `Break`, `Fail`) enabled
wherever a statement can fail.

### The cache

A value is the *version* of the row it was read from, so that "older" has a
meaning. `Falsy` is the set of versions whose cached value is falsy: JavaScript's
`if (cached)` makes those a miss (`IsHit`). A read goes get, SELECT, set
(`StartRead`, `Hit` or `Miss`, `Query`, `Fill`); a writer goes UPDATE, del
(`Write`, `Drop`). The set or del is left in `out[p]` and is applied later, in
any order, or lost (`ApplySet`, `ApplyDel`, `Lose`); entries vanish (`Evict`).
memcached and its client library are external: the model allows everything
between a perfect cache and one that stores nothing, so it does not depend on
how the library treats the arguments `cache` and `uncache` leave out.

`floor` is the one idea of the specification: it moves up to the current
version whenever no older copy of the row is left in memcached, in a request
or in a set on its way. A read never answers below the floor at its start.
`StaleRegister` states just that, and that falsy answers are never older than
the read; `CacheAside` implements it (`ImplementsRegister`).

### Games

Composes two `StaleRegister`s over one row, because `updateGame` drops two
entries and memcached keeps them apart. Whether a version is removed is fixed
by its number (`Removed`), and an update takes the number its value asks for:
this keeps the abstract register's `Falsy` a constant. In the run the
interesting orders (live, removed, restored) exist.

### GamePage

`getGameCompositeAll` reads the game through the cache (`Open`, `ReadGame`),
the review of the owner it has found (`ReadOwner`), and the reviews of everyone
but the owner the row has by then, `PageSize` of them at most (`ReadReviews`: five
in the code, with those that have a text first, which the model leaves open:
`FirstPage` is any choice of as many as fit); `getGame` of game.controller.ts
ends after the second (`Close`). `Owner` gives each version
its owner, as `Removed` says whether it is removed. `shown` is what the
handlers of `Reviews` leave visible. `could`, history, is whose reviews each of
the two queries could see.

### Reviews, ReviewLikes, Messages, GameLists

One row group each: the reviews of one game, the likes of one review, all
messages, one (user, game) or (user, user) pair of one list. Rows of other
games, reviews or users do not meet them in any statement. Authentication and
the refusals that change nothing are left out, except where a later step depends
on them (bans in `Reviews`). In `Reviews`, `gameExists` and `canUserReview`
answer either way; `Games` says more about the first.

### Screenshots

One user's screenshots and `AUTO_APPROVE_SCREENSHOT`. `granted` holds every
version of the permission's row, as "none", "granted" or "revoked", so that a
cached read may return an earlier one: `getPermissions` is a `StaleRegister`
whose value is an object and never falsy. `postGameScreenshot` is
`StartUpload`, `Asked`, then `Insert` or `Refuse`; `patchScreenshot` is
`Update`, `Count`, `Grant`; `patchUsersPermissions` is `Rule`, `Reread`,
`Reply`. `revoked_until` is in the future or not set: time does not pass.

### PasswordReset and Accounts

One account and a clock. Token n is the n-th one stored, and mail n carries it.
`postResetRequest` is `StartRequest`, then `TooSoon`, or `MayRequest` and
`Store`; `postFinalizePassReset` is `StartFinalize`, then `Reject`, or `Accept`
and `Change`. The SELECT and the test of what it returned are one step, since
nothing is awaited between them. `mails`, `resets` and `seen` are history: the
properties allow for what a request could see when it looked, and no more.

`Accounts` takes each step of `PasswordReset` with the rest of the row: `named`
is the address a reset names, which has to be the row's where the code says so
(`LookAtRow`, `AcceptLink`) and is not looked at where it does not (`MailLink`
writes by name, `ResetPassword` by id); after its write a finalization looks
for the account once more (`Reply`). Next to them are `postUser` (`SignUp`,
`NameFree`, `AddUser`), `postLogin` (`Login`, `Verify`, `Answer`) and
`patchUser` (`Patch`, `Verify`, `WritePassword`, or `WriteProfile`). `moved` and
`strayed` are history: which resets, and whether the last mail, were overtaken
by a change of address. Dropping the added variables gives `PasswordReset`,
which is proved.

### Server and Config

`Config` is the object that holds `config.json`. Texts of the file are numbered
as they are written. A save in place is two writes (`BeginSave`, `EndSave`), of
which the watcher may report one or two events; a rename (`Replace`) is reported
once and leaves the watcher with the old file. `Change` is the listener up to
the `await`, `Reload` all that follows it.

`Server` is `main()` stage by stage, with what each stage leaves behind in the
database and in S3 when the process ends there and is started again; the
requests as one datastore call on one connection each, of the four `Kinds` the
code has; and `End`, which every cause of death ends in. Node ends a process on
a rejected promise that nobody handles: `ReloadFails`, `LateFails`, and the
`close()` in `ConnectionFails`.

### Tags

One user's `GameTag` rows of one game. `setTags` is `Delete`, then `Insert` for
each tag of the body, then `Finish`; a row that is there already ends the
request with an error (`Duplicate`). `postGameSetTags` checks the tags first
(`StartTags`, `Refused`, `Allowed`), the reviews do not (`StartReview`).

### Pages

One table (games, users, or the reviews of one game), sorted by one column, and
one walk at a time: a client asks for page 0, 1, 2 ... until a page is empty.
`TakePage` is one request; `IsPage` says what MySQL may return for ORDER BY and
LIMIT, where rows with equal keys may come in any order. Between two pages rows
are created, removed and restored, banned and let in again, and redated. `left`,
`came`, `steady` and `tied` are history. The two properties bound what a walk may
miss and what it may be given twice by those changes; both suppose distinct
keys, since with equal ones MySQL may repeat and miss rows of a table at rest.

## 3. What TLC checks

| Run | Checks | Bounds | Shows |
|---|---|---|---|
| `cache` | `StaleExplained`, `AnswersAboveFloor`, `FalsyAnswersFresh`, `ImplementsRegister`, `ReadsEnd` | 2 requests, 3 versions, version 2 falsy | an outdated entry has one of three causes; staleness is bounded; "no" is fresh; refinement; a read that begins ends |
| `likes` | `YesOnlyToLikers` | 2 requests, 2 users, lossy cache | no "yes" for someone who never liked |
| `messages` | `ThreadsRooted`, `RepliesFollowParent`, `UndeliveredHasCause`, `ThreadKept` | 2 requests, 4 messages | threads are sound whatever interleaves or stops; a sent message that reaches no inbox replied, directly or not, to one without a thread |
| `lists` | `AwaitedGetsRespectAnswers`, `DriftIsEarly` | 3 requests, a list of each kind | gets of bookmarks and follows agree with the answers given; an early answer is the only source of drift, and it heals |
| `reviews` | `OneReviewEach`, `ReviewKept`, `OnlyOverlapReplaces` | 2 requests, 2 authors, 3 INSERTs | nobody loses a review but to an overlap, a ban or a stop |
| `game_page` | `NotFoundIsTrue`, `RepeatedDeleteIdle`, `ShownOnce`, `NoneMissing` | 2 requests, 3 versions of which the second is removed, 3 authors, the second of whom owns versions 2 and 3 and the first version 1, a list of 1 review | a 404 was true during the request; repeated deletes are idle once the caches have settled; a page has a review twice only if the game has changed hands since the oldest copy in the cache; it misses one that could be seen only if the list is full, or if the author has come to own the game since the version the page has read, and never that of the owner it has read |
| `screenshots` | `EarnedIsGranted`, `AutoIsEarned`, `RulingStands`, `UploadFollowsPermission` | 2 requests, 3 screenshots, threshold 2, 3 versions | the threshold is rewarded unless a patch was stopped; nobody skips approval unearned; a revocation stands; uploads follow the permission as far as its cache does |
| `accounts` | `AccessIsEarned`, `ResetFindsItself`, `TokenIsReachable`, `MailsAreSpaced`, `TokensAreSpentOnce`, `LastLinkWorks` | 2 requests, an hour of 1 tick, 4 ticks, 2 mails, 2 resets, 2 addresses, 3 passwords | who is let in, or overwrites a password, knows one that held during the request (a reset that finishes within the request may be overwritten); a finalization finds the row it wrote, and a token can be redeemed, unless the address changed; the hour, the single use and the link hold up to the requests that had looked before |
| `server` | `SetupIsWhole`, `IdleConnectionsExplained`, `ConfigMovesForward`, `CutHasCause`, `ConfigCatchesUp`, `TermEnds` | 2 starts, 2 requests, 1 connection, 3 texts of the file | a process that serves is set up unless an earlier start was interrupted; a connection stays open only where the code leaves it so; the configuration never goes back and reaches every text it was told of; requests are cut off for one of five causes; SIGTERM ends the process |
| `tags` | `LoneSetStands`, `DuplicateHasCause`, `LastDeleteWins` | 3 requests, 2 tags that exist and 1 that does not, bodies of up to 2 | a set nothing overlaps replaces the tags; the last to delete loses none of its own |
| `pages` | `RepeatsFollowArrivals`, `MissesFollowDepartures` | 3 rows, pages of up to 2, limits 0 to 3, 3 keys, 2 changes in a walk | each row that leaves or comes during a walk costs at most one row missed or repeated, and nothing else does |

Type invariants (`TypeOK` and its like) are theorems where a module has any;
the others were checked with TLC and are spent no run on.

The bounds. Two requests are enough for every overlap of two handlers, and one
that has sent its command is free for the next while the command travels. Lists
have three requests because a statement that outlived its request, a write and a
get are three parties. Three versions make "older than", "current" and
"restored" distinct. Four messages allow a thread, a reply, a reply to the reply
and a stranded message. A threshold of two with three screenshots lets a patch
pass it, meet it and miss it. Four ticks are four hours: a second mail after the
first hour, and a token that expires after two; three passwords are the first,
and one that each of two writers sets. Two starts are enough for one to find
what the other has left, one connection for two requests to be refused and to
wait for each other, three texts for a save and a rename, or two saves, to
overlap reloads. `tags` has three requests because the last to delete may have
others before and after it. Three rows in pages of at most two make a full page,
a short one and an empty one, and limits below, within and above what is
allowed; two changes in a walk may cancel, or add up. Three authors make an
owner, the one the game passes to and a third, so that of the two who do not own
it one finds no room in a list of one. `MaxVersion`, `MaxMessages`,
`MaxReviews`, `MaxTime`, `MaxMails`, `MaxResets`, `MaxPasswords`, `MaxTags`,
`MaxAsked`, `MaxRows`, `MaxKey`, `MaxChanges`, `MaxText` and `MaxStarts` are the
only bounds; `MaxConnections`, `MaxLimit`, `PageSize`, `Hour` and `Threshold` are
limits of the code made small. `game_page` has a VIEW (`Relevant` of
`MCGamePage`): reads that have returned leave values in the registers that no
action or property looks at again, and a page that has been sent and is right
stays right, since the versions it may have met only become more. `Messages` is checked without deadlock detection, as its ids run
out at the bound.

One run ends in a violation, a finding in PROJECT.json:

| Run | Property, and who says so | What the code does |
|---|---|---|
| `likes_key` | `LikersToldYes`: "Returns whether a user likes a specific review" (review.controller.ts:207) | one user's rows are cached under the review's key |

Disagreements that no run is spent on: a message may be answered with "Sent
Message" (message.controller.ts:140) and reach no inbox, because a reply copies
the thread id of its parent before the parent has one, or after the parent's
request has stopped (`UndeliveredHasCause` says that this is the only way); the
start-up goes on as if all were well with a bucket or a fallback account that
an earlier start made and did not finish (`SetupIsWhole` is what holds); the
loop that is to wait for requests after SIGTERM (server.ts:341) does not, as a
server that is closing does not listen; "i think the predicate below has a 0%
chance of ever happening" (auth.controller.ts:407) happens when the address is
changed during a reset (`ResetFindsItself`); the page of a game shows a review
twice, or not at all though its list has room, after the game has changed hands
under a stale copy of it (`ShownOnce`, `NoneMissing`); `getRandomGame` counts the games and then takes
one by its place, so that it fails when the last has been removed in between or
there is none (datastore.ts:817); the DELETE of a favorite or a clear is not
awaited, so that after "Favorite Removed" (list.controller.ts:292) a get may
still say yes (`GetsRespectAnswers` fails for them; `DriftIsEarly` is what holds
of them); the list of users with `following=true` is that of the asking user's
followers (datastore.ts:1371 selects `user_follow_id`, where the row of a follow
has the follower, datastore.ts:625), where users/list.yaml says "users followed
by the current user"; a limit of 0 is no error but a page of one row; a second
put of a review is refused (`HasPrevious`), where game.test.ts:235 expects 200;
a patch of a review is answered 204 when the UPDATE met no row (`Update`), where
reviews/edit.yaml says "The review was updated"; two deletes of a game that both
saw it live both update it, where game.controller.ts:283 says that repeated
deletions have no effect (`RepeatedDeleteIdle` is what holds of it); the
answer of `patchGame` may be the game from before the update, where
games/update.yaml says "after update"; the link of a mail is dead as soon as a
later request is stored, where auth.controller.ts:314 says "valid for 2 hours"
(`LastLinkWorks` speaks of the last link); a bad password at login ends in an
SQL error, since `updateUser` does not know `unsuccessful_logins`
(auth.controller.ts:146), where the answer is to be 401; and the answer of
`postGameSetTags` is the cached list of everybody's tags, which nothing drops,
where its doc says "Full list of tags for the game" (game.controller.ts:633).

**Fairness.** `FairSpec` of `CacheAsideProperties` and `Spec` of `Server` assume
some. Node's event loop runs each pending continuation, and a get, a SELECT or
an UPDATE is answered or fails: so a read's next step, a writer's `uncache` and
the fate of a command are weakly fair, whichever way each of them turns out
(`ReadsEnd`). It delivers each change event, resumes each reload and fires each
timer, while the process lives: `Reconfigure` and `Wake` are weakly fair
(`ConfigCatchesUp`, `TermEnds`). No fairness is assumed of requests, neither of
those that have not begun nor of those in progress, of evictions, editors, the
database or whoever restarts the process.

## 4. What is proved

The modules named `...Proofs` are checked by TLAPS for any set of requests and
any bound. Assumed: `FalsyAssumption` (falsy versions are versions),
`RemovedAssumption` (the first version is live), `OwnerAssumption` (each version
has an owner or none), `AwaitedAssumption` (the lists that wait are lists),
`KnownAssumption` (the tags that exist are tags), `ReliableAssumption` (a switch),
`BoundAssumption` (bounds are natural numbers, in `Games` positive),
`PasswordsAssumption` (another bound), `PageSizeAssumption` (the length of a list
is a natural number), `ThresholdAssumption`, `HourAssumption`
and `LimitAssumption` (the threshold, the hour and the greatest limit of a page
are positive). `Server` needs none.

* **Cache.** `RegisterInvariant`: `TypeOK /\ RegisterInv` is inductive.
  `RegisterInv` has three parts. `OneCommand`: a request in progress has no
  command on its way, so sets and dels are counted once. `CopiesInv`: each copy
  of the row lies between `floor` and `db`; it is what makes a step that moves
  the floor safe, since the floor moves only when all copies are current.
  `ReadsInv`: a read in progress began at or below the current floor and
  version. From it, `AnswersBounded` and `FalsyAnswersAreFresh` follow, and
  `CacheImplementsRegister` maps each step to one of `StaleRegister` (reading
  is the set of requests between `StartRead` and their answer). `StaleHasCause`
  has an induction of its own over the history flags. The other end of that
  refinement is proved too: `GameReadsAreRegisters` and `PermissionIsRegister`
  say that `GamePage`, with `Games`, and `Screenshots` take no step that is not a
  step of their `StaleRegister`s or leaves them alone, so that they count on
  nothing the cache does not keep.
* **Messages.** `ThreadInvariant`: `TypeOK /\ ThreadInv` is inductive. The
  properties of threads are not inductive without `RequestInv` and `OwnMessages`
  (a request's message is its own and still without a thread), `SeenInv` (a
  thread id read from the parent still is the parent's), `BlankRows`, and
  `MissingInv`, which follows a request that has read a parent without a thread
  to the message it then leaves undelivered. `ThreadsAreRooted`,
  `RepliesStayTogether`, `UndeliveredAreExplained` and `ThreadsAreKept` follow.
* **Bookmarks, favorites, clears, follows.** `ListInvariant`: `TypeOK /\
  ListInv` is inductive, for lists of either kind. `RequestInv` says whose
  statement is outstanding and that a write nothing overlapped is the only one
  open; `WindowInv` that a waiting get may find any value now possible and that
  an open write's outcome is one; `SettledInv` holds while no early answer has
  made the row drift, and is the part that an early answer suspends and the next
  write restores. `BookmarksRespectAnswers` (bookmarks and follows) and
  `DriftHasCause` follow.
* **Paged lists.** `PagesInvariant`: `PagesInv` holds, with the types, for
  tables, limits and walks of any size. Neither property of a walk is inductive:
  a row that comes is repeated only when its page is asked for, and a row that
  slips forward is missed only when the walk ends. `WalkInv` counts both
  beforehand. For every way to sort the list, the rows already given that lie
  behind the next page are added to the repetitions, and the rows that stayed
  and lie before it without having been given are the misses to come; the first
  are no more than the rows that came, the second than those that left. The
  argument is about sorted lists alone: `HeadsOf` is the set of the ways to take
  the first n rows; `HeadsBeforeArrival` and `HeadsBeforeDeparture` say that a row
  that comes or goes changes the first n by one row at most (`NearlyIn`), whose
  neighbour `LeastElement` finds by the well-foundedness of finite sets, and
  `OneHead` that without equal keys there is one way to sort. `RowArrives`,
  `RowLeaves` and `PageGiven` draw the consequences for the bounds, and each step
  of `Pages` is one of them; a redated row leaves and comes. `RepeatsAreArrivals`
  and `MissesAreDepartures` follow, the second because a page is empty only
  where the list ends (a limit is at least 1).

* **Reviews.** `ReviewInvariant`: `ReviewInv` holds, with `TypeOK`.
  `OneReviewEach` and `ReviewKept` are nearly inductive; `MarksInv` adds that a
  put which has looked has seen no row of its author, so that every row it may
  delete is newer, unless the author was banned when it looked.
  `OverlapsReplace` is the step from it to the action property. `TypeOK` says
  that a put knows its author, without which types are not inductive.
* **Review likes.** `LikesInvariant`: `LikesInv` holds, with the types: whoever is
  in the table, in the shared entry, in a request's hands or in a set on its way
  has liked the review at some time. `YesToLikersOnly` follows.
* **Screenshots.** `ScreenshotInvariant`: `ScreenshotInv` holds, with
  `TypeOK`. `EarnedIsGranted`, `RulingStands` and `UploadFollowsPermission` are
  nearly inductive; `AutoIsEarned` is not, and rests on `RowsInv` (a permission
  with a row in any version has one now and was earned; whoever is to grant has
  seen the threshold met) and `DecisionInv` (an upload decides once, by a
  version that exists).
* **Password reset.** `ResetInvariant`: `ResetInv` holds, with `TypeOK`.
  `RowInv` says that a stored token is the last mail's, with its time, unused;
  `RequestInv` what a request that has looked still knows: who is to store
  found no token within the hour, unless another was stored meanwhile, and who
  is to change the password found its token there; `HistoryInv` bounds what
  was seen by what there is.
* **Games and their pages.** `PageInvariant`: `PageInv` holds, with the types.
  `NotFoundIsTrue` and `RepeatedDeleteIdle` are inductive once it is known whose
  read is in progress. `ShownOnce` and `NoneMissing` rest on `ReadInv`: the
  version a page was given is one it may meet (`Met`), and once it has looked
  for the owner's review it has it, if it could be seen; what else its list
  leaves out does not fit (`FirstPage`), or is of the owner by then. The versions a page may
  meet only grow, so that what it has shown stays explained (`OtherPage`).
* **Accounts.** `AccountsImplementReset`: every behaviour of `AccountsSpec` is one
  of `PasswordReset`'s `Spec`, step by step (`AccountStep`), so that what is
  proved of resets alone holds of the whole account (`ResetPromisesKept`).
  `AccountInvariant`: `AccountsInv` holds, with the types. Its part `LinkInv`
  says that a reset that has found its row by address still would, or knows
  that the address has changed; `AccessIsEarned` needs besides that a request
  cannot have begun later than the password in force. `AccessEarned`,
  `ResetsFindThemselves` and `TokensAreReachable` follow.
* **Tags.** `TagsInvariant`: `TagsInv` holds, with `TypeOK`. `RequestInv` says
  that a request that is alone has each tag in the rows or still to insert,
  `OrderInv` in which order, and `DeleterInv` that whoever inserts may.
  `DuplicatesHaveCause` needs the order: the row met is an earlier tag of the
  same body, and a sequence with a repetition has fewer elements than places
  (`RepeatedElement`, from the library's theorem on surjections).

* **Server and configuration.** `ServerInvariant`: `ServerInv` holds, with the
  types, for any number of starts, texts and requests. `TextsInv` orders the
  texts: what is parsed is no later than what waits to be parsed, and that no
  later than the file, which is what `ConfigNeverGoesBack` needs when reloads
  overlap. `SetupInv` says that this start leaves a bucket or an account
  unfinished only in the stage that finishes it; `SetupWhole` follows. `RequestInv`
  says that calls live in a process that serves and are not of the early kind
  while they are waited for; it gives `IdleConnectionsHaveCause` and, with the
  steps of `End`, `CutsHaveCause`.

`RegisterInv`, `ThreadInv`, `ListInv`, `PagesInv`, `ReviewInv`, `LikesInv`,
`ScreenshotInv`, `ResetInv`, `AccountsInv`, `PageInv`, `TagsInv` and `ServerInv` were
checked with TLC before they were proved; they are in no run, because the
theorems say more.

Only model-checked: `ReadsEnd`, `ConfigCatchesUp` and `TermEnds`, since liveness is
out of the prover's reach, and the violation. Every invariant and every action
property of a passing run is a theorem.

## 5. Not modelled

PROJECT.json "components" lists every part and why. In short: news and reports
are single statements with nothing to interleave, and so are custom lists, of
which `putList` compares a number with a string and refuses every request; the
pages and lists of users put counts next to each other that nothing relates;
captcha, mail and S3 are calls out; query builders and the logger have no
state. Review scores and comments and message text are data no property here is
about. The pages of news, reports and screenshots are cut as those of `Pages`
are. Left out of modelled parts: the date at which a revocation ends, and the
removal of a screenshot, which approval does not look at; the cached lists of
tags, of which one key is dropped like any other and two never; accounts that
share an email address; the verification key of a new account (`getUserVerify`)
and `postRefresh`, which write nothing or what nothing here reads; ratings, tags
and screenshots on the page of a game; a put of a review and the tags it carries
as one request (`Reviews` ends where `Tags` begins); rate limits and the swagger
page of `server.ts`; several processes at once, but for the requests of each
module, which may belong to any.

## 6. What is left

1. A review with its tags, over `Reviews` and `Tags`; the bans of `Reviews` with
   the handlers that ask for them.
2. `createTag`, and the cached lists of tags once they are dropped anywhere.
3. An edit clears the removed flag of a review (`Update` of `Reviews`): what is to
   happen is not written down, so that there is no property to state yet.
