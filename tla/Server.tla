------------------------------- MODULE Server -------------------------------
(***************************************************************************)
(* One process of server.ts, from main() to process.exit: the start-up and *)
(* what it leaves behind when it is interrupted, the requests the process  *)
(* serves and their database connections (database.ts), the configuration  *)
(* it reloads (Config), and what ends it.                                  *)
(*                                                                         *)
(* Node ends the process on a rejected promise that nobody handles.  Three *)
(* kinds of promise are left alone by this code: the listener of the       *)
(* configuration, the datastore calls whose handler does not wait for them *)
(* (unfavoriteGame, unclearGame, addReport), and every Database.close().   *)
(*                                                                         *)
(* A request stands for one datastore call on one connection.  Left out:   *)
(* the rate limits, the JSON and token middleware, the swagger page.  A    *)
(* second process (replicas: 1) is not modelled.                           *)
(***************************************************************************)
EXTENDS Config, FiniteSets

CONSTANTS
    Requests,
    MaxConnections, \* what the database accepts
    MaxStarts       \* bound on the starts, for model checking

VARIABLES
    stage,      \* where main() is
    starts,     \* starts so far
    bucket,     \* the S3 bucket: "none", "private", "public"
    bucketBy,   \* history: the start that created it
    admin,      \* the fallback account: "none", "user", "admin"
    adminBy,    \* history: the start that created it
    database,   \* whether the database can be reached
    call,       \* the datastore call of each request and how far it is
    holds       \* the requests whose connection is open

setupVars == <<bucket, bucketBy, admin, adminBy>>
requestVars == <<call, holds>>
serverVars == <<stage, starts, setupVars, database, requestVars>>
processVars == <<configVars, serverVars>>

\* How a call treats its connection: closed in a finally; closed after the
\* statement, unless that fails; never closed; or closed in a finally of a
\* call that the handler does not wait for.
Kinds == {"finally", "after", "never", "early"}

\* "late": the request is answered and its call is not.
Call == [kind : Kinds, at : {"running", "late", "answered", "failed"}]
NoCall == [kind |-> "none", at |-> "idle"]

Running(r) == call[r].at \in {"running", "late"}

Stages == {"ended", "read", "watch", "migrate", "account", "grant", "bucket",
           "policy", "listen", "up", "closing"}

ServerTypeOK ==
    /\ ConfigTypeOK
    /\ stage \in Stages
    /\ starts \in Nat \ {0}
    /\ bucket \in {"none", "private", "public"}
    /\ admin \in {"none", "user", "admin"}
    /\ bucketBy \in 0..starts
    /\ adminBy \in 0..starts
    /\ database \in BOOLEAN
    /\ call \in [Requests -> Call \cup {NoCall}]
    /\ holds \subseteq Requests

ServerInit ==
    /\ ConfigInit
    /\ stage = "read"
    /\ starts = 1
    /\ bucket = "none"
    /\ bucketBy = 0
    /\ admin = "none"
    /\ adminBy = 0
    /\ database = TRUE
    /\ call = [r \in Requests |-> NoCall]
    /\ holds = {}

-----------------------------------------------------------------------------
(* The end of the process.                                                 *)

\* Whatever the process was doing is cut off.
End ==
    /\ stage' = "ended"
    /\ call' = [r \in Requests |-> NoCall]
    /\ holds' = {}
    /\ Forget
    /\ UNCHANGED <<starts, setupVars, database>>

\* The container is started again.
Restart ==
    /\ stage = "ended"
    /\ starts < MaxStarts
    /\ starts' = starts + 1
    /\ stage' = "read"
    /\ UNCHANGED <<configVars, setupVars, database, requestVars>>

-----------------------------------------------------------------------------
(* The start-up.                                                           *)

Advance(from, to) ==
    /\ stage = from
    /\ stage' = to

\* await cfg.init(...).
InitConfig ==
    \/ /\ Advance("read", "watch")
       /\ Read
       /\ UNCHANGED <<starts, setupVars, database, requestVars>>
    \/ /\ stage = "read"
       /\ ~whole
       /\ End
    \/ /\ \/ Advance("watch", "migrate")   \* initDatabase
          \/ Advance("watch", "bucket")
       /\ Watch
       /\ UNCHANGED <<starts, setupVars, database, requestVars>>

\* CREATE DATABASE, and the migrations, which are all IF NOT EXISTS.
Migrate ==
    /\ Advance("migrate", "account")
    /\ UNCHANGED <<configVars, starts, setupVars, database, requestVars>>

\* datastore.addUser("ci", ...): false if the name is there.
AddAccount ==
    /\ admin = "none"
    /\ Advance("account", "grant")
    /\ admin' = "user"
    /\ adminBy' = starts
    /\ UNCHANGED <<configVars, starts, bucket, bucketBy, database,
                   requestVars>>

\* UPDATE ... WHERE id = ? with the id of false: the driver refuses to bind
\* undefined, or no row matches.
AccountExists ==
    /\ admin # "none"
    /\ \/ stage = "account" /\ End
       \/ /\ Advance("account", "bucket")
          /\ UNCHANGED <<configVars, starts, setupVars, database, requestVars>>

GrantAdmin ==
    /\ Advance("grant", "bucket")
    /\ admin' = "admin"
    /\ UNCHANGED <<configVars, starts, bucket, bucketBy, adminBy, database,
                   requestVars>>

\* Mutant of MakeBucket: nobody waits for the policy.
MakeBucketOnly ==
    /\ bucket = "none"
    /\ Advance("bucket", "listen")
    /\ bucket' = "private"
    /\ bucketBy' = starts
    /\ UNCHANGED <<configVars, starts, admin, adminBy, database, requestVars>>

\* bucketExists, makeBucket.
MakeBucket ==
    /\ bucket = "none"
    /\ Advance("bucket", "policy")
    /\ bucket' = "private"
    /\ bucketBy' = starts
    /\ UNCHANGED <<configVars, starts, admin, adminBy, database, requestVars>>

\* A bucket that exists is taken as it is.
BucketExists ==
    /\ bucket # "none"
    /\ Advance("bucket", "listen")
    /\ UNCHANGED <<configVars, starts, setupVars, database, requestVars>>

\* setBucketPolicy.
SetPolicy ==
    /\ Advance("policy", "listen")
    /\ bucket' = "public"
    /\ UNCHANGED <<configVars, starts, bucketBy, admin, adminBy, database,
                   requestVars>>

Listen ==
    /\ Advance("listen", "up")
    /\ UNCHANGED <<configVars, starts, setupVars, database, requestVars>>

\* The database or S3 refuses a call: main() rejects, or returns
\* S3_INIT_FAIL.  The port is taken: `server.listening` is false at once,
\* and main() returns SUCCESS before the error is reported.
StartFails ==
    /\ stage \in {"migrate", "account", "grant", "bucket", "policy", "listen"}
    /\ End

-----------------------------------------------------------------------------
(* The shutdown.                                                           *)

\* SIGTERM: server.close(), if the handler is registered by now.
Terminate ==
    \/ /\ Advance("up", "closing")
       /\ UNCHANGED <<configVars, starts, setupVars, database, requestVars>>
    \/ /\ stage \notin {"up", "closing", "ended"}
       /\ End

\* Mutant of Wake: the process ends when the last request has.
WakeDrained ==
    /\ stage = "closing"
    /\ \A r \in Requests : ~Running(r)
    /\ End

\* `while (server.listening) await sleep(4)`: a server that is closing does
\* not listen.  memcached.end(), process.exit(0).
Wake ==
    /\ stage = "closing"
    /\ End

-----------------------------------------------------------------------------
(* The requests.                                                           *)

Full == Cardinality(holds) >= MaxConnections

\* The call of r is over.  Only the connections that are left open are of
\* interest after that.
Finish(r, result, closes) ==
    /\ call' = [call EXCEPT ![r] = IF closes THEN NoCall
                                   ELSE [kind |-> call[r].kind, at |-> result]]
    /\ holds' = IF closes THEN holds \ {r} ELSE holds
    /\ UNCHANGED <<configVars, stage, starts, setupVars, database>>

\* A handler calls the datastore; one that does not wait is answered.  A
\* connection that is being served may bring a request after server.close().
Accept(r) ==
    /\ stage \in {"up", "closing"}
    /\ call[r] = NoCall
    /\ \E kind \in Kinds :
           call' = [call EXCEPT ![r] =
                       [kind |-> kind,
                        at |-> IF kind = "early" THEN "late" ELSE "running"]]
    /\ UNCHANGED <<configVars, stage, starts, setupVars, database, holds>>

\* mysql.createConnection.
Connect(r) ==
    /\ Running(r)
    /\ r \notin holds
    /\ database
    /\ ~Full
    /\ holds' = holds \cup {r}
    /\ UNCHANGED <<configVars, stage, starts, setupVars, database, call>>

\* The statement, and close() where the call gets to it.
Succeed(r) ==
    /\ Running(r)
    /\ r \in holds
    /\ Finish(r, "answered", call[r].kind # "never")

\* Mutant of StatementFails: no finally.
StatementFailsOpen(r) ==
    /\ call[r].at = "running"
    /\ r \in holds
    /\ Finish(r, "failed", FALSE)

\* Mutant of StatementFails: the handler does not wait either.
StatementFailsUncaught(r) ==
    /\ call[r].at = "running"
    /\ r \in holds
    /\ End

\* A statement the handler waits for fails: 500.
StatementFails(r) ==
    /\ call[r].at = "running"
    /\ r \in holds
    /\ Finish(r, "failed", call[r].kind = "finally")

\* The connection is refused or lost: 500, and the close() of the finally
\* may be rejected too, which nobody handles.
ConnectionFails(r) ==
    /\ call[r].at = "running"
    /\ ~database \/ (r \notin holds /\ Full)
    /\ \/ Finish(r, "failed", TRUE)
       \/ call[r].kind = "finally" /\ End

\* The call fails that nobody waits for.
LateFails(r) ==
    /\ call[r].at = "late"
    /\ r \in holds \/ ~database \/ Full
    /\ End

\* The database closes a connection that has been idle too long.
Expire(r) ==
    /\ r \in holds
    /\ ~Running(r)
    /\ Finish(r, "failed", TRUE)

\* The database goes away and comes back.
Toggle ==
    /\ database' = ~database
    /\ UNCHANGED <<configVars, stage, starts, setupVars, requestVars>>

-----------------------------------------------------------------------------

Edit ==
    /\ BeginSave \/ EndSave \/ Replace
    /\ UNCHANGED serverVars

Reconfigure ==
    \/ (Change \/ Reload) /\ UNCHANGED serverVars
    \/ ReloadFails /\ End

Startup ==
    \/ InitConfig \/ Migrate \/ AddAccount \/ AccountExists \/ GrantAdmin
    \/ MakeBucket \/ BucketExists \/ SetPolicy \/ Listen \/ StartFails

Serve(r) ==
    \/ Accept(r) \/ Connect(r) \/ Succeed(r) \/ StatementFails(r)
    \/ ConnectionFails(r) \/ LateFails(r) \/ Expire(r)

ServerNext ==
    \/ Edit \/ Reconfigure
    \/ Startup \/ Terminate \/ Wake \/ Restart
    \/ \E r \in Requests : Serve(r)
    \/ Toggle

\* The event loop delivers every event, resumes every reload and fires every
\* timer.  Nothing makes a request, an editor or the database go on.
ServerFairness == WF_processVars(Reconfigure) /\ WF_processVars(Wake)

ServerSpec == ServerInit /\ [][ServerNext]_processVars /\ ServerFairness

-----------------------------------------------------------------------------

\* However many change events overlap, the configuration only ever moves to
\* a later text of the file (config.ts, clearAndReload).
ConfigMovesForward == [][inner' >= inner \/ stage' = "ended"]_processVars

\* The configuration reaches every text the watcher was told of, or the
\* process ends (config.ts, loadConfigFromFile).
ConfigCatchesUp == inner < notified ~> inner >= notified

\* A process that serves requests has made its bucket readable and its
\* account an administrator, unless an earlier start was interrupted between
\* creating the one and setting it up (server.ts, main).
SetupIsWhole ==
    stage \in {"up", "closing"} =>
        /\ bucket = "public" \/ (bucket = "private" /\ bucketBy < starts)
        /\ admin # "user" \/ adminBy < starts

\* A connection that nobody uses belongs to a call that never closes, or to
\* one that failed before it closed (datastore.ts, user.controller.ts).
IdleConnectionsExplained ==
    \A r \in holds :
        \/ Running(r)
        \/ call[r].kind = "never"
        \/ call[r].kind = "after" /\ call[r].at = "failed"

\* A failing statement costs its own request only: a request is cut off when
\* the process is told to stop, when a half-written configuration is read,
\* when a call fails that nobody waits for, or when connections are refused
\* (server.ts, list.controller.ts, database.ts).
CutHasCause ==
    [][stage' = "ended" /\ (\E r \in Requests : call[r].at = "running") =>
           \/ stage = "closing"
           \/ reloads > 0 /\ Unreadable
           \/ \E r \in Requests : call[r].at = "late"
           \/ ~database
           \/ Full /\ \E r \in Requests : Running(r) /\ r \notin holds
      ]_processVars

\* SIGTERM ends a process that serves, whatever its requests are doing
\* (server.ts, main).
TermEnds == stage = "closing" ~> stage = "ended"

-----------------------------------------------------------------------------

\* Inductive form of SetupIsWhole: what this start has made is unfinished
\* only in the stage that finishes it, or when the process has ended there.
SetupInv ==
    /\ bucket = "private" /\ bucketBy = starts => stage \in {"policy", "ended"}
    /\ admin = "user" /\ adminBy = starts => stage \in {"grant", "ended"}
    /\ stage \in {"policy", "listen", "up", "closing"} => bucket # "none"

\* Requests live in a process that serves, and a call that is waited for is
\* not one of those that are answered early.
RequestInv ==
    /\ stage \notin {"up", "closing"} => call = [r \in Requests |-> NoCall]
    /\ \A r \in Requests : call[r].at = "running" => call[r].kind # "early"

ServerInv ==
    /\ TextsInv
    /\ SetupInv
    /\ RequestInv
    /\ IdleConnectionsExplained

=============================================================================
