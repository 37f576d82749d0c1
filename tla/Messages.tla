------------------------------ MODULE Messages ------------------------------
(***************************************************************************)
(* Private messages and their threads: postMessage of                      *)
(* message.controller.ts and the table Message.                            *)
(*                                                                         *)
(* A message is inserted without a thread.  A second statement puts it in  *)
(* one: a new message starts the thread that bears its own id, a reply     *)
(* joins the thread its parent is in when the handler looks.  The three    *)
(* statements are not a transaction, so requests interleave between them   *)
(* and a request may stop between them for good.  The recipient's inbox    *)
(* shows only messages that are in a thread.                               *)
(*                                                                         *)
(* Who writes to whom, subjects and bodies are left out: Inbox and Outbox  *)
(* stand for all inboxes and all outboxes.  The refusals before the INSERT *)
(* (captcha, banned, permission) change nothing.                           *)
(***************************************************************************)
EXTENDS Naturals

CONSTANTS
    Procs,      \* requests in progress
    MaxMessages \* bound on the number of messages, for model checking

ASSUME BoundAssumption == MaxMessages \in Nat

Ids == 1..MaxMessages
Null == 0

VARIABLES
    count,   \* messages inserted: the ids 1..count (AUTO_INCREMENT)
    replyTo, \* reply_to_id of each message, Null for a new one
    thread,  \* thread_id of each message
    pc,      \* where each request stands
    mine,    \* the id its INSERT was given (result.insertId)
    seen,    \* the thread_id its SELECT returned (replyTo[0].thread_id)
    status,  \* what the request that sent each message answered
    hasty    \* history: replies whose parent was still being sent when they
             \* looked for its thread

vars == <<count, replyTo, thread, pc, mine, seen, status, hasty>>

TypeOK ==
    /\ count \in 0..MaxMessages
    /\ replyTo \in [Ids -> Ids \cup {Null}]
    /\ thread \in [Ids -> Ids \cup {Null}]
    /\ pc \in [Procs -> {"idle", "root", "look", "link"}]
    /\ mine \in [Procs -> Ids \cup {Null}]
    /\ seen \in [Procs -> Ids \cup {Null}]
    /\ status \in [Ids -> {"none", "sent", "failed"}]
    /\ hasty \subseteq Ids \cup {Null}

Init ==
    /\ count = 0
    /\ replyTo = [m \in Ids |-> Null]
    /\ thread = [m \in Ids |-> Null]
    /\ pc = [p \in Procs |-> "idle"]
    /\ mine = [p \in Procs |-> Null]
    /\ seen = [p \in Procs |-> Null]
    /\ status = [m \in Ids |-> "none"]
    /\ hasty = {}

Exists(m) == m \in 1..count

\* INSERT INTO Message.  The body's replyToId is any number the client
\* likes: a message it can see, one that does not exist, one that is about
\* to.
Insert(p, parent) ==
    /\ pc[p] = "idle"
    /\ count < MaxMessages
    /\ count' = count + 1
    /\ replyTo' = [replyTo EXCEPT ![count + 1] = parent]
    /\ mine' = [mine EXCEPT ![p] = count + 1]
    /\ pc' = [pc EXCEPT ![p] = IF parent = Null THEN "root" ELSE "look"]
    /\ UNCHANGED <<thread, seen, status, hasty>>

\* Mutant of StartThread: the answer does not wait for the thread.
StartThreadLater(p) ==
    /\ pc[p] = "root"
    /\ status' = [status EXCEPT ![mine[p]] = "sent"]
    /\ pc' = [pc EXCEPT ![p] = "idle"]
    /\ UNCHANGED <<count, replyTo, thread, mine, seen, hasty>>

\* UPDATE Message SET thread_id = id, and 201.
StartThread(p) ==
    /\ pc[p] = "root"
    /\ thread' = [thread EXCEPT ![mine[p]] = mine[p]]
    /\ status' = [status EXCEPT ![mine[p]] = "sent"]
    /\ pc' = [pc EXCEPT ![p] = "idle"]
    /\ UNCHANGED <<count, replyTo, mine, seen, hasty>>

\* SELECT thread_id of the parent; it may not have one yet, or ever.
FindParent(p) ==
    /\ pc[p] = "look"
    /\ Exists(replyTo[mine[p]])
    /\ seen' = [seen EXCEPT ![p] = thread[replyTo[mine[p]]]]
    /\ hasty' = IF status[replyTo[mine[p]]] = "none"
                THEN hasty \cup {mine[p]} ELSE hasty
    /\ pc' = [pc EXCEPT ![p] = "link"]
    /\ UNCHANGED <<count, replyTo, thread, mine, status>>

\* No such row: reading replyTo[0].thread_id throws, the message stays.
NoParent(p) ==
    /\ pc[p] = "look"
    /\ ~Exists(replyTo[mine[p]])
    /\ status' = [status EXCEPT ![mine[p]] = "failed"]
    /\ pc' = [pc EXCEPT ![p] = "idle"]
    /\ UNCHANGED <<count, replyTo, thread, mine, seen, hasty>>

\* Mutant of JoinThread: the parent's id is taken for the thread's.
JoinParent(p) ==
    /\ pc[p] = "link"
    /\ thread' = [thread EXCEPT ![mine[p]] = replyTo[mine[p]]]
    /\ status' = [status EXCEPT ![mine[p]] = "sent"]
    /\ pc' = [pc EXCEPT ![p] = "idle"]
    /\ UNCHANGED <<count, replyTo, mine, seen, hasty>>

\* Mutant of JoinThread: the parent is moved to a thread of the reply's.
JoinMovesParent(p) ==
    /\ pc[p] = "link"
    /\ thread' = [thread EXCEPT ![mine[p]] = mine[p],
                                ![replyTo[mine[p]]] = mine[p]]
    /\ status' = [status EXCEPT ![mine[p]] = "sent"]
    /\ pc' = [pc EXCEPT ![p] = "idle"]
    /\ UNCHANGED <<count, replyTo, mine, seen, hasty>>

\* Mutant of JoinThread: a parent without a thread gives the reply its own.
JoinOrStart(p) ==
    /\ pc[p] = "link"
    /\ thread' = [thread EXCEPT ![mine[p]] =
                    IF seen[p] = Null THEN mine[p] ELSE seen[p]]
    /\ status' = [status EXCEPT ![mine[p]] = "sent"]
    /\ pc' = [pc EXCEPT ![p] = "idle"]
    /\ UNCHANGED <<count, replyTo, mine, seen, hasty>>

\* UPDATE Message SET thread_id = what was seen, and 201.
JoinThread(p) ==
    /\ pc[p] = "link"
    /\ thread' = [thread EXCEPT ![mine[p]] = seen[p]]
    /\ status' = [status EXCEPT ![mine[p]] = "sent"]
    /\ pc' = [pc EXCEPT ![p] = "idle"]
    /\ UNCHANGED <<count, replyTo, mine, seen, hasty>>

\* A statement fails or the instance stops after the INSERT.
Abandon(p) ==
    /\ pc[p] # "idle"
    /\ status' = [status EXCEPT ![mine[p]] = "failed"]
    /\ pc' = [pc EXCEPT ![p] = "idle"]
    /\ UNCHANGED <<count, replyTo, thread, mine, seen, hasty>>

Next ==
    \E p \in Procs :
        \/ \E parent \in Ids \cup {Null} : Insert(p, parent)
        \/ StartThread(p) \/ FindParent(p) \/ NoParent(p) \/ JoinThread(p)
        \/ Abandon(p)

Spec == Init /\ [][Next]_vars

-----------------------------------------------------------------------------
(* What users are shown.                                                   *)

\* thread_id IS NOT NULL
Inbox == {m \in Ids : thread[m] # Null}

\* Every message its sender has written.
Outbox == {m \in Ids : Exists(m)}

\* thread_id = ?
InThread(t) == {m \in Ids : thread[m] = t}

-----------------------------------------------------------------------------

\* Every thread is rooted: its id is the id of a message that is in it and
\* that is not itself a reply, whatever requests interleaved or stopped
\* (message.controller.ts, postMessage).
ThreadsRooted ==
    \A m \in Inbox :
        /\ thread[m] \in Outbox
        /\ thread[m] \in InThread(thread[m])
        /\ replyTo[thread[m]] = Null

\* The thread of a reply shows its parent, too: a conversation does not
\* split, although a reply copies a thread id it read earlier
\* (message.controller.ts, postMessage and getMessagesFromThread).
RepliesFollowParent ==
    \A m \in Inbox : replyTo[m] # Null => replyTo[m] \in InThread(thread[m])

\* "Sent Message": a message answered 201 that is in no thread, hence in no
\* inbox for good, is a reply, and to a message that was still being sent when
\* it looked, whose sender stopped, or that was lost in the same way
\* (message.controller.ts, postMessage and getMessagesFromInbox).
UndeliveredHasCause ==
    \A m \in Outbox \ Inbox : status[m] = "sent" =>
        /\ replyTo[m] # Null
        /\ m \notin hasty => /\ replyTo[m] \in Outbox \ Inbox
                             /\ status[replyTo[m]] # "none"

\* A message never leaves the thread it is in (postMessage is the only
\* writer of thread_id, and each request writes its own message).
ThreadKept == [][\A m \in Ids : thread[m] # Null => thread'[m] = thread[m]]_vars

-----------------------------------------------------------------------------

\* What a request in progress knows: its own message is inserted, still
\* without a thread, and a reply or not as its next statement supposes.
RequestInv ==
    \A p \in Procs : pc[p] # "idle" =>
        /\ Exists(mine[p])
        /\ thread[mine[p]] = Null
        /\ status[mine[p]] = "none"
        /\ pc[p] = "root" <=> replyTo[mine[p]] = Null

\* No two requests send the same message.
OwnMessages ==
    \A p, q \in Procs :
        pc[p] # "idle" /\ pc[q] # "idle" /\ p # q => mine[p] # mine[q]

\* A thread id read from the parent is still the parent's when it is used.
SeenInv ==
    \A p \in Procs : pc[p] = "link" /\ seen[p] # Null =>
        thread[replyTo[mine[p]]] = seen[p]

\* One that was not there is missing for good, unless the reply was hasty.
MissingInv ==
    \A p \in Procs : pc[p] = "link" /\ seen[p] = Null /\ mine[p] \notin hasty =>
        LET parent == replyTo[mine[p]]
        IN  Exists(parent) /\ thread[parent] = Null /\ status[parent] # "none"

\* Rows that do not exist yet are blank.
BlankRows ==
    \A m \in Ids : ~Exists(m) =>
        replyTo[m] = Null /\ thread[m] = Null /\ status[m] = "none"

\* The inductive invariant behind the properties of threads.
ThreadInv ==
    /\ ThreadsRooted
    /\ RepliesFollowParent
    /\ UndeliveredHasCause
    /\ RequestInv
    /\ OwnMessages
    /\ SeenInv
    /\ MissingInv
    /\ BlankRows

=============================================================================
