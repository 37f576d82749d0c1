--------------------------- MODULE MessagesProofs ---------------------------
(***************************************************************************)
(* Proofs about message threads, for any number of messages and requests.  *)
(***************************************************************************)
EXTENDS Messages, TLAPS

\* The type invariant holds in every reachable state (message.controller.ts,
\* postMessage).
THEOREM TypeCorrect == Spec => []TypeOK
<1> USE BoundAssumption DEF Ids, Null
<1>1. Init => TypeOK
  BY DEF Init, TypeOK
<1>2. TypeOK /\ [Next]_vars => TypeOK'
  <2> SUFFICES ASSUME TypeOK, [Next]_vars PROVE TypeOK'
    OBVIOUS
  <2> USE DEF TypeOK
  <2>1. ASSUME NEW p \in Procs, NEW parent \in Ids \cup {Null}, Insert(p, parent)
        PROVE  TypeOK'
    BY <2>1 DEF Insert
  <2>2. ASSUME NEW p \in Procs, StartThread(p) PROVE TypeOK'
    BY <2>2 DEF StartThread
  <2>3. ASSUME NEW p \in Procs, FindParent(p) PROVE TypeOK'
    <3>1. mine[p] \in Ids \cup {Null}
      OBVIOUS
    <3>3. replyTo[mine[p]] \in Ids
      BY <2>3 DEF FindParent, Exists
    <3>2. hasty' \subseteq Ids \cup {Null}
      BY <2>3, <3>1 DEF FindParent
    <3> QED
      BY <2>3, <3>3, <3>2 DEF FindParent
  <2>4. ASSUME NEW p \in Procs, NoParent(p) \/ Abandon(p) PROVE TypeOK'
    BY <2>4 DEF NoParent, Abandon
  <2>5. ASSUME NEW p \in Procs, JoinThread(p) PROVE TypeOK'
    BY <2>5 DEF JoinThread
  <2>6. CASE UNCHANGED vars
    BY <2>6 DEF vars
  <2> QED
    BY <2>1, <2>2, <2>3, <2>4, <2>5, <2>6 DEF Next
<1> QED
  BY <1>1, <1>2, PTL DEF Spec

-----------------------------------------------------------------------------

\* The bookkeeping half of the invariant, step by step: what requests know
\* of their own message, and that rows which do not exist are blank.
LEMMA RequestStep ==
  ASSUME TypeOK, RequestInv, OwnMessages, BlankRows, Next
  PROVE  RequestInv' /\ OwnMessages' /\ BlankRows'
<1> USE BoundAssumption DEF TypeOK, Ids, Null, Exists
<1>1. ASSUME NEW p \in Procs, NEW parent \in Ids \cup {Null}, Insert(p, parent)
      PROVE  RequestInv' /\ OwnMessages' /\ BlankRows'
  <2>1. RequestInv'
    BY <1>1 DEF Insert, RequestInv, BlankRows
  <2>2. OwnMessages'
    BY <1>1 DEF Insert, RequestInv, OwnMessages
  <2>3. BlankRows'
    BY <1>1 DEF Insert, BlankRows
  <2> QED
    BY <2>1, <2>2, <2>3
<1>2. ASSUME NEW p \in Procs, StartThread(p) \/ JoinThread(p)
      PROVE  RequestInv' /\ OwnMessages' /\ BlankRows'
  <2>1. RequestInv'
    BY <1>2 DEF StartThread, JoinThread, RequestInv, OwnMessages
  <2>2. OwnMessages'
    BY <1>2 DEF StartThread, JoinThread, OwnMessages
  <2>3. BlankRows'
    BY <1>2 DEF StartThread, JoinThread, BlankRows, RequestInv
  <2> QED
    BY <2>1, <2>2, <2>3
<1>3. ASSUME NEW p \in Procs, NoParent(p) \/ Abandon(p)
      PROVE  RequestInv' /\ OwnMessages' /\ BlankRows'
  <2>1. RequestInv'
    BY <1>3 DEF NoParent, Abandon, RequestInv, OwnMessages
  <2>2. OwnMessages'
    BY <1>3 DEF NoParent, Abandon, OwnMessages
  <2>3. BlankRows'
    BY <1>3 DEF NoParent, Abandon, BlankRows, RequestInv
  <2> QED
    BY <2>1, <2>2, <2>3
<1>4. ASSUME NEW p \in Procs, FindParent(p)
      PROVE  RequestInv' /\ OwnMessages' /\ BlankRows'
  BY <1>4 DEF FindParent, RequestInv, OwnMessages, BlankRows
<1> QED
  BY <1>1, <1>2, <1>3, <1>4 DEF Next

\* A message that has a thread keeps it, step by step: the two statements
\* that write thread_id write the request's own message, which has none.
LEMMA KeepStep ==
  ASSUME TypeOK, RequestInv, Next
  PROVE  \A m \in Ids : thread[m] # Null => thread'[m] = thread[m]
BY DEF TypeOK, RequestInv, Next, Insert, StartThread, FindParent, NoParent,
       JoinThread, Abandon

\* The threads half of the invariant, step by step.
LEMMA ThreadStep ==
  ASSUME TypeOK, ThreadInv, Next
  PROVE  /\ ThreadsRooted' /\ RepliesFollowParent'
         /\ UndeliveredHasCause' /\ SeenInv' /\ MissingInv'
<1> USE BoundAssumption
    DEF TypeOK, Ids, Null, Exists, ThreadInv, RequestInv, BlankRows, Inbox,
        Outbox, InThread
<1>1. ASSUME NEW p \in Procs, NEW parent \in Ids \cup {Null}, Insert(p, parent)
      PROVE  /\ ThreadsRooted' /\ RepliesFollowParent'
             /\ UndeliveredHasCause' /\ SeenInv' /\ MissingInv'
  <2>1. ThreadsRooted'
    BY <1>1 DEF Insert, ThreadsRooted
  <2>2. RepliesFollowParent'
    BY <1>1 DEF Insert, RepliesFollowParent
  <2>3. UndeliveredHasCause'
    <3>1. count + 1 \in Ids /\ status[count + 1] = "none"
      BY <1>1 DEF Insert
    <3>2. \A m \in Ids : m # count + 1 => replyTo'[m] = replyTo[m]
      BY <1>1 DEF Insert
    <3>3. UNCHANGED <<thread, status, hasty>> /\ count' = count + 1
      BY <1>1 DEF Insert
    <3>4. Outbox \subseteq Outbox' /\ Inbox' = Inbox
      BY <3>3
    <3>5. \A m \in Outbox' : m # count + 1 => m \in Outbox
      BY <3>3
    <3> SUFFICES ASSUME NEW m \in Outbox' \ Inbox', status'[m] = "sent"
                 PROVE  /\ replyTo'[m] # Null
                        /\ m \notin hasty' => /\ replyTo'[m] \in Outbox' \ Inbox'
                                              /\ status'[replyTo'[m]] # "none"
      BY DEF UndeliveredHasCause
    <3>6. m # count + 1 /\ m \in Outbox \ Inbox /\ replyTo'[m] = replyTo[m]
      BY <3>1, <3>2, <3>3, <3>4, <3>5
    <3>7. /\ replyTo[m] # Null
          /\ m \notin hasty => /\ replyTo[m] \in Outbox \ Inbox
                               /\ status[replyTo[m]] # "none"
      BY <3>3, <3>6 DEF UndeliveredHasCause
    <3> HIDE DEF Outbox, Inbox, TypeOK
    <3> QED
      BY <3>3, <3>4, <3>6, <3>7
  <2>4. SeenInv'
    <3>1. \A q \in Procs : pc'[q] = "link" =>
              /\ pc[q] = "link" /\ mine'[q] = mine[q]
              /\ replyTo'[mine[q]] = replyTo[mine[q]]
      BY <1>1 DEF Insert
    <3>2. UNCHANGED <<thread, seen>>
      BY <1>1 DEF Insert
    <3> QED
      BY <3>1, <3>2 DEF SeenInv
  <2>5. MissingInv'
    <3>1. \A q \in Procs : pc'[q] = "link" =>
              /\ pc[q] = "link" /\ mine'[q] = mine[q]
              /\ replyTo'[mine[q]] = replyTo[mine[q]]
      BY <1>1 DEF Insert
    <3>2. UNCHANGED <<thread, seen, status, hasty>> /\ count' = count + 1
      BY <1>1 DEF Insert
    <3> QED
      BY <3>1, <3>2 DEF MissingInv
  <2> QED
    BY <2>1, <2>2, <2>3, <2>4, <2>5
<1>2. ASSUME NEW p \in Procs, StartThread(p)
      PROVE  /\ ThreadsRooted' /\ RepliesFollowParent'
             /\ UndeliveredHasCause' /\ SeenInv' /\ MissingInv'
  <2>1. ThreadsRooted'
    BY <1>2 DEF StartThread, ThreadsRooted
  <2>2. RepliesFollowParent'
    BY <1>2 DEF StartThread, RepliesFollowParent
  <2>3. UndeliveredHasCause'
    BY <1>2 DEF StartThread, UndeliveredHasCause
  <2>4. SeenInv'
    BY <1>2 DEF StartThread, SeenInv
  <2>5. MissingInv'
    BY <1>2 DEF StartThread, MissingInv, OwnMessages
  <2> QED
    BY <2>1, <2>2, <2>3, <2>4, <2>5
<1>3. ASSUME NEW p \in Procs, FindParent(p)
      PROVE  /\ ThreadsRooted' /\ RepliesFollowParent'
             /\ UndeliveredHasCause' /\ SeenInv' /\ MissingInv'
  <2>1. ThreadsRooted'
    BY <1>3 DEF FindParent, ThreadsRooted
  <2>2. RepliesFollowParent'
    BY <1>3 DEF FindParent, RepliesFollowParent
  <2>3. UndeliveredHasCause'
    BY <1>3 DEF FindParent, UndeliveredHasCause
  <2>4. SeenInv'
    BY <1>3 DEF FindParent, SeenInv
  <2>5. MissingInv'
    BY <1>3 DEF FindParent, MissingInv
  <2> QED
    BY <2>1, <2>2, <2>3, <2>4, <2>5
<1>4. ASSUME NEW p \in Procs, JoinThread(p)
      PROVE  /\ ThreadsRooted' /\ RepliesFollowParent'
             /\ UndeliveredHasCause' /\ SeenInv' /\ MissingInv'
  <2>1. ThreadsRooted'
    BY <1>4 DEF JoinThread, ThreadsRooted, SeenInv
  <2>2. RepliesFollowParent'
    BY <1>4 DEF JoinThread, RepliesFollowParent, SeenInv
  <2>3. UndeliveredHasCause'
    BY <1>4 DEF JoinThread, UndeliveredHasCause, MissingInv
  <2>4. SeenInv'
    BY <1>4 DEF JoinThread, SeenInv
  <2>5. MissingInv'
    BY <1>4 DEF JoinThread, MissingInv, OwnMessages
  <2> QED
    BY <2>1, <2>2, <2>3, <2>4, <2>5
<1>5. ASSUME NEW p \in Procs, NoParent(p) \/ Abandon(p)
      PROVE  /\ ThreadsRooted' /\ RepliesFollowParent'
             /\ UndeliveredHasCause' /\ SeenInv' /\ MissingInv'
  <2>0. UNCHANGED <<count, replyTo, thread, seen, mine, hasty>>
    BY <1>5 DEF NoParent, Abandon
  <2>1. ThreadsRooted' /\ RepliesFollowParent'
    BY <2>0 DEF ThreadsRooted, RepliesFollowParent
  <2>2. UndeliveredHasCause'
    BY <1>5 DEF NoParent, Abandon, UndeliveredHasCause
  <2>3. SeenInv'
    BY <1>5 DEF NoParent, Abandon, SeenInv
  <2>4. MissingInv'
    <3>1. /\ status' = [status EXCEPT ![mine[p]] = "failed"]
          /\ pc' = [pc EXCEPT ![p] = "idle"]
      BY <1>5 DEF NoParent, Abandon
    <3> QED
      BY <2>0, <3>1 DEF MissingInv
  <2> QED
    BY <2>1, <2>2, <2>3, <2>4
<1> QED
  BY <1>1, <1>2, <1>3, <1>4, <1>5 DEF Next

\* The inductive invariant of message threads holds in every reachable
\* state (message.controller.ts, postMessage).
THEOREM ThreadInvariant == Spec => []ThreadInv
<1>1. Init => ThreadInv
  BY DEF Init, ThreadInv, ThreadsRooted, RepliesFollowParent, UndeliveredHasCause,
         RequestInv, OwnMessages, SeenInv, MissingInv, BlankRows, Null, Inbox,
         Outbox, Exists
<1>2. TypeOK /\ ThreadInv /\ [Next]_vars => ThreadInv'
  <2>1. ASSUME TypeOK, ThreadInv, Next PROVE ThreadInv'
    BY <2>1, RequestStep, ThreadStep DEF ThreadInv
  <2>2. ASSUME ThreadInv, UNCHANGED vars PROVE ThreadInv'
    BY <2>2 DEF vars, ThreadInv, ThreadsRooted, RepliesFollowParent, Exists,
                UndeliveredHasCause, RequestInv, OwnMessages, SeenInv,
                MissingInv, BlankRows, Inbox, Outbox, InThread
  <2> QED
    BY <2>1, <2>2
<1> QED
  BY <1>1, <1>2, TypeCorrect, PTL DEF Spec

\* Every thread is rooted at a message that starts it, for any interleaving
\* and any failure (message.controller.ts, postMessage).
THEOREM ThreadsAreRooted == Spec => []ThreadsRooted
BY ThreadInvariant, PTL DEF ThreadInv

\* A reply in a thread is in its parent's thread.
THEOREM RepliesStayTogether == Spec => []RepliesFollowParent
BY ThreadInvariant, PTL DEF ThreadInv

\* A message that was answered 201 and reaches no inbox replied to one that
\* was still being sent, or that is itself without a thread.
THEOREM UndeliveredAreExplained == Spec => []UndeliveredHasCause
BY ThreadInvariant, PTL DEF ThreadInv

\* No step moves a message out of the thread it is in.
THEOREM ThreadsAreKept == Spec => ThreadKept
<1>1. TypeOK /\ ThreadInv /\ [Next]_vars
        => [\A m \in Ids : thread[m] # Null => thread'[m] = thread[m]]_vars
  BY KeepStep DEF ThreadInv
<1> QED
  BY <1>1, TypeCorrect, ThreadInvariant, PTL DEF Spec, ThreadKept

=============================================================================
