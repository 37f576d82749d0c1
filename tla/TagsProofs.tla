----------------------------- MODULE TagsProofs ------------------------------
(***************************************************************************)
(* Proofs about a user's tags of a game, for any number of requests, any   *)
(* set of tags and bodies of any length.                                   *)
(***************************************************************************)
EXTENDS Tags, FiniteSetTheorems, TLAPS

\* A body is a sequence of tags (postGameSetTags, putGameReview).
LEMMA BodiesAreSequences == \A tags \in Bodies : tags \in Seq(TagIds)
  BY BoundAssumption DEF Bodies

\* What a sequence of tags holds is its head and what its tail holds (the
\* loop of setTags).
LEMMA HeadAndTail ==
    ASSUME NEW s \in Seq(TagIds), s # <<>>
    PROVE  /\ Head(s) \in TagIds /\ Tail(s) \in Seq(TagIds)
           /\ Range(s) = {Head(s)} \cup Range(Tail(s))
<1>1. Len(s) \in Nat \ {0} /\ DOMAIN s = 1..Len(s)
  OBVIOUS
<1>2. /\ Head(s) = s[1] /\ Tail(s) \in Seq(TagIds)
      /\ Len(Tail(s)) = Len(s) - 1
      /\ \A i \in 1..(Len(s) - 1) : Tail(s)[i] = s[i + 1]
  OBVIOUS
<1>3. DOMAIN Tail(s) = 1..(Len(s) - 1)
  BY <1>2
<1>4. ASSUME NEW x \in Range(s) PROVE x \in {Head(s)} \cup Range(Tail(s))
  <2>1. PICK i \in 1..Len(s) : x = s[i]
    BY <1>1, <1>4 DEF Range
  <2>2. CASE i = 1
    BY <1>2, <2>1, <2>2
  <2>3. CASE i # 1
    <3>1. i - 1 \in 1..(Len(s) - 1) /\ Tail(s)[i - 1] = x
      BY <1>1, <1>2, <2>1, <2>3
    <3> QED
      BY <1>3, <3>1 DEF Range
  <2> QED
    BY <2>2, <2>3
<1>5. ASSUME NEW x \in {Head(s)} \cup Range(Tail(s)) PROVE x \in Range(s)
  <2>1. CASE x = Head(s)
    BY <1>1, <1>2, <2>1 DEF Range
  <2>2. CASE x \in Range(Tail(s))
    <3>1. PICK i \in 1..(Len(s) - 1) : x = Tail(s)[i]
      BY <1>3, <2>2 DEF Range
    <3>2. i + 1 \in 1..Len(s) /\ s[i + 1] = x
      BY <1>1, <1>2, <3>1
    <3> QED
      BY <1>1, <3>2 DEF Range
  <2> QED
    BY <1>5, <2>1, <2>2
<1>6. Head(s) \in TagIds
  BY <1>1, <1>2
<1> QED
  BY <1>2, <1>4, <1>5, <1>6

\* A sequence of tags holds tags, the empty one none.
LEMMA RangeTyped ==
    /\ \A s \in Seq(TagIds) : Range(s) \subseteq TagIds
    /\ Range(<<>>) = {}
  BY DEF Range

\* Every reachable state is well typed (setTags).
THEOREM TypeCorrect == Spec => []TypeOK
<1>1. Init => TypeOK
  BY DEF Init, TypeOK
<1>2. TypeOK /\ [Next]_vars => TypeOK'
  <2> SUFFICES ASSUME TypeOK, [Next]_vars PROVE TypeOK'
    OBVIOUS
  <2> USE DEF TypeOK
  <2>1. CASE UNCHANGED vars
    BY <2>1 DEF vars, historyVars
  <2>2. ASSUME NEW p \in Procs, StartTags(p) \/ StartReview(p) PROVE TypeOK'
    <3>1. PICK to \in {"check", "delete"} : Start(p, to)
      BY <2>2 DEF StartTags, StartReview
    <3>2. PICK tags \in Seq(TagIds) :
            /\ wanted' = [wanted EXCEPT ![p] = tags]
            /\ todo' = [todo EXCEPT ![p] = tags]
      BY <3>1, BodiesAreSequences DEF Start
    <3>3. alone' \subseteq Procs
      BY <3>1 DEF Start
    <3> QED
      BY <3>1, <3>2, <3>3 DEF Start, Goto
  <2>3. ASSUME NEW p \in Procs, Refused(p) PROVE TypeOK'
    BY <2>3 DEF Refused, Done, Goto
  <2>4. ASSUME NEW p \in Procs, Allowed(p) PROVE TypeOK'
    BY <2>4 DEF Allowed, Goto, historyVars
  <2>5. ASSUME NEW p \in Procs, Delete(p) PROVE TypeOK'
    <3>1. Range(wanted[p]) \subseteq TagIds
      BY RangeTyped
    <3>2. \A q \in Procs : Range(todo[q]) \subseteq TagIds
      BY RangeTyped
    <3>3. entitled' \subseteq TagIds
      BY <2>5, <3>2 DEF Delete
    <3>4. /\ pc' \in [Procs -> {"idle", "check", "delete", "insert"}]
          /\ UNCHANGED <<wanted, todo, alone>>
          /\ rows' = {} /\ settled' = {}
          /\ deleter' = {p} /\ promised' = Range(wanted[p])
      BY <2>5 DEF Delete, Goto
    <3> QED
      BY <3>1, <3>3, <3>4
  <2>6. ASSUME NEW p \in Procs, Insert(p) PROVE TypeOK'
    <3>1. Head(todo[p]) \in TagIds /\ Tail(todo[p]) \in Seq(TagIds)
      BY <2>6, HeadAndTail DEF Insert
    <3> QED
      BY <2>6, <3>1 DEF Insert, historyVars
  <2>7. ASSUME NEW p \in Procs, Duplicate(p) \/ Fail(p) PROVE TypeOK'
    <3>1. PICK from : Broken(p, from)
      BY <2>7 DEF Duplicate, Fail
    <3> QED
      BY <3>1 DEF Broken, Done, Goto
  <2>8. ASSUME NEW p \in Procs, Finish(p) PROVE TypeOK'
    <3>1. {Range(wanted[p])} \subseteq SUBSET TagIds
      BY RangeTyped
    <3>2. settled' \subseteq SUBSET TagIds
      BY <2>8, <3>1 DEF Finish
    <3> QED
      BY <2>8, <3>2 DEF Finish, Done, Goto
  <2> QED
    BY <2>1, <2>2, <2>3, <2>4, <2>5, <2>6, <2>7, <2>8 DEF Next
<1> QED
  BY <1>1, <1>2, PTL DEF Spec

\* The inductive invariant (setTags and its callers).
THEOREM TagsInvariant == Spec => []TagsInv
<1>1. Init => TagsInv
  BY DEF Init, TagsInv, RequestInv, OrderInv, DeleterInv, LoneSetStands, LastDeleteWins
<1>2. TypeOK /\ TagsInv /\ [Next]_vars => TagsInv'
  <2> SUFFICES ASSUME TypeOK, TagsInv, [Next]_vars PROVE TagsInv'
    OBVIOUS
  <2> USE DEF TagsInv
  <2>1. CASE UNCHANGED vars
    <3>1. OrderInv'
      <4>1. /\ rows' = rows /\ pc' = pc /\ wanted' = wanted
            /\ todo' = todo /\ alone' = alone
        BY <2>1 DEF vars, historyVars
      <4>2. \A p : Inserted(p)' = Inserted(p)
        BY <4>1 DEF Inserted
      <4> QED
        BY <4>1, <4>2 DEF OrderInv
    <3>2. RequestInv' /\ DeleterInv' /\ LoneSetStands' /\ LastDeleteWins'
      BY <2>1 DEF vars, historyVars, RequestInv, DeleterInv, LoneSetStands,
                  LastDeleteWins
    <3> QED
      BY <3>1, <3>2
  \* A request begins.
  <2>2. ASSUME NEW p \in Procs, StartTags(p) \/ StartReview(p) PROVE TagsInv'
    <3>1. PICK to \in {"check", "delete"} : Start(p, to)
      BY <2>2 DEF StartTags, StartReview
    <3>2. PICK tags \in Seq(TagIds) :
            /\ wanted' = [wanted EXCEPT ![p] = tags]
            /\ todo' = [todo EXCEPT ![p] = tags]
      BY <3>1, BodiesAreSequences DEF Start
    <3>3. /\ pc[p] = "idle" /\ pc' = [pc EXCEPT ![p] = to]
          /\ UNCHANGED <<rows, deleter, promised, entitled, settled>>
          /\ alone' \subseteq {p}
          /\ alone' # {} => \A q \in Procs : pc[q] = "idle"
      BY <3>1 DEF Start, Goto
    <3>4. RequestInv'
      BY <3>2, <3>3 DEF RequestInv, TypeOK
    <3>5. p \notin deleter
      BY <3>3 DEF DeleterInv
    <3>6. DeleterInv'
      BY <3>2, <3>3, <3>5 DEF DeleterInv, TypeOK
    <3>7. LoneSetStands'
      BY <3>3 DEF LoneSetStands
    <3>8. \A q \in deleter : todo'[q] = todo[q]
      BY <3>2, <3>5 DEF TypeOK
    <3>9. LastDeleteWins'
      BY <3>3, <3>8 DEF LastDeleteWins
    <3>10. OrderInv'
      BY <3>3 DEF OrderInv, TypeOK
    <3> QED
      BY <3>4, <3>6, <3>7, <3>9, <3>10
  <2>3. ASSUME NEW p \in Procs, Allowed(p) PROVE TagsInv'
    <3>1. /\ pc[p] = "check" /\ pc' = [pc EXCEPT ![p] = "delete"]
          /\ UNCHANGED <<rows, wanted, todo, alone, deleter, promised,
                         entitled, settled>>
      BY <2>3 DEF Allowed, Goto, historyVars
    <3>2. RequestInv' /\ DeleterInv'
      BY <3>1 DEF RequestInv, DeleterInv, TypeOK
    <3>3. LoneSetStands' /\ LastDeleteWins'
      BY <3>1 DEF LoneSetStands, LastDeleteWins
    <3>4. OrderInv'
      BY <3>1 DEF OrderInv, Inserted, TypeOK
    <3> QED
      BY <3>2, <3>3, <3>4
  \* The rows are deleted: everything starts anew.
  <2>4. ASSUME NEW p \in Procs, Delete(p) PROVE TagsInv'
    <3>1. /\ pc[p] = "delete" /\ pc' = [pc EXCEPT ![p] = "insert"]
          /\ UNCHANGED <<wanted, todo, alone>>
          /\ rows' = {} /\ settled' = {} /\ deleter' = {p}
          /\ promised' = Range(wanted[p])
      BY <2>4 DEF Delete, Goto
    <3>2. todo[p] = wanted[p]
      BY <3>1 DEF RequestInv
    <3>3. RequestInv'
      BY <3>1, <3>2 DEF RequestInv, TypeOK
    <3>4. Range(todo[p]) \subseteq entitled'
      BY <2>4 DEF Delete
    <3>5. ASSUME NEW q \in Procs, q # p, pc'[q] = "insert"
          PROVE  Range(todo[q]) \subseteq entitled'
      <4>1. pc[q] = "insert"
        BY <3>1, <3>5 DEF TypeOK
      <4> QED
        BY <2>4, <4>1 DEF Delete
    <3>6. DeleterInv'
      BY <3>1, <3>4, <3>5 DEF DeleterInv, TypeOK
    <3>7. LoneSetStands' /\ LastDeleteWins'
      BY <3>1, <3>2 DEF LoneSetStands, LastDeleteWins
    <3>8. OrderInv'
      <4> SUFFICES ASSUME NEW q \in alone', pc'[q] = "insert"
                   PROVE  /\ Inserted(q)' >= 0
                          /\ rows' = {wanted'[q][i] : i \in 1..Inserted(q)'}
                          /\ \A i \in 1..Len(todo'[q]) :
                                 todo'[q][i] = wanted'[q][Inserted(q)' + i]
        BY DEF OrderInv
      <4>1. q = p
        BY <3>1 DEF RequestInv, TypeOK
      <4>2. Len(wanted[p]) \in Nat
        BY DEF TypeOK
      <4>3. Inserted(q)' = 0
        BY <3>1, <3>2, <4>1, <4>2 DEF Inserted
      <4>4. {wanted'[q][i] : i \in 1..Inserted(q)'} = {}
        BY <4>3
      <4> QED
        BY <3>1, <3>2, <4>1, <4>2, <4>3, <4>4
    <3> QED
      BY <3>3, <3>6, <3>7, <3>8
  \* A row is inserted: what was to come is there.
  <2>5. ASSUME NEW p \in Procs, Insert(p) PROVE TagsInv'
    <3> DEFINE tag == Head(todo[p])
    <3>1. /\ pc[p] = "insert" /\ rows' = rows \cup {tag}
          /\ todo' = [todo EXCEPT ![p] = Tail(todo[p])]
          /\ UNCHANGED <<pc, wanted, alone, deleter, promised, entitled,
                         settled>>
      BY <2>5 DEF Insert, historyVars
    <3>2. Range(todo[p]) = {tag} \cup Range(Tail(todo[p]))
      BY <2>5, HeadAndTail DEF Insert, TypeOK
    <3>3. /\ todo'[p] = Tail(todo[p])
          /\ \A q \in Procs \ {p} : todo'[q] = todo[q]
      BY <3>1 DEF TypeOK
    <3> HIDE DEF tag
    <3>4. settled = {}
      BY <3>1 DEF RequestInv
    <3>5. \A q \in alone : q = p \/ pc[q] = "idle"
      BY <3>1 DEF RequestInv, TypeOK
    <3>6. p \in alone => rows' \cup Range(todo'[p]) = Range(wanted[p])
      BY <3>1, <3>2, <3>3 DEF RequestInv
    <3>7. \A q \in Procs : pc[q] \in {"check", "delete"} => todo'[q] = wanted[q]
      BY <3>1, <3>3 DEF RequestInv
    <3>8. RequestInv'
      BY <3>1, <3>4, <3>5, <3>6, <3>7 DEF RequestInv
    <3>9. DeleterInv'
      BY <3>1, <3>2, <3>3 DEF DeleterInv
    <3>10. tag \in entitled
      BY <3>1, <3>2 DEF DeleterInv
    <3>11. ASSUME NEW x \in promised
           PROVE  x \in rows' \cup UNION {Range(todo'[q]) : q \in deleter}
      <4>1. CASE x \in rows
        BY <3>1, <4>1
      <4>2. ASSUME NEW q \in deleter, x \in Range(todo[q])
            PROVE  x \in rows' \cup Range(todo'[q])
        <5>1. q \in Procs
          BY DEF TypeOK
        <5> QED
          BY <3>1, <3>2, <3>3, <4>2, <5>1
      <4> QED
        BY <4>1, <4>2 DEF LastDeleteWins
    <3>12. LoneSetStands' /\ LastDeleteWins'
      BY <3>1, <3>4, <3>10, <3>11 DEF LoneSetStands, LastDeleteWins
    <3>13. OrderInv'
      <4> SUFFICES ASSUME NEW q \in alone', pc'[q] = "insert"
                   PROVE  /\ Inserted(q)' >= 0
                          /\ rows' = {wanted'[q][i] : i \in 1..Inserted(q)'}
                          /\ \A i \in 1..Len(todo'[q]) :
                                 todo'[q][i] = wanted'[q][Inserted(q)' + i]
        BY DEF OrderInv
      <4> DEFINE w == wanted[p]  t == todo[p]  k == Inserted(p)
      <4>1. q = p /\ p \in alone
        BY <3>1, <3>5
      <4>2. /\ w \in Seq(TagIds) /\ t \in Seq(TagIds) /\ t # <<>>
            /\ wanted'[q] = w /\ todo'[q] = Tail(t) /\ Head(t) = tag
        BY <2>5, <3>1, <3>3, <4>1 DEF Insert, TypeOK, tag
      <4>3. /\ k >= 0 /\ k = Len(w) - Len(t) /\ rows = {w[i] : i \in 1..k}
            /\ \A i \in 1..Len(t) : t[i] = w[k + i]
        BY <3>1, <4>1 DEF OrderInv, Inserted
      <4>4. /\ Len(w) \in Nat /\ Len(t) \in Nat \ {0}
            /\ Len(Tail(t)) = Len(t) - 1 /\ Head(t) = t[1]
            /\ \A i \in 1..(Len(t) - 1) : Tail(t)[i] = t[i + 1]
        BY <4>2
      <4>5. Inserted(q)' = k + 1
        <5>1. Inserted(q)' = Len(wanted'[q]) - Len(todo'[q])
          BY DEF Inserted
        <5> HIDE DEF w, t, k
        <5> QED
          BY <4>2, <4>3, <4>4, <5>1
      <4> HIDE DEF w, t, k
      <4>6. tag = w[k + 1] /\ k \in Nat
        BY <4>2, <4>3, <4>4
      <4>7. rows' = {w[i] : i \in 1..(k + 1)}
        <5>1. 1..(k + 1) = 1..k \cup {k + 1}
          BY <4>6
        <5>2. {w[i] : i \in 1..(k + 1)} = {w[i] : i \in 1..k} \cup {w[k + 1]}
          BY <5>1
        <5> QED
          BY <3>1, <4>3, <4>6, <5>2
      <4>8. \A i \in 1..(Len(t) - 1) : Tail(t)[i] = w[k + 1 + i]
        <5> SUFFICES ASSUME NEW i \in 1..(Len(t) - 1)
                     PROVE  Tail(t)[i] = w[k + 1 + i]
          OBVIOUS
        <5>1. i + 1 \in 1..Len(t) /\ k + 1 + i = k + (i + 1)
          BY <4>4, <4>6
        <5> QED
          BY <4>3, <4>4, <5>1
      <4> QED
        BY <4>2, <4>4, <4>5, <4>6, <4>7, <4>8
    <3> QED
      BY <3>8, <3>9, <3>12, <3>13
  \* A request ends.
  <2>6. ASSUME NEW p \in Procs,
               Refused(p) \/ Duplicate(p) \/ Finish(p) \/ Fail(p)
        PROVE  TagsInv'
    <3>1. /\ pc[p] # "idle" /\ pc' = [pc EXCEPT ![p] = "idle"]
          /\ wanted' = [wanted EXCEPT ![p] = <<>>]
          /\ todo' = [todo EXCEPT ![p] = <<>>]
          /\ deleter' = deleter \ {p}
          /\ UNCHANGED <<rows, alone, entitled>>
      BY <2>6 DEF Refused, Duplicate, Finish, Fail, Broken, Done, Goto
    <3>2. ASSUME settled' # settled
          PROVE  /\ Finish(p) /\ p \in alone /\ todo[p] = <<>>
                 /\ pc[p] = "insert" /\ settled' = {Range(wanted[p])}
      BY <2>6, <3>2 DEF Refused, Duplicate, Finish, Fail, Broken
    <3>3. settled' # settled => /\ rows = Range(wanted[p])
                                /\ \A q \in Procs \ {p} : pc[q] = "idle"
      BY <3>2, RangeTyped DEF RequestInv
    <3>4. settled' # {} => \A q \in Procs : pc'[q] # "insert"
      BY <3>1, <3>3 DEF RequestInv, TypeOK
    <3>5. RequestInv'
      BY <3>1, <3>4 DEF RequestInv, TypeOK
    <3>6. DeleterInv'
      BY <3>1 DEF DeleterInv, TypeOK
    <3>7. LoneSetStands'
      BY <3>1, <3>2, <3>3 DEF LoneSetStands
    <3>8. promised' = {} \/ /\ promised' = promised
                            /\ p \in deleter => todo[p] = <<>>
      <4>1. CASE Refused(p)
        BY <4>1 DEF Refused, Done, Goto, DeleterInv
      <4>2. CASE Duplicate(p) \/ Fail(p)
        BY <4>2 DEF Duplicate, Fail, Broken
      <4>3. CASE Finish(p)
        BY <4>3 DEF Finish
      <4> QED
        BY <2>6, <4>1, <4>2, <4>3
    <3>9. ASSUME NEW x \in promised'
          PROVE  x \in rows \cup UNION {Range(todo'[q]) : q \in deleter'}
      <4>1. x \in promised /\ (p \in deleter => todo[p] = <<>>)
        BY <3>8, <3>9
      <4>2. CASE x \in rows
        BY <4>2
      <4>3. ASSUME NEW q \in deleter, x \in Range(todo[q])
            PROVE  q \in deleter' /\ x \in Range(todo'[q])
        <5>1. q # p
          BY <4>1, <4>3, RangeTyped
        <5>2. q \in Procs /\ todo'[q] = todo[q]
          BY <3>1, <5>1 DEF TypeOK
        <5> QED
          BY <3>1, <4>3, <5>1, <5>2
      <4> QED
        BY <4>1, <4>2, <4>3 DEF LastDeleteWins
    <3>10. LastDeleteWins'
      BY <3>1, <3>9 DEF LastDeleteWins
    <3>11. OrderInv'
      BY <3>1 DEF OrderInv, Inserted, TypeOK
    <3> QED
      BY <3>5, <3>6, <3>7, <3>10, <3>11
  <2> QED
    BY <2>1, <2>2, <2>3, <2>4, <2>5, <2>6 DEF Next
<1> QED
  BY <1>1, <1>2, TypeCorrect, PTL DEF Spec

\* A set of tags that nothing overlapped stands (postGameSetTags).
THEOREM LoneSetsStand == Spec => []LoneSetStands
<1>1. TagsInv => LoneSetStands
  BY DEF TagsInv
<1> QED
  BY <1>1, TagsInvariant, PTL

\* The last request to delete loses none of its tags (setTags).
THEOREM LastDeleterWins == Spec => []LastDeleteWins
<1>1. TagsInv => LastDeleteWins
  BY DEF TagsInv
<1> QED
  BY <1>1, TagsInvariant, PTL

\* A sequence that holds an element twice holds fewer elements than its
\* length says (what tagsExist compares).
LEMMA RepeatedElement ==
    ASSUME NEW s \in Seq(TagIds), NEW i \in 1..Len(s), NEW j \in 1..Len(s),
           i # j, s[i] = s[j]
    PROVE  Cardinality(Range(s)) < Len(s)
<1>1. Len(s) \in Nat /\ DOMAIN s = 1..Len(s) /\ s \in [1..Len(s) -> Range(s)]
  BY DEF Range
<1>2. s \in Surjection(1..Len(s), Range(s))
  BY <1>1 DEF Surjection, Range
<1>3. IsFiniteSet(1..Len(s)) /\ Cardinality(1..Len(s)) = Len(s)
  <2>1. Len(s) \in Int /\ 1 \in Int /\ (1 > Len(s) => Len(s) = 0)
    BY <1>1
  <2>2. /\ IsFiniteSet(1..Len(s))
        /\ Cardinality(1..Len(s)) = IF 1 > Len(s) THEN 0 ELSE Len(s) - 1 + 1
    BY <2>1, FS_Interval
  <2> QED
    BY <1>1, <2>1, <2>2
<1>4. s \notin Injection(1..Len(s), Range(s))
  BY <1>1 DEF Injection, IsInjective
<1>5. /\ IsFiniteSet(Range(s)) /\ Cardinality(Range(s)) <= Len(s)
      /\ Cardinality(Range(s)) # Len(s)
  BY <1>2, <1>3, <1>4, FS_Surjection
<1>6. Cardinality(Range(s)) \in Nat
  BY <1>5, FS_CardinalityType
<1> QED
  BY <1>1, <1>5, <1>6

\* A set that is alone stops half way only if its body names a tag twice
\* (setTags).
THEOREM DuplicatesHaveCause == Spec => []DuplicateHasCause
<1>1. TypeOK /\ TagsInv => DuplicateHasCause
  <2> SUFFICES ASSUME TypeOK, TagsInv, NEW p \in Procs, p \in alone,
                      pc[p] = "insert", todo[p] # <<>>, Head(todo[p]) \in rows
               PROVE  Cardinality(Range(wanted[p])) < Len(wanted[p])
    BY DEF DuplicateHasCause
  <2> DEFINE w == wanted[p]  t == todo[p]  k == Inserted(p)
  <2>1. /\ w \in Seq(TagIds) /\ t \in Seq(TagIds) /\ t # <<>>
        /\ Head(t) \in rows
    BY DEF TypeOK
  <2>2. /\ k >= 0 /\ k = Len(w) - Len(t) /\ rows = {w[i] : i \in 1..k}
        /\ \A i \in 1..Len(t) : t[i] = w[k + i]
    BY DEF TagsInv, OrderInv, Inserted
  <2> HIDE DEF w, t, k
  <2>3. Len(w) \in Nat /\ Len(t) \in Nat \ {0} /\ Head(t) = t[1]
    BY <2>1
  <2>4. PICK i \in 1..k : Head(t) = w[i]
    BY <2>1, <2>2
  <2>5. k \in Nat /\ k + 1 \in 1..Len(w) /\ i \in 1..Len(w) /\ i # k + 1
    BY <2>2, <2>3, <2>4
  <2>6. w[i] = w[k + 1]
    BY <2>2, <2>3, <2>4, <2>5
  <2>7. Cardinality(Range(w)) < Len(w)
    BY <2>1, <2>5, <2>6, RepeatedElement
  <2> QED
    BY <2>7 DEF w
<1> QED
  BY <1>1, TypeCorrect, TagsInvariant, PTL

=============================================================================
