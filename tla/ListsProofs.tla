----------------------------- MODULE ListsProofs -----------------------------
(***************************************************************************)
(* Proofs about bookmarks, favorites, clears and follows, for any number   *)
(* of requests and whichever lists await their deletes or look first, and  *)
(* about walks through paged lists of any length.                          *)
(***************************************************************************)
EXTENDS GameLists, Pages, Integers, FiniteSetTheorems, WellFoundedInduction,
        TLAPS

\* Every reachable state is well typed (list.controller.ts).
THEOREM TypeCorrect == Spec => []TypeOK
<1>1. Init => TypeOK
  BY DEF Init, TypeOK, Ops, Values
<1>2. TypeOK /\ [Next]_vars => TypeOK'
  <2> SUFFICES ASSUME TypeOK, [Next]_vars PROVE TypeOK'
    OBVIOUS
  <2> USE DEF TypeOK, Ops, Writes, Values, Outcome
  <2>1. ASSUME NEW p \in Procs, NEW o \in Writes, StartWrite(p, o)
        PROVE  TypeOK'
    BY <2>1 DEF StartWrite, Send, Looks
  <2>2. ASSUME NEW p \in Procs, StartGet(p) PROVE TypeOK'
    BY <2>2 DEF StartGet, Send, Looks
  <2>3. ASSUME NEW p \in Procs, Execute(p) PROVE TypeOK'
    BY <2>3 DEF Execute
  <2>4. ASSUME NEW p \in Procs, Respond(p) PROVE TypeOK'
    BY <2>4 DEF Respond, Conclude
  <2>5. ASSUME NEW p \in Procs, RespondEarly(p) PROVE TypeOK'
    BY <2>5 DEF RespondEarly, Conclude
  <2>6. ASSUME NEW p \in Procs, Break(p) \/ Vanish(p) PROVE TypeOK'
    BY <2>6 DEF Break, Vanish
  <2>7. ASSUME NEW p \in Procs, Found(p) \/ NotFound(p) PROVE TypeOK'
    BY <2>7 DEF Found, NotFound
  <2>8. CASE UNCHANGED vars
    BY <2>8 DEF vars
  <2> QED
    BY <2>1, <2>2, <2>3, <2>4, <2>5, <2>6, <2>7, <2>8 DEF Next
<1> QED
  BY <1>1, <1>2, PTL DEF Spec

-----------------------------------------------------------------------------

\* Which statements are outstanding, and which writes are open, step by step.
LEMMA RequestStep ==
    TypeOK /\ RequestInv /\ [Next]_vars => RequestInv'
<1> SUFFICES ASSUME TypeOK, RequestInv, [Next]_vars PROVE RequestInv'
  OBVIOUS
<1> USE DEF TypeOK, RequestInv, Open, Writes, Ops
<1>1. ASSUME NEW p \in Procs, NEW o \in Writes, StartWrite(p, o)
      PROVE  RequestInv'
  BY <1>1 DEF StartWrite, Send, Looks
<1>2. ASSUME NEW p \in Procs, StartGet(p) PROVE RequestInv'
  BY <1>2 DEF StartGet, Send, Looks
<1>3. ASSUME NEW p \in Procs, Execute(p) PROVE RequestInv'
  BY <1>3 DEF Execute
<1>4. ASSUME NEW p \in Procs, Respond(p) PROVE RequestInv'
  BY <1>4 DEF Respond, Conclude
<1>5. ASSUME NEW p \in Procs, RespondEarly(p) PROVE RequestInv'
  BY <1>5 DEF RespondEarly, Conclude
<1>6. ASSUME NEW p \in Procs, Break(p) \/ Vanish(p) PROVE RequestInv'
  BY <1>6 DEF Break, Vanish
<1>7. ASSUME NEW p \in Procs, Found(p) \/ NotFound(p) PROVE RequestInv'
  BY <1>7 DEF Found, NotFound
<1>8. CASE UNCHANGED vars
  BY <1>8 DEF vars
<1> QED
  BY <1>1, <1>2, <1>3, <1>4, <1>5, <1>6, <1>7, <1>8 DEF Next

\* A get may find what is possible during it; a write what it will leave.
LEMMA WindowStep ==
    TypeOK /\ RequestInv /\ WindowInv /\ [Next]_vars => WindowInv'
<1> SUFFICES ASSUME TypeOK, RequestInv, WindowInv, [Next]_vars
             PROVE  WindowInv'
  OBVIOUS
<1> USE DEF TypeOK, WindowInv, Open, Writes, Ops
<1>1. ASSUME NEW p \in Procs, NEW o \in Writes, StartWrite(p, o)
      PROVE  WindowInv'
  BY <1>1 DEF StartWrite, Send, Looks
<1>2. ASSUME NEW p \in Procs, StartGet(p) PROVE WindowInv'
  BY <1>2 DEF StartGet, Send, Looks
<1>3. ASSUME NEW p \in Procs, Execute(p) PROVE WindowInv'
  BY <1>3 DEF Execute
<1>4. ASSUME NEW p \in Procs, Conclude(p), pc[p] # "idle",
             UNCHANGED <<op, during>>
      PROVE  WindowInv'
  <2>1. CASE op[p] \in Writes /\ p \in alone
    <3>1. \A q \in Procs : Open(q) => q = p
      BY <1>4, <2>1 DEF RequestInv
    <3> QED
      BY <1>4, <2>1, <3>1 DEF Conclude
  <2>2. CASE ~(op[p] \in Writes /\ p \in alone)
    BY <1>4, <2>2 DEF Conclude
  <2> QED
    BY <2>1, <2>2
<1>5. ASSUME NEW p \in Procs, Respond(p) \/ RespondEarly(p) PROVE WindowInv'
  BY <1>4, <1>5 DEF Respond, RespondEarly
<1>6. ASSUME NEW p \in Procs, Break(p) \/ Vanish(p) PROVE WindowInv'
  BY <1>6 DEF Break, Vanish
<1>7. ASSUME NEW p \in Procs, Found(p) \/ NotFound(p) PROVE WindowInv'
  BY <1>7 DEF Found, NotFound, RequestInv
<1>8. CASE UNCHANGED vars
  BY <1>8 DEF vars
<1> QED
  BY <1>1, <1>2, <1>3, <1>5, <1>6, <1>7, <1>8 DEF Next

\* The row stays among the values the answers leave possible until a delete
\* is answered early, and returns to them with the next write.
LEMMA SettledStep ==
    TypeOK /\ RequestInv /\ WindowInv /\ SettledInv /\ [Next]_vars
      => SettledInv'
<1> SUFFICES ASSUME TypeOK, RequestInv, WindowInv, SettledInv, [Next]_vars
             PROVE  SettledInv'
  OBVIOUS
<1> USE DEF TypeOK, SettledInv, Leftover, Open, Writes, Ops
<1>1. ASSUME NEW p \in Procs, NEW o \in Writes, StartWrite(p, o)
      PROVE  SettledInv'
  BY <1>1 DEF StartWrite, Send, Looks
<1>2. ASSUME NEW p \in Procs, StartGet(p) PROVE SettledInv'
  BY <1>2 DEF StartGet, Send, Looks
<1>3. ASSUME NEW p \in Procs, Execute(p) PROVE SettledInv'
  <2>1. CASE Open(p)
    <3>1. row' = Outcome(op[p]) /\ row' \in may'
      BY <1>3, <2>1 DEF Execute, WindowInv
    <3>2. ASSUME NEW q \in Procs, pc'[q] = "done", op'[q] \in Writes,
                 q \in alone'
          PROVE  q = p
      BY <1>3, <2>1, <3>2 DEF Execute, RequestInv
    <3>3. ASSUME NEW q \in Procs, Leftover(q)'
          PROVE  Leftover(q) /\ early' = early
      BY <1>3, <2>1, <3>3 DEF Execute
    <3> QED
      BY <1>3, <2>1, <3>1, <3>2, <3>3 DEF Execute
  <2>2. CASE ~Open(p)
    BY <1>3, <2>2 DEF Execute
  <2> QED
    BY <2>1, <2>2
<1>4. ASSUME NEW p \in Procs, Respond(p) PROVE SettledInv'
  BY <1>4 DEF Respond, Conclude, RequestInv
<1>5. ASSUME NEW p \in Procs, RespondEarly(p) PROVE SettledInv'
  BY <1>5 DEF RespondEarly
<1>6. ASSUME NEW p \in Procs, Break(p) PROVE SettledInv'
  BY <1>6 DEF Break
<1>7. ASSUME NEW p \in Procs, Vanish(p) PROVE SettledInv'
  BY <1>7 DEF Vanish
<1>8. ASSUME NEW p \in Procs, Found(p) \/ NotFound(p) PROVE SettledInv'
  BY <1>8 DEF Found, NotFound, RequestInv
<1>9. CASE UNCHANGED vars
  BY <1>9 DEF vars
<1> QED
  BY <1>1, <1>2, <1>3, <1>4, <1>5, <1>6, <1>7, <1>8, <1>9 DEF Next

\* Where deletes are awaited nothing is answered early, and a get answers
\* with a value that was possible during it.
LEMMA AwaitedStep ==
    TypeOK /\ ListInv /\ [Next]_vars
      => (list \in Awaited => ~early /\ GetsRespectAnswers)'
<1> SUFFICES ASSUME TypeOK, ListInv, [Next]_vars, list' \in Awaited
             PROVE  ~early' /\ GetsRespectAnswers'
  OBVIOUS
<1> USE DEF TypeOK, GetsRespectAnswers
<1>0. list' = list
  BY DEF Next, StartWrite, StartGet, Send, Execute, Respond, RespondEarly,
         Break, Vanish, Found, NotFound, vars
<1>a. ~early /\ GetsRespectAnswers
  BY <1>0 DEF ListInv
<1>1. ASSUME NEW p \in Procs, NEW o \in Writes, StartWrite(p, o)
      PROVE  ~early' /\ GetsRespectAnswers'
  BY <1>a, <1>1 DEF StartWrite, Send, Looks
<1>2. ASSUME NEW p \in Procs, StartGet(p)
      PROVE  ~early' /\ GetsRespectAnswers'
  BY <1>a, <1>2 DEF StartGet, Send, Looks
<1>3. ASSUME NEW p \in Procs, Execute(p)
      PROVE  ~early' /\ GetsRespectAnswers'
  <2>1. row \in may
    BY <1>a DEF ListInv, SettledInv
  <2>2. pc[p] = "sent" /\ op[p] = "get" => may \subseteq during[p]
    BY DEF ListInv, WindowInv
  <2> QED
    BY <1>a, <1>3, <2>1, <2>2 DEF Execute
<1>4. ASSUME NEW p \in Procs, Respond(p)
      PROVE  ~early' /\ GetsRespectAnswers'
  BY <1>a, <1>4 DEF Respond
<1>5. ASSUME NEW p \in Procs, RespondEarly(p)
      PROVE  ~early' /\ GetsRespectAnswers'
  BY <1>0, <1>5 DEF RespondEarly
<1>6. ASSUME NEW p \in Procs, Break(p) \/ Vanish(p)
      PROVE  ~early' /\ GetsRespectAnswers'
  BY <1>a, <1>6 DEF Break, Vanish
<1>7. ASSUME NEW p \in Procs, Found(p) \/ NotFound(p)
      PROVE  ~early' /\ GetsRespectAnswers'
  BY <1>a, <1>7 DEF Found, NotFound
<1>8. CASE UNCHANGED vars
  BY <1>a, <1>8 DEF vars
<1> QED
  BY <1>1, <1>2, <1>3, <1>4, <1>5, <1>6, <1>7, <1>8 DEF Next

-----------------------------------------------------------------------------

\* The inductive invariant of a list, whether its deletes are awaited or not
\* (list.controller.ts).
THEOREM ListInvariant == Spec => []ListInv
<1>1. Init => ListInv
  BY DEF Init, ListInv, SettledInv, WindowInv, RequestInv, Leftover, Open,
         GetsRespectAnswers
<1>2. TypeOK /\ ListInv /\ [Next]_vars => ListInv'
  <2> SUFFICES ASSUME TypeOK, ListInv, [Next]_vars PROVE ListInv'
    OBVIOUS
  <2>1. SettledInv /\ WindowInv /\ RequestInv
    BY DEF ListInv
  <2>2. RequestInv'
    BY <2>1, RequestStep
  <2>3. WindowInv'
    BY <2>1, WindowStep
  <2>4. SettledInv'
    BY <2>1, SettledStep
  <2>5. (list \in Awaited => ~early /\ GetsRespectAnswers)'
    BY AwaitedStep
  <2> QED
    BY <2>2, <2>3, <2>4, <2>5 DEF ListInv
<1> QED
  BY <1>1, <1>2, TypeCorrect, PTL DEF Spec

\* For bookmarks and follows, a get agrees with every answer given before it
\* (list.controller.ts, putBookmarkGame, getIsGameBookmarked,
\* deleteBookmarkedGame, and
\* user.controller.ts, putUserFollow, getUserFollow, deleteUserFollow).
THEOREM BookmarksRespectAnswers == Spec => []AwaitedGetsRespectAnswers
<1>1. ListInv => AwaitedGetsRespectAnswers
  BY DEF ListInv, AwaitedGetsRespectAnswers
<1> QED
  BY <1>1, ListInvariant, PTL

\* For every list, the row differs from what the answers say only because
\* of a delete that was answered early (deleteFavoritedGame,
\* deleteClearedGame).
THEOREM DriftHasCause == Spec => []DriftIsEarly
<1>1. ListInv => DriftIsEarly
  BY DEF ListInv, SettledInv, DriftIsEarly
<1> QED
  BY <1>1, ListInvariant, PTL

-----------------------------------------------------------------------------
(* Pages: lists with an order.                                             *)

\* Sets of n elements of L that may come first when L is sorted by k.
HeadsOf(k, L, n) ==
    {B \in SUBSET L :
        /\ Cardinality(B) = Least(n, Cardinality(L))
        /\ \A r \in L \ B, s \in B : k[s] <= k[r]}

\* S has at most one element that T has not.
NearlyIn(S, T) == \E y : S \subseteq T \cup {y}

\* What WalkInv says, of any list, order and walk.
Bounded(k, L, n, again, given, stayed, gone, arrived) ==
    \A B \in HeadsOf(k, L, n) :
        /\ again + Cardinality(given \cap (L \ B)) <= arrived
        /\ Cardinality((stayed \cap B) \ given) <= gone

\* A finite set that is not empty has a least element.
LEMMA LeastElement ==
  ASSUME NEW S, IsFiniteSet(S), S # {}, NEW k, \A x \in S : k[x] \in Int
  PROVE  \E x \in S : \A y \in S : k[x] <= k[y]
<1> DEFINE Endless ==
             {T \in SUBSET S : T # {} /\ \A x \in T : \E y \in T : k[y] < k[x]}
<1> SUFFICES ASSUME \A x \in S : \E y \in S : k[y] < k[x] PROVE FALSE
  OBVIOUS
<1>1. S \in Endless
  OBVIOUS
<1>2. IsWellFoundedOn(StrictSubsetOrdering(S), SUBSET S)
  BY FS_StrictSubsetOrderingWellFounded, FS_FiniteSubsetsOfFinite
<1>3. PICK T \in Endless :
        \A U \in Endless : <<U, T>> \notin StrictSubsetOrdering(S)
  <2> HIDE DEF Endless
  <2>1. Endless \subseteq SUBSET S
    BY DEF Endless
  <2> QED
    BY <1>1, <1>2, <2>1, WFMin
<1>4. PICK x \in T : TRUE
  BY <1>3
<1>5. T \ {x} \in Endless
  <2>1. T \ {x} # {}
    BY <1>3, <1>4
  <2>2. ASSUME NEW z \in T \ {x} PROVE \E y \in T \ {x} : k[y] < k[z]
    <3>1. PICK y \in T : k[y] < k[z]
      BY <1>3, <2>2
    <3>2. PICK w \in T : k[w] < k[x]
      BY <1>3, <1>4
    <3> QED
      BY <1>3, <3>1, <3>2
  <2> QED
    BY <1>3, <2>1, <2>2
<1>6. <<T \ {x}, T>> \in StrictSubsetOrdering(S)
  BY <1>3, <1>4 DEF StrictSubsetOrdering
<1> QED
  BY <1>3, <1>5, <1>6

\* One element more makes a set larger by at most one.
LEMMA OneMore ==
  ASSUME NEW S, IsFiniteSet(S), NEW T, NearlyIn(T, S)
  PROVE  /\ IsFiniteSet(T)
         /\ Cardinality(T) \in Nat /\ Cardinality(S) \in Nat
         /\ Cardinality(T) <= Cardinality(S) + 1
<1>0. PICK y : T \subseteq S \cup {y}
  BY DEF NearlyIn
<1>1. /\ IsFiniteSet(S \cup {y})
      /\ Cardinality(S \cup {y}) = IF y \in S THEN Cardinality(S)
                                              ELSE Cardinality(S) + 1
  BY FS_AddElement
<1>2. IsFiniteSet(T) /\ Cardinality(T) <= Cardinality(S \cup {y})
  BY <1>0, <1>1, FS_Subset
<1>3. Cardinality(T) \in Nat /\ Cardinality(S) \in Nat
  BY <1>2, FS_CardinalityType
<1> QED
  BY <1>1, <1>2, <1>3

\* The sizes of disjoint sets add up.
LEMMA DisjointSizes ==
  ASSUME NEW S, IsFiniteSet(S), NEW T, IsFiniteSet(T), S \cap T = {}
  PROVE  Cardinality(S \cup T) = Cardinality(S) + Cardinality(T)
<1>1. Cardinality(S \cap T) = 0
  BY FS_EmptySet
<1>2. Cardinality(S \cup T) =
        Cardinality(S) + Cardinality(T) - Cardinality(S \cap T)
  BY FS_Union
<1>3. Cardinality(S) \in Nat /\ Cardinality(T) \in Nat
  BY FS_CardinalityType
<1> QED
  BY <1>1, <1>2, <1>3

\* Without equal keys there is one way to sort.
LEMMA OneHead ==
  ASSUME NEW L, IsFiniteSet(L), NEW k, \A r \in L : k[r] \in Int,
         \A r, s \in L : r # s => k[r] # k[s],
         NEW n, NEW A \in HeadsOf(k, L, n), NEW B \in HeadsOf(k, L, n)
  PROVE  A = B
<1>1. /\ A \subseteq L /\ B \subseteq L
      /\ Cardinality(A) = Cardinality(B)
      /\ \A r \in L \ A, s \in A : k[s] <= k[r]
      /\ \A r \in L \ B, s \in B : k[s] <= k[r]
  BY DEF HeadsOf
<1>2. IsFiniteSet(A) /\ IsFiniteSet(B)
  BY <1>1, FS_Subset
<1>3. A \subseteq B \/ B \subseteq A
  <2> SUFFICES ASSUME NEW a \in A \ B, NEW b \in B \ A PROVE FALSE
    OBVIOUS
  <2>1. k[a] <= k[b] /\ k[b] <= k[a]
    BY <1>1
  <2> QED
    BY <1>1, <2>1
<1> QED
  BY <1>1, <1>2, <1>3, FS_Subset

\* A row comes: whoever is now first was before, but that one may have been
\* pushed back.
LEMMA HeadsBeforeArrival ==
  ASSUME NEW L, IsFiniteSet(L), NEW x, x \notin L,
         NEW k, \A r \in L \cup {x} : k[r] \in Int,
         NEW n \in Nat, NEW A \in HeadsOf(k, L \cup {x}, n)
  PROVE  \E B \in HeadsOf(k, L, n) :
            /\ A \ {x} \subseteq B
            /\ NearlyIn((L \cup {x}) \ A, L \ B)
<1> DEFINE M == L \cup {x}
<1>1. /\ A \subseteq M
      /\ Cardinality(A) = Least(n, Cardinality(M))
      /\ \A r \in M \ A, s \in A : k[s] <= k[r]
  BY DEF HeadsOf
<1>2. Cardinality(M) = Cardinality(L) + 1 /\ Cardinality(L) \in Nat
  BY FS_AddElement, FS_CardinalityType
<1>3. IsFiniteSet(M) /\ IsFiniteSet(A) /\ Cardinality(A) \in Nat
  BY <1>1, FS_AddElement, FS_Subset, FS_CardinalityType
<1>4. CASE x \notin A
  <2>1. A \subseteq L /\ Cardinality(A) <= Cardinality(L)
    BY <1>1, <1>4, FS_Subset
  <2>2. Cardinality(A) = Least(n, Cardinality(L))
    BY <1>1, <1>2, <2>1 DEF Least
  <2>3. A \in HeadsOf(k, L, n)
    BY <1>1, <2>1, <2>2 DEF HeadsOf
  <2> QED
    BY <2>3 DEF NearlyIn
<1>5. CASE x \in A /\ M \ A = {}
  <2>1. Cardinality(L) = Least(n, Cardinality(L))
    <3>1. A = M
      BY <1>1, <1>5
    <3> QED
      BY <1>1, <1>2, <3>1 DEF Least
  <2>2. L \in HeadsOf(k, L, n)
    BY <2>1 DEF HeadsOf
  <2> QED
    BY <1>1, <1>5, <2>2 DEF NearlyIn
<1>6. CASE x \in A /\ M \ A # {}
  <2>1. PICK y \in M \ A : \A r \in M \ A : k[y] <= k[r]
    <3>1. IsFiniteSet(M \ A)
      BY <1>3, FS_Difference
    <3>2. \A r \in M \ A : k[r] \in Int
      OBVIOUS
    <3> HIDE DEF M
    <3> QED
      BY <1>6, <3>1, <3>2, LeastElement
  <2> DEFINE B == (A \ {x}) \cup {y}
  <2>2. Cardinality(B) = Cardinality(A)
    <3>1. IsFiniteSet(A \ {x}) /\ Cardinality(A \ {x}) = Cardinality(A) - 1
      BY <1>3, <1>6, FS_RemoveElement
    <3>2. Cardinality(B) = Cardinality(A \ {x}) + 1
      BY <2>1, <3>1, FS_AddElement
    <3> QED
      BY <1>3, <3>1, <3>2
  <2>3. Cardinality(A) = Least(n, Cardinality(L))
    <3>1. Cardinality(A) # Cardinality(M)
      BY <1>1, <1>3, <1>6, FS_Subset
    <3> QED
      BY <1>1, <1>2, <1>3, <3>1 DEF Least
  <2>4. B \subseteq L
    BY <1>1, <1>6, <2>1
  <2>5. ASSUME NEW r \in L \ B, NEW s \in B PROVE k[s] <= k[r]
    BY <1>1, <1>6, <2>1, <2>5
  <2>6. B \in HeadsOf(k, L, n)
    BY <2>2, <2>3, <2>4, <2>5 DEF HeadsOf
  <2>7. A \ {x} \subseteq B /\ NearlyIn(M \ A, L \ B)
    BY <1>1, <1>6, <2>1 DEF NearlyIn
  <2> HIDE DEF B
  <2> QED
    BY <2>6, <2>7
<1> QED
  BY <1>4, <1>5, <1>6

\* A row leaves: whoever is now first was before, but one may have moved up.
LEMMA HeadsBeforeDeparture ==
  ASSUME NEW L, IsFiniteSet(L), NEW x \in L,
         NEW k, \A r \in L : k[r] \in Int,
         NEW n \in Nat, NEW A \in HeadsOf(k, L \ {x}, n)
  PROVE  \E B \in HeadsOf(k, L, n) :
            /\ (L \ {x}) \ A \subseteq L \ B
            /\ NearlyIn(A, B)
<1> DEFINE M == L \ {x}
<1>1. /\ A \subseteq M
      /\ Cardinality(A) = Least(n, Cardinality(M))
      /\ \A r \in M \ A, s \in A : k[s] <= k[r]
  BY DEF HeadsOf
<1>2. Cardinality(L) = Cardinality(M) + 1 /\ Cardinality(M) \in Nat
  <2>1. IsFiniteSet(M) /\ Cardinality(M) = Cardinality(L) - 1
    BY FS_RemoveElement
  <2>2. Cardinality(M) \in Nat /\ Cardinality(L) \in Nat
    BY <2>1, FS_CardinalityType
  <2> QED
    BY <2>1, <2>2
<1>3. IsFiniteSet(M) /\ IsFiniteSet(A) /\ Cardinality(A) \in Nat
  BY <1>1, FS_RemoveElement, FS_Subset, FS_CardinalityType
<1>4. CASE n > Cardinality(M)
  <2>1. A = M
    BY <1>1, <1>2, <1>3, <1>4, FS_Subset DEF Least
  <2>2. Cardinality(L) = Least(n, Cardinality(L))
    BY <1>2, <1>4 DEF Least
  <2>3. L \in HeadsOf(k, L, n)
    BY <2>2 DEF HeadsOf
  <2> QED
    BY <2>1, <2>3 DEF NearlyIn
<1>5. CASE n <= Cardinality(M) /\ \A s \in A : k[s] <= k[x]
  <2>1. Cardinality(A) = Least(n, Cardinality(L))
    BY <1>1, <1>2, <1>5 DEF Least
  <2>2. A \in HeadsOf(k, L, n)
    BY <1>1, <1>5, <2>1 DEF HeadsOf
  <2> QED
    BY <2>2 DEF NearlyIn
<1>6. CASE n <= Cardinality(M) /\ \E s \in A : ~(k[s] <= k[x])
  \* The greatest of A makes way for x.
  <2>1. PICK y \in A : \A s \in A : k[s] <= k[y]
    <3> DEFINE h == [s \in A |-> 0 - k[s]]
    <3>1. \A s \in A : h[s] \in Int
      BY <1>1
    <3>2. \E y \in A : \A s \in A : h[y] <= h[s]
      <4> HIDE DEF h
      <4> QED
        BY <1>3, <1>6, <3>1, LeastElement
    <3> QED
      BY <1>1, <3>2
  <2> DEFINE B == (A \ {y}) \cup {x}
  <2>2. Cardinality(B) = Cardinality(A)
    <3>1. IsFiniteSet(A \ {y}) /\ Cardinality(A \ {y}) = Cardinality(A) - 1
      BY <1>3, <2>1, FS_RemoveElement
    <3>2. Cardinality(B) = Cardinality(A \ {y}) + 1
      BY <1>1, <3>1, FS_AddElement
    <3> QED
      BY <1>3, <3>1, <3>2
  <2>3. Cardinality(A) = Least(n, Cardinality(L))
    BY <1>1, <1>2, <1>6 DEF Least
  <2>4. k[x] <= k[y]
    BY <1>1, <1>6, <2>1
  <2>5. ASSUME NEW r \in L \ B, NEW s \in B PROVE k[s] <= k[r]
    BY <1>1, <2>1, <2>4, <2>5
  <2>6. B \in HeadsOf(k, L, n)
    BY <1>1, <2>2, <2>3, <2>5 DEF HeadsOf
  <2>7. M \ A \subseteq L \ B /\ NearlyIn(A, B)
    BY <1>1 DEF NearlyIn
  <2> HIDE DEF B
  <2> QED
    BY <2>6, <2>7
<1>7. n > Cardinality(M) \/ n <= Cardinality(M)
  BY <1>2
<1> QED
  BY <1>4, <1>5, <1>6, <1>7

\* Steps of a list that keep the bounds.  The order matters on the list only.
LEMMA SameList ==
  ASSUME NEW L, IsFiniteSet(L), NEW h, NEW k, \A r \in L : h[r] = k[r],
         NEW n, NEW again \in Nat, NEW given, NEW stayed,
         NEW gone \in Nat, NEW arrived \in Nat,
         Bounded(h, L, n, again, given, stayed, gone, arrived)
  PROVE  Bounded(k, L, n, again, given, stayed, gone, arrived)
BY DEF Bounded, HeadsOf

\* A row that comes costs one repetition.
LEMMA RowArrives ==
  ASSUME NEW L, IsFiniteSet(L), NEW x, x \notin L,
         NEW k, \A r \in L \cup {x} : k[r] \in Int,
         NEW n \in Nat, NEW again \in Nat, NEW given, NEW stayed,
         stayed \subseteq L, NEW gone \in Nat, NEW arrived \in Nat,
         Bounded(k, L, n, again, given, stayed, gone, arrived)
  PROVE  Bounded(k, L \cup {x}, n, again, given, stayed, gone, arrived + 1)
<1> SUFFICES ASSUME NEW A \in HeadsOf(k, L \cup {x}, n)
             PROVE  /\ again + Cardinality(given \cap ((L \cup {x}) \ A))
                         <= arrived + 1
                    /\ Cardinality((stayed \cap A) \ given) <= gone
  BY DEF Bounded
<1>1. PICK B \in HeadsOf(k, L, n) :
        /\ A \ {x} \subseteq B
        /\ NearlyIn((L \cup {x}) \ A, L \ B)
  BY HeadsBeforeArrival
<1>2. /\ again + Cardinality(given \cap (L \ B)) <= arrived
      /\ Cardinality((stayed \cap B) \ given) <= gone
  BY DEF Bounded
<1>3. NearlyIn(given \cap ((L \cup {x}) \ A), given \cap (L \ B))
  BY <1>1 DEF NearlyIn
<1>4. IsFiniteSet(given \cap (L \ B)) /\ IsFiniteSet((stayed \cap B) \ given)
  BY FS_Subset
<1>5. /\ Cardinality(given \cap (L \ B)) \in Nat
      /\ Cardinality(given \cap ((L \cup {x}) \ A)) \in Nat
      /\ Cardinality(given \cap ((L \cup {x}) \ A))
           <= Cardinality(given \cap (L \ B)) + 1
  BY <1>3, <1>4, OneMore
<1>6. Cardinality((stayed \cap A) \ given)
        <= Cardinality((stayed \cap B) \ given)
  <2>1. (stayed \cap A) \ given \subseteq (stayed \cap B) \ given
    BY <1>1
  <2> QED
    BY <1>4, <2>1, FS_Subset
<1>7. /\ Cardinality((stayed \cap A) \ given) \in Nat
      /\ Cardinality((stayed \cap B) \ given) \in Nat
  <2>1. (stayed \cap A) \ given \in SUBSET L
    OBVIOUS
  <2> QED
    BY <1>4, <2>1, FS_Subset, FS_CardinalityType
<1> QED
  BY <1>2, <1>5, <1>6, <1>7

\* A row that leaves costs one that is missed.
LEMMA RowLeaves ==
  ASSUME NEW L, IsFiniteSet(L), NEW x \in L,
         NEW k, \A r \in L : k[r] \in Int,
         NEW n \in Nat, NEW again \in Nat, NEW given, NEW stayed,
         stayed \subseteq L, NEW gone \in Nat, NEW arrived \in Nat,
         Bounded(k, L, n, again, given, stayed, gone, arrived)
  PROVE  Bounded(k, L \ {x}, n, again, given, stayed \ {x}, gone + 1, arrived)
<1> DEFINE T == stayed \ {x}
<1> SUFFICES ASSUME NEW A \in HeadsOf(k, L \ {x}, n)
             PROVE  /\ again + Cardinality(given \cap ((L \ {x}) \ A))
                         <= arrived
                    /\ Cardinality((T \cap A) \ given) <= gone + 1
  BY DEF Bounded
<1>1. PICK B \in HeadsOf(k, L, n) :
        /\ (L \ {x}) \ A \subseteq L \ B
        /\ NearlyIn(A, B)
  BY HeadsBeforeDeparture
<1>2. /\ again + Cardinality(given \cap (L \ B)) <= arrived
      /\ Cardinality((stayed \cap B) \ given) <= gone
  BY DEF Bounded
<1>3. NearlyIn((T \cap A) \ given, (stayed \cap B) \ given)
  BY <1>1 DEF NearlyIn
<1>4. IsFiniteSet(given \cap (L \ B)) /\ IsFiniteSet((stayed \cap B) \ given)
  BY FS_Subset
<1>5. /\ Cardinality((stayed \cap B) \ given) \in Nat
      /\ Cardinality((T \cap A) \ given) \in Nat
      /\ Cardinality((T \cap A) \ given)
           <= Cardinality((stayed \cap B) \ given) + 1
  <2> HIDE DEF T
  <2> QED
    BY <1>3, <1>4, OneMore
<1>6. /\ Cardinality(given \cap ((L \ {x}) \ A))
           <= Cardinality(given \cap (L \ B))
      /\ Cardinality(given \cap ((L \ {x}) \ A)) \in Nat
      /\ Cardinality(given \cap (L \ B)) \in Nat
  <2>1. given \cap ((L \ {x}) \ A) \subseteq given \cap (L \ B)
    BY <1>1
  <2> QED
    BY <1>4, <2>1, FS_Subset, FS_CardinalityType
<1> QED
  BY <1>2, <1>5, <1>6

\* A page is given: what of it was given before has been pushed back, and is
\* repeated; what it gives is missed no more.
LEMMA PageGiven ==
  ASSUME NEW L, IsFiniteSet(L), NEW k, \A r \in L : k[r] \in Int,
         \A r, s \in L : r # s => k[r] # k[s],
         NEW n \in Nat, NEW m \in Nat, NEW again \in Nat, NEW given,
         NEW stayed, NEW gone \in Nat, NEW arrived \in Nat,
         Bounded(k, L, n, again, given, stayed, gone, arrived),
         NEW B \in HeadsOf(k, L, n), NEW P \in SUBSET L, B \cap P = {},
         Cardinality(P) = Least(m, Cardinality(L \ B)),
         \A r \in L \ (B \cup P), s \in B \cup P : k[s] <= k[r]
  PROVE  /\ again + Cardinality(P \cap given) \in Nat
         /\ again + Cardinality(P \cap given) <= arrived
         /\ Bounded(k, L, n + m, again + Cardinality(P \cap given),
                    given \cup P, stayed, gone, arrived)
<1> DEFINE D == B \cup P
           Behind == given \cap (L \ D)
<1>1. B \subseteq L /\ Cardinality(B) = Least(n, Cardinality(L))
  BY DEF HeadsOf
<1>2. /\ IsFiniteSet(B) /\ IsFiniteSet(P) /\ IsFiniteSet(P \cap given)
      /\ IsFiniteSet(Behind) /\ IsFiniteSet((stayed \cap B) \ given)
      /\ IsFiniteSet(given \cap (L \ B))
  <2>1. /\ B \in SUBSET L /\ P \in SUBSET L /\ P \cap given \in SUBSET L
        /\ Behind \in SUBSET L /\ (stayed \cap B) \ given \in SUBSET L
        /\ given \cap (L \ B) \in SUBSET L
    BY <1>1
  <2> HIDE DEF Behind
  <2> QED
    BY <2>1, FS_Subset
<1>3. /\ Cardinality(L) \in Nat /\ Cardinality(P \cap given) \in Nat
      /\ Cardinality(Behind) \in Nat
      /\ Cardinality((stayed \cap B) \ given) \in Nat
  BY <1>2, FS_CardinalityType
<1>4. D \in HeadsOf(k, L, n + m)
  <2>1. Cardinality(D) = Cardinality(B) + Cardinality(P)
    BY <1>2, DisjointSizes
  <2>2. Cardinality(L \ B) = Cardinality(L) - Cardinality(B)
    <3>1. L \cap B = B
      BY <1>1
    <3> QED
      BY <3>1, FS_Difference
  <2>3. Cardinality(D) = Least(n + m, Cardinality(L))
    BY <1>1, <1>3, <2>1, <2>2 DEF Least
  <2> QED
    BY <1>1, <2>3 DEF HeadsOf
<1>5. Cardinality(given \cap (L \ B)) =
        Cardinality(Behind) + Cardinality(P \cap given)
  <2>1. given \cap (L \ B) = Behind \cup (P \cap given)
    BY <1>1
  <2>2. Behind \cap (P \cap given) = {}
    OBVIOUS
  <2>3. IsFiniteSet(Behind) /\ IsFiniteSet(P \cap given)
    BY <1>2
  <2> HIDE DEF Behind
  <2> QED
    BY <2>1, <2>2, <2>3, DisjointSizes
<1>6. /\ again + Cardinality(given \cap (L \ B)) <= arrived
      /\ Cardinality((stayed \cap B) \ given) <= gone
  BY DEF Bounded
<1>7. Cardinality((stayed \cap D) \ (given \cup P)) <= gone
  <2>1. (stayed \cap D) \ (given \cup P) \in SUBSET ((stayed \cap B) \ given)
    OBVIOUS
  <2>2. /\ Cardinality((stayed \cap D) \ (given \cup P)) \in Nat
        /\ Cardinality((stayed \cap D) \ (given \cup P))
             <= Cardinality((stayed \cap B) \ given)
    BY <1>2, <2>1, FS_Subset, FS_CardinalityType
  <2> QED
    BY <1>3, <1>6, <2>2
<1>8. (given \cup P) \cap (L \ D) = Behind
  OBVIOUS
<1>9. Bounded(k, L, n + m, again + Cardinality(P \cap given),
              given \cup P, stayed, gone, arrived)
  <2> SUFFICES ASSUME NEW A \in HeadsOf(k, L, n + m)
               PROVE  /\ (again + Cardinality(P \cap given))
                           + Cardinality((given \cup P) \cap (L \ A))
                             <= arrived
                      /\ Cardinality((stayed \cap A) \ (given \cup P)) <= gone
    BY DEF Bounded
  <2>1. A = D
    <3> HIDE DEF D
    <3> QED
      BY <1>4, OneHead
  <2>2. (given \cup P) \cap (L \ A) = Behind
    BY <1>8, <2>1
  <2>3. Cardinality((stayed \cap A) \ (given \cup P)) <= gone
    BY <1>7, <2>1
  <2>4. (again + Cardinality(P \cap given)) + Cardinality(Behind) <= arrived
    <3> HIDE DEF D, Behind
    <3> QED
      BY <1>3, <1>5, <1>6
  <2> HIDE DEF D, Behind
  <2> QED
    BY <2>2, <2>3, <2>4
<1> HIDE DEF D, Behind
<1> QED
  BY <1>3, <1>5, <1>6, <1>9

-----------------------------------------------------------------------------
(* Pages: the walk.                                                        *)

\* The order the pages come in: by falling keys for DESC.
Order(desc, k) == [r \in DOMAIN k |-> IF desc THEN 0 - k[r] ELSE k[r]]

\* The list is made of rows of the table.
LEMMA ListedRows ==
    PagesTypeOK =>
      /\ Listed \subseteq Rows
      /\ table = "games" => Listed = Rows \ removed
      /\ table = "users" => Listed = Rows \ banned
      /\ table = "reviews" => Listed = Rows \ (removed \cup banned)
      /\ table \in {"games", "users", "reviews"}
BY DEF PagesTypeOK, Listed, GamesListed, UsersListed, ReviewsListed, Columns

\* A clamped limit is a positive number, and an offset is one.
LEMMA OffsetType == PagesTypeOK => Clamp(asked) \in Nat \ {0} /\ Offset \in Nat
<1> SUFFICES ASSUME PagesTypeOK
             PROVE  Clamp(asked) \in Nat \ {0} /\ Offset \in Nat
  OBVIOUS
<1>1. Clamp(asked) \in Nat \ {0}
  BY LimitAssumption, BoundAssumption DEF PagesTypeOK, Clamp, Least
<1>2. page \in Nat
  BY DEF PagesTypeOK
<1> QED
  BY <1>1, <1>2 DEF Offset

\* WalkInv in terms of the lemmas above.
LEMMA WalkBounded ==
    PagesTypeOK =>
      (WalkInv <=> Bounded(Order(down, key), Listed, Offset, repeats,
                           seen, steady, left, came))
<1> SUFFICES ASSUME PagesTypeOK
             PROVE  WalkInv <=> Bounded(Order(down, key), Listed, Offset,
                                        repeats, seen, steady, left, came)
  OBVIOUS
<1>1. Listed \subseteq Rows
  BY ListedRows
<1>2. \A r, s \in Rows :
        ~Before(r, s) <=> Order(down, key)[s] <= Order(down, key)[r]
  <2>1. key \in [Rows -> Nat]
    BY DEF PagesTypeOK, Rows
  <2>2. down \in BOOLEAN
    BY DEF PagesTypeOK
  <2>3. CASE down
    BY <2>1, <2>3 DEF Before, Order
  <2>4. CASE ~down
    BY <2>1, <2>4 DEF Before, Order
  <2> QED
    BY <2>2, <2>3, <2>4
<1>3. Heads = HeadsOf(Order(down, key), Listed, Offset)
  <2>1. ASSUME NEW B \in SUBSET Listed
        PROVE  (\A r \in Listed \ B, s \in B : ~Before(r, s))
                 <=> \A r \in Listed \ B, s \in B :
                        Order(down, key)[s] <= Order(down, key)[r]
    BY <1>1, <1>2
  <2> QED
    BY <2>1 DEF Heads, HeadsOf
<1> QED
  BY <1>3 DEF WalkInv, Bounded

-----------------------------------------------------------------------------
(* Pages: types.                                                           *)

\* The table keeps its rows, and gets one more with Create.
LEMMA RowsType ==
  ASSUME PagesTypeOK, IsFiniteSet(Rows)
  PROVE  /\ Cardinality(Rows) \in Nat
         /\ Rows = 1..Cardinality(Rows)
         /\ key \in [1..Cardinality(Rows) -> Nat]
<1>1. Cardinality(Rows) \in Nat
  BY FS_CardinalityType
<1> QED
  BY <1>1 DEF PagesTypeOK, Rows

\* A column gives natural numbers as the keys of new rows.
LEMMA NewKeysType ==
  ASSUME PagesTypeOK, IsFiniteSet(Rows) PROVE NewKeys \subseteq Nat
<1>1. column \in {"id", "name", "date_created", "sortname"}
  BY DEF PagesTypeOK, Columns, GamesColumns, UsersColumns, ReviewsColumns
<1>2. Cardinality(Rows) + 1 \in Nat
  BY RowsType
<1>3. 1..MaxKey \subseteq Nat
  BY BoundAssumption
<1> QED
  BY <1>1, <1>2, <1>3 DEF NewKeys

\* What Create does to the rows.
LEMMA CreateRows ==
  ASSUME PagesTypeOK, IsFiniteSet(Rows), Create
  PROVE  /\ Cardinality(Rows) + 1 \notin Rows
         /\ Rows' = Rows \cup {Cardinality(Rows) + 1}
         /\ Cardinality(Rows') = Cardinality(Rows) + 1
         /\ IsFiniteSet(Rows')
         /\ key' \in [1..Cardinality(Rows') -> Nat]
         /\ \A r \in Rows : key'[r] = key[r]
<1> DEFINE c == Cardinality(Rows)
<1>1. c \in Nat /\ Rows = 1..c /\ key \in [1..c -> Nat]
  BY RowsType
<1>2. PICK v \in NewKeys :
        key' = [r \in 1..(c + 1) |-> IF r \in Rows THEN key[r] ELSE v]
  BY DEF Create
<1>3. v \in Nat
  BY NewKeysType
<1> HIDE DEF c
<1>4. key' \in [1..(c + 1) -> Nat] /\ \A r \in 1..c : key'[r] = key[r]
  BY <1>1, <1>2, <1>3
<1>5. Rows' = 1..(c + 1)
  BY <1>4 DEF Rows
<1>6. IsFiniteSet(Rows') /\ Cardinality(Rows') = c + 1
  <2>1. IsFiniteSet(1..(c + 1)) /\ Cardinality(1..(c + 1)) = c + 1
    BY <1>1, FS_Interval
  <2> QED
    BY <1>5, <2>1
<1>7. c + 1 \notin Rows /\ Rows' = Rows \cup {c + 1}
  BY <1>1, <1>5
<1> QED
  BY <1>1, <1>4, <1>6, <1>7 DEF c

\* The list is finite.
LEMMA ListedFinite ==
  ASSUME PagesTypeOK, IsFiniteSet(Rows)
  PROVE  /\ IsFiniteSet(Listed)
         /\ \A S : Cardinality(Listed \ S) \in Nat
<1>1. IsFiniteSet(Listed)
  BY ListedRows, FS_Subset
<1>2. ASSUME NEW S PROVE Cardinality(Listed \ S) \in Nat
  <2>1. Listed \ S \in SUBSET Listed
    OBVIOUS
  <2> QED
    BY <1>1, <2>1, FS_Subset, FS_CardinalityType
<1> QED
  BY <1>1, <1>2

\* Counting who comes and goes.
LEMMA TrackTypes ==
  ASSUME PagesTypeOK, IsFiniteSet(Rows), IsFiniteSet(Listed'), Track,
         Listed' \subseteq Rows'
  PROVE  /\ left' \in Nat
         /\ came' \in Nat
         /\ steady' = steady \/ steady' \subseteq Rows'
<1>1. Cardinality(Listed \ Listed') \in Nat
  BY ListedFinite
<1>2. Cardinality(Listed' \ Listed) \in Nat
  <2>1. Listed' \ Listed \in SUBSET Listed'
    OBVIOUS
  <2> QED
    BY <2>1, FS_Subset, FS_CardinalityType
<1>3. left \in Nat /\ came \in Nat
  BY DEF PagesTypeOK
<1> QED
  BY <1>1, <1>2, <1>3 DEF Track, changeVars

\* Every step keeps the types, and the table finite.
LEMMA PagesTypeStep ==
    PagesTypeOK /\ IsFiniteSet(Rows) /\ [PagesNext]_pagesVars
      => PagesTypeOK' /\ IsFiniteSet(Rows')
<1> SUFFICES ASSUME PagesTypeOK, IsFiniteSet(Rows), [PagesNext]_pagesVars
             PROVE  PagesTypeOK' /\ IsFiniteSet(Rows')
  OBVIOUS
<1>l. Listed \subseteq Rows
  BY ListedRows
<1>t. /\ table \in DOMAIN Columns /\ column \in Columns[table]
      /\ key \in [1..Cardinality(Rows) -> Nat]
      /\ removed \subseteq Rows /\ banned \subseteq Rows
      /\ walk \in {"idle", "paging"} /\ down \in BOOLEAN /\ tied \in BOOLEAN
      /\ asked \in 0..MaxAsked /\ page \in Nat /\ repeats \in Nat
      /\ seen \subseteq Rows /\ steady \subseteq Rows
      /\ left \in Nat /\ came \in Nat
  BY DEF PagesTypeOK
<1>1. ASSUME NEW limit \in 0..MaxAsked, NEW desc \in BOOLEAN,
             Start(limit, desc)
      PROVE  PagesTypeOK' /\ IsFiniteSet(Rows')
  BY <1>l, <1>t, <1>1 DEF Start, tableVars, PagesTypeOK, Rows
<1>2. ASSUME TakePage PROVE PagesTypeOK' /\ IsFiniteSet(Rows')
  <2>1. PICK B \in SUBSET Listed, P \in SUBSET Listed :
          /\ seen' = seen \cup P
          /\ repeats' = repeats + Cardinality(P \cap seen)
    BY <1>2 DEF TakePage
  <2>2. Cardinality(P \cap seen) \in Nat
    <3>1. P \cap seen \in SUBSET Listed
      OBVIOUS
    <3> QED
      BY <3>1, ListedFinite, FS_Subset, FS_CardinalityType
  <2>3. tied' \in BOOLEAN
    <3>1. tied' = (tied \/ Ties)
      BY <1>2 DEF TakePage
    <3> QED
      BY <3>1, Zenon
  <2> QED
    BY <1>2, <1>l, <1>t, <2>1, <2>2, <2>3
       DEF TakePage, tableVars, changeVars, PagesTypeOK, Rows
<1>3. ASSUME EmptyPage PROVE PagesTypeOK' /\ IsFiniteSet(Rows')
  <2>1. 0 \in 0..MaxAsked
    BY BoundAssumption
  <2>2. down' \in BOOLEAN /\ tied' \in BOOLEAN
    BY <1>3, Zenon DEF EmptyPage, Reset
  <2>3. /\ walk' \in {"idle", "paging"} /\ asked' \in 0..MaxAsked
        /\ page' \in Nat /\ repeats' \in Nat /\ left' \in Nat /\ came' \in Nat
        /\ seen' = {} /\ steady' = {} /\ UNCHANGED tableVars
    BY <1>3, <2>1 DEF EmptyPage, Reset
  <2> QED
    BY <1>t, <2>2, <2>3 DEF tableVars, PagesTypeOK, Rows
<1>4. ASSUME Create PROVE PagesTypeOK' /\ IsFiniteSet(Rows')
  <2>1. /\ IsFiniteSet(Rows') /\ key' \in [1..Cardinality(Rows') -> Nat]
        /\ Rows \subseteq Rows'
    BY <1>4, CreateRows
  <2>2. UNCHANGED <<table, column, removed, banned, askVars>> /\ Track
    BY <1>4 DEF Create
  <2>3. Listed' \subseteq Rows'
    BY <1>t, <2>1, <2>2
       DEF Listed, GamesListed, UsersListed, ReviewsListed, Columns
  <2>4. /\ left' \in Nat /\ came' \in Nat
        /\ steady' = steady \/ steady' \subseteq Rows'
    BY <2>1, <2>2, <2>3, TrackTypes, FS_Subset
  <2> QED
    BY <1>t, <2>1, <2>2, <2>4 DEF PagesTypeOK, askVars
<1>5. ASSUME NEW r \in Rows, SetRemoved(r) \/ SetBanned(r)
      PROVE  PagesTypeOK' /\ IsFiniteSet(Rows')
  <2>1. UNCHANGED <<table, column, key, askVars>> /\ Track
    BY <1>5 DEF SetRemoved, SetBanned
  <2>2. Rows' = Rows /\ removed' \subseteq Rows' /\ banned' \subseteq Rows'
    BY <1>5, <1>t DEF SetRemoved, SetBanned, Rows
  <2>3. Listed' \subseteq Rows'
    BY <1>t, <2>1, <2>2
       DEF Listed, GamesListed, UsersListed, ReviewsListed, Columns
  <2>4. /\ left' \in Nat /\ came' \in Nat
        /\ steady' = steady \/ steady' \subseteq Rows'
    BY <2>1, <2>2, <2>3, TrackTypes, FS_Subset
  <2> QED
    BY <1>t, <2>1, <2>2, <2>4 DEF PagesTypeOK, askVars
<1>6. ASSUME NEW r \in Rows, Redate(r) PROVE PagesTypeOK' /\ IsFiniteSet(Rows')
  <2>1. PICK v \in 1..MaxKey : key' = [key EXCEPT ![r] = v]
    BY <1>6 DEF Redate
  <2>2. v \in Nat
    BY BoundAssumption
  <2>3. Rows' = Rows /\ key' \in [1..Cardinality(Rows) -> Nat]
    BY <1>t, <2>1, <2>2 DEF Rows
  <2>4. left' \in Nat /\ came' \in Nat /\ steady' \subseteq Rows
    BY <1>6, <1>t DEF Redate, changeVars
  <2> QED
    BY <1>6, <1>t, <2>3, <2>4 DEF Redate, askVars, PagesTypeOK
<1>7. CASE UNCHANGED pagesVars
  BY <1>7, <1>t
     DEF pagesVars, tableVars, askVars, changeVars, PagesTypeOK, Rows
<1> QED
  BY <1>1, <1>2, <1>3, <1>4, <1>5, <1>6, <1>7
     DEF PagesNext, StartGames, StartUsers, StartReviews

\* An empty table is well typed.
LEMMA PagesTypeInit == PagesInit => PagesTypeOK /\ IsFiniteSet(Rows)
<1> SUFFICES ASSUME PagesInit PROVE PagesTypeOK /\ IsFiniteSet(Rows)
  OBVIOUS
<1>1. Rows = {}
  BY DEF PagesInit, Rows
<1>2. IsFiniteSet(Rows) /\ Cardinality(Rows) = 0
  BY <1>1, FS_EmptySet
<1>3. key \in [1..Cardinality(Rows) -> Nat]
  <2>1. key \in [{} -> Nat]
    BY DEF PagesInit
  <2>2. 1..0 = {}
    OBVIOUS
  <2> QED
    BY <1>2, <2>1, <2>2
<1> QED
  <2>1. 0 \in 0..MaxAsked
    BY BoundAssumption
  <2>2. down \in BOOLEAN /\ tied \in BOOLEAN
    BY Zenon DEF PagesInit
  <2>3. /\ table \in DOMAIN Columns /\ column \in Columns[table]
        /\ walk \in {"idle", "paging"} /\ asked \in 0..MaxAsked
        /\ page \in Nat /\ repeats \in Nat /\ left \in Nat /\ came \in Nat
        /\ removed = {} /\ banned = {} /\ seen = {} /\ steady = {}
    BY <2>1 DEF PagesInit
  <2> QED
    BY <1>2, <1>3, <2>2, <2>3 DEF PagesTypeOK

\* Every reachable state is well typed, and the table finite (getGames,
\* getUsers and getGameReviews).
THEOREM PagesTypeCorrect == PagesSpec => [](PagesTypeOK /\ IsFiniteSet(Rows))
<1>1. PagesInit => PagesTypeOK /\ IsFiniteSet(Rows)
  BY PagesTypeInit
<1>2. (PagesTypeOK /\ IsFiniteSet(Rows)) /\ [PagesNext]_pagesVars
        => (PagesTypeOK /\ IsFiniteSet(Rows))'
  BY PagesTypeStep
<1> QED
  BY <1>1, <1>2, PTL DEF PagesSpec

-----------------------------------------------------------------------------
(* Pages: the invariant.                                                   *)

\* What a change of the table leaves alone.
WalkKept == UNCHANGED <<down, asked, page, seen, repeats>>

\* What types give the steps below.
WalkTyped ==
    /\ IsFiniteSet(Listed) /\ Listed \subseteq Rows
    /\ \A r \in Rows : Order(down, key)[r] \in Int
    /\ Offset \in Nat /\ repeats \in Nat /\ left \in Nat /\ came \in Nat

LEMMA WalkTypes == PagesTypeOK /\ IsFiniteSet(Rows) => WalkTyped
<1> SUFFICES ASSUME PagesTypeOK, IsFiniteSet(Rows) PROVE WalkTyped
  OBVIOUS
<1>1. /\ key \in [1..Cardinality(Rows) -> Nat] /\ Rows = 1..Cardinality(Rows)
      /\ Cardinality(Rows) \in Nat
  BY RowsType
<1>2. down \in BOOLEAN
  BY DEF PagesTypeOK
<1>3. \A r \in Rows : Order(down, key)[r] \in Int
  BY <1>1, <1>2 DEF Order
<1>4. repeats \in Nat /\ left \in Nat /\ came \in Nat
  BY DEF PagesTypeOK
<1> QED
  BY <1>3, <1>4, ListedRows, ListedFinite, OffsetType DEF WalkTyped

\* A row comes to the list, with Create or when it is shown again.
LEMMA WalkArrival ==
  ASSUME PagesTypeOK, IsFiniteSet(Rows), PagesTypeOK', IsFiniteSet(Rows'),
         WalkKept, WalkInv, NEW x, x \notin Listed, Listed' = Listed \cup {x},
         \A r \in Listed : key'[r] = key[r],
         steady \subseteq Listed, steady' = steady, left' = left,
         came' = came + 1
  PROVE  WalkInv'
<1> DEFINE h == Order(down, key)
           k == Order(down', key')
<1>1. /\ IsFiniteSet(Listed) /\ Listed \subseteq Rows
      /\ Offset \in Nat /\ repeats \in Nat /\ left \in Nat /\ came \in Nat
  BY WalkTypes DEF WalkTyped
<1>2. /\ IsFiniteSet(Listed') /\ Listed' \subseteq Rows'
      /\ \A r \in Rows' : k[r] \in Int
  <2>1. (PagesTypeOK /\ IsFiniteSet(Rows) => WalkTyped)'
    BY WalkTypes, PTL
  <2> QED
    BY <2>1 DEF WalkTyped
<1>3. Bounded(h, Listed, Offset, repeats, seen, steady, left, came)
  BY WalkBounded
<1>4. Offset' = Offset /\ down' = down /\ seen' = seen /\ repeats' = repeats
  BY DEF WalkKept, Offset
<1>5. \A r \in Listed : h[r] = k[r]
  <2>1. Listed \subseteq DOMAIN key /\ Listed \subseteq DOMAIN key'
    BY <1>1, <1>2 DEF Rows
  <2>2. \A r \in Listed : Order(down, key)[r] = Order(down, key')[r]
    BY <2>1 DEF Order
  <2> QED
    BY <1>4, <2>2
<1> HIDE DEF h, k
<1>6. Bounded(k, Listed, Offset, repeats, seen, steady, left, came)
  BY <1>1, <1>3, <1>5, SameList
<1>7. Bounded(k, Listed \cup {x}, Offset, repeats, seen, steady,
              left, came + 1)
  BY <1>1, <1>2, <1>6, RowArrives
<1>8. Bounded(k, Listed', Offset', repeats', seen', steady', left', came')
  BY <1>4, <1>7
<1>9. (PagesTypeOK => (WalkInv <=> Bounded(Order(down, key), Listed, Offset,
         repeats, seen, steady, left, came)))'
  BY WalkBounded, PTL
<1> QED
  BY <1>8, <1>9 DEF k

\* A row leaves the list.
LEMMA WalkDeparture ==
  ASSUME PagesTypeOK, IsFiniteSet(Rows), PagesTypeOK', IsFiniteSet(Rows'),
         WalkKept, WalkInv, NEW x \in Listed, Listed' = Listed \ {x},
         \A r \in Listed : key'[r] = key[r], Rows' = Rows,
         steady \subseteq Listed, steady' = steady \ {x},
         left' = left + 1, came' = came
  PROVE  WalkInv'
<1> DEFINE h == Order(down, key)
           k == Order(down', key')
<1>1. /\ IsFiniteSet(Listed) /\ Listed \subseteq Rows
      /\ Offset \in Nat /\ repeats \in Nat /\ left \in Nat /\ came \in Nat
      /\ \A r \in Rows : h[r] \in Int
  BY WalkTypes DEF WalkTyped
<1>2. Bounded(h, Listed, Offset, repeats, seen, steady, left, came)
  BY WalkBounded
<1>3. Offset' = Offset /\ down' = down /\ seen' = seen /\ repeats' = repeats
  BY DEF WalkKept, Offset
<1>4. \A r \in Listed \ {x} : h[r] = k[r]
  <2>1. Listed \subseteq DOMAIN key /\ Listed \subseteq DOMAIN key'
    BY <1>1 DEF Rows
  <2>2. \A r \in Listed : Order(down, key)[r] = Order(down, key')[r]
    BY <2>1 DEF Order
  <2> QED
    BY <1>3, <2>2
<1> HIDE DEF h, k
<1>5. IsFiniteSet(Listed \ {x})
  BY <1>1, FS_RemoveElement
<1>6. Bounded(h, Listed \ {x}, Offset, repeats, seen, steady \ {x},
              left + 1, came)
  BY <1>1, <1>2, RowLeaves
<1>7. Bounded(k, Listed \ {x}, Offset, repeats, seen, steady \ {x},
              left + 1, came)
  <2>1. left + 1 \in Nat
    BY <1>1
  <2> QED
    BY <1>1, <1>4, <1>5, <1>6, <2>1, SameList
<1>8. Bounded(k, Listed', Offset', repeats', seen', steady', left', came')
  BY <1>3, <1>7
<1>9. (PagesTypeOK => (WalkInv <=> Bounded(Order(down, key), Listed, Offset,
         repeats, seen, steady, left, came)))'
  BY WalkBounded, PTL
<1> QED
  BY <1>8, <1>9 DEF k

\* The list stays as it is.
LEMMA WalkSame ==
  ASSUME PagesTypeOK, IsFiniteSet(Rows), PagesTypeOK', Rows' = Rows,
         WalkKept, WalkInv, Listed' = Listed,
         \A r \in Listed : key'[r] = key[r],
         steady' = steady, left' = left, came' = came
  PROVE  WalkInv'
<1> DEFINE h == Order(down, key)
           k == Order(down', key')
<1>1. /\ IsFiniteSet(Listed) /\ Listed \subseteq Rows
      /\ Offset \in Nat /\ repeats \in Nat /\ left \in Nat /\ came \in Nat
  BY WalkTypes DEF WalkTyped
<1>2. Bounded(h, Listed, Offset, repeats, seen, steady, left, came)
  BY WalkBounded
<1>3. Offset' = Offset /\ down' = down /\ seen' = seen /\ repeats' = repeats
  BY DEF WalkKept, Offset
<1>4. \A r \in Listed : h[r] = k[r]
  <2>1. Listed \subseteq DOMAIN key /\ Listed \subseteq DOMAIN key'
    BY <1>1 DEF Rows
  <2>2. \A r \in Listed : Order(down, key)[r] = Order(down, key')[r]
    BY <2>1 DEF Order
  <2> QED
    BY <1>3, <2>2
<1> HIDE DEF h, k
<1>5. Bounded(k, Listed, Offset, repeats, seen, steady, left, came)
  BY <1>1, <1>2, <1>4, SameList
<1>6. Bounded(k, Listed', Offset', repeats', seen', steady', left', came')
  BY <1>3, <1>5
<1>7. (PagesTypeOK => (WalkInv <=> Bounded(Order(down, key), Listed, Offset,
         repeats, seen, steady, left, came)))'
  BY WalkBounded, PTL
<1> QED
  BY <1>6, <1>7 DEF k

\* A row of the list is given another place.
LEMMA WalkMove ==
  ASSUME PagesTypeOK, IsFiniteSet(Rows), PagesTypeOK', Rows' = Rows,
         WalkKept, WalkInv, Listed' = Listed, NEW x \in Listed,
         \A r \in Listed \ {x} : key'[r] = key[r],
         steady \subseteq Listed, steady' = steady \ {x},
         left' = left + 1, came' = came + 1
  PROVE  WalkInv'
<1> DEFINE h == Order(down, key)
           k == Order(down', key')
           M == Listed \ {x}
           S == steady \ {x}
<1>1. /\ IsFiniteSet(Listed) /\ Listed \subseteq Rows
      /\ Offset \in Nat /\ repeats \in Nat /\ left \in Nat /\ came \in Nat
      /\ \A r \in Rows : h[r] \in Int
  BY WalkTypes DEF WalkTyped
<1>2. \A r \in Rows : k[r] \in Int
  <2>1. (PagesTypeOK /\ IsFiniteSet(Rows) => WalkTyped)'
    BY WalkTypes, PTL
  <2> QED
    BY <2>1 DEF WalkTyped
<1>3. Bounded(h, Listed, Offset, repeats, seen, steady, left, came)
  BY WalkBounded
<1>4. Offset' = Offset /\ down' = down /\ seen' = seen /\ repeats' = repeats
  BY DEF WalkKept, Offset
<1>5. \A r \in M : h[r] = k[r]
  <2>1. M \subseteq DOMAIN key /\ M \subseteq DOMAIN key'
    BY <1>1 DEF Rows
  <2>2. \A r \in M : Order(down, key)[r] = Order(down, key')[r]
    BY <2>1 DEF Order
  <2> QED
    BY <1>4, <2>2
<1>6. IsFiniteSet(M) /\ x \notin M /\ M \cup {x} = Listed /\ S \subseteq M
  BY <1>1, FS_RemoveElement
<1>7. left + 1 \in Nat
  BY <1>1
<1> HIDE DEF h, k
<1>8. Bounded(h, M, Offset, repeats, seen, S, left + 1, came)
  BY <1>1, <1>3, RowLeaves
<1> HIDE DEF M, S
<1>9. Bounded(k, M, Offset, repeats, seen, S, left + 1, came)
  BY <1>1, <1>5, <1>6, <1>7, <1>8, SameList
<1>10. Bounded(k, M \cup {x}, Offset, repeats, seen, S, left + 1, came + 1)
  <2>1. \A r \in M \cup {x} : k[r] \in Int
    BY <1>1, <1>2, <1>6
  <2> QED
    BY <1>1, <1>6, <1>7, <1>9, <2>1, RowArrives
<1>11. Bounded(k, Listed', Offset', repeats', seen', steady', left', came')
  BY <1>4, <1>6, <1>10 DEF S
<1>12. (PagesTypeOK => (WalkInv <=> Bounded(Order(down, key), Listed, Offset,
         repeats, seen, steady, left, came)))'
  BY WalkBounded, PTL
<1> QED
  BY <1>11, <1>12 DEF k

\* A page is given.
LEMMA WalkPage ==
  ASSUME PagesTypeOK, IsFiniteSet(Rows), PagesTypeOK', WalkInv, ~Ties, TakePage
  PROVE  WalkInv' /\ repeats' <= came
<1> DEFINE h == Order(down, key)
<1>1. /\ IsFiniteSet(Listed) /\ Listed \subseteq Rows
      /\ Offset \in Nat /\ repeats \in Nat /\ left \in Nat /\ came \in Nat
      /\ \A r \in Rows : h[r] \in Int
  BY WalkTypes DEF WalkTyped
<1>2. Bounded(h, Listed, Offset, repeats, seen, steady, left, came)
  BY WalkBounded
<1>3. Clamp(asked) \in Nat
  BY OffsetType
<1>4. PICK B \in SUBSET Listed, P \in SUBSET Listed :
        /\ IsPage(B, P)
        /\ seen' = seen \cup P
        /\ repeats' = repeats + Cardinality(P \cap seen)
  BY DEF TakePage
<1>5. /\ UNCHANGED <<table, column, key, removed, banned, steady, left, came>>
      /\ UNCHANGED <<walk, down, asked>> /\ page' = page + 1
  BY DEF TakePage, tableVars, changeVars
<1>6. Listed' = Listed
  BY <1>5 DEF Listed, GamesListed, UsersListed, ReviewsListed, Rows
<1>7. Offset' = Offset + Clamp(asked)
  <2>1. page \in Nat
    BY DEF PagesTypeOK
  <2>2. \A p, c \in Nat : (p + 1) * c = p * c + c
    OBVIOUS
  <2>3. Offset' = (page + 1) * Clamp(asked)
    BY <1>5 DEF Offset
  <2> QED
    BY <1>3, <2>1, <2>2, <2>3 DEF Offset
<1>8. /\ \A r, s \in Rows : ~Before(r, s) <=> h[s] <= h[r]
      /\ \A r, s \in Listed : r # s => h[r] # h[s]
  <2>1. key \in [Rows -> Nat] /\ down \in BOOLEAN
    BY DEF PagesTypeOK, Rows
  <2>2. \A r, s \in Listed : r # s => key[r] # key[s]
    BY DEF Ties
  <2>3. CASE down
    BY <1>1, <2>1, <2>2, <2>3 DEF Before, Order
  <2>4. CASE ~down
    BY <1>1, <2>1, <2>2, <2>4 DEF Before, Order
  <2> QED
    BY <2>1, <2>3, <2>4
<1> HIDE DEF h
<1>9. /\ B \cap P = {}
      /\ Cardinality(B) = Least(Offset, Cardinality(Listed))
      /\ Cardinality(P) = Least(Clamp(asked), Cardinality(Listed \ B))
      /\ \A r \in P, s \in B : h[s] <= h[r]
      /\ \A r \in Listed \ (B \cup P), s \in B \cup P : h[s] <= h[r]
  BY <1>1, <1>4, <1>8 DEF IsPage
<1>10. B \in HeadsOf(h, Listed, Offset)
  BY <1>9 DEF HeadsOf
<1>11. /\ repeats + Cardinality(P \cap seen) <= came
       /\ Bounded(h, Listed, Offset + Clamp(asked),
                  repeats + Cardinality(P \cap seen), seen \cup P,
                  steady, left, came)
  BY <1>1, <1>2, <1>3, <1>8, <1>9, <1>10, PageGiven
<1>12. Bounded(Order(down', key'), Listed', Offset', repeats', seen', steady',
               left', came')
  BY <1>4, <1>5, <1>6, <1>7, <1>11 DEF h
<1>13. (PagesTypeOK => (WalkInv <=> Bounded(Order(down, key), Listed, Offset,
          repeats, seen, steady, left, came)))'
  BY WalkBounded, PTL
<1> QED
  BY <1>4, <1>11, <1>12, <1>13

\* A walk that was given nothing yet.
LEMMA FreshWalk ==
    PagesTypeOK /\ IsFiniteSet(Rows) /\ seen = {} /\ repeats = 0 /\ page = 0
      => WalkInv
<1> SUFFICES ASSUME PagesTypeOK, IsFiniteSet(Rows), seen = {}, repeats = 0,
                    page = 0, NEW B \in Heads
             PROVE  /\ repeats + Cardinality(seen \cap (Listed \ B)) <= came
                    /\ Cardinality((steady \cap B) \ seen) <= left
  BY DEF WalkInv
<1>1. IsFiniteSet(Listed) /\ left \in Nat /\ came \in Nat
  BY WalkTypes DEF WalkTyped
<1>2. Cardinality({}) = 0
  BY FS_EmptySet
<1>3. B \subseteq Listed /\ Cardinality(B) = Least(Offset, Cardinality(Listed))
  BY DEF Heads
<1>4. Offset = 0
  BY OffsetType DEF Offset
<1>5. Cardinality(B) = 0
  <2>1. Cardinality(Listed) \in Nat
    BY <1>1, FS_CardinalityType
  <2> QED
    BY <1>3, <1>4, <2>1 DEF Least
<1>6. B = {}
  <2>1. IsFiniteSet(B)
    BY <1>1, <1>3, FS_Subset
  <2> QED
    BY <1>5, <2>1, FS_EmptySet
<1>7. seen \cap (Listed \ B) = {} /\ (steady \cap B) \ seen = {}
  BY <1>6
<1> QED
  BY <1>1, <1>2, <1>7

\* An empty table satisfies PagesInv.
LEMMA PagesInvInit == PagesInit => PagesInv
<1> SUFFICES ASSUME PagesInit PROVE PagesInv
  OBVIOUS
<1>1. PagesTypeOK /\ IsFiniteSet(Rows)
  BY PagesTypeInit
<1>2. /\ seen = {} /\ repeats = 0 /\ page = 0
      /\ steady = {} /\ left = 0 /\ came = 0
  BY DEF PagesInit
<1>3. WalkInv
  BY <1>1, <1>2, FreshWalk
<1>4. IdleInv
  BY Zenon DEF PagesInit, IdleInv
<1>5. RepeatsFollowArrivals
  BY <1>2 DEF RepeatsFollowArrivals
<1> QED
  BY <1>1, <1>2, <1>3, <1>4, <1>5 DEF PagesInv

\* Repetitions stay within the arrivals when neither falls.
LEMMA RepeatsKept ==
  ASSUME RepeatsFollowArrivals, tied' = tied, repeats' = repeats,
         repeats \in Nat, came \in Nat, came' \in Nat, came' >= came
  PROVE  RepeatsFollowArrivals'
<1> SUFFICES ASSUME ~tied' PROVE repeats' <= came'
  BY DEF RepeatsFollowArrivals
<1>1. ~tied
  BY Zenon
<1>2. repeats <= came
  BY <1>1 DEF RepeatsFollowArrivals
<1> QED
  BY <1>2

\* A step that changes whether one row is on the list.
LEMMA TrackStep ==
  ASSUME PagesTypeOK, PagesInv, PagesTypeOK', IsFiniteSet(Rows'),
         Track, UNCHANGED askVars, \A r \in Listed : key'[r] = key[r],
         \/ Listed' = Listed /\ Rows' = Rows
         \/ \E x : x \notin Listed /\ Listed' = Listed \cup {x}
         \/ \E x \in Listed : Listed' = Listed \ {x} /\ Rows' = Rows
  PROVE  PagesInv'
<1>1. /\ IsFiniteSet(Rows) /\ IdleInv /\ steady \subseteq Listed
      /\ RepeatsFollowArrivals /\ (tied \/ WalkInv)
  BY DEF PagesInv
<1>2. UNCHANGED <<walk, down, asked, page, seen, repeats, tied>> /\ WalkKept
  BY DEF askVars, WalkKept
<1>3. /\ walk \in {"idle", "paging"}
      /\ left \in Nat /\ came \in Nat /\ repeats \in Nat
  BY DEF PagesTypeOK
<1>4. CASE walk = "idle"
  <2>1. (PagesTypeOK /\ IsFiniteSet(Rows) /\ seen = {} /\ repeats = 0
           /\ page = 0 => WalkInv)'
    BY FreshWalk, PTL
  <2>2. UNCHANGED <<steady, left, came>>
    BY <1>4 DEF Track, changeVars
  <2>3. /\ page = 0 /\ seen = {} /\ repeats = 0
        /\ steady = {} /\ left = 0 /\ came = 0
    BY <1>1, <1>4 DEF IdleInv
  <2>4. IdleInv'
    BY <1>1, <1>2, <2>2 DEF IdleInv
  <2>5. WalkInv'
    BY <1>2, <2>1, <2>3
  <2>6. RepeatsFollowArrivals'
    BY <1>2, <2>2, <2>3 DEF RepeatsFollowArrivals
  <2> QED
    BY <2>2, <2>3, <2>4, <2>5, <2>6 DEF PagesInv
<1>5. CASE walk = "paging"
  <2>1. /\ left' = left + Cardinality(Listed \ Listed')
        /\ came' = came + Cardinality(Listed' \ Listed)
        /\ steady' = steady \cap Listed'
    BY <1>5 DEF Track
  <2>2. Cardinality({}) = 0
    BY FS_EmptySet
  <2>3. IdleInv' /\ steady' \subseteq Listed'
    BY <1>2, <1>5, <2>1 DEF IdleInv
  <2>4. came' \in Nat /\ came' >= came /\ (tied \/ WalkInv')
    <3>1. CASE Listed' = Listed /\ Rows' = Rows
      <4>1. Listed \ Listed' = {} /\ Listed' \ Listed = {} /\ steady' = steady
        BY <1>1, <2>1, <3>1
      <4>2. left' = left /\ came' = came
        BY <1>3, <2>1, <2>2, <4>1
      <4> QED
        BY <1>1, <1>2, <1>3, <3>1, <4>1, <4>2, WalkSame
    <3>2. ASSUME NEW x, x \notin Listed, Listed' = Listed \cup {x}
          PROVE  came' \in Nat /\ came' >= came /\ (tied \/ WalkInv')
      <4>1. Listed \ Listed' = {} /\ Listed' \ Listed = {x} /\ steady' = steady
        BY <1>1, <2>1, <3>2
      <4>2. left' = left /\ came' = came + 1
        <5>1. Cardinality({x}) = 1
          BY FS_Singleton
        <5> QED
          BY <1>3, <2>1, <2>2, <4>1, <5>1
      <4>3. ASSUME ~tied PROVE WalkInv'
        BY <1>1, <1>2, <3>2, <4>1, <4>2, <4>3, WalkArrival
      <4> QED
        BY <1>3, <4>2, <4>3
    <3>3. ASSUME NEW x \in Listed, Listed' = Listed \ {x}, Rows' = Rows
          PROVE  came' \in Nat /\ came' >= came /\ (tied \/ WalkInv')
      <4>1. /\ Listed \ Listed' = {x} /\ Listed' \ Listed = {}
            /\ steady' = steady \ {x}
        BY <1>1, <2>1, <3>3
      <4>2. left' = left + 1 /\ came' = came
        <5>1. Cardinality({x}) = 1
          BY FS_Singleton
        <5> QED
          BY <1>3, <2>1, <2>2, <4>1, <5>1
      <4>3. ASSUME ~tied PROVE WalkInv'
        BY <1>1, <1>2, <3>3, <4>1, <4>2, <4>3, WalkDeparture
      <4> QED
        BY <1>3, <4>2, <4>3
    <3> QED
      BY <3>1, <3>2, <3>3
  <2>5. RepeatsFollowArrivals'
    <3>1. tied' = tied /\ repeats' = repeats
      BY <1>2
    <3>2. came' \in Nat /\ came' >= came
      BY <2>4
    <3>3. RepeatsFollowArrivals
      BY <1>1
    <3> QED
      BY <1>3, <3>1, <3>2, <3>3, RepeatsKept
  <2> QED
    BY <1>2, <2>3, <2>4, <2>5 DEF PagesInv
<1> QED
  BY <1>3, <1>4, <1>5

\* A date is changed.
LEMMA RedateStep ==
  ASSUME PagesTypeOK, PagesInv, PagesTypeOK', IsFiniteSet(Rows'),
         NEW x \in Rows, Redate(x)
  PROVE  PagesInv'
<1>1. /\ IsFiniteSet(Rows) /\ IdleInv /\ steady \subseteq Listed
      /\ RepeatsFollowArrivals /\ (tied \/ WalkInv)
  BY DEF PagesInv
<1>2. /\ table' = table /\ removed' = removed /\ banned' = banned
      /\ UNCHANGED askVars
  BY DEF Redate
<1>3. UNCHANGED <<walk, down, asked, page, seen, repeats, tied>> /\ WalkKept
  BY <1>2 DEF askVars, WalkKept
<1>4. /\ walk \in {"idle", "paging"} /\ left \in Nat /\ came \in Nat
      /\ repeats \in Nat /\ key \in [Rows -> Nat]
  BY DEF PagesTypeOK, Rows
<1>5. Rows' = Rows /\ \A r \in Rows \ {x} : key'[r] = key[r]
  <2>1. PICK v \in 1..MaxKey : key' = [key EXCEPT ![x] = v]
    BY DEF Redate
  <2> QED
    BY <1>4, <2>1 DEF Rows
<1>6. Listed' = Listed
  BY <1>2, <1>5 DEF Listed, GamesListed, UsersListed, ReviewsListed
<1>7. Listed \subseteq Rows
  BY ListedRows
<1>8. CASE walk = "paging" /\ x \in Listed
  <2>1. left' = left + 1 /\ came' = came + 1 /\ steady' = steady \ {x}
    BY <1>8 DEF Redate
  <2>2. ASSUME ~tied PROVE WalkInv'
    <3>1. \A r \in Listed \ {x} : key'[r] = key[r]
      BY <1>5, <1>7
    <3> QED
      BY <1>1, <1>3, <1>5, <1>6, <1>8, <2>1, <2>2, <3>1, WalkMove
  <2>3. IdleInv' /\ steady' \subseteq Listed'
    BY <1>1, <1>3, <1>6, <1>8, <2>1 DEF IdleInv
  <2>4. RepeatsFollowArrivals'
    <3>1. tied' = tied /\ repeats' = repeats
      BY <1>3
    <3>2. came' \in Nat /\ came' >= came
      BY <1>4, <2>1
    <3>3. RepeatsFollowArrivals
      BY <1>1
    <3> QED
      BY <1>4, <3>1, <3>2, <3>3, RepeatsKept
  <2> QED
    BY <1>3, <2>2, <2>3, <2>4 DEF PagesInv
<1>9. CASE ~(walk = "paging" /\ x \in Listed)
  <2>1. left' = left /\ came' = came /\ steady' = steady
    BY <1>9 DEF Redate, changeVars
  <2>2. CASE walk = "idle"
    <3>1. (PagesTypeOK /\ IsFiniteSet(Rows) /\ seen = {} /\ repeats = 0
             /\ page = 0 => WalkInv)'
      BY FreshWalk, PTL
    <3>2. page = 0 /\ seen = {} /\ repeats = 0 /\ steady = {} /\ came = 0
      BY <1>1, <2>2 DEF IdleInv
    <3>3. WalkInv' /\ RepeatsFollowArrivals'
      BY <1>3, <2>1, <3>1, <3>2 DEF RepeatsFollowArrivals
    <3>4. IdleInv' /\ steady' \subseteq Listed'
      BY <1>1, <1>3, <1>6, <2>1 DEF IdleInv
    <3> QED
      BY <3>3, <3>4 DEF PagesInv
  <2>3. CASE walk = "paging"
    <3>1. ASSUME ~tied PROVE WalkInv'
      <4>1. \A r \in Listed : key'[r] = key[r]
        BY <1>5, <1>7, <1>9, <2>3
      <4> QED
        BY <1>1, <1>3, <1>5, <1>6, <2>1, <3>1, <4>1, WalkSame
    <3>2. IdleInv' /\ steady' \subseteq Listed'
      BY <1>1, <1>3, <1>6, <2>1 DEF IdleInv
    <3>3. RepeatsFollowArrivals'
      <4>1. tied' = tied /\ repeats' = repeats
        BY <1>3
      <4>2. RepeatsFollowArrivals
        BY <1>1
      <4>3. came' \in Nat /\ came' >= came
        BY <1>4, <2>1
      <4> QED
        BY <1>4, <4>1, <4>2, <4>3, RepeatsKept
    <3> QED
      BY <1>3, <3>1, <3>2, <3>3 DEF PagesInv
  <2> QED
    BY <1>4, <2>2, <2>3
<1> QED
  BY <1>8, <1>9

\* Every step keeps PagesInv.
LEMMA PagesInvStep ==
    PagesTypeOK /\ PagesInv /\ [PagesNext]_pagesVars => PagesInv'
<1> SUFFICES ASSUME PagesTypeOK, PagesInv, [PagesNext]_pagesVars
             PROVE  PagesInv'
  OBVIOUS
<1>1. IsFiniteSet(Rows) /\ PagesTypeOK' /\ IsFiniteSet(Rows')
  BY PagesTypeStep DEF PagesInv
<1>2. /\ IdleInv /\ steady \subseteq Listed
      /\ RepeatsFollowArrivals /\ (tied \/ WalkInv)
  BY DEF PagesInv
<1>3. /\ walk \in {"idle", "paging"} /\ left \in Nat /\ came \in Nat
      /\ repeats \in Nat /\ key \in [Rows -> Nat]
  BY DEF PagesTypeOK, Rows
<1>4. (PagesTypeOK /\ IsFiniteSet(Rows) /\ seen = {} /\ repeats = 0 /\ page = 0
         => WalkInv)'
  BY FreshWalk, PTL
<1>5. Listed \subseteq Rows
  BY ListedRows
<1>6. UNCHANGED tableVars => Listed' = Listed
  BY DEF tableVars, Listed, GamesListed, UsersListed, ReviewsListed, Rows
<1>7. ASSUME NEW limit \in 0..MaxAsked, NEW desc \in BOOLEAN,
             Start(limit, desc)
      PROVE  PagesInv'
  <2>1. /\ walk = "idle" /\ walk' = "paging" /\ steady' = Listed
        /\ UNCHANGED tableVars
        /\ UNCHANGED <<page, seen, repeats, left, came>>
    BY <1>7 DEF Start
  <2>2. page = 0 /\ seen = {} /\ repeats = 0 /\ came = 0
    BY <1>2, <2>1 DEF IdleInv
  <2>3. WalkInv' /\ RepeatsFollowArrivals'
    BY <1>1, <1>4, <2>1, <2>2 DEF RepeatsFollowArrivals
  <2>4. IdleInv' /\ steady' \subseteq Listed'
    BY <1>6, <2>1 DEF IdleInv
  <2> QED
    BY <1>1, <2>3, <2>4 DEF PagesInv
<1>8. ASSUME TakePage PROVE PagesInv'
  <2>1. /\ walk = "paging" /\ walk' = walk /\ UNCHANGED tableVars
        /\ steady' = steady /\ left' = left /\ came' = came
        /\ tied' = (tied \/ Ties)
    BY <1>8 DEF TakePage, changeVars
  <2>2. IdleInv' /\ steady' \subseteq Listed'
    BY <1>2, <1>6, <2>1 DEF IdleInv
  <2>3. ASSUME ~tied' PROVE WalkInv' /\ repeats' <= came
    <3>1. ~tied /\ ~Ties
      BY <2>1, <2>3, Zenon
    <3> QED
      BY <1>1, <1>2, <1>8, <3>1, WalkPage
  <2>4. RepeatsFollowArrivals'
    BY <2>1, <2>3 DEF RepeatsFollowArrivals
  <2> QED
    BY <1>1, <2>2, <2>3, <2>4 DEF PagesInv
<1>9. ASSUME EmptyPage PROVE PagesInv'
  <2>1. page' = 0 /\ seen' = {} /\ repeats' = 0 /\ steady' = {}
        /\ left' = 0 /\ came' = 0
    BY <1>9 DEF EmptyPage, Reset
  <2>2. IdleInv'
    BY <1>9, Zenon DEF EmptyPage, Reset, IdleInv
  <2>3. WalkInv' /\ RepeatsFollowArrivals'
    BY <1>1, <1>4, <2>1 DEF RepeatsFollowArrivals
  <2> QED
    BY <1>1, <2>1, <2>2, <2>3 DEF PagesInv
<1>10. ASSUME Create PROVE PagesInv'
  <2> DEFINE n == Cardinality(Rows) + 1
  <2>1. /\ n \notin Rows /\ Rows' = Rows \cup {n}
        /\ \A r \in Rows : key'[r] = key[r]
    BY <1>1, <1>10, CreateRows
  <2>2. UNCHANGED <<table, removed, banned>> /\ UNCHANGED askVars /\ Track
    BY <1>10 DEF Create
  <2> HIDE DEF n
  <2>3. n \notin removed /\ n \notin banned
    BY <2>1 DEF PagesTypeOK
  <2>4. n \notin Listed /\ Listed' = Listed \cup {n}
    BY <1>5, <2>1, <2>2, <2>3, ListedRows
       DEF Listed, GamesListed, UsersListed, ReviewsListed
  <2>5. \A r \in Listed : key'[r] = key[r]
    BY <1>5, <2>1
  <2> QED
    BY <1>1, <2>2, <2>4, <2>5, TrackStep
<1>11. ASSUME NEW r \in Rows, SetRemoved(r) \/ SetBanned(r) PROVE PagesInv'
  <2>1. UNCHANGED <<table, key>> /\ UNCHANGED askVars /\ Track
    BY <1>11 DEF SetRemoved, SetBanned
  <2>2. Rows' = Rows
    BY <2>1 DEF Rows
  <2>3. \/ Listed' = Listed
        \/ \E x : x \notin Listed /\ Listed' = Listed \cup {x}
        \/ \E x \in Listed : Listed' = Listed \ {x}
    <3>1. \/ /\ removed' = (removed \ {r}) \cup ({r} \ removed)
             /\ banned' = banned
          \/ /\ banned' = (banned \ {r}) \cup ({r} \ banned)
             /\ removed' = removed
      BY <1>11 DEF SetRemoved, SetBanned
    <3>2. \/ Listed' = Listed
          \/ r \notin Listed /\ Listed' = Listed \cup {r}
          \/ r \in Listed /\ Listed' = Listed \ {r}
      <4>1. /\ table = "games" => Listed' = Rows \ removed'
            /\ table = "users" => Listed' = Rows \ banned'
            /\ table = "reviews" => Listed' = Rows \ (removed' \cup banned')
        BY <2>1, <2>2 DEF Listed, GamesListed, UsersListed, ReviewsListed
      <4> QED
        BY <3>1, <4>1, ListedRows
    <3> QED
      BY <3>2
  <2>4. \A s \in Listed : key'[s] = key[s]
    BY <2>1
  <2> QED
    BY <1>1, <2>1, <2>2, <2>3, <2>4, TrackStep
<1>12. ASSUME NEW r \in Rows, Redate(r) PROVE PagesInv'
  BY <1>1, <1>12, RedateStep
<1>13. CASE UNCHANGED pagesVars
  <2>1. /\ UNCHANGED tableVars /\ UNCHANGED changeVars
        /\ UNCHANGED <<walk, down, asked, page, seen, repeats, tied>>
    BY <1>13 DEF pagesVars, askVars
  <2>2. Listed' = Listed /\ Rows' = Rows /\ \A s \in Listed : key'[s] = key[s]
    BY <1>6, <2>1 DEF tableVars, Rows
  <2>3. steady' = steady /\ left' = left /\ came' = came /\ WalkKept
    BY <2>1 DEF changeVars, WalkKept
  <2>4. ASSUME ~tied PROVE WalkInv'
    BY <1>1, <1>2, <2>2, <2>3, <2>4, WalkSame
  <2>5. IdleInv' /\ steady' \subseteq Listed'
    BY <1>2, <2>1, <2>2, <2>3 DEF IdleInv
  <2>6. RepeatsFollowArrivals'
    <3>1. tied' = tied /\ repeats' = repeats
      BY <2>1
    <3>2. RepeatsFollowArrivals
      BY <1>2
    <3>3. came' \in Nat /\ came' >= came
      BY <1>3, <2>3
    <3> QED
      BY <1>3, <3>1, <3>2, <3>3, RepeatsKept
  <2> QED
    BY <1>1, <2>1, <2>4, <2>5, <2>6 DEF PagesInv
<1> QED
  BY <1>7, <1>8, <1>9, <1>10, <1>11, <1>12, <1>13
     DEF PagesNext, StartGames, StartUsers, StartReviews

\* PagesInv holds in every reachable state (getGames, getUsers and
\* getGameReviews, whatever is added, hidden or redated between two pages).
THEOREM PagesInvariant == PagesSpec => []PagesInv
<1>1. PagesInit => PagesInv
  BY PagesInvInit
<1>2. PagesTypeOK /\ PagesInv /\ [PagesNext]_pagesVars => PagesInv'
  BY PagesInvStep
<1> QED
  BY <1>1, <1>2, PagesTypeCorrect, PTL DEF PagesSpec

\* A walk is given no row again more often than rows have come to the list
\* meanwhile, if no two rows have the same key.
THEOREM RepeatsAreArrivals == PagesSpec => []RepeatsFollowArrivals
<1>1. PagesInv => RepeatsFollowArrivals
  BY DEF PagesInv
<1> QED
  BY <1>1, PagesInvariant, PTL

\* The page of a walk is empty only when the pages before it are the list.
LEMMA EmptyPageEnds ==
  ASSUME PagesTypeOK, PagesInv, WalkInv, EmptyPage
  PROVE  Cardinality(steady \ seen) <= left
<1>1. PICK B \in SUBSET Listed : IsPage(B, {})
  BY DEF EmptyPage
<1>2. IsFiniteSet(Rows) /\ steady \subseteq Listed
  BY DEF PagesInv
<1>3. IsFiniteSet(Listed)
  BY <1>2, WalkTypes DEF WalkTyped
<1>4. IsFiniteSet(Listed \ B) /\ Cardinality(Listed \ B) \in Nat
  BY <1>3, FS_Difference, FS_CardinalityType
<1>5. Cardinality(Listed \ B) = 0
  <2>1. 0 = Least(Clamp(asked), Cardinality(Listed \ B))
    BY <1>1, FS_EmptySet DEF IsPage
  <2>2. Clamp(asked) \in Nat \ {0}
    BY OffsetType
  <2> QED
    BY <1>4, <2>1, <2>2 DEF Least
<1>6. Listed = B
  BY <1>4, <1>5, FS_EmptySet
<1>7. B \in Heads
  BY <1>1, <1>6 DEF IsPage, Heads
<1>8. Cardinality((steady \cap B) \ seen) <= left
  BY <1>7 DEF WalkInv
<1>9. (steady \cap B) \ seen = steady \ seen
  BY <1>2, <1>6
<1> QED
  BY <1>8, <1>9

\* A walk to the end misses no more rows that were there all the time than
\* rows have left the list meanwhile, if no two rows have the same key.
THEOREM MissesAreDepartures == PagesSpec => MissesFollowDepartures
<1>1. ASSUME PagesTypeOK, PagesInv, [PagesNext]_pagesVars,
             walk = "paging", walk' = "idle", ~tied
      PROVE  Cardinality(steady \ seen) <= left
  <2>1. EmptyPage
    <3>1. ASSUME Create PROVE walk' = walk
      BY <3>1 DEF Create, askVars
    <3>2. ASSUME NEW r \in Rows, SetRemoved(r) \/ SetBanned(r) \/ Redate(r)
          PROVE  walk' = walk
      BY <3>2 DEF SetRemoved, SetBanned, Redate, askVars
    <3>3. ASSUME NEW limit, NEW desc, Start(limit, desc) PROVE FALSE
      BY <1>1, <3>3 DEF Start
    <3>4. ASSUME TakePage PROVE walk' = walk
      BY <3>4 DEF TakePage
    <3>5. ASSUME UNCHANGED pagesVars PROVE walk' = walk
      BY <3>5 DEF pagesVars, askVars
    <3> QED
      BY <1>1, <3>1, <3>2, <3>3, <3>4, <3>5
         DEF PagesNext, StartGames, StartUsers, StartReviews
  <2>2. WalkInv
    BY <1>1, Zenon DEF PagesInv
  <2> QED
    BY <1>1, <2>1, <2>2, EmptyPageEnds
<1>2. PagesTypeOK /\ PagesInv /\ [PagesNext]_pagesVars
        => [walk = "paging" /\ walk' = "idle" /\ ~tied =>
              Cardinality(steady \ seen) <= left]_pagesVars
  BY <1>1
<1> QED
  BY <1>2, PagesInvariant, PagesTypeCorrect, PTL
     DEF PagesSpec, MissesFollowDepartures

=============================================================================
