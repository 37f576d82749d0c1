----------------------------- MODULE MCGamePage -----------------------------
(***************************************************************************)
(* GamePage for model checking.  Version 2 is removed, and the game        *)
(* changes hands between the first version and the second.  Two of the     *)
(* three authors may be left for a list of one review.                     *)
(*                                                                         *)
(* Relevant tells states apart by what an action or a property can still   *)
(* read: a read that has returned leaves values behind that are written    *)
(* anew before the next one looks at them, and of the answers only         *)
(* "missing" is asked about.  Of a page that has been sent it is only      *)
(* asked whether it is right, and it stays so: the versions it may have    *)
(* met only become more.                                                   *)
(***************************************************************************)
EXTENDS GamePage, TLC

MCRemoved == {2}
MCAuthors == {"alice", "bob", "carol"}
MCOwner == <<"alice", "bob", "bob">>

ProcSymmetry == Permutations(Procs)

RelevantView(p) ==
    IF p \in viewing THEN <<viewBegan[p], viewSince[p]>>
    ELSE IF pc[p] = "remove" \/ page[p].at \in {"owner", "list"}
         THEN <<viewSince[p], viewed[p]>> ELSE <<>>

RelevantAsk(p) ==
    IF p \in asking THEN <<askBegan[p], askSince[p]>>
    ELSE IF reply[p] = "missing" THEN <<askBegan[p]>> ELSE <<>>

RelevantPage(p) == IF page[p].at = "sent" THEN <<"sent">> ELSE page[p]

Relevant ==
    <<db, viewFloor, knownFloor, viewing, asking, pc, shown,
      ShownOnce, NoneMissing,
      [p \in Procs |-> <<RelevantPage(p), RelevantView(p), RelevantAsk(p)>>]>>

=============================================================================
