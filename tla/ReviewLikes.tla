----------------------------- MODULE ReviewLikes -----------------------------
(***************************************************************************)
(* Likes of one review: the table LikeReview, the handlers putReviewLike,  *)
(* deleteReviewLike and getReviewLike of review.controller.ts, and the     *)
(* cache entry review-likes-<reviewId> that datastore.isLiked reads        *)
(* through.  A like is an INSERT IGNORE, an unlike a DELETE; each is       *)
(* followed by uncache.                                                    *)
(*                                                                         *)
(* isLiked selects the rows of ONE user and caches them under a key of the *)
(* review alone; the cached array is then searched for whichever user asks *)
(* next.  An empty array is truthy, so it is a hit.  The module models the *)
(* entry as the array that was stored: a set of user ids.                  *)
(***************************************************************************)
CONSTANTS
    Requests, \* requests in progress
    Likers,   \* the users who like the review, unlike it and ask
    Reliable  \* TRUE: memcached applies every command

ASSUME ReliableAssumption == Reliable \in BOOLEAN

VARIABLES
    likes,   \* LikeReview: the users who like the review
    entry,   \* what memcached holds: {} or {array}
    stage,   \* where each request stands
    liker,   \* the user who makes it
    held,    \* the array a SELECT of isLiked returned
    out,     \* the memcached command a request sent and did not wait for
    verdict, \* what the latest isLiked of a request returned
    ever,    \* history: users who have liked the review
    sawOut   \* history: at some moment of this read its user did not like it

likesVars == <<likes, entry, stage, liker, held, out, verdict, ever, sawOut>>

Arrays == {{}} \cup {{u} : u \in Likers}
Commands ==
    [op : {"none", "del"}, val : {{}}] \cup [op : {"set"}, val : Arrays]
NoCommand == [op |-> "none", val |-> {}]

LikesTypeOK ==
    /\ likes \subseteq Likers
    /\ entry \in {{}} \cup {{a} : a \in Arrays}
    /\ stage \in [Requests -> {"idle", "like", "unlike", "drop", "get",
                             "query", "store"}]
    /\ liker \in [Requests -> Likers]
    /\ held \in [Requests -> Arrays]
    /\ out \in [Requests -> Commands]
    /\ verdict \in [Requests -> {"none", "yes", "no"}]
    /\ ever \subseteq Likers
    /\ sawOut \in [Requests -> BOOLEAN]

LikesInit ==
    /\ likes = {}
    /\ entry = {}
    /\ stage = [p \in Requests |-> "idle"]
    /\ liker \in [Requests -> Likers]
    /\ held = [p \in Requests |-> {}]
    /\ out = [p \in Requests |-> NoCommand]
    /\ verdict = [p \in Requests |-> "none"]
    /\ ever = {}
    /\ sawOut = [p \in Requests |-> FALSE]

-----------------------------------------------------------------------------

\* A request of user u passes its checks (the path names the user, the
\* review exists) and goes on to its statement.
Start(p, u, op) ==
    /\ stage[p] = "idle"
    /\ out[p].op = "none"
    /\ liker' = [liker EXCEPT ![p] = u]
    /\ stage' = [stage EXCEPT ![p] = op]
    /\ verdict' = [verdict EXCEPT ![p] = "none"]
    /\ sawOut' = [sawOut EXCEPT ![p] = u \notin likes]
    /\ UNCHANGED <<likes, entry, held, out, ever>>

addLikeToReview(p) ==
    /\ stage[p] = "like"
    /\ likes' = likes \cup {liker[p]}
    /\ ever' = ever \cup {liker[p]}
    /\ stage' = [stage EXCEPT ![p] = "drop"]
    /\ UNCHANGED <<entry, liker, held, out, verdict, sawOut>>

removeLikeFromReview(p) ==
    /\ stage[p] = "unlike"
    /\ likes' = likes \ {liker[p]}
    /\ sawOut' = [q \in Requests |-> sawOut[q] \/ liker[q] = liker[p]]
    /\ stage' = [stage EXCEPT ![p] = "drop"]
    /\ UNCHANGED <<entry, liker, held, out, verdict, ever>>

uncache(p) ==
    /\ stage[p] = "drop"
    /\ out' = [out EXCEPT ![p] = [op |-> "del", val |-> {}]]
    /\ stage' = [stage EXCEPT ![p] = "idle"]
    /\ UNCHANGED <<likes, entry, liker, held, verdict, ever, sawOut>>

-----------------------------------------------------------------------------
(* isLiked.                                                                *)

\* Mutant of Tell: any row at all counts as the asking user's.
TellAny(p, array) ==
    verdict' = [verdict EXCEPT ![p] = IF array # {} THEN "yes" ELSE "no"]

\* users.includes(userId)
Tell(p, array) ==
    verdict' = [verdict EXCEPT
                   ![p] = IF liker[p] \in array THEN "yes" ELSE "no"]

isLikedHit(p) ==
    /\ stage[p] = "get"
    /\ \E array \in entry : Tell(p, array)
    /\ stage' = [stage EXCEPT ![p] = "idle"]
    /\ UNCHANGED <<likes, entry, liker, held, out, ever, sawOut>>

isLikedMiss(p) ==
    /\ stage[p] = "get"
    /\ stage' = [stage EXCEPT ![p] = "query"]
    /\ UNCHANGED <<likes, entry, liker, held, out, verdict, ever, sawOut>>

\* WHERE rating_id = ? AND user_id = ?: the rows of the asking user only.
isLikedQuery(p) ==
    /\ stage[p] = "query"
    /\ held' = [held EXCEPT ![p] = likes \cap {liker[p]}]
    /\ stage' = [stage EXCEPT ![p] = "store"]
    /\ UNCHANGED <<likes, entry, liker, out, verdict, ever, sawOut>>

isLikedFill(p) ==
    /\ stage[p] = "store"
    /\ out' = [out EXCEPT ![p] = [op |-> "set", val |-> held[p]]]
    /\ Tell(p, held[p])
    /\ stage' = [stage EXCEPT ![p] = "idle"]
    /\ UNCHANGED <<likes, entry, liker, held, ever, sawOut>>

-----------------------------------------------------------------------------
(* memcached, external.                                                    *)

ApplyCommand(p) ==
    /\ out[p].op # "none"
    /\ entry' = IF out[p].op = "set" THEN {out[p].val} ELSE {}
    /\ out' = [out EXCEPT ![p] = NoCommand]
    /\ UNCHANGED <<likes, stage, liker, held, verdict, ever, sawOut>>

LoseCommand(p) ==
    /\ ~Reliable
    /\ out[p].op # "none"
    /\ out' = [out EXCEPT ![p] = NoCommand]
    /\ UNCHANGED <<likes, entry, stage, liker, held, verdict, ever, sawOut>>

Evict ==
    /\ entry # {}
    /\ entry' = {}
    /\ UNCHANGED <<likes, stage, liker, held, out, verdict, ever, sawOut>>

LikesNext ==
    \/ \E p \in Requests :
        \/ \E u \in Likers, op \in {"like", "unlike", "get"} : Start(p, u, op)
        \/ addLikeToReview(p) \/ removeLikeFromReview(p) \/ uncache(p)
        \/ isLikedHit(p) \/ isLikedMiss(p) \/ isLikedQuery(p) \/ isLikedFill(p)
        \/ ApplyCommand(p) \/ LoseCommand(p)
    \/ Evict

LikesSpec == LikesInit /\ [][LikesNext]_likesVars

-----------------------------------------------------------------------------

\* What the cache may be wrong about, it is wrong about in one direction:
\* "yes" is only ever told to a user who has liked the review, however the
\* answers of different users mix under one key (datastore.ts, isLiked).
YesOnlyToLikers ==
    \A p \in Requests : verdict[p] = "yes" => liker[p] \in ever

\* "Returns whether a user likes a specific review": a user who likes the
\* review during the whole of the request is not told "no"
\* (review.controller.ts, getReviewLike).
LikersToldYes ==
    \A p \in Requests : verdict[p] = "no" => sawOut[p]

\* Inductive form of YesOnlyToLikers: every array that is cached, held or on
\* its way to memcached names users who have liked the review.
LikesInv ==
    /\ likes \subseteq ever
    /\ \A array \in entry : array \subseteq ever
    /\ \A p \in Requests : held[p] \subseteq ever /\ out[p].val \subseteq ever
    /\ YesOnlyToLikers

=============================================================================
