----------------------------- MODULE Deliveries -----------------------------
(***************************************************************************)
(* What PostTweet promises the reader of a timeline                        *)
(* (interview-prep/twitter-timeline/main.go:43-58): the newest Cap of all   *)
(* posts delivered to the reader, a post being delivered to those who       *)
(* follow its author when it is made, once for every call of theirs to      *)
(* Follow.  Here every delivery is kept and the feed is computed from them  *)
(* at once: no list is cut and nothing is pushed one follower at a time.   *)
(* It is not a merge on read: who follows later sees no earlier post.      *)
(***************************************************************************)
EXTENDS Naturals, Sequences

CONSTANTS Users, Cap
VARIABLES
    following,  \* how often u has followed a: following[u][a]
    posts,      \* every post, with how often it is delivered to each user
    feed        \* what each user is shown

vars == <<following, posts, feed>>

Copies(post, u) == [i \in 1 .. post.audience[u] |-> post.id]

\* What the first i of the posts delivered to u, newest first.
Collects(ps, u) ==
    LET collected[i \in 0 .. Len(ps)] ==
            IF i = 0 THEN <<>> ELSE Copies(ps[i], u) \o collected[i - 1]
    IN  collected

Collected(ps, u) == Collects(ps, u)[Len(ps)]

Newest(ids) == SubSeq(ids, 1, IF Len(ids) < Cap THEN Len(ids) ELSE Cap)

Init ==
    /\ following = [u \in Users |-> [a \in Users |-> 0]]
    /\ posts = <<>>
    /\ feed = [u \in Users |-> <<>>]

Follow(u, a) ==
    /\ following' = [following EXCEPT ![u][a] = @ + 1]
    /\ UNCHANGED <<posts, feed>>

Post(a) ==
    /\ posts' = Append(posts, [id |-> Len(posts) + 1,
                               audience |-> [u \in Users |-> following[u][a]]])
    /\ feed' = [u \in Users |-> Newest(Collected(posts', u))]
    /\ UNCHANGED following

Next == \E a \in Users : Post(a) \/ \E u \in Users : Follow(u, a)

Spec == Init /\ [][Next]_vars
=============================================================================
