------------------------------ MODULE Timeline ------------------------------
(***************************************************************************)
(* The timelines of interview-prep/twitter-timeline: a post is pushed to    *)
(* the list of every follower, which is cut to its newest Cap entries.     *)
(* Every method holds the store's mutex, so each is one step.              *)
(***************************************************************************)
EXTENDS Naturals, Sequences, FiniteSets
LOCAL INSTANCE FiniteSetsExt

CONSTANTS
    Users,
    Cap,         \* 200 in the code
    MaxTweets,   \* bound: posts
    MaxFollows   \* bound: calls to Follow

ASSUME TimelineAssumption == Cap \in Nat \ {0}

VARIABLES
    followers,  \* author -> the users who followed, in the order of the calls
    timelines,  \* user -> tweet ids, newest first
    tweets      \* every tweet, with how often each user followed its author

timelineVars == <<followers, timelines, tweets>>

TimelineTypeOK ==
    /\ followers \in [Users -> Seq(Users)]
    /\ timelines \in [Users -> Seq(Nat)]
    /\ tweets \in Seq([id : Nat, audience : [Users -> Nat]])

TimelineInit ==
    /\ followers = [a \in Users |-> <<>>]
    /\ timelines = [u \in Users |-> <<>>]
    /\ tweets = <<>>

Calls(u, a) == Cardinality({i \in DOMAIN followers[a] : followers[a][i] = u})

\* Nothing looks whether the follower is already there.
Follow(u, a) ==
    /\ MapThenSumSet(LAMBDA x : Len(followers[x]), Users) < MaxFollows
    /\ followers' = [followers EXCEPT ![a] = Append(@, u)]
    /\ UNCHANGED <<timelines, tweets>>

\* Mutant: the cut keeps the old end of the list.
PrependCutFront(ids, id) ==
    LET all == <<id>> \o ids IN
    IF Len(all) > Cap THEN Tail(all) ELSE all

Prepend(ids, id) ==
    LET all == <<id>> \o ids IN
    IF Len(all) > Cap THEN SubSeq(all, 1, Cap) ELSE all

\* The loop over the followers: the timelines once the first i of them have
\* the tweet.
Pushes(a, id) ==
    LET pushed[i \in 0 .. Len(followers[a])] ==
            IF i = 0 THEN timelines
            ELSE [pushed[i - 1] EXCEPT ![followers[a][i]] = Prepend(@, id)]
    IN  pushed

PostTweet(a) ==
    LET id == Len(tweets) + 1 IN
    /\ Len(tweets) < MaxTweets
    /\ tweets' = Append(tweets, [id |-> id,
                                 audience |-> [u \in Users |-> Calls(u, a)]])
    /\ timelines' = Pushes(a, id)[Len(followers[a])]
    /\ UNCHANGED followers

TimelineNext == \E a \in Users : PostTweet(a) \/ \E u \in Users : Follow(u, a)

TimelineSpec == TimelineInit /\ [][TimelineNext]_timelineVars

----------------------------------------------------------------------------

\* Every timeline is the newest Cap of the posts delivered to its reader: the
\* cut at every push never drops one that belongs there, also when the list is
\* full, when a user follows in between, and when a user follows twice and so
\* gets every later post twice (main.go:37-41, 45-58, 79-85).
InFull ==
    INSTANCE Deliveries WITH
        following <- [u \in Users |-> [a \in Users |-> Calls(u, a)]],
        posts <- tweets,
        feed <- timelines

ShowsDeliveries == InFull!Spec
=============================================================================
