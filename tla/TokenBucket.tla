---------------------------- MODULE TokenBucket ----------------------------
(***************************************************************************)
(* The token bucket of one address, twice: the Lua script of the stream    *)
(* limit (StreamRateLimit, beatstream/internal/middleware/ratelimit.go),   *)
(* which several API instances run with the time of their own clocks, and  *)
(* the script of interview-prep/rate-limiter/main.go, which the other one  *)
(* was made from.  Both get the same requests.                             *)
(*                                                                         *)
(* Tokens come back in fractions: they are counted in parts, of which one  *)
(* comes back per tick and a request takes Cost, so that                   *)
(* `max_tokens / refill_rate` is Capacity ticks.  A script runs as a whole *)
(* in Redis; the time it is given was read by the caller, and may be       *)
(* behind the time at which it runs by up to MaxLag (a slow call, or the   *)
(* clock of that instance): times given to the script can go backward.     *)
(*                                                                         *)
(* Only what a script decides is modelled.  A request with X-User-ID and   *)
(* one that gets no answer from Redis are let through by the middleware    *)
(* without it (lines 113-117 and 131-136) and are not counted here; a      *)
(* script that the client library repeats is two requests here, one of     *)
(* them without an answer.                                                 *)
(***************************************************************************)
EXTENDS Integers

CONSTANTS
    Capacity,    \* max_tokens, in parts
    Cost,        \* the parts of one token, which a request takes
    MaxLag,      \* how far the time given to a script may lie back
    MaxTime,     \* bound: the last tick
    MaxBack,     \* bound: by how much, in sum, times may go backward
    MaxLost      \* bound: how often Redis may lose the keys

ASSUME BucketAssumption ==
    /\ Capacity \in Nat /\ Cost \in 1 .. Capacity
    /\ MaxLag \in 0 .. Capacity
    /\ MaxTime \in Nat /\ MaxBack \in Nat /\ MaxLost \in Nat

VARIABLES
    now,      \* the time in Redis
    shared,   \* the key of the stream limit
    lone,     \* the key of the stand-alone limiter
    spent,    \* what each script has let through, in parts
    lost,     \* how often Redis came back without its keys
    back      \* by how much, in sum, the times given to the script went back

bucketVars == <<now, shared, lone, spent, lost, back>>

TTL == 2 * Capacity

\* The key of a client that was not seen for a while.
Absent == [tokens |-> Capacity, last_refill |-> -1, expires |-> 0]

LesserOf(a, b) == IF a < b THEN a ELSE b
GreaterOf(a, b) == IF a < b THEN b ELSE a

BucketTypeOK ==
    /\ now \in Nat /\ lost \in Nat /\ back \in Nat
    /\ spent \in [{"shared", "lone"} -> Nat]
    /\ \A key \in {shared, lone} :
        /\ key.last_refill \in Int /\ key.expires \in Nat
        /\ key.tokens \in Int /\ key.tokens <= Capacity

BucketInit ==
    /\ now = MaxLag
    /\ shared = Absent /\ lone = Absent
    /\ spent = [s \in {"shared", "lone"} |-> 0]
    /\ lost = 0 /\ back = 0

\* What HMGET finds: an expired key is gone.
Found(key) == IF now < key.expires THEN key ELSE Absent

LastRefill(key, stamp) ==
    IF key.last_refill = -1 THEN stamp ELSE key.last_refill

\* The stream limit never takes tokens away for a time that lies back ...
Refilled(key, stamp) ==
    LesserOf(Capacity,
             key.tokens + GreaterOf(0, stamp - LastRefill(key, stamp)))

\* ... the stand-alone script does.
LoneRefilled(key, stamp) ==
    LesserOf(Capacity, key.tokens + (stamp - LastRefill(key, stamp)))

\* Mutant: a request that is let through is counted from the old time on.
StoredOldTime(key, tokens, stamp) ==
    [tokens |-> tokens,
     last_refill |-> LastRefill(key, stamp), expires |-> now + TTL]

Stored(key, tokens, stamp) ==
    [tokens |-> tokens, last_refill |-> stamp, expires |-> now + TTL]

LoneStored(key, tokens, stamp) ==
    [tokens |-> tokens, last_refill |-> stamp, expires |-> now + TTL]

\* Mutant: a denial drops the fraction of a token that has come back.
LeftWhenDenied(tokens) == IF tokens >= Cost THEN tokens - Cost ELSE 0

\* A denial keeps what has come back, with the new time.
Left(tokens) == IF tokens >= Cost THEN tokens - Cost ELSE tokens

Spend(s, granted) == IF granted THEN spent[s] + Cost ELSE spent[s]

\* A request with the time `stamp`.  The stream limit also writes when it
\* denies; the stand-alone script returns before it writes.
Ask(stamp) ==
    LET key == Found(shared)
        tokens == Refilled(key, stamp)
        loneKey == Found(lone)
        loneTokens == LoneRefilled(loneKey, stamp)
    IN  /\ shared' = Stored(key, Left(tokens), stamp)
        /\ lone' = IF loneTokens < Cost THEN lone
                   ELSE LoneStored(loneKey, loneTokens - Cost, stamp)
        /\ spent' = [shared |-> Spend("shared", tokens >= Cost),
                     lone |-> Spend("lone", loneTokens >= Cost)]
        /\ back' = back + GreaterOf(0, LastRefill(key, stamp) - stamp)
        /\ back' <= MaxBack
        /\ UNCHANGED <<now, lost>>

\* Redis restarts without its keys, or evicts them: a full bucket again.
LoseKeys ==
    /\ lost < MaxLost
    /\ shared' = Absent /\ lone' = Absent
    /\ lost' = lost + 1
    /\ UNCHANGED <<now, spent, back>>

BucketTick ==
    /\ now < MaxTime
    /\ now' = now + 1
    /\ UNCHANGED <<shared, lone, spent, lost, back>>

BucketNext ==
    \/ \E lag \in 0 .. MaxLag : Ask(now - lag)
    \/ LoseKeys
    \/ BucketTick

BucketSpec == BucketInit /\ [][BucketNext]_bucketVars

----------------------------------------------------------------------------

\* What a client can get by `now`: a full bucket, what came back since, and for
\* every loss of the keys a full bucket once more, with a time that lies back.
Credit == Capacity + now + lost * (Capacity + MaxLag)

\* However the requests come and whatever the clocks of the instances say, no
\* more are let through than the bucket held, was refilled with, and was
\* credited twice because a time went back: last_refill is set back as well,
\* although the elapsed time was clamped (ratelimit.go:33-37).
SharedBounded == spent["shared"] <= Credit + back

\* The stand-alone script takes tokens away when a time goes back, and needs no
\* such allowance (main.go:30-31).
LoneBounded == spent["lone"] <= Credit

\* With times that never go back the two scripts let the same requests through,
\* although one writes the fraction it refilled, the new time and the expiry on a
\* denial too and the other goes on counting from the last request it granted
\* (ratelimit.go:41, main.go:33-36).
ScriptsAgree == back = 0 => spent["shared"] = spent["lone"]
=============================================================================
