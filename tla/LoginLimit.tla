----------------------------- MODULE LoginLimit -----------------------------
(***************************************************************************)
(* The counter of login attempts of one address (LoginRateLimit in         *)
(* beatstream/internal/middleware/ratelimit.go): INCR, and EXPIRE by the    *)
(* request that saw the count 1, as two calls to Redis.  The client        *)
(* library repeats a call whose answer it did not get, so either may be    *)
(* executed more than once.                                                *)
(*                                                                         *)
(* Time is kept relative, so that it need not be bounded: what the key has *)
(* left to live, and how long ago each of the last attempts was let        *)
(* through.  With Redis unavailable every attempt is let through (line     *)
(* 72); such attempts leave no trace in the counter and are left out.      *)
(***************************************************************************)
EXTENDS Naturals, Sequences

CONSTANTS
    Attempts,      \* requests that may be in flight at the same time
    MaxAttempts,   \* maxAttempts
    Window,        \* windowSecs, in ticks
    MaxSends,      \* how often the client library sends a command
    MaxDropped,    \* bound: lost EXPIREs
    MaxOver        \* bound: denials counted on top of MaxAttempts

ASSUME LoginAssumption ==
    /\ MaxAttempts \in Nat \ {0} /\ Window \in Nat \ {0}
    /\ MaxSends \in Nat \ {0} /\ MaxDropped \in Nat /\ MaxOver \in Nat

VARIABLES
    count,     \* the key; 0 when it does not exist
    ttl,       \* what it has left to live; 0 for no expiry
    expiring,  \* per attempt that saw 1, how often it may still send EXPIRE
    recent,    \* the ages of the attempts let through, the oldest first
    dropped    \* how often the expiry of a new key was never set

loginVars == <<count, ttl, expiring, recent, dropped>>

LoginTypeOK ==
    /\ count \in Nat /\ ttl \in 0 .. Window
    /\ expiring \in [Attempts -> 0 .. MaxSends]
    /\ recent \in Seq(0 .. Window - 1) /\ dropped \in Nat

LoginInit ==
    /\ count = 0 /\ ttl = 0 /\ recent = <<>> /\ dropped = 0
    /\ expiring = [a \in Attempts |-> 0]

\* The answer to an attempt that was given the count n.
Decide(n) == recent' = IF n > MaxAttempts THEN recent ELSE Append(recent, 0)

\* Mutant: the expiry is set by the attempt that reaches the limit, which a
\* repeated INCR can step over.
SetsExpiryAtLimit(n) == n = MaxAttempts

SetsExpiry(n) == n = 1

Incr(a) ==
    LET n == count + 1 IN
    /\ expiring[a] = 0
    /\ n <= MaxAttempts + MaxOver
    /\ count' = n
    /\ Decide(n)
    /\ expiring' = [expiring EXCEPT ![a] = IF SetsExpiry(n) THEN MaxSends ELSE 0]
    /\ UNCHANGED <<ttl, dropped>>

\* The client library repeats a command whose answer it did not get: the
\* counter moves twice, and nobody sees the first value.
IncrTwice(a) ==
    LET n == count + 2 IN
    /\ expiring[a] = 0
    /\ n <= MaxAttempts + MaxOver
    /\ count = 0 => dropped < MaxDropped
    /\ count' = n
    /\ Decide(n)
    /\ expiring' = [expiring EXCEPT ![a] = IF SetsExpiry(n) THEN MaxSends ELSE 0]
    /\ dropped' = IF count = 0 THEN dropped + 1 ELSE dropped
    /\ UNCHANGED ttl

\* The answer arrives, or the command may be sent again.
Sent(a) == \E left \in {0, expiring[a] - 1} : expiring' = [expiring EXCEPT ![a] = left]

\* Mutant: the expiry is a part of the window only.
ExpireShortly(a) ==
    /\ expiring[a] > 0
    /\ ttl' = IF count = 0 THEN 0 ELSE 1
    /\ Sent(a)
    /\ UNCHANGED <<count, recent, dropped>>

\* EXPIRE is executed, for the first time or again: whatever key is there gets
\* the full window.
Expire(a) ==
    /\ expiring[a] > 0
    /\ ttl' = IF count = 0 THEN 0 ELSE Window
    /\ Sent(a)
    /\ UNCHANGED <<count, recent, dropped>>

\* The process ends before EXPIRE, or EXPIRE fails and its error is dropped.
ExpireLost(a) ==
    /\ expiring[a] = MaxSends /\ dropped < MaxDropped
    /\ expiring' = [expiring EXCEPT ![a] = 0]
    /\ dropped' = dropped + 1
    /\ UNCHANGED <<count, ttl, recent>>

\* Time passes: the key of a full window goes, and the attempts that are as old
\* as a window are forgotten; they are the first ones.
WindowTick ==
    /\ ttl' = IF ttl = 0 THEN 0 ELSE ttl - 1
    /\ count' = IF ttl = 1 THEN 0 ELSE count
    /\ \E old \in 0 .. Len(recent) :
          /\ \A i \in DOMAIN recent : i <= old <=> recent[i] + 1 = Window
          /\ recent' = [i \in 1 .. Len(recent) - old |-> recent[old + i] + 1]
    /\ UNCHANGED <<expiring, dropped>>

LoginNext ==
    \/ WindowTick
    \/ \E a \in Attempts : Incr(a) \/ IncrTwice(a) \/ Expire(a) \/ ExpireLost(a)

LoginFairness ==
    /\ WF_loginVars(WindowTick)
    /\ \A a \in Attempts : WF_loginVars(Expire(a))

LoginSpec == LoginInit /\ [][LoginNext]_loginVars /\ LoginFairness

----------------------------------------------------------------------------

\* No window of fifteen minutes, wherever it starts, lets through more than
\* twice maxAttempts: the window is fixed at the first attempt, and an interval
\* of its length meets two lives of the key at most (ratelimit.go:75-78).
AtMostTwice == Len(recent) <= 2 * MaxAttempts

\* The inductive invariant behind it.  Some of the attempts (earlier) belong to
\* the key before; when the key of the others has its expiry, they are so old
\* that they are forgotten before it goes, also when a repeated EXPIRE has set
\* that expiry anew.
LoginInv ==
    /\ \A i, j \in DOMAIN recent : i < j => recent[i] >= recent[j]
    /\ ttl > 0 => count > 0
    /\ \E earlier \in 0 .. Len(recent) :
          /\ earlier <= MaxAttempts
          /\ Len(recent) - earlier <= MaxAttempts
          /\ Len(recent) - earlier <= count
          /\ ttl > 0 => \A i \in 1 .. earlier : recent[i] + ttl >= Window

\* A counter without an expiry is about to get one from a request that saw 1, or
\* an EXPIRE was lost: there is no other way to be locked out for good.
CounterExpires ==
    count > 0 /\ ttl = 0 => (\E a \in Attempts : expiring[a] > 0) \/ dropped > 0

\* An address that is locked out is let in again, unless the one EXPIRE that
\* the code makes for a key was lost (ratelimit.go:77).
LockoutEnds == count > MaxAttempts ~> count <= MaxAttempts \/ dropped > 0
=============================================================================
