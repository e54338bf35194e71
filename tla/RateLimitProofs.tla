-------------------------- MODULE RateLimitProofs --------------------------
(***************************************************************************)
(* Proofs about the rate limiters.  TokenBucket: what each of the two      *)
(* scripts lets through is bounded, and they agree where times do not go   *)
(* back, for every capacity, every lag up to it, and any number of         *)
(* requests and losses.  LoginLimit: no window lets through more than      *)
(* twice the limit, for every limit and window.                            *)
(***************************************************************************)
EXTENDS TokenBucket, LoginLimit, WellFoundedInduction, TLAPS

\* What the losses of the keys are worth.
Losses == lost * (Capacity + MaxLag)

\* A key that was written: not before its last_refill, and it stays for TTL.
Written(key) ==
    /\ key.last_refill \in Nat /\ key.last_refill <= now
    /\ key.tokens \in 0 .. Capacity
    /\ key.expires \in Nat /\ key.expires >= key.last_refill + TTL

\* Tokens are conserved: what was let through and what is in the bucket was
\* there at first, came back until last_refill, or is an allowance.
Conserves(key, taken, allowed) ==
    \/ key = Absent /\ taken + MaxLag <= now + Losses + allowed
    \/ /\ Written(key)
       /\ taken + key.tokens <= Capacity + key.last_refill + Losses + allowed

\* The two keys stand for the same bucket: the shared one was written at every
\* request, the lone one when tokens were taken last.
SameBucket ==
    \/ shared = Absent /\ lone = Absent
    \/ /\ Written(shared) /\ Written(lone)
       /\ lone.last_refill <= shared.last_refill
       /\ shared.tokens =
            LesserOf(Capacity, lone.tokens + (shared.last_refill - lone.last_refill))

\* The inductive invariant.
BucketInv ==
    /\ now \in Nat /\ now >= MaxLag /\ lost \in Nat /\ back \in Nat
    /\ spent \in [{"shared", "lone"} -> Nat]
    /\ Conserves(shared, spent["shared"], back)
    /\ Conserves(lone, spent["lone"], 0)
    /\ back = 0 => SameBucket /\ spent["shared"] = spent["lone"]

----------------------------------------------------------------------------

LEMMA LossesNat == ASSUME lost \in Nat PROVE Losses \in Nat
  BY BucketAssumption DEF Losses

LEMMA AbsentFields ==
  Absent.tokens = Capacity /\ Absent.last_refill = -1 /\ Absent.expires = 0
  BY DEF Absent

LEMMA WrittenNotAbsent ==
  ASSUME NEW key, Written(key)
  PROVE  key # Absent /\ key.last_refill # -1
  BY AbsentFields DEF Written

LEMMA BucketInitially == BucketInit => BucketInv
<1> SUFFICES ASSUME BucketInit PROVE BucketInv
  OBVIOUS
<1>1. Losses = 0
  BY BucketAssumption DEF BucketInit, Losses
<1>2. QED
  BY <1>1, BucketAssumption DEF BucketInit, BucketInv, Conserves, SameBucket

\* A key that has expired was written so long ago that its bucket is full.
LEMMA TokensFound ==
  ASSUME BucketInv, NEW key, Written(key), NEW stamp \in Nat,
         stamp + MaxLag >= now, stamp <= now
  PROVE  \/ Found(key) = key
         \/ /\ Found(key) = Absent
            /\ key.last_refill + Capacity <= stamp
            /\ LesserOf(Capacity, key.tokens + (stamp - key.last_refill)) = Capacity
  BY BucketAssumption DEF Found, Written, BucketInv, LesserOf, TTL

\* What the scripts compute for a key that is there, or a full bucket.
LEMMA RefilledTokens ==
  ASSUME NEW key, key = Absent \/ Written(key), NEW stamp \in Nat
  PROVE  /\ key = Absent => /\ Refilled(key, stamp) = Capacity
                            /\ LoneRefilled(key, stamp) = Capacity
                            /\ LastRefill(key, stamp) = stamp
         /\ Written(key) =>
              /\ LastRefill(key, stamp) = key.last_refill
              /\ Refilled(key, stamp) \in 0 .. Capacity
              /\ Refilled(key, stamp)
                   <= key.tokens + GreaterOf(0, stamp - key.last_refill)
              /\ stamp >= key.last_refill => Refilled(key, stamp) = LoneRefilled(key, stamp)
              /\ LoneRefilled(key, stamp)
                   = LesserOf(Capacity, key.tokens + (stamp - key.last_refill))
<1>1. CASE key = Absent
  <2>1. key # Absent \/ ~Written(key)
    BY WrittenNotAbsent
  <2>2. QED
    BY <1>1, <2>1, AbsentFields, BucketAssumption
    DEF Refilled, LoneRefilled, LastRefill, LesserOf, GreaterOf
<1>2. CASE Written(key)
  BY <1>2, WrittenNotAbsent, BucketAssumption
  DEF Refilled, LoneRefilled, LastRefill, LesserOf, GreaterOf, Written
<1>3. QED
  BY <1>1, <1>2

----------------------------------------------------------------------------

\* A request at the stream limit: what is let through comes out of the bucket,
\* and a time that lies back gives back what it was short of.
LEMMA SharedAsk ==
  ASSUME BucketInv, NEW stamp \in Nat, stamp + MaxLag >= now, stamp <= now, Ask(stamp)
  PROVE  Conserves(shared, spent["shared"], back)' /\ back' \in Nat
<1> DEFINE key == Found(shared)
           tokens == Refilled(key, stamp)
<1> USE BucketAssumption, LossesNat
<1>1. /\ shared' = Stored(key, Left(tokens), stamp)
      /\ spent'["shared"] = Spend("shared", tokens >= Cost)
      /\ back' = back + GreaterOf(0, LastRefill(key, stamp) - stamp)
      /\ now' = now /\ lost' = lost
  BY DEF Ask
<1>2. /\ now \in Nat /\ lost \in Nat /\ back \in Nat /\ spent["shared"] \in Nat
      /\ Losses \in Nat /\ Losses' = Losses
  BY <1>1 DEF BucketInv, Losses
<1>3. /\ tokens \in 0 .. Capacity /\ back' \in Nat
      /\ spent["shared"] + tokens <= Capacity + stamp + Losses + back'
  <2>1. CASE shared = Absent
    <3>1. key = Absent
      BY <2>1 DEF Found
    <3>2. tokens = Capacity /\ LastRefill(key, stamp) = stamp
      BY <3>1, RefilledTokens
    <3>3. back' = back
      BY <1>1, <1>2, <3>2 DEF GreaterOf
    <3>4. spent["shared"] + MaxLag <= now + Losses + back
      BY <2>1, WrittenNotAbsent DEF BucketInv, Conserves
    <3>5. QED
      BY <1>2, <3>2, <3>3, <3>4
  <2>2. CASE Written(shared) /\ key = shared
    <3>1. /\ LastRefill(key, stamp) = shared.last_refill
          /\ tokens \in 0 .. Capacity
          /\ tokens <= shared.tokens + GreaterOf(0, stamp - shared.last_refill)
      BY <2>2, RefilledTokens
    <3>2. /\ spent["shared"] + shared.tokens
               <= Capacity + shared.last_refill + Losses + back
          /\ shared.tokens \in Nat /\ shared.last_refill \in Nat
      BY <2>2, WrittenNotAbsent DEF BucketInv, Conserves, Written
    <3>3. back' = back + GreaterOf(0, shared.last_refill - stamp)
      BY <1>1, <3>1
    <3> HIDE DEF key, tokens
    <3>4. QED
      BY <1>2, <3>1, <3>2, <3>3 DEF GreaterOf
  <2>3. CASE Written(shared) /\ key # shared
    <3>1. key = Absent /\ shared.last_refill + Capacity <= stamp
      BY <2>3, TokensFound
    <3>2. tokens = Capacity /\ LastRefill(key, stamp) = stamp
      BY <3>1, RefilledTokens
    <3>3. back' = back
      BY <1>1, <1>2, <3>2 DEF GreaterOf
    <3>4. /\ spent["shared"] + shared.tokens
               <= Capacity + shared.last_refill + Losses + back
          /\ shared.tokens \in Nat /\ shared.last_refill \in Nat
      BY <2>3, WrittenNotAbsent DEF BucketInv, Conserves, Written
    <3>5. QED
      BY <1>2, <3>1, <3>2, <3>3, <3>4
  <2>4. QED
    BY <2>1, <2>2, <2>3 DEF BucketInv, Conserves
<1> HIDE DEF key, tokens
<1>4. /\ shared'.tokens = IF tokens >= Cost THEN tokens - Cost ELSE tokens
      /\ shared'.last_refill = stamp /\ shared'.expires = now + TTL
      /\ spent'["shared"] = IF tokens >= Cost THEN spent["shared"] + Cost ELSE spent["shared"]
  BY <1>1 DEF Stored, Spend, Left
<1>5. Written(shared)'
  BY <1>1, <1>2, <1>3, <1>4 DEF Written, TTL
<1>6. spent'["shared"] + shared'.tokens
        <= Capacity + shared'.last_refill + Losses' + back'
  BY <1>2, <1>3, <1>4
<1>7. QED
  BY <1>3, <1>5, <1>6 DEF Conserves

\* The same for the stand-alone script, which takes back what a time is short of.
LEMMA LoneAsk ==
  ASSUME BucketInv, NEW stamp \in Nat, stamp + MaxLag >= now, stamp <= now, Ask(stamp)
  PROVE  Conserves(lone, spent["lone"], 0)'
<1> DEFINE key == Found(lone)
           tokens == LoneRefilled(key, stamp)
<1> USE BucketAssumption, LossesNat
<1>1. /\ lone' = IF tokens < Cost THEN lone ELSE LoneStored(key, tokens - Cost, stamp)
      /\ spent'["lone"] = Spend("lone", tokens >= Cost)
      /\ now' = now /\ lost' = lost
  BY DEF Ask
<1>2. /\ now \in Nat /\ lost \in Nat /\ spent["lone"] \in Nat
      /\ Losses \in Nat /\ Losses' = Losses
  BY <1>1 DEF BucketInv, Losses
<1>3. /\ tokens \in Int /\ tokens <= Capacity
      /\ spent["lone"] + tokens <= Capacity + stamp + Losses
  <2>1. CASE lone = Absent
    <3>1. key = Absent
      BY <2>1 DEF Found
    <3>2. tokens = Capacity
      BY <3>1, RefilledTokens
    <3>3. spent["lone"] + MaxLag <= now + Losses
      BY <1>2, <2>1, WrittenNotAbsent DEF BucketInv, Conserves
    <3>4. QED
      BY <1>2, <3>2, <3>3
  <2>2. CASE Written(lone) /\ key = lone
    <3>1. tokens = LesserOf(Capacity, lone.tokens + (stamp - lone.last_refill))
      BY <2>2, RefilledTokens
    <3>2. /\ spent["lone"] + lone.tokens <= Capacity + lone.last_refill + Losses
          /\ lone.tokens \in Nat /\ lone.last_refill \in Nat
      BY <1>2, <2>2, WrittenNotAbsent DEF BucketInv, Conserves, Written
    <3> HIDE DEF key, tokens
    <3>3. QED
      BY <1>2, <3>1, <3>2 DEF LesserOf
  <2>3. CASE Written(lone) /\ key # lone
    <3>1. key = Absent /\ lone.last_refill + Capacity <= stamp
      BY <2>3, TokensFound
    <3>2. tokens = Capacity
      BY <3>1, RefilledTokens
    <3>3. /\ spent["lone"] + lone.tokens <= Capacity + lone.last_refill + Losses
          /\ lone.tokens \in Nat /\ lone.last_refill \in Nat
      BY <1>2, <2>3, WrittenNotAbsent DEF BucketInv, Conserves, Written
    <3>4. QED
      BY <1>2, <3>1, <3>2, <3>3
  <2>4. QED
    BY <2>1, <2>2, <2>3 DEF BucketInv, Conserves
<1> HIDE DEF key, tokens
<1>4. CASE tokens < Cost
  <2>1. lone' = lone /\ spent'["lone"] = spent["lone"]
    BY <1>1, <1>3, <1>4 DEF Spend
  <2>2. QED
    BY <1>1, <1>2, <2>1 DEF BucketInv, Conserves, Written
<1>5. CASE tokens >= Cost
  <2>1. /\ lone'.tokens = tokens - Cost /\ lone'.last_refill = stamp
        /\ lone'.expires = now + TTL /\ spent'["lone"] = spent["lone"] + Cost
    BY <1>1, <1>3, <1>5 DEF Spend, LoneStored
  <2>2. Written(lone)'
    BY <1>1, <1>2, <1>3, <1>5, <2>1 DEF Written, TTL
  <2>3. spent'["lone"] + lone'.tokens <= Capacity + lone'.last_refill + Losses' + 0
    BY <1>2, <1>3, <2>1
  <2>4. QED
    BY <2>2, <2>3 DEF Conserves
<1>6. QED
  BY <1>3, <1>4, <1>5

\* As long as no time has gone back, both scripts see the same bucket.
LEMMA BothAsk ==
  ASSUME BucketInv, NEW stamp \in Nat, stamp + MaxLag >= now, stamp <= now, Ask(stamp),
         back' = 0
  PROVE  SameBucket' /\ spent'["shared"] = spent'["lone"]
<1> DEFINE key == Found(shared)
           loneKey == Found(lone)
           tokens == Refilled(key, stamp)
           loneTokens == LoneRefilled(loneKey, stamp)
<1> USE BucketAssumption
<1>1. /\ shared' = Stored(key, Left(tokens), stamp)
      /\ lone' = IF loneTokens < Cost THEN lone
                 ELSE LoneStored(loneKey, loneTokens - Cost, stamp)
      /\ spent'["shared"] = Spend("shared", tokens >= Cost)
      /\ spent'["lone"] = Spend("lone", loneTokens >= Cost)
      /\ 0 = back + GreaterOf(0, LastRefill(key, stamp) - stamp)
      /\ now' = now
  BY DEF Ask
<1>2. now \in Nat /\ back \in Nat /\ spent["shared"] \in Nat
  BY DEF BucketInv
<1>3. back = 0 /\ LastRefill(key, stamp) <= stamp
  <2>1. LastRefill(key, stamp) \in Int
    BY AbsentFields DEF BucketInv, Conserves, Found, LastRefill, Written
  <2>2. QED
    BY <1>1, <1>2, <2>1 DEF GreaterOf
<1>4. SameBucket /\ spent["shared"] = spent["lone"]
  BY <1>3 DEF BucketInv
<1>5. /\ tokens \in 0 .. Capacity /\ loneTokens = tokens
      /\ tokens < Cost =>
           /\ Written(lone) /\ lone.last_refill <= stamp
           /\ tokens = LesserOf(Capacity, lone.tokens + (stamp - lone.last_refill))
  <2>1. CASE shared = Absent /\ lone = Absent
    <3>1. key = Absent /\ loneKey = Absent
      BY <2>1 DEF Found
    <3>2. QED
      BY <3>1, RefilledTokens
  <2>2. CASE /\ Written(shared) /\ Written(lone)
             /\ lone.last_refill <= shared.last_refill
             /\ shared.tokens = LesserOf(Capacity,
                  lone.tokens + (shared.last_refill - lone.last_refill))
    <3>1. /\ \/ key = shared
             \/ /\ key = Absent /\ shared.last_refill + Capacity <= stamp
          /\ \/ loneKey = lone
             \/ loneKey = Absent /\ lone.last_refill + Capacity <= stamp
      BY <2>2, TokensFound
    <3>2. shared.last_refill <= stamp
      <4>1. CASE key = shared
        BY <1>3, <2>2, <4>1, RefilledTokens
      <4>2. CASE key = Absent /\ shared.last_refill + Capacity <= stamp
        BY <2>2, <4>2 DEF Written
      <4>3. QED
        BY <3>1, <4>1, <4>2
    <3>3. tokens = LesserOf(Capacity, shared.tokens + (stamp - shared.last_refill))
      <4>1. CASE key = shared
        BY <2>2, <3>2, <4>1, RefilledTokens
      <4>2. CASE key = Absent /\ shared.last_refill + Capacity <= stamp
        <5>1. tokens = Capacity
          BY <4>2, RefilledTokens
        <5>2. QED
          BY <2>2, <4>2, <5>1 DEF LesserOf, Written
      <4>3. QED
        BY <3>1, <4>1, <4>2
    <3>4. loneTokens = LesserOf(Capacity, lone.tokens + (stamp - lone.last_refill))
      <4>1. CASE loneKey = lone
        BY <2>2, <4>1, RefilledTokens
      <4>2. CASE loneKey = Absent /\ lone.last_refill + Capacity <= stamp
        <5>1. loneTokens = Capacity
          BY <4>2, RefilledTokens
        <5>2. QED
          BY <2>2, <4>2, <5>1 DEF LesserOf, Written
      <4>3. QED
        BY <3>1, <4>1, <4>2
    <3> HIDE DEF key, loneKey, tokens, loneTokens
    <3>5. /\ tokens \in 0 .. Capacity /\ loneTokens = tokens
          /\ lone.last_refill <= stamp
      BY <2>2, <3>2, <3>3, <3>4 DEF LesserOf, Written
    <3>6. QED
      BY <2>2, <3>4, <3>5
  <2>3. QED
    BY <1>4, <2>1, <2>2 DEF SameBucket
<1> HIDE DEF key, loneKey, tokens, loneTokens
<1>6. /\ shared'.tokens = IF tokens >= Cost THEN tokens - Cost ELSE tokens
      /\ shared'.last_refill = stamp /\ shared'.expires = now + TTL
  BY <1>1 DEF Stored, Left
<1>7. Written(shared)'
  BY <1>1, <1>2, <1>5, <1>6 DEF Written, TTL
<1>8. spent'["shared"] = spent'["lone"]
  BY <1>1, <1>4, <1>5 DEF Spend
<1>9. CASE tokens < Cost
  <2>1. lone' = lone
    BY <1>1, <1>5, <1>9
  <2>2. Written(lone)' /\ lone'.last_refill <= stamp
    BY <1>1, <1>5, <1>9, <2>1 DEF Written
  <2>3. shared'.tokens = LesserOf(Capacity, lone'.tokens + (stamp - lone'.last_refill))
    BY <1>5, <1>6, <1>9, <2>1
  <2>4. QED
    BY <1>6, <1>7, <1>8, <2>2, <2>3 DEF SameBucket
<1>10. CASE tokens >= Cost
  <2>1. /\ lone'.tokens = tokens - Cost /\ lone'.last_refill = stamp
        /\ lone'.expires = now + TTL
    BY <1>1, <1>5, <1>10 DEF LoneStored
  <2>2. Written(lone)'
    BY <1>1, <1>2, <1>5, <1>10, <2>1 DEF Written, TTL
  <2>3. shared'.tokens = LesserOf(Capacity, lone'.tokens + (stamp - lone'.last_refill))
    BY <1>5, <1>6, <1>10, <2>1 DEF LesserOf
  <2>4. QED
    BY <1>6, <1>7, <1>8, <2>1, <2>2, <2>3 DEF SameBucket
<1>11. QED
  BY <1>5, <1>9, <1>10

----------------------------------------------------------------------------

LEMMA BucketStep == BucketInv /\ [BucketNext]_bucketVars => BucketInv'
<1> SUFFICES ASSUME BucketInv, [BucketNext]_bucketVars
             PROVE  BucketInv'
  OBVIOUS
<1> USE BucketAssumption
<1>1. ASSUME NEW lag \in 0 .. MaxLag, Ask(now - lag)
      PROVE  BucketInv'
  <2>1. /\ now - lag \in Nat /\ (now - lag) + MaxLag >= now /\ now - lag <= now
    BY DEF BucketInv
  <2>2. Conserves(shared, spent["shared"], back)' /\ back' \in Nat
    BY <1>1, <2>1, SharedAsk
  <2>3. Conserves(lone, spent["lone"], 0)'
    BY <1>1, <2>1, LoneAsk
  <2>4. back' = 0 => SameBucket' /\ spent'["shared"] = spent'["lone"]
    BY <1>1, <2>1, BothAsk
  <2>5. /\ now' = now /\ lost' = lost
        /\ spent' \in [{"shared", "lone"} -> Nat]
    BY <1>1 DEF Ask, BucketInv, Spend
  <2>6. QED
    BY <2>2, <2>3, <2>4, <2>5 DEF BucketInv
<1>2. ASSUME LoseKeys
      PROVE  BucketInv'
  <2>1. /\ shared' = Absent /\ lone' = Absent /\ lost' = lost + 1
        /\ now' = now /\ spent' = spent /\ back' = back
    BY <1>2 DEF LoseKeys
  <2>2. Losses' = Losses + Capacity + MaxLag /\ Losses \in Nat
    BY <2>1, LossesNat DEF Losses, BucketInv
  <2>3. /\ spent["shared"] <= Capacity + now + Losses + back
        /\ spent["lone"] <= Capacity + now + Losses
    BY <2>2 DEF BucketInv, Conserves, Written
  <2>4. /\ spent["shared"] + MaxLag <= now + Losses' + back
        /\ spent["lone"] + MaxLag <= now + Losses' + 0
    BY <2>2, <2>3 DEF BucketInv
  <2>5. QED
    BY <2>1, <2>4 DEF BucketInv, Conserves, SameBucket
<1>3. ASSUME BucketTick
      PROVE  BucketInv'
  <2>1. /\ now' = now + 1 /\ Losses' = Losses
        /\ shared' = shared /\ lone' = lone /\ spent' = spent
        /\ lost' = lost /\ back' = back
    BY <1>3 DEF BucketTick, Losses
  <2>2. Losses \in Nat
    BY LossesNat DEF BucketInv
  <2>4. Conserves(shared, spent["shared"], back)'
    BY <2>1, <2>2 DEF Conserves, Written, BucketInv
  <2>5. Conserves(lone, spent["lone"], 0)'
    BY <2>1, <2>2 DEF Conserves, Written, BucketInv
  <2>6. SameBucket => SameBucket'
    BY <2>1 DEF SameBucket, Written, BucketInv
  <2>7. QED
    BY <2>1, <2>4, <2>5, <2>6 DEF BucketInv
<1>4. CASE UNCHANGED bucketVars
  BY <1>4 DEF bucketVars, BucketInv, Conserves, Written, Losses, SameBucket
<1>5. QED
  BY <1>1, <1>2, <1>3, <1>4 DEF BucketNext

LEMMA BucketInvariance == BucketSpec => []BucketInv
<1>1. QED
  BY BucketInitially, BucketStep, PTL DEF BucketSpec

LEMMA InvImpliesBounds ==
  BucketInv => SharedBounded /\ LoneBounded /\ ScriptsAgree
<1> SUFFICES ASSUME BucketInv
             PROVE  SharedBounded /\ LoneBounded /\ ScriptsAgree
  OBVIOUS
<1>1. Losses \in Nat
  BY LossesNat DEF BucketInv
<1>2. /\ spent["shared"] <= Capacity + now + Losses + back
      /\ spent["lone"] <= Capacity + now + Losses
  BY <1>1, BucketAssumption DEF BucketInv, Conserves, Written
<1>3. QED
  BY <1>2 DEF SharedBounded, LoneBounded, ScriptsAgree, Credit, Losses, BucketInv

\* The Lua script lets through what the bucket held, what came back, what a
\* loss of the keys gives, and what times that went back give twice.
THEOREM StreamLimitHolds == BucketSpec => []SharedBounded
<1>1. QED
  BY BucketInvariance, InvImpliesBounds, PTL

\* The stand-alone script needs no allowance for times that go back.
THEOREM LoneLimitHolds == BucketSpec => []LoneBounded
<1>1. QED
  BY BucketInvariance, InvImpliesBounds, PTL

\* With times that never go back, writing on a denial makes no difference.
THEOREM TheScriptsAgree == BucketSpec => []ScriptsAgree
<1>1. QED
  BY BucketInvariance, InvImpliesBounds, PTL

(***************************************************************************)
(* The counter of login attempts.                                          *)
(***************************************************************************)
LEMMA LeastNatural ==
  ASSUME NEW S, S \subseteq Nat, S # {}
  PROVE  \E m \in S : \A n \in S : m <= n
<1>1. IsWellFoundedOn(OpToRel(<, Nat), Nat)
  BY NatLessThanWellFounded DEF OpToRel
<1>2. PICK m \in S : \A n \in S : <<n, m>> \notin OpToRel(<, Nat)
  <2> DEFINE R == OpToRel(<, Nat)
  <2>1. IsWellFoundedOn(R, Nat)
    BY <1>1
  <2> HIDE DEF R
  <2>2. \E m \in S : \A n \in S : <<n, m>> \notin R
    BY <2>1, WFMin
  <2> QED
    BY <2>2 DEF R
<1>3. ASSUME NEW n \in S PROVE m <= n
  <2>1. m \in Nat /\ n \in Nat
    OBVIOUS
  <2>2. ~(n < m)
    BY <1>2, <2>1 DEF OpToRel
  <2> QED
    BY <2>1, <2>2
<1> QED
  BY <1>3

\* WindowTick never waits: the attempts it forgets are the first ones.
LEMMA TimeCanPass ==
  ASSUME LoginTypeOK, LoginInv
  PROVE  \E old \in 0 .. Len(recent) :
            \A i \in DOMAIN recent : i <= old <=> recent[i] + 1 = Window
<1> USE LoginAssumption DEF LoginTypeOK
<1>1. DOMAIN recent = 1 .. Len(recent) /\ Len(recent) \in Nat
  OBVIOUS
<1>2. \A i \in DOMAIN recent : recent[i] \in 0 .. Window - 1
  OBVIOUS
<1> DEFINE Young == {i \in DOMAIN recent : recent[i] + 1 # Window}
<1>3. CASE Young = {}
  <2>1. \A i \in DOMAIN recent : i <= Len(recent) <=> recent[i] + 1 = Window
    BY <1>1, <1>3
  <2>2. Len(recent) \in 0 .. Len(recent)
    BY <1>1
  <2> HIDE DEF LoginTypeOK
  <2> QED
    BY <2>1, <2>2
<1>4. CASE Young # {}
  <2>0. Young \subseteq Nat
    BY <1>1
  <2>1. PICK m \in Young : \A i \in Young : m <= i
    <3> HIDE DEF Young
    <3> QED
      BY <1>4, <2>0, LeastNatural
  <2>2. m \in 1 .. Len(recent) /\ recent[m] + 1 < Window
    <3>1. m \in 1 .. Len(recent) /\ recent[m] + 1 # Window
      BY <1>1
    <3>2. recent[m] \in 0 .. Window - 1
      BY <1>1, <1>2, <3>1
    <3> QED
      BY <3>1, <3>2
  <2>3. ASSUME NEW i \in DOMAIN recent
        PROVE  i <= m - 1 <=> recent[i] + 1 = Window
    <3>0. /\ i \in 1 .. Len(recent) /\ m \in 1 .. Len(recent)
          /\ recent[i] \in 0 .. Window - 1 /\ recent[m] \in 0 .. Window - 1
      BY <1>1, <1>2, <2>2
    <3>1. CASE i < m
      <4>1. i \notin Young
        BY <1>1, <2>1, <3>0, <3>1
      <4>2. recent[i] + 1 = Window
        BY <4>1
      <4> QED
        BY <3>0, <3>1, <4>2
    <3>2. CASE i >= m
      <4>1. i = m \/ recent[m] >= recent[i]
        BY <1>1, <3>0, <3>2 DEF LoginInv
      <4>2. recent[i] + 1 < Window
        BY <2>2, <3>0, <4>1
      <4> QED
        BY <3>0, <3>2, <4>2
    <3> QED
      BY <1>1, <2>2, <3>1, <3>2
  <2>4. m - 1 \in 0 .. Len(recent)
    BY <1>1, <2>2
  <2> QED
    BY <2>3, <2>4
<1> QED
  BY <1>3, <1>4

LEMMA LoginInitially == LoginInit => LoginTypeOK /\ LoginInv
<1> SUFFICES ASSUME LoginInit PROVE LoginTypeOK /\ LoginInv
  OBVIOUS
<1>1. LoginTypeOK
  BY LoginAssumption DEF LoginInit, LoginTypeOK
<1>2. Len(recent) = 0 /\ DOMAIN recent = {}
  BY DEF LoginInit
<1>3. \E earlier \in 0 .. Len(recent) :
        /\ earlier <= MaxAttempts
        /\ Len(recent) - earlier <= MaxAttempts
        /\ Len(recent) - earlier <= count
        /\ ttl > 0 => \A i \in 1 .. earlier : recent[i] + ttl >= Window
  BY <1>2, LoginAssumption DEF LoginInit
<1> QED
  BY <1>1, <1>2, <1>3 DEF LoginInit, LoginInv

\* An attempt: if it is let through, it is the youngest one, and one more of
\* those that belong to the key.
LEMMA AttemptKeeps ==
  ASSUME LoginTypeOK, LoginInv, NEW n \in {count + 1, count + 2},
         count' = n, Decide(n), ttl' = ttl, dropped' \in Nat,
         expiring' \in [Attempts -> 0 .. MaxSends]
  PROVE  LoginTypeOK' /\ LoginInv'
<1>1. /\ Len(recent) \in Nat /\ count \in Nat /\ ttl \in Nat /\ n \in Nat
      /\ DOMAIN recent = 1 .. Len(recent)
      /\ MaxAttempts \in Nat /\ Window \in Nat
  BY LoginAssumption DEF LoginTypeOK
<1>2. PICK earlier \in 0 .. Len(recent) :
        /\ earlier <= MaxAttempts
        /\ Len(recent) - earlier <= MaxAttempts
        /\ Len(recent) - earlier <= count
        /\ ttl > 0 => \A i \in 1 .. earlier : recent[i] + ttl >= Window
  BY DEF LoginInv
<1>3. \/ recent' = recent
      \/ n <= MaxAttempts /\ recent' = Append(recent, 0)
  <2>1. n > MaxAttempts \/ n <= MaxAttempts
    BY <1>1
  <2> QED
    BY <2>1 DEF Decide
<1>4. /\ recent' \in Seq(0 .. Window - 1)
      /\ Len(recent') \in {Len(recent), Len(recent) + 1}
      /\ Len(recent') = Len(recent) + 1 => n <= MaxAttempts /\ recent'[Len(recent')] = 0
      /\ \A i \in 1 .. Len(recent) : recent'[i] = recent[i]
  <2>1. CASE recent' = recent
    <3>1. recent' \in Seq(0 .. Window - 1)
      BY <2>1 DEF LoginTypeOK
    <3>2. Len(recent') = Len(recent) /\ Len(recent) # Len(recent) + 1
      <4>1. \A k \in Nat : k # k + 1
        OBVIOUS
      <4> QED
        BY <1>1, <2>1, <4>1
    <3> QED
      BY <2>1, <3>1, <3>2
  <2>2. CASE n <= MaxAttempts /\ recent' = Append(recent, 0)
    BY <1>1, <2>2, LoginAssumption DEF LoginTypeOK
  <2> QED
    BY <1>3, <2>1, <2>2
<1>5. /\ ttl' > 0 => count' > 0
      /\ expiring' \in [Attempts -> 0 .. MaxSends]
  BY <1>1, LoginAssumption DEF LoginInv, LoginTypeOK
<1>6. \A i, j \in DOMAIN recent' : i < j => recent'[i] >= recent'[j]
  <2>1. \A i \in 1 .. Len(recent) : recent[i] \in Nat
    BY <1>1 DEF LoginTypeOK
  <2>2. DOMAIN recent' = 1 .. Len(recent')
    BY <1>4
  <2> SUFFICES ASSUME NEW i \in 1 .. Len(recent'), NEW j \in 1 .. Len(recent'), i < j
               PROVE  recent'[i] >= recent'[j]
    BY <2>2
  <2>3. CASE j <= Len(recent)
    <3>1. i \in DOMAIN recent /\ j \in DOMAIN recent
      BY <1>1, <2>3
    <3>2. recent[i] >= recent[j]
      BY <3>1 DEF LoginInv
    <3>3. recent'[i] = recent[i] /\ recent'[j] = recent[j]
      BY <1>1, <1>4, <2>3
    <3> QED
      BY <3>2, <3>3
  <2>4. CASE j > Len(recent)
    <3>1. j = Len(recent') /\ recent'[j] = 0 /\ i \in 1 .. Len(recent)
      <4>1. Len(recent') = Len(recent) + 1
        BY <1>1, <1>4, <2>4
      <4>2. recent'[Len(recent')] = 0
        BY <1>4, <4>1
      <4>3. j = Len(recent')
        BY <1>1, <2>4, <4>1
      <4>4. i \in 1 .. Len(recent)
        BY <1>1, <4>1, <4>3
      <4> QED
        BY <4>2, <4>3, <4>4
    <3>2. recent'[i] = recent[i] /\ recent[i] \in Nat
      BY <1>4, <2>1, <3>1
    <3> QED
      BY <3>1, <3>2
  <2> QED
    BY <1>1, <1>4, <2>3, <2>4
<1>7. /\ earlier \in 0 .. Len(recent')
      /\ earlier <= MaxAttempts
      /\ Len(recent') - earlier <= MaxAttempts
      /\ Len(recent') - earlier <= count'
      /\ ttl' > 0 => \A i \in 1 .. earlier : recent'[i] + ttl' >= Window
  <2>1. count' \in Nat /\ count' >= count + 1 /\ count' = n
    BY <1>1
  <2>2. \A i \in 1 .. earlier : i \in 1 .. Len(recent) /\ recent'[i] = recent[i]
    BY <1>1, <1>2, <1>4
  <2>3. ttl' > 0 => \A i \in 1 .. earlier : recent'[i] + ttl' >= Window
    BY <1>2, <2>2
  <2>4. CASE Len(recent') = Len(recent)
    BY <1>1, <1>2, <2>1, <2>3, <2>4
  <2>5. CASE Len(recent') = Len(recent) + 1 /\ n <= MaxAttempts
    BY <1>1, <1>2, <2>1, <2>3, <2>5
  <2> QED
    BY <1>4, <2>4, <2>5
<1>8. LoginTypeOK'
  BY <1>1, <1>4, <1>5 DEF LoginTypeOK
<1> QED
  BY <1>5, <1>6, <1>7, <1>8 DEF LoginInv

LEMMA FunctionIsSeq ==
  ASSUME NEW S, NEW k \in Nat, NEW f \in [1 .. k -> S]
  PROVE  f \in Seq(S) /\ Len(f) = k
OBVIOUS

\* Time: when the key goes, whatever was let through before it goes as well.
LEMMA WindowTickKeeps ==
  ASSUME LoginTypeOK, LoginInv, WindowTick
  PROVE  LoginTypeOK' /\ LoginInv'
<1>1. /\ Len(recent) \in Nat /\ count \in Nat /\ ttl \in Nat
      /\ MaxAttempts \in Nat /\ Window \in Nat
      /\ DOMAIN recent = 1 .. Len(recent)
      /\ \A i \in 1 .. Len(recent) : recent[i] \in 0 .. Window - 1
  BY LoginAssumption DEF LoginTypeOK
<1>2. PICK old \in 0 .. Len(recent) :
        /\ \A i \in DOMAIN recent : i <= old <=> recent[i] + 1 = Window
        /\ recent' = [i \in 1 .. Len(recent) - old |-> recent[old + i] + 1]
  BY DEF WindowTick
<1>3. PICK earlier \in 0 .. Len(recent) :
        /\ earlier <= MaxAttempts
        /\ Len(recent) - earlier <= MaxAttempts
        /\ Len(recent) - earlier <= count
        /\ ttl > 0 => \A i \in 1 .. earlier : recent[i] + ttl >= Window
  BY DEF LoginInv
<1>4. /\ ttl' = IF ttl = 0 THEN 0 ELSE ttl - 1
      /\ count' = IF ttl = 1 THEN 0 ELSE count
      /\ expiring' = expiring /\ dropped' = dropped
  BY DEF WindowTick
<1>5. \A i \in 1 .. Len(recent) - old :
        /\ old + i \in 1 .. Len(recent)
        /\ recent'[i] = recent[old + i] + 1
        /\ recent'[i] \in 0 .. Window - 1
  <2> SUFFICES ASSUME NEW i \in 1 .. Len(recent) - old
               PROVE  /\ old + i \in 1 .. Len(recent)
                      /\ recent'[i] = recent[old + i] + 1
                      /\ recent'[i] \in 0 .. Window - 1
    OBVIOUS
  <2>1. old + i \in 1 .. Len(recent) /\ ~(old + i <= old)
    BY <1>1
  <2>2. recent'[i] = recent[old + i] + 1
    BY <1>2
  <2>3. recent[old + i] + 1 # Window /\ recent[old + i] \in 0 .. Window - 1
    BY <1>1, <1>2, <2>1
  <2>4. recent'[i] \in 0 .. Window - 1
    <3> DEFINE age == recent[old + i]
    <3>1. age \in 0 .. Window - 1 /\ age + 1 # Window /\ recent'[i] = age + 1
      BY <2>2, <2>3
    <3> HIDE DEF age
    <3> QED
      BY <1>1, <3>1
  <2> QED
    BY <2>1, <2>2, <2>4
<1>6. recent' \in Seq(0 .. Window - 1) /\ Len(recent') = Len(recent) - old
  <2>1. Len(recent) - old \in Nat
    BY <1>1
  <2>2. recent' \in [1 .. Len(recent) - old -> 0 .. Window - 1]
    BY <1>2, <1>5
  <2> DEFINE k == Len(recent) - old
             S == 0 .. Window - 1
  <2>3. k \in Nat /\ recent' \in [1 .. k -> S]
    BY <2>1, <2>2
  <2> HIDE DEF k, S
  <2>4. recent' \in Seq(S) /\ Len(recent') = k
    BY <2>3, FunctionIsSeq
  <2> QED
    BY <2>4 DEF k, S
<1>7. \A i, j \in DOMAIN recent' : i < j => recent'[i] >= recent'[j]
  <2>1. DOMAIN recent' = 1 .. Len(recent) - old
    BY <1>2
  <2> SUFFICES ASSUME NEW i \in 1 .. Len(recent) - old,
                      NEW j \in 1 .. Len(recent) - old, i < j
               PROVE  recent'[i] >= recent'[j]
    BY <2>1
  <2>2. old + i \in DOMAIN recent /\ old + j \in DOMAIN recent
    BY <1>1, <1>5
  <2>3. old + i < old + j
    BY <1>1
  <2>4. recent[old + i] >= recent[old + j]
    BY <2>2, <2>3 DEF LoginInv
  <2>5. recent[old + i] \in Nat /\ recent[old + j] \in Nat
    BY <1>1, <2>2
  <2>6. recent'[i] = recent[old + i] + 1 /\ recent'[j] = recent[old + j] + 1
    BY <1>5
  <2> QED
    BY <2>4, <2>5, <2>6
<1>8. CASE earlier <= old
  <2>1. /\ 0 \in 0 .. Len(recent')
        /\ Len(recent') - 0 <= MaxAttempts
        /\ Len(recent') - 0 <= count
    BY <1>1, <1>3, <1>6, <1>8
  <2>2. CASE ttl # 1
    <3>1. count' = count /\ (ttl' > 0 => ttl > 0)
      BY <1>1, <1>4, <2>2
    <3>2. LoginTypeOK'
      BY <1>1, <1>4, <1>6 DEF LoginTypeOK
    <3> QED
      BY <1>1, <1>4, <1>7, <2>1, <3>1, <3>2 DEF LoginInv
  <2>3. CASE ttl = 1
    <3>1. count' = 0 /\ ttl' = 0 /\ expiring' = expiring
      BY <1>4, <2>3
    <3>2. LoginTypeOK'
      BY <1>1, <1>4, <1>6, <3>1 DEF LoginTypeOK
    <3>3. /\ Len(recent') \in 0 .. Len(recent')
          /\ Len(recent') <= MaxAttempts
          /\ Len(recent') - Len(recent') <= MaxAttempts
          /\ Len(recent') - Len(recent') <= count'
      BY <2>1, <1>1, <1>6, <3>1
    <3>4. \E e \in 0 .. Len(recent') :
            /\ e <= MaxAttempts
            /\ Len(recent') - e <= MaxAttempts
            /\ Len(recent') - e <= count'
      BY <3>3
    <3> QED
      BY <1>7, <3>1, <3>2, <3>4 DEF LoginInv
  <2> QED
    BY <2>2, <2>3
<1>9. CASE earlier > old
  <2>1. ttl # 1
    <3> SUFFICES ASSUME ttl = 1 PROVE FALSE
      OBVIOUS
    <3>1. earlier \in 1 .. Len(recent) /\ earlier \in 1 .. earlier
      BY <1>1, <1>9
    <3>2. recent[earlier] + 1 >= Window /\ recent[earlier] \in 0 .. Window - 1
      BY <1>1, <1>3, <3>1
    <3>3. recent[earlier] + 1 = Window
      <4> DEFINE age == recent[earlier]
      <4>1. age + 1 >= Window /\ age \in 0 .. Window - 1
        BY <3>2
      <4> HIDE DEF age
      <4>2. age + 1 = Window
        BY <1>1, <4>1
      <4> QED
        BY <4>2 DEF age
    <3>4. earlier <= old
      BY <1>1, <1>2, <3>1, <3>3
    <3> QED
      BY <1>1, <1>9, <3>4
  <2>2. count' = count /\ (ttl' > 0 => ttl > 0 /\ ttl' = ttl - 1)
    BY <1>1, <1>4, <2>1
  <2>3. LoginTypeOK'
    BY <1>1, <1>4, <1>6 DEF LoginTypeOK
  <2>4. /\ earlier - old \in 0 .. Len(recent')
        /\ earlier - old <= MaxAttempts
        /\ Len(recent') - (earlier - old) <= MaxAttempts
        /\ Len(recent') - (earlier - old) <= count'
    BY <1>1, <1>3, <1>6, <1>9, <2>2
  <2>5. ttl' > 0 => \A i \in 1 .. earlier - old : recent'[i] + ttl' >= Window
    <3> SUFFICES ASSUME ttl' > 0, NEW i \in 1 .. earlier - old
                 PROVE  recent'[i] + ttl' >= Window
      OBVIOUS
    <3>1. old + i \in 1 .. earlier /\ recent'[i] = recent[old + i] + 1
      BY <1>1, <1>5
    <3>2. recent[old + i] + ttl >= Window
      BY <1>3, <2>2, <3>1
    <3>3. recent[old + i] \in Nat
      BY <1>1, <3>1
    <3>4. ttl' = ttl - 1 /\ recent'[i] = recent[old + i] + 1
      BY <2>2, <3>1
    <3> QED
      BY <1>1, <3>2, <3>3, <3>4
  <2>6. ttl' > 0 => count' > 0
    BY <1>4, <2>2 DEF LoginInv
  <2> QED
    BY <1>7, <2>3, <2>4, <2>5, <2>6 DEF LoginInv
<1> QED
  BY <1>1, <1>8, <1>9

LEMMA LoginStep ==
  ASSUME LoginTypeOK, LoginInv, [LoginNext]_loginVars
  PROVE  LoginTypeOK' /\ LoginInv'
<1> USE LoginAssumption DEF LoginTypeOK
<1>1. ASSUME NEW a \in Attempts, Incr(a) \/ IncrTwice(a)
      PROVE  LoginTypeOK' /\ LoginInv'
  <2>1. dropped' \in Nat /\ ttl' = ttl
    BY <1>1 DEF Incr, IncrTwice
  <2>2. /\ \E n \in {count + 1, count + 2} : count' = n /\ Decide(n)
        /\ expiring' \in [Attempts -> 0 .. MaxSends]
    BY <1>1 DEF Incr, IncrTwice
  <2> QED
    BY <2>1, <2>2, AttemptKeeps
<1>2. ASSUME NEW a \in Attempts, Expire(a)
      PROVE  LoginTypeOK' /\ LoginInv'
  <2>1. /\ ttl' = IF count = 0 THEN 0 ELSE Window
        /\ UNCHANGED <<count, recent, dropped>>
    BY <1>2 DEF Expire
  <2>2. expiring' \in [Attempts -> 0 .. MaxSends]
    BY <1>2 DEF Expire, Sent
  <2>3. LoginTypeOK'
    BY <2>1, <2>2
  <2>4. \A i \in 1 .. Len(recent) : recent[i] + Window >= Window
    OBVIOUS
  <2>5. ttl' > 0 => ttl' = Window /\ count' > 0
    BY <2>1
  <2> QED
    BY <2>1, <2>3, <2>4, <2>5 DEF LoginInv
<1>3. ASSUME NEW a \in Attempts, ExpireLost(a)
      PROVE  LoginTypeOK' /\ LoginInv'
  <2>1. /\ expiring' \in [Attempts -> 0 .. MaxSends] /\ dropped' \in Nat
        /\ UNCHANGED <<count, ttl, recent>>
    BY <1>3 DEF ExpireLost
  <2> QED
    BY <2>1 DEF LoginInv
<1>4. CASE UNCHANGED loginVars
  BY <1>4 DEF loginVars, LoginInv
<1> QED
  BY <1>1, <1>2, <1>3, <1>4, WindowTickKeeps DEF LoginNext

LEMMA LoginInvariance == LoginSpec => [](LoginTypeOK /\ LoginInv)
<1> QED
  BY LoginInitially, LoginStep, PTL DEF LoginSpec

\* Wherever a window of windowSecs starts, at most twice maxAttempts attempts
\* are let through in it, for any number of requests at a time, also when the
\* client library repeats an INCR and when an EXPIRE is lost (ratelimit.go:75-86).
THEOREM LoginLimitHolds == LoginSpec => []AtMostTwice
<1>1. LoginTypeOK /\ LoginInv => AtMostTwice
  BY LoginAssumption DEF LoginTypeOK, LoginInv, AtMostTwice
<1> QED
  BY <1>1, LoginInvariance, PTL

\* A counter of attempts without an expiry is about to get one, unless an EXPIRE
\* was lost, also when EXPIREs are repeated after their key has gone: the safety
\* half of LockoutEnds (ratelimit.go:74-79).
THEOREM CountersExpire == LoginSpec => []CounterExpires
<1>1. LoginInit => CounterExpires
  BY DEF LoginInit, CounterExpires
<1>2. LoginTypeOK /\ LoginInv /\ CounterExpires /\ [LoginNext]_loginVars => CounterExpires'
  <2> SUFFICES ASSUME LoginTypeOK, LoginInv, CounterExpires, [LoginNext]_loginVars
               PROVE  CounterExpires'
    OBVIOUS
  <2>1. ttl \in Nat /\ count \in Nat /\ dropped \in Nat /\ Window \in Nat /\ Window > 0
    BY LoginAssumption DEF LoginTypeOK
  <2>2. CASE WindowTick
    <3>1. /\ ttl' = IF ttl = 0 THEN 0 ELSE ttl - 1
          /\ count' = IF ttl = 1 THEN 0 ELSE count
          /\ UNCHANGED <<expiring, dropped>>
      BY <2>2 DEF WindowTick
    <3> QED
      BY <2>1, <3>1 DEF CounterExpires
  <2>3. ASSUME NEW a \in Attempts, Incr(a)
        PROVE  CounterExpires'
    <3>1. /\ count' = count + 1 /\ ttl' = ttl /\ dropped' = dropped
          /\ expiring[a] = 0
          /\ expiring' = [expiring EXCEPT ![a] = IF count' = 1 THEN MaxSends ELSE 0]
      BY <2>3 DEF Incr, SetsExpiry
    <3>2. count = 0 => expiring'[a] > 0
      BY <3>1, LoginAssumption DEF LoginTypeOK
    <3>3. \A b \in Attempts : expiring[b] > 0 => expiring'[b] > 0
      BY <3>1, LoginAssumption DEF LoginTypeOK
    <3> QED
      BY <2>1, <3>1, <3>2, <3>3 DEF CounterExpires
  <2>4. ASSUME NEW a \in Attempts, IncrTwice(a)
        PROVE  CounterExpires'
    <3>1. /\ ttl' = ttl /\ expiring[a] = 0
          /\ \A b \in Attempts : b # a => expiring'[b] = expiring[b]
          /\ dropped' = IF count = 0 THEN dropped + 1 ELSE dropped
      BY <2>4 DEF IncrTwice, LoginTypeOK
    <3>2. \A b \in Attempts : expiring[b] > 0 => expiring'[b] > 0
      BY <3>1
    <3> QED
      BY <2>1, <3>1, <3>2 DEF CounterExpires
  <2>5. ASSUME NEW a \in Attempts, Expire(a)
        PROVE  CounterExpires'
    <3>1. ttl' = (IF count = 0 THEN 0 ELSE Window) /\ count' = count
      BY <2>5 DEF Expire
    <3> QED
      BY <2>1, <3>1 DEF CounterExpires
  <2>6. ASSUME NEW a \in Attempts, ExpireLost(a)
        PROVE  CounterExpires'
    <3>1. dropped' = dropped + 1
      BY <2>6 DEF ExpireLost
    <3> QED
      BY <2>1, <3>1 DEF CounterExpires
  <2>7. CASE UNCHANGED loginVars
    BY <2>7 DEF loginVars, CounterExpires
  <2> QED
    BY <2>2, <2>3, <2>4, <2>5, <2>6, <2>7 DEF LoginNext
<1> QED
  BY <1>1, <1>2, LoginInvariance, PTL DEF LoginSpec
=============================================================================
