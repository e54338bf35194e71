------------------------ MODULE ConsumerGroupProofs ------------------------
(***************************************************************************)
(* Proofs about ConsumerGroup, for every set of workers, every log length  *)
(* and every class of fault.                                               *)
(***************************************************************************)
EXTENDS ConsumerGroup, FiniteSetTheorems, TLAPS

(***************************************************************************)
(* Every step a system built around the group may take of the group's own  *)
(* state: any handler outcome, any number of records appended at once.     *)
(* GroupNext is one such step; so is every step of UploadPipeline, which   *)
(* the lemmas below are stated for as well.                                *)
(***************************************************************************)
GroupMove ==
    \/ \E records \in Seq(Events) : AppendRecords(records)
    \/ \E w \in Workers :
          \/ Poll(w) \/ ReturnsNil(w) \/ ReturnsErr(w) \/ AutoCommit(w)
          \/ Rebalance(w)
          \/ Process(w)

LEMMA GroupNextMoves == GroupNext => GroupMove
<1> SUFFICES ASSUME GroupNext PROVE GroupMove
  OBVIOUS
<1>1. ASSUME NEW e \in Events, AppendRecords(<<e>>)
      PROVE  GroupMove
  <2>1. <<e>> \in Seq(Events)
    OBVIOUS
  <2> QED
    BY <1>1, <2>1 DEF GroupMove
<1>2. ASSUME NEW w \in Workers,
             \/ Poll(w) \/ HandlerOk(w) \/ HandlerErr(w) \/ AutoCommit(w)
             \/ Rebalance(w) \/ Process(w)
      PROVE  GroupMove
  BY <1>2 DEF GroupMove, HandlerOk, HandlerErr
<1> QED
  BY <1>1, <1>2 DEF GroupNext

(***************************************************************************)
(* The typing of the state, with the operators of the handlers opened.     *)
(***************************************************************************)
LEMMA GroupTypeInit == GroupInit => GroupTypeOK
  BY GroupAssumption DEF GroupInit, GroupTypeOK

LEMMA GroupTypeStep == GroupTypeOK /\ [GroupMove]_groupVars => GroupTypeOK'
<1> SUFFICES ASSUME GroupTypeOK, [GroupMove]_groupVars
             PROVE  GroupTypeOK'
  OBVIOUS
<1> USE GroupAssumption DEF GroupTypeOK
<1>1. ASSUME NEW records \in Seq(Events), AppendRecords(records)
      PROVE  GroupTypeOK'
  BY <1>1 DEF AppendRecords, clientVars, historyVars
<1>2. ASSUME NEW w \in Workers, Poll(w)
      PROVE  GroupTypeOK'
  BY <1>2 DEF Poll, brokerVars, historyVars
<1>3. ASSUME NEW w \in Workers, ReturnsNil(w) \/ ReturnsErr(w)
      PROVE  GroupTypeOK'
  <2>1. NextRecord(w)
    BY <1>3 DEF ReturnsNil, ReturnsErr
  <2>2. marked' \in [Workers -> Nat]
    <3>1. CASE ReturnsNil(w)
      BY <3>1 DEF ReturnsNil, Mark
    <3>2. CASE ReturnsErr(w)
      BY <3>2 DEF ReturnsErr
    <3> QED
      BY <1>3, <3>1, <3>2
  <2>3. done' \subseteq Nat
    <3>1. CASE ReturnsNil(w)
      BY <3>1 DEF ReturnsNil
    <3>2. CASE ReturnsErr(w)
      BY <3>2 DEF ReturnsErr
    <3> QED
      BY <1>3, <3>1, <3>2
  <2>4. attempted' \subseteq Nat
    BY <2>1 DEF NextRecord
  <2>5. at' \in [Workers -> Nat] /\ upto' \in [Workers -> Nat]
    BY <2>1 DEF NextRecord
  <2>6. dirty' \subseteq Workers
    BY <1>3 DEF ReturnsNil, ReturnsErr, Mark
  <2>7. UNCHANGED <<log, committed, owner, proc, pos, disruptions>>
    BY <2>1 DEF NextRecord, brokerVars
  <2> QED
    BY <2>2, <2>3, <2>4, <2>5, <2>6, <2>7
<1>4. ASSUME NEW w \in Workers, AutoCommit(w)
      PROVE  GroupTypeOK'
  BY <1>4 DEF AutoCommit, Flushed, historyVars
<1>5. ASSUME NEW w \in Workers, Rebalance(w)
      PROVE  GroupTypeOK'
  <2>1. CASE Assign(w)
    BY <2>1 DEF Assign, historyVars
  <2>2. CASE Revoke(w)
    BY <2>2 DEF Revoke, Flushed, Forget, Disrupt, historyVars
  <2>3. CASE Lose(w)
    BY <2>3 DEF Lose, Forget, Disrupt, historyVars
  <2> QED
    BY <1>5, <2>1, <2>2, <2>3 DEF Rebalance
<1>6. ASSUME NEW w \in Workers, Process(w)
      PROVE  GroupTypeOK'
  <2>1. CASE Stop(w)
    BY <2>1 DEF Stop, Disrupt, brokerVars, clientVars, historyVars
  <2>2. CASE Exit(w)
    BY <2>2 DEF Exit, Dies, Flushed, Forget, historyVars
  <2>3. CASE Crash(w)
    BY <2>3 DEF Crash, Dies, Forget, Disrupt, historyVars
  <2>4. CASE Restart(w)
    BY <2>4 DEF Restart, brokerVars, clientVars, historyVars
  <2> QED
    BY <1>6, <2>1, <2>2, <2>3, <2>4 DEF Process
<1>7. CASE UNCHANGED groupVars
  BY <1>7 DEF groupVars, brokerVars, clientVars, historyVars
<1> QED
  BY <1>1, <1>2, <1>3, <1>4, <1>5, <1>6, <1>7
  DEF GroupMove

\* Every variable keeps its type: in particular the log stays a sequence of
\* events and the client's offsets stay natural numbers under every rebalance,
\* crash and restart.
THEOREM GroupTyping == GroupSpec => []GroupTypeOK
  BY GroupTypeInit, GroupTypeStep, GroupNextMoves, PTL DEF GroupSpec

(***************************************************************************)
(* The committed offset.                                                   *)
(***************************************************************************)
LEMMA AttemptedInit == GroupInit => AttemptedInv
  BY DEF GroupInit, AttemptedInv, Covers

\* A record's handler returning keeps what was covered covered, and adds the
\* record itself to it.
LEMMA AttemptedReturn ==
  ASSUME GroupTypeOK, AttemptedInv, NEW w \in Workers,
         ReturnsNil(w) \/ ReturnsErr(w)
  PROVE  AttemptedInv'
<1> USE DEF GroupTypeOK
<1>1. NextRecord(w)
  BY DEF ReturnsNil, ReturnsErr
<1>2. \A n : Covers(attempted, n) => Covers(attempted', n)
  BY <1>1 DEF NextRecord, Covers
<1>3. Covers(attempted', at[w] + 1)
  BY <1>1, <1>2 DEF NextRecord, Covers, AttemptedInv
<1>4. ASSUME NEW v \in Workers
      PROVE  /\ Covers(attempted', at'[v])
             /\ at'[v] <= upto'[v]
             /\ proc'[v] # "stopping" =>
                   pos'[v] = upto'[v] \/ Covers(attempted', pos'[v])
  <2>1. UNCHANGED <<proc, pos>>
    BY <1>1 DEF NextRecord
  <2>2. CASE v = w
    <3>1. /\ at'[w] = at[w] + 1
          /\ at[w] < upto[w]
          /\ upto'[w] = IF proc[w] = "up" THEN upto[w] ELSE at[w] + 1
          /\ proc[w] # "down"
      BY <1>1 DEF NextRecord, InBatch
    <3> QED
      BY <2>1, <2>2, <3>1, <1>2, <1>3 DEF AttemptedInv
  <2>3. CASE v # w
    <3>1. at'[v] = at[v] /\ upto'[v] = upto[v]
      BY <1>1, <2>3 DEF NextRecord
    <3> QED
      BY <2>1, <3>1, <1>2 DEF AttemptedInv
  <2> QED
    BY <2>2, <2>3
<1>5. ASSUME NEW v \in Workers
      PROVE  Covers(attempted', marked'[v])
  <2>1. marked'[v] = marked[v] \/ (v = w /\ marked'[v] = at[w] + 1 /\ marked[v] <= at[w])
    <3>1. CASE ReturnsNil(w)
      BY <3>1 DEF ReturnsNil, Mark
    <3>2. CASE ReturnsErr(w)
      BY <3>2 DEF ReturnsErr
    <3> QED
      BY <3>1, <3>2
  <2> QED
    BY <2>1, <1>2, <1>3 DEF AttemptedInv
<1>6. Covers(attempted', committed')
  BY <1>1, <1>2 DEF NextRecord, brokerVars, AttemptedInv
<1> QED
  BY <1>4, <1>5, <1>6 DEF AttemptedInv

\* Every other step moves an offset only to one that was covered before.
LEMMA AttemptedStep ==
  GroupTypeOK /\ AttemptedInv /\ [GroupMove]_groupVars => AttemptedInv'
<1> SUFFICES ASSUME GroupTypeOK, AttemptedInv, [GroupMove]_groupVars
             PROVE  AttemptedInv'
  OBVIOUS
<1> USE GroupAssumption DEF GroupTypeOK, AttemptedInv
<1>1. ASSUME NEW records \in Seq(Events), AppendRecords(records)
      PROVE  AttemptedInv'
  BY <1>1 DEF AppendRecords, clientVars, historyVars, Covers
<1>2. ASSUME NEW w \in Workers, Poll(w)
      PROVE  AttemptedInv'
  BY <1>2 DEF Poll, InBatch, brokerVars, historyVars, Covers
<1>3. ASSUME NEW w \in Workers, ReturnsNil(w) \/ ReturnsErr(w)
      PROVE  AttemptedInv'
  BY <1>3, AttemptedReturn
<1>4. ASSUME NEW w \in Workers, AutoCommit(w)
      PROVE  AttemptedInv'
  BY <1>4 DEF AutoCommit, Flushed, historyVars
<1>5. ASSUME NEW w \in Workers, Rebalance(w)
      PROVE  AttemptedInv'
  <2>1. CASE Assign(w)
    BY <2>1 DEF Assign, historyVars, Covers
  <2>2. CASE Revoke(w)
    BY <2>2 DEF Revoke, Flushed, Forget, historyVars, Covers
  <2>3. CASE Lose(w)
    BY <2>3 DEF Lose, Forget, historyVars, Covers
  <2> QED
    BY <1>5, <2>1, <2>2, <2>3 DEF Rebalance
<1>6. ASSUME NEW w \in Workers, Process(w)
      PROVE  AttemptedInv'
  <2>1. CASE Stop(w)
    BY <2>1 DEF Stop, brokerVars, clientVars, historyVars, Covers
  <2>2. CASE Exit(w)
    BY <2>2 DEF Exit, Dies, Flushed, Forget, historyVars, Covers
  <2>3. CASE Crash(w)
    BY <2>3 DEF Crash, Dies, Forget, historyVars, Covers
  <2>4. CASE Restart(w)
    BY <2>4 DEF Restart, brokerVars, clientVars, historyVars, Covers
  <2> QED
    BY <1>6, <2>1, <2>2, <2>3, <2>4 DEF Process
<1>7. CASE UNCHANGED groupVars
  BY <1>7 DEF groupVars, brokerVars, clientVars, historyVars, Covers
<1> QED
  BY <1>1, <1>2, <1>3, <1>4, <1>5, <1>6, <1>7
  DEF GroupMove

LEMMA AttemptedInvariance == GroupSpec => [](GroupTypeOK /\ AttemptedInv)
  BY GroupTyping, AttemptedInit, AttemptedStep, GroupNextMoves, PTL
  DEF GroupSpec

\* The group never commits past a record whose handler has not returned, for
\* any number of workers and any interleaving of rebalances, crashes, restarts
\* and shutdowns (Consume, kafka.go:118).
THEOREM CommittedRecordsWereAttempted == GroupSpec => []CommittedAttempted
<1>1. AttemptedInv => CommittedAttempted
  BY DEF AttemptedInv, Covers, CommittedAttempted
<1> QED
  BY <1>1, AttemptedInvariance, PTL

\* What a live worker has neither in its batch nor ahead of its position is in a
\* prefix of what the set covers.
LEMMA BeyondCover ==
  ASSUME GroupTypeOK, NEW S, NEW w \in Workers, Covers(S, at[w]),
         pos[w] = upto[w] \/ Covers(S, pos[w]),
         NEW o \in 0 .. Len(log) - 1, o \notin S
  PROVE  o \in Reach(w)
<1>1. /\ at[w] \in Nat /\ upto[w] \in Nat /\ pos[w] \in Nat
      /\ Len(log) \in Nat /\ o \in Nat
  BY DEF GroupTypeOK
<1>2. at[w] <= o
  BY <1>1 DEF Covers
<1>3. o < upto[w] \/ pos[w] <= o
  BY <1>1 DEF Covers
<1> QED
  BY <1>1, <1>2, <1>3 DEF Reach

LEMMA AttemptedInReach ==
  ASSUME GroupTypeOK, AttemptedInv
  PROVE  WithinReach
<1> SUFFICES ASSUME NEW w \in Workers, owner = w, proc[w] = "up",
                    NEW o \in 0 .. Len(log) - 1, o \notin attempted
             PROVE  o \in Reach(w)
  BY DEF WithinReach
<1>1. Covers(attempted, at[w]) /\ (pos[w] = upto[w] \/ Covers(attempted, pos[w]))
  BY DEF AttemptedInv
<1> QED
  BY <1>1, BeyondCover

\* Every record that no handler has returned from is in the batch of the worker
\* that has the partition, or ahead of where it fetches, for any number of
\* workers and any interleaving of the group's steps (Consume, kafka.go:118).
THEOREM RecordsAreWithinReach == GroupSpec => []WithinReach
<1>1. GroupTypeOK /\ AttemptedInv => WithinReach
  BY AttemptedInReach
<1> QED
  BY <1>1, AttemptedInvariance, PTL

(***************************************************************************)
(* How many workers have records of the partition in hand.                 *)
(***************************************************************************)
\* The sum of HandlersInv, when no worker joins, when one leaves its place to a
\* vacancy, and when one takes the vacancy.
LEMMA EngagedKept ==
  ASSUME GroupTypeOK, GroupTypeOK', HandlersInv, NEW w,
         \/ /\ Engaged' \subseteq Engaged
            /\ \/ Vacant' <= Vacant /\ disruptions' >= disruptions
               \/ disruptions' = disruptions + 1
         \/ /\ w \in Engaged /\ Engaged' \subseteq Engaged \ {w}
            /\ disruptions' = disruptions
         \/ /\ Engaged' \subseteq Engaged \cup {w}
            /\ Vacant = 1 /\ Vacant' = 0 /\ disruptions' = disruptions
  PROVE  HandlersInv'
<1>1. /\ disruptions \in Nat /\ disruptions' \in Nat
      /\ Vacant \in {0, 1} /\ Vacant' \in {0, 1}
  BY GroupAssumption DEF GroupTypeOK, Vacant
<1>2. /\ IsFiniteSet(Engaged) /\ Cardinality(Engaged) \in Nat
      /\ Cardinality(Engaged) + Vacant <= disruptions + 1
  BY FS_CardinalityType DEF HandlersInv
<1>3. CASE /\ Engaged' \subseteq Engaged
           /\ \/ Vacant' <= Vacant /\ disruptions' >= disruptions
              \/ disruptions' = disruptions + 1
  <2>1. /\ IsFiniteSet(Engaged') /\ Cardinality(Engaged') \in Nat
        /\ Cardinality(Engaged') <= Cardinality(Engaged)
    BY <1>2, <1>3, FS_Subset, FS_CardinalityType
  <2> QED
    BY <1>1, <1>2, <1>3, <2>1 DEF HandlersInv
<1>4. CASE w \in Engaged /\ Engaged' \subseteq Engaged \ {w} /\ disruptions' = disruptions
  <2>1. /\ IsFiniteSet(Engaged \ {w})
        /\ Cardinality(Engaged \ {w}) = Cardinality(Engaged) - 1
    BY <1>2, <1>4, FS_RemoveElement
  <2>2. /\ IsFiniteSet(Engaged') /\ Cardinality(Engaged') \in Nat
        /\ Cardinality(Engaged') <= Cardinality(Engaged) - 1
    BY <1>4, <2>1, FS_Subset, FS_CardinalityType
  <2> QED
    BY <1>1, <1>2, <1>4, <2>2 DEF HandlersInv
<1>5. CASE /\ Engaged' \subseteq Engaged \cup {w}
           /\ Vacant = 1 /\ Vacant' = 0 /\ disruptions' = disruptions
  <2>1. /\ IsFiniteSet(Engaged \cup {w})
        /\ Cardinality(Engaged \cup {w}) = Cardinality(Engaged)
           \/ Cardinality(Engaged \cup {w}) = Cardinality(Engaged) + 1
    BY <1>2, FS_AddElement
  <2>2. /\ IsFiniteSet(Engaged') /\ Cardinality(Engaged') \in Nat
        /\ Cardinality(Engaged') <= Cardinality(Engaged \cup {w})
    BY <1>5, <2>1, FS_Subset, FS_CardinalityType
  <2> QED
    BY <1>1, <1>2, <1>5, <2>1, <2>2 DEF HandlersInv
<1> QED
  BY <1>3, <1>4, <1>5

LEMMA HandlersInit == GroupInit => HandlersInv
<1> SUFFICES ASSUME GroupInit PROVE HandlersInv
  OBVIOUS
<1>1. Engaged = {} /\ Vacant = 1 /\ disruptions = 0
  BY GroupAssumption DEF GroupInit, Engaged, Vacant, InBatch
<1> QED
  BY <1>1, FS_EmptySet DEF HandlersInv

\* A batch is polled by the owner only, and is gone with the process; the
\* partition is assigned only while it is vacant, and becomes vacant only by a
\* disruption or with the end of its owner.
LEMMA HandlersStep ==
  ASSUME GroupTypeOK, GroupTypeOK', HandlersInv, [GroupMove]_groupVars
  PROVE  HandlersInv'
<1>0. disruptions \in Nat
  BY GroupAssumption DEF GroupTypeOK
<1>1. ASSUME NEW records \in Seq(Events), AppendRecords(records)
      PROVE  HandlersInv'
  BY <1>1 DEF AppendRecords, clientVars, HandlersInv, Engaged, Vacant, InBatch
<1>2. ASSUME NEW w \in Workers, Poll(w)
      PROVE  HandlersInv'
  <2>1. UNCHANGED <<owner, disruptions>> /\ owner = w
    BY <1>2 DEF Poll, brokerVars
  <2>2. \A v \in Workers \ {w} : InBatch(v)' = InBatch(v)
    BY <1>2 DEF Poll, InBatch, GroupTypeOK
  <2>3. Engaged' \subseteq Engaged /\ Vacant' = Vacant
    BY <2>1, <2>2 DEF Engaged, Vacant
  <2> QED
    BY <1>0, <2>1, <2>3, EngagedKept DEF Vacant
<1>3. ASSUME NEW w \in Workers, ReturnsNil(w) \/ ReturnsErr(w)
      PROVE  HandlersInv'
  <2>1. NextRecord(w)
    BY <1>3 DEF ReturnsNil, ReturnsErr
  <2>2. UNCHANGED <<owner, disruptions>> /\ InBatch(w)
    BY <2>1 DEF NextRecord, brokerVars
  <2>3. \A v \in Workers \ {w} : InBatch(v)' = InBatch(v)
    BY <2>1 DEF NextRecord, InBatch, GroupTypeOK
  <2>4. Engaged' \subseteq Engaged /\ Vacant' = Vacant
    BY <2>2, <2>3 DEF Engaged, Vacant
  <2> QED
    BY <1>0, <2>2, <2>4, EngagedKept DEF Vacant
<1>4. ASSUME NEW w \in Workers, AutoCommit(w) \/ Stop(w) \/ Restart(w)
      PROVE  HandlersInv'
  <2>1. UNCHANGED <<at, upto, owner>> /\ disruptions' \in {disruptions, disruptions + 1}
    BY <1>4 DEF AutoCommit, Stop, Restart, Disrupt, brokerVars, clientVars
  <2>2. Engaged' = Engaged /\ Vacant' = Vacant /\ disruptions' >= disruptions
    BY <1>0, <2>1 DEF Engaged, Vacant, InBatch
  <2> QED
    BY <2>2, EngagedKept DEF Vacant
<1>5. ASSUME NEW w \in Workers, Assign(w)
      PROVE  HandlersInv'
  <2>1. /\ UNCHANGED <<at, upto, disruptions>>
        /\ owner = NoOwner /\ owner' = w
    BY <1>5 DEF Assign
  <2>2. Vacant = 1 /\ Vacant' = 0
    BY <2>1, GroupAssumption DEF Vacant
  <2>3. Engaged' \subseteq Engaged \cup {w}
    BY <2>1 DEF Engaged, InBatch
  <2> QED
    BY <2>1, <2>2, <2>3, EngagedKept
<1>6. ASSUME NEW w \in Workers, Revoke(w) \/ Lose(w)
      PROVE  HandlersInv'
  <2>1. /\ UNCHANGED <<at, upto>> /\ owner' = NoOwner
        /\ disruptions' = disruptions + 1
    BY <1>6 DEF Revoke, Lose, Disrupt
  <2>2. Engaged' \subseteq Engaged
    BY <2>1, GroupAssumption DEF Engaged, InBatch
  <2> QED
    BY <2>1, <2>2, EngagedKept
<1>7. ASSUME NEW w \in Workers, Dies(w), disruptions' = disruptions + 1 \/ disruptions' = disruptions
      PROVE  HandlersInv'
  <2>1. /\ owner' = IF owner = w THEN NoOwner ELSE owner
        /\ at' = [at EXCEPT ![w] = 0] /\ upto' = [upto EXCEPT ![w] = 0]
    BY <1>7 DEF Dies
  <2>2. ~InBatch(w)' /\ \A v \in Workers \ {w} : InBatch(v)' = InBatch(v)
    BY <2>1 DEF InBatch, GroupTypeOK
  <2>3. Engaged' \subseteq Engaged \ {w}
    BY <2>1, <2>2, GroupAssumption DEF Engaged
  <2>4. owner = w => w \in Engaged
    BY DEF Engaged
  <2>5. owner # w => Vacant' <= Vacant
    BY <2>1 DEF Vacant
  <2>6. CASE disruptions' = disruptions + 1
    BY <2>3, <2>6, EngagedKept
  <2>7. CASE disruptions' = disruptions /\ owner = w
    BY <2>3, <2>4, <2>7, EngagedKept
  <2>8. CASE disruptions' = disruptions /\ owner # w
    <3>1. disruptions' >= disruptions
      BY <1>0, <2>8
    <3> QED
      BY <2>3, <2>5, <2>8, <3>1, EngagedKept
  <2> QED
    BY <1>7, <2>6, <2>7, <2>8
<1>8. ASSUME NEW w \in Workers, Exit(w) \/ Crash(w)
      PROVE  HandlersInv'
  BY <1>7, <1>8 DEF Exit, Crash, Disrupt
<1>9. CASE UNCHANGED groupVars
  BY <1>9 DEF groupVars, brokerVars, clientVars, HandlersInv, Engaged, Vacant, InBatch
<1> QED
  BY <1>1, <1>2, <1>3, <1>4, <1>5, <1>6, <1>8, <1>9 DEF GroupMove, Rebalance, Process

LEMMA HandlersAreBounded ==
  ASSUME GroupTypeOK, HandlersInv
  PROVE  HandlersBounded
<1> DEFINE Busy == {w \in Workers : InBatch(w)}
<1>1. disruptions \in Nat /\ Vacant \in {0, 1}
  BY GroupAssumption DEF GroupTypeOK, Vacant
<1>2. Busy \subseteq Engaged
  BY DEF Engaged
<1>3. IsFiniteSet(Engaged) /\ Cardinality(Engaged) \in Nat
  BY FS_CardinalityType DEF HandlersInv
<1>4. Cardinality(Busy) \in Nat /\ Cardinality(Busy) <= Cardinality(Engaged)
  BY <1>2, <1>3, FS_Subset, FS_CardinalityType
<1> QED
  BY <1>1, <1>3, <1>4 DEF HandlersInv, HandlersBounded

\* However many workers a group has, at most one of them more than the
\* disruptions there were has records of the partition in hand (Consume,
\* kafka.go:118).
THEOREM HandlersOverlapByDisruption == GroupSpec => []HandlersBounded
<1>1. GroupTypeOK /\ GroupTypeOK' /\ HandlersInv /\ [GroupNext]_groupVars => HandlersInv'
  BY HandlersStep, GroupNextMoves
<1> QED
  BY <1>1, HandlersInit, HandlersAreBounded, AttemptedInvariance, PTL DEF GroupSpec

(***************************************************************************)
(* The committed offset only grows, as long as there is no rebalance.      *)
(***************************************************************************)
LEMMA ForwardInit == GroupInit => ForwardInv
  BY GroupAssumption DEF GroupInit, ForwardInv, InBatch

\* A commit is the owner's: nobody else has a mark.
LEMMA CommitForwardStep ==
  ASSUME "rebalance" \notin Faults, GroupTypeOK, ForwardInv, [GroupMove]_groupVars
  PROVE  committed' >= committed
<1> USE GroupAssumption DEF GroupTypeOK, ForwardInv
<1>1. ASSUME NEW records \in Seq(Events), AppendRecords(records)
      PROVE  committed' >= committed
  BY <1>1 DEF AppendRecords
<1>2. ASSUME NEW w \in Workers,
             Poll(w) \/ ReturnsNil(w) \/ ReturnsErr(w)
      PROVE  committed' >= committed
  BY <1>2 DEF Poll, ReturnsNil, ReturnsErr, NextRecord, brokerVars
<1>3. ASSUME NEW w \in Workers
      PROVE  Flushed(w) >= committed
  BY DEF Flushed
<1>4. ASSUME NEW w \in Workers, AutoCommit(w)
      PROVE  committed' >= committed
  BY <1>3, <1>4 DEF AutoCommit
<1>5. ASSUME NEW w \in Workers, Rebalance(w)
      PROVE  committed' >= committed
  BY <1>5 DEF Rebalance, Assign, Revoke, Lose, Disrupt
<1>6. ASSUME NEW w \in Workers, Process(w)
      PROVE  committed' >= committed
  BY <1>3, <1>6 DEF Process, Stop, Exit, Crash, Restart, brokerVars
<1>7. CASE UNCHANGED groupVars
  BY <1>7 DEF groupVars, brokerVars
<1> QED
  BY <1>1, <1>2, <1>4, <1>5, <1>6, <1>7 DEF GroupMove

\* A batch begins with the owner and ends with it; a mark is made inside a batch,
\* and the partition leaves its owner only with the owner's process.
LEMMA ForwardStep ==
  ASSUME "rebalance" \notin Faults, GroupTypeOK, ForwardInv, [GroupMove]_groupVars
  PROVE  ForwardInv'
<1> DEFINE Forward(w) == /\ owner = w => committed <= marked[w]
                         /\ owner # w => ~InBatch(w) /\ w \notin dirty
<1>0. \A w \in Workers : Forward(w)
  BY DEF ForwardInv
<1> SUFFICES ASSUME NEW v \in Workers PROVE Forward(v)'
  BY DEF ForwardInv
<1> USE GroupAssumption DEF GroupTypeOK
<1>1. ASSUME NEW records \in Seq(Events), AppendRecords(records)
      PROVE  Forward(v)'
  BY <1>0, <1>1 DEF AppendRecords, clientVars, InBatch
<1>2. ASSUME NEW w \in Workers, Poll(w)
      PROVE  Forward(v)'
  BY <1>0, <1>2 DEF Poll, brokerVars, InBatch
<1>3. ASSUME NEW w \in Workers, ReturnsNil(w) \/ ReturnsErr(w)
      PROVE  Forward(v)'
  <2>1. owner = w /\ UNCHANGED <<owner, committed>>
    BY <1>0, <1>3 DEF ReturnsNil, ReturnsErr, NextRecord, brokerVars
  <2>2. marked'[w] >= marked[w]
    BY <1>3 DEF ReturnsNil, ReturnsErr, Mark
  <2>3. v # w => at'[v] = at[v] /\ upto'[v] = upto[v] /\ (v \in dirty' => v \in dirty)
    BY <1>3 DEF ReturnsNil, ReturnsErr, NextRecord, Mark
  <2>4. marked'[w] \in Nat
    BY <1>3 DEF ReturnsNil, ReturnsErr, Mark
  <2>5. CASE v = w
    BY <1>0, <2>1, <2>2, <2>4, <2>5
  <2>6. CASE v # w
    BY <1>0, <2>1, <2>3, <2>6 DEF InBatch
  <2> QED
    BY <2>5, <2>6
<1>4. ASSUME NEW w \in Workers, AutoCommit(w)
      PROVE  Forward(v)'
  BY <1>0, <1>4 DEF AutoCommit, Flushed, InBatch
<1>5. ASSUME NEW w \in Workers, Rebalance(w)
      PROVE  Forward(v)'
  <2>1. Assign(w)
    BY <1>5 DEF Rebalance, Revoke, Lose, Disrupt
  <2> QED
    BY <1>0, <2>1 DEF Assign, InBatch
<1>6. ASSUME NEW w \in Workers, Stop(w) \/ Restart(w)
      PROVE  Forward(v)'
  BY <1>0, <1>6 DEF Stop, Restart, brokerVars, clientVars, InBatch
<1>7. ASSUME NEW w \in Workers, Exit(w) \/ Crash(w)
      PROVE  Forward(v)'
  <2>1. Dies(w)
    BY <1>7 DEF Exit, Crash
  <2>2. owner # w => committed' = committed
    BY <1>0, <1>7 DEF Exit, Crash, Flushed
  <2>3. CASE v = w
    BY <2>1, <2>3 DEF Dies, Forget, InBatch
  <2>4. CASE v # w
    BY <1>0, <2>1, <2>2, <2>4 DEF Dies, Forget, InBatch
  <2> QED
    BY <2>3, <2>4
<1>8. CASE UNCHANGED groupVars
  BY <1>0, <1>8 DEF groupVars, brokerVars, clientVars, InBatch
<1> QED
  BY <1>1, <1>2, <1>3, <1>4, <1>5, <1>6, <1>7, <1>8 DEF GroupMove, Process

\* Crashes, shutdowns, restarts and failing handlers never take the committed
\* offset back: it takes a rebalance, and a member that marks and commits after
\* it what it had in hand before (Consume, kafka.go:118).
THEOREM CommitsGoForward ==
  ASSUME "rebalance" \notin Faults
  PROVE  GroupSpec => CommitForward
<1>1. GroupTypeOK /\ ForwardInv /\ [GroupNext]_groupVars
        => ForwardInv' /\ [committed' >= committed]_groupVars
  BY CommitForwardStep, ForwardStep, GroupNextMoves
<1> QED
  BY <1>1, ForwardInit, GroupTyping, PTL DEF GroupSpec, CommitForward

(***************************************************************************)
(* Offsets stay within the log.                                            *)
(***************************************************************************)
LEMMA WithinLogInit == GroupInit => WithinLog
  BY DEF GroupInit, WithinLog

LEMMA WithinLogStep ==
  GroupTypeOK /\ WithinLog /\ [GroupMove]_groupVars => WithinLog'
<1> SUFFICES ASSUME GroupTypeOK, WithinLog, [GroupMove]_groupVars
             PROVE  WithinLog'
  OBVIOUS
<1> USE GroupAssumption DEF GroupTypeOK, WithinLog
<1>1. ASSUME NEW records \in Seq(Events), AppendRecords(records)
      PROVE  WithinLog'
  <2>1. Len(log') >= Len(log) /\ Len(log) \in Nat /\ Len(log') \in Nat
    BY <1>1 DEF AppendRecords
  <2>2. UNCHANGED <<committed, pos, at, upto, marked>>
    BY <1>1 DEF AppendRecords, clientVars
  <2> QED
    BY <2>1, <2>2
<1>2. ASSUME NEW w \in Workers, Poll(w)
      PROVE  WithinLog'
  BY <1>2 DEF Poll, brokerVars
<1>3. ASSUME NEW w \in Workers, ReturnsNil(w) \/ ReturnsErr(w)
      PROVE  WithinLog'
  <2>1. NextRecord(w)
    BY <1>3 DEF ReturnsNil, ReturnsErr
  <2>2. \A v \in Workers : marked'[v] = marked[v] \/ (v = w /\ marked'[v] = at[w] + 1)
    <3>1. CASE ReturnsNil(w)
      BY <3>1 DEF ReturnsNil, Mark
    <3>2. CASE ReturnsErr(w)
      BY <3>2 DEF ReturnsErr
    <3> QED
      BY <1>3, <3>1, <3>2
  <2>3. UNCHANGED <<log, committed, pos>> /\ at[w] < upto[w]
    BY <2>1 DEF NextRecord, brokerVars, InBatch
  <2>4. ASSUME NEW v \in Workers
        PROVE  at'[v] <= upto'[v] /\ upto'[v] <= upto[v] /\ upto'[v] \in Nat
    BY <2>1, <2>3 DEF NextRecord
  <2>5. ASSUME NEW v \in Workers
        PROVE  /\ at'[v] <= upto'[v]
               /\ upto'[v] <= Len(log)
               /\ marked'[v] <= Len(log)
    <3>1. Len(log) \in Nat
      OBVIOUS
    <3>2. at[w] + 1 <= upto[w] /\ upto[w] <= Len(log) /\ upto[v] <= Len(log)
      BY <2>3
    <3>3. marked'[v] <= Len(log)
      <4>1. CASE marked'[v] = marked[v]
        BY <4>1
      <4>2. CASE marked'[v] = at[w] + 1
        BY <3>1, <3>2, <4>2
      <4> QED
        BY <2>2, <4>1, <4>2
    <3> QED
      BY <2>4, <3>1, <3>2, <3>3
  <2> QED
    BY <2>3, <2>5
<1>4. ASSUME NEW w \in Workers, AutoCommit(w)
      PROVE  WithinLog'
  BY <1>4 DEF AutoCommit, Flushed
<1>5. ASSUME NEW w \in Workers, Rebalance(w)
      PROVE  WithinLog'
  <2>1. CASE Assign(w)
    BY <2>1 DEF Assign
  <2>2. CASE Revoke(w)
    BY <2>2 DEF Revoke, Flushed, Forget
  <2>3. CASE Lose(w)
    BY <2>3 DEF Lose, Forget
  <2> QED
    BY <1>5, <2>1, <2>2, <2>3 DEF Rebalance
<1>6. ASSUME NEW w \in Workers, Process(w)
      PROVE  WithinLog'
  <2>1. CASE Stop(w)
    BY <2>1 DEF Stop, brokerVars, clientVars
  <2>2. CASE Exit(w)
    BY <2>2 DEF Exit, Dies, Flushed, Forget
  <2>3. CASE Crash(w)
    BY <2>3 DEF Crash, Dies, Forget
  <2>4. CASE Restart(w)
    BY <2>4 DEF Restart, brokerVars, clientVars
  <2> QED
    BY <1>6, <2>1, <2>2, <2>3, <2>4 DEF Process
<1>7. CASE UNCHANGED groupVars
  BY <1>7 DEF groupVars, brokerVars, clientVars
<1> QED
  BY <1>1, <1>2, <1>3, <1>4, <1>5, <1>6, <1>7 DEF GroupMove

(***************************************************************************)
(* What a group promises when handlers fail only in a shutdown.  S is what *)
(* has been achieved before a step, T after it: the offsets handled        *)
(* successfully here, those of claimed tracks in the upload pipeline.      *)
(***************************************************************************)
LEMMA CoveredGrows ==
  ASSUME NEW S, NEW T, S \subseteq T, NEW n
  PROVE  Covers(S, n) => Covers(T, n)
  BY DEF Covers

\* The handler of a record returns: the record is in T, unless the handler was
\* cut off by a shutdown.
LEMMA CoveredReturn ==
  ASSUME GroupTypeOK, NEW S, NEW T, S \subseteq T, CoveredBy(S), NEW w \in Workers,
         \/ at[w] \in T /\ (ReturnsNil(w) \/ ReturnsErr(w))
         \/ proc[w] = "stopping" /\ ReturnsErr(w)
  PROVE  CoveredBy(T)'
<1> USE DEF GroupTypeOK, CoveredBy
<1>1. /\ UNCHANGED <<proc, pos, committed>>
      /\ at'[w] = at[w] + 1
      /\ at[w] < upto[w]
      /\ upto'[w] = IF proc[w] = "up" THEN upto[w] ELSE at[w] + 1
      /\ proc[w] # "down"
      /\ \A v \in Workers \ {w} : at'[v] = at[v] /\ upto'[v] = upto[v]
  BY DEF ReturnsNil, ReturnsErr, NextRecord, brokerVars, InBatch
<1>2. \A v \in Workers : \/ marked'[v] = marked[v]
                         \/ v = w /\ marked'[v] = at[w] + 1 /\ at[w] \in T
  BY DEF ReturnsNil, ReturnsErr, Mark
<1>3. at[w] \in T => Covers(T, at[w] + 1)
  BY <1>1, CoveredGrows DEF Covers, InBatch
<1>4. \A v \in Workers : Covers(T, marked'[v])
  BY <1>2, <1>3, CoveredGrows
<1>5. ASSUME NEW v \in Workers
      PROVE  /\ at'[v] <= upto'[v]
             /\ proc'[v] # "stopping" \/ at'[v] < upto'[v] => Covers(T, at'[v])
             /\ proc'[v] # "stopping" =>
                   pos'[v] = upto'[v] \/ Covers(T, pos'[v])
  <2>1. CASE v = w
    <3>1. CASE at[w] \in T
      BY <1>1, <1>3, <2>1, <3>1, CoveredGrows
    <3>2. CASE proc[w] = "stopping"
      BY <1>1, <2>1, <3>2
    <3> QED
      BY <3>1, <3>2
  <2>2. CASE v # w
    BY <1>1, <2>2, CoveredGrows DEF InBatch
  <2> QED
    BY <2>1, <2>2
<1> QED
  BY <1>1, <1>4, <1>5, CoveredGrows DEF InBatch

\* A step in which no handler returns.
LEMMA CoveredStep ==
  ASSUME GroupTypeOK, NEW S, NEW T, S \subseteq T, CoveredBy(S),
         \/ \E records \in Seq(Events) : AppendRecords(records)
         \/ \E w \in Workers : Poll(w) \/ AutoCommit(w) \/ Rebalance(w) \/ Process(w)
         \/ UNCHANGED groupVars
  PROVE  CoveredBy(T)'
<1> USE GroupAssumption, CoveredGrows DEF GroupTypeOK, CoveredBy, InBatch
<1>0. Covers(T, 0) /\ \A w \in Workers : Covers(T, Flushed(w))
  <2>1. Covers(T, 0)
    BY DEF Covers
  <2>2. \A w \in Workers : Covers(T, Flushed(w))
    BY DEF Flushed
  <2> QED
    BY <2>1, <2>2
<1>1. ASSUME NEW records \in Seq(Events), AppendRecords(records)
      PROVE  CoveredBy(T)'
  BY <1>1 DEF AppendRecords, clientVars
<1>2. ASSUME NEW w \in Workers, Poll(w)
      PROVE  CoveredBy(T)'
  BY <1>2 DEF Poll, brokerVars
<1>3. ASSUME NEW w \in Workers, AutoCommit(w)
      PROVE  CoveredBy(T)'
  <2>1. Covers(T, committed')
    BY <1>0, <1>3 DEF AutoCommit
  <2> QED
    BY <1>3, <2>1 DEF AutoCommit
<1>4. ASSUME NEW w \in Workers, Rebalance(w)
      PROVE  CoveredBy(T)'
  <2>1. CASE Assign(w)
    BY <2>1 DEF Assign
  <2>2. CASE Revoke(w)
    BY <1>0, <2>2 DEF Revoke, Forget
  <2>3. CASE Lose(w)
    BY <1>0, <2>3 DEF Lose, Forget
  <2> QED
    BY <1>4, <2>1, <2>2, <2>3 DEF Rebalance
<1>5. ASSUME NEW w \in Workers, Process(w)
      PROVE  CoveredBy(T)'
  <2>1. CASE Stop(w)
    BY <2>1 DEF Stop, brokerVars, clientVars
  <2>2. CASE Exit(w)
    BY <1>0, <2>2 DEF Exit, Dies, Forget
  <2>3. CASE Crash(w)
    <3>1. /\ at'[w] = 0 /\ upto'[w] = 0 /\ pos'[w] = 0 /\ marked'[w] = 0
          /\ committed' = committed
      BY <2>3 DEF Crash, Dies, Forget
    <3>2. ASSUME NEW v \in Workers, v # w
          PROVE  /\ at'[v] = at[v] /\ upto'[v] = upto[v] /\ pos'[v] = pos[v]
                 /\ marked'[v] = marked[v] /\ proc'[v] = proc[v]
      BY <2>3, <3>2 DEF Crash, Dies, Forget
    <3> DEFINE Held(v) == /\ Covers(T, marked[v])
                          /\ at[v] <= upto[v]
                          /\ proc[v] # "stopping" \/ InBatch(v) => Covers(T, at[v])
                          /\ proc[v] # "stopping" =>
                                pos[v] = upto[v] \/ Covers(T, pos[v])
    <3>3. Held(w)'
      BY <1>0, <3>1
    <3>4. ASSUME NEW v \in Workers, v # w
          PROVE  Held(v)'
      BY <3>2, <3>4
    <3> QED
      BY <3>1, <3>3, <3>4
  <2>4. CASE Restart(w)
    BY <2>4 DEF Restart, brokerVars, clientVars
  <2> QED
    BY <1>5, <2>1, <2>2, <2>3, <2>4 DEF Process
<1>6. CASE UNCHANGED groupVars
  BY <1>6 DEF groupVars, brokerVars, clientVars
<1> QED
  BY <1>1, <1>2, <1>3, <1>4, <1>5, <1>6

LEMMA DoneStep ==
  ASSUME "handler" \notin Faults, GroupTypeOK, DoneInv, [GroupNext]_groupVars
  PROVE  DoneInv'
<1> USE DEF DoneInv
<1>1. CASE /\ done' = done
           /\ \/ \E records \in Seq(Events) : AppendRecords(records)
              \/ \E w \in Workers : Poll(w) \/ AutoCommit(w) \/ Rebalance(w) \/ Process(w)
              \/ UNCHANGED groupVars
  BY <1>1, CoveredStep DEF CoveredBy
<1>2. ASSUME NEW w \in Workers, HandlerOk(w) \/ HandlerErr(w)
      PROVE  DoneInv'
  <2>1. /\ done \subseteq done'
        /\ \/ at[w] \in done' /\ ReturnsNil(w)
           \/ proc[w] = "stopping" /\ ReturnsErr(w)
    BY <1>2 DEF HandlerOk, HandlerErr, ReturnsNil, ReturnsErr
  <2> QED
    BY <2>1, CoveredReturn DEF CoveredBy
<1>3. ASSUME NEW e \in Events, AppendRecords(<<e>>)
      PROVE  done' = done /\ <<e>> \in Seq(Events)
  BY <1>3 DEF AppendRecords, historyVars
<1>4. ASSUME NEW w \in Workers, Poll(w) \/ AutoCommit(w) \/ Rebalance(w) \/ Process(w)
      PROVE  done' = done
  BY <1>4 DEF Poll, AutoCommit, Rebalance, Assign, Revoke, Lose, Process, Stop,
              Exit, Crash, Restart, historyVars
<1>5. UNCHANGED groupVars => done' = done
  BY DEF groupVars, historyVars
<1> QED
  BY <1>1, <1>2, <1>3, <1>4, <1>5 DEF GroupNext

\* "Records are only committed after the handler returns nil" (kafka.go:75) holds
\* as long as the only failures of handlers are those of a shutdown: crashes,
\* shutdowns in the middle of a batch and rebalances do not break it.
THEOREM CommittedRecordsAreDone ==
  ASSUME "handler" \notin Faults
  PROVE  GroupSpec => []CommittedDone
<1>1. GroupInit => DoneInv
  BY DEF GroupInit, DoneInv, CoveredBy, Covers, InBatch
<1>2. GroupTypeOK /\ DoneInv /\ [GroupNext]_groupVars => DoneInv'
  BY DoneStep
<1>3. DoneInv => CommittedDone
  BY DEF DoneInv, CoveredBy, Covers, CommittedDone
<1> QED
  BY <1>1, <1>2, <1>3, GroupTyping, PTL DEF GroupSpec
=============================================================================
