------------------------ MODULE PlayAnalyticsProofs ------------------------
(***************************************************************************)
(* Proofs about PlayAnalytics, for every set of workers and tracks, every  *)
(* length of the log and every class of fault.                             *)
(***************************************************************************)
EXTENDS PlayAnalytics, ConsumerGroupProofs

(***************************************************************************)
(* The group inside the system.                                            *)
(***************************************************************************)
LEMMA PlaysMoveGroup == [Next]_vars => [GroupMove]_groupVars
<1> SUFFICES ASSUME [Next]_vars
             PROVE  GroupMove \/ UNCHANGED groupVars
  OBVIOUS
<1>1. ASSUME NEW t \in Tracks, Stream(t) \/ PublishPlay(t) \/ LosePlay(t)
      PROVE  GroupMove \/ UNCHANGED groupVars
  <2>1. <<t>> \in Seq(Events) /\ <<t, t>> \in Seq(Events)
    BY DEF Tracks
  <2> QED
    BY <1>1, <2>1 DEF Stream, PublishPlay, LosePlay, GroupMove
<1>2. ASSUME NEW w \in Workers, RecordStep(w)
      PROVE  GroupMove \/ UNCHANGED groupVars
  BY <1>2 DEF RecordStep, Begin, InsertEvent, UpdateCount, Commit, Advances,
              GivesUp, GroupMove
<1>3. ASSUME NEW w \in Workers, GroupStep(w) \/ ProcessEnds(w)
      PROVE  GroupMove \/ UNCHANGED groupVars
  BY <1>3 DEF GroupStep, ProcessEnds, GroupMove, Process
<1>4. CASE UNCHANGED vars
  BY <1>4 DEF vars
<1> QED
  BY <1>1, <1>2, <1>3, <1>4 DEF Next

(***************************************************************************)
(* Typing.                                                                 *)
(***************************************************************************)
PlayTypeOK ==
    /\ publishing \in [Tracks -> Nat]
    /\ again \subseteq 0 .. MaxLog - 1
    /\ playEvents \in [Tracks -> Nat]
    /\ playCount \in [Tracks -> Nat]
    /\ step \in [Workers -> {"begin", "insert", "update", "commit"}]
    /\ newCount \in [Workers -> Nat]
    /\ counted \in [0 .. MaxLog - 1 -> Nat]

LEMMA TrackOfRecord ==
  ASSUME GroupTypeOK, WithinLog, NEW w \in Workers, InBatch(w)
  PROVE  Track(w) \in Tracks /\ at[w] + 1 \in 1 .. Len(log)
  BY DEF GroupTypeOK, WithinLog, InBatch, Track, Tracks

LEMMA PlayTypeStep ==
  ASSUME GroupTypeOK, WithinLog, PlayTypeOK, TxInv, [Next]_vars
  PROVE  PlayTypeOK'
<1> USE DEF PlayTypeOK
<1>1. ASSUME NEW t \in Tracks, Stream(t) \/ PublishPlay(t) \/ LosePlay(t)
      PROVE  PlayTypeOK'
  <2>1. UNCHANGED <<playEvents, playCount, counted, step, newCount>>
    BY <1>1 DEF Stream, PublishPlay, LosePlay, dbVars, txVars
  <2>2. publishing' \in [Tracks -> Nat]
    <3>1. CASE Stream(t)
      BY <3>1 DEF Stream
    <3>2. CASE PublishPlay(t) \/ LosePlay(t)
      <4>1. publishing[t] > 0 /\ publishing' = [publishing EXCEPT ![t] = @ - 1]
        BY <3>2 DEF PublishPlay, LosePlay
      <4> QED
        BY <4>1
    <3> QED
      BY <1>1, <3>1, <3>2
  <2>3. again' \subseteq 0 .. MaxLog - 1
    <3>1. CASE UNCHANGED again
      BY <3>1
    <3>2. CASE AppendRecords(<<t, t>>) /\ again' = again \cup {Len(log) + 1}
      <4>1. Len(log) + 2 <= MaxLog /\ Len(log) \in Nat /\ MaxLog \in Nat
        BY <3>2, GroupAssumption DEF AppendRecords, GroupTypeOK
      <4>2. Len(log) + 1 \in 0 .. MaxLog - 1
        BY <4>1
      <4> QED
        BY <3>2, <4>2
    <3> QED
      BY <1>1, <3>1, <3>2 DEF Stream, PublishPlay, LosePlay
  <2> QED
    BY <2>1, <2>2, <2>3
<1>2. ASSUME NEW w \in Workers, RecordStep(w)
      PROVE  PlayTypeOK'
  <2>1. InBatch(w)
    BY <1>2 DEF TxInv, RecordStep, Begin, InsertEvent, UpdateCount, Commit
  <2>2. Track(w) \in Tracks
    BY <2>1, TrackOfRecord
  <2>3. UNCHANGED <<publishing, again>>
    BY <1>2 DEF RecordStep, Begin, InsertEvent, UpdateCount, Commit, Advances,
                GivesUp, Committed, apiVars
  <2>4. \/ UNCHANGED dbVars /\ EndsTx(w)
        \/ Committed(w) /\ EndsTx(w)
        \/ \E s \in {"insert", "update", "commit"} :
              /\ UNCHANGED dbVars
              /\ Goto(w, s)
              /\ \/ UNCHANGED newCount
                 \/ newCount' = [newCount EXCEPT ![w] = playCount[Track(w)] + 1]
    <3>1. CASE GivesUp(w)
      BY <3>1 DEF GivesUp
    <3>2. CASE ~GivesUp(w) /\ Commit(w)
      BY <3>2 DEF Commit
    <3>3. CASE ~GivesUp(w) /\ (Begin(w) \/ InsertEvent(w) \/ UpdateCount(w))
      BY <3>3 DEF Begin, InsertEvent, UpdateCount, Advances
    <3> QED
      BY <1>2, <3>1, <3>2, <3>3 DEF RecordStep
  <2>5. step' \in [Workers -> {"begin", "insert", "update", "commit"}]
    <3>1. \E s \in {"begin", "insert", "update", "commit"} : Goto(w, s)
      BY <2>4 DEF EndsTx
    <3> QED
      BY <3>1 DEF Goto
  <2>6. newCount' \in [Workers -> Nat]
    <3>1. playCount[Track(w)] + 1 \in Nat
      BY <2>2
    <3>2. PICK n \in Nat : UNCHANGED newCount \/ newCount' = [newCount EXCEPT ![w] = n]
      BY <2>4, <3>1 DEF EndsTx
    <3> QED
      BY <3>2
  <2>7. UNCHANGED dbVars \/ Committed(w)
    BY <2>4
  <2>8. CASE UNCHANGED dbVars
    BY <2>3, <2>5, <2>6, <2>8 DEF dbVars
  <2>9. CASE Committed(w)
    <3>1. at[w] \in Nat /\ newCount[w] \in Nat
      BY DEF GroupTypeOK
    <3>2. playEvents' \in [Tracks -> Nat]
      BY <2>2, <2>9 DEF Committed
    <3>3. playCount' \in [Tracks -> Nat]
      BY <2>2, <2>9, <3>1 DEF Committed
    <3>4. counted' \in [0 .. MaxLog - 1 -> Nat]
      <4>1. ASSUME NEW o \in 0 .. MaxLog - 1
            PROVE  [counted EXCEPT ![at[w]] = @ + 1][o] \in Nat
        BY <4>1
      <4> QED
        BY <2>9, <4>1 DEF Committed
    <3> QED
      BY <2>3, <2>5, <2>6, <3>2, <3>3, <3>4
  <2> QED
    BY <2>7, <2>8, <2>9
<1>3. ASSUME NEW w \in Workers, GroupStep(w) \/ ProcessEnds(w)
      PROVE  PlayTypeOK'
  <2>1. CASE GroupStep(w)
    BY <2>1 DEF GroupStep, playVars, apiVars, dbVars, txVars
  <2>2. CASE ProcessEnds(w)
    <3>1. EndsTx(w) /\ UNCHANGED <<apiVars, dbVars>>
      BY <2>2 DEF ProcessEnds
    <3>2. step' \in [Workers -> {"begin", "insert", "update", "commit"}]
      BY <3>1 DEF EndsTx, Goto
    <3>3. newCount' \in [Workers -> Nat]
      BY <3>1 DEF EndsTx
    <3> QED
      BY <3>1, <3>2, <3>3 DEF apiVars, dbVars
  <2> QED
    BY <1>3, <2>1, <2>2
<1>4. CASE UNCHANGED vars
  BY <1>4 DEF vars, playVars, apiVars, dbVars, txVars
<1> QED
  BY <1>1, <1>2, <1>3, <1>4 DEF Next

(***************************************************************************)
(* The transactions.                                                       *)
(***************************************************************************)
\* A step that leaves the open transactions alone: a worker that has one keeps
\* its place in the batch, and no count changes.
LEMMA TxKept ==
  ASSUME GroupTypeOK, WithinLog, TxInv,
         UNCHANGED <<step, newCount, playCount>>,
         \A v \in Workers : step[v] # "begin" =>
            at'[v] = at[v] /\ upto'[v] = upto[v] /\ proc'[v] # "down",
         \A i \in 1 .. Len(log) : log'[i] = log[i]
  PROVE  TxInv'
<1>1. ASSUME NEW v \in Workers, step[v] # "begin"
      PROVE  InBatch(v) /\ InBatch(v)' /\ Track(v)' = Track(v) /\ proc'[v] # "down"
  <2>1. InBatch(v)
    BY <1>1 DEF TxInv
  <2> QED
    BY <1>1, <2>1, TrackOfRecord DEF InBatch, Track
<1> QED
  BY <1>1 DEF TxInv

\* A step of record() that only moves on inside the transaction.
LEMMA TxAdvances ==
  ASSUME GroupTypeOK, WithinLog, PlayTypeOK, TxInv, NEW w \in Workers,
         InBatch(w), NEW s \in {"insert", "update"},
         Advances(w, s), UNCHANGED newCount
  PROVE  TxInv'
<1>1. UNCHANGED <<log, at, upto, proc, playCount, newCount>> /\ proc[w] = "up"
  BY DEF Advances, Works, groupVars, brokerVars, clientVars, dbVars
<1>2. step'[w] = s /\ \A v \in Workers \ {w} : step'[v] = step[v]
  BY DEF Advances, Goto, PlayTypeOK
<1> QED
  BY <1>1, <1>2 DEF TxInv, InBatch, Track

\* A step that ends worker w's transaction, and commits it or drops it.
LEMMA TxEnds ==
  ASSUME GroupTypeOK, WithinLog, PlayTypeOK, TxInv, NEW w \in Workers,
         step'[w] = "begin",
         \A v \in Workers \ {w} :
            /\ step'[v] = step[v] /\ newCount'[v] = newCount[v]
            /\ at'[v] = at[v] /\ upto'[v] = upto[v] /\ proc'[v] = proc[v],
         UNCHANGED log,
         \/ UNCHANGED playCount
         \/ /\ step[w] = "commit"
            /\ playCount' = [playCount EXCEPT ![Track(w)] = newCount[w]]
  PROVE  TxInv'
<1>1. ASSUME NEW v \in Workers \ {w}
      PROVE  InBatch(v)' = InBatch(v) /\ Track(v)' = Track(v)
  BY <1>1 DEF InBatch, Track
<1>2. ASSUME NEW v \in Workers \ {w}, step[v] = "commit"
      PROVE  playCount'[Track(v)] = playCount[Track(v)]
  <2>1. Track(v) \in Tracks
    BY <1>2, TrackOfRecord DEF TxInv
  <2> QED
    BY <1>2, <2>1 DEF TxInv, PlayTypeOK
<1> QED
  BY <1>1, <1>2 DEF TxInv

LEMMA TxStepRecord ==
  ASSUME GroupTypeOK, WithinLog, PlayTypeOK, TxInv, NEW w \in Workers,
         RecordStep(w)
  PROVE  TxInv'
<1>1. InBatch(w)
  BY DEF TxInv, RecordStep, Begin, InsertEvent, UpdateCount, Commit
<1>2. ASSUME ReturnsNil(w) \/ ReturnsErr(w), EndsTx(w),
             \/ UNCHANGED playCount
             \/ step[w] = "commit" /\ Committed(w)
      PROVE  TxInv'
  <2>1. NextRecord(w)
    BY <1>2 DEF ReturnsNil, ReturnsErr
  <2>2. /\ UNCHANGED <<log, proc>>
        /\ \A v \in Workers \ {w} : at'[v] = at[v] /\ upto'[v] = upto[v]
    BY <2>1 DEF NextRecord, brokerVars, GroupTypeOK
  <2>3. /\ step'[w] = "begin"
        /\ \A v \in Workers \ {w} : step'[v] = step[v] /\ newCount'[v] = newCount[v]
    BY <1>2 DEF EndsTx, Goto, PlayTypeOK
  <2> QED
    BY <1>2, <2>2, <2>3, TxEnds DEF Committed
<1>3. CASE GivesUp(w)
  BY <1>2, <1>3 DEF GivesUp, dbVars
<1>4. CASE (Begin(w) \/ InsertEvent(w)) /\ ~GivesUp(w)
  BY <1>1, <1>4, TxAdvances DEF Begin, InsertEvent
<1>5. CASE UpdateCount(w) /\ ~GivesUp(w)
  <2>1. /\ ~RowLocked(w)
        /\ Advances(w, "commit")
        /\ newCount' = [newCount EXCEPT ![w] = playCount[Track(w)] + 1]
    BY <1>5 DEF UpdateCount
  <2>2. UNCHANGED <<log, at, upto, proc, playCount>> /\ proc[w] = "up"
    BY <2>1 DEF Advances, Works, groupVars, brokerVars, clientVars, dbVars
  <2>3. /\ step'[w] = "commit"
        /\ \A v \in Workers \ {w} : step'[v] = step[v] /\ newCount'[v] = newCount[v]
        /\ newCount'[w] = playCount[Track(w)] + 1
    BY <2>1 DEF Advances, Goto, PlayTypeOK
  <2>4. \A v \in Workers \ {w} : step[v] = "commit" => Track(v) # Track(w)
    BY <2>1 DEF RowLocked
  <2>5. \A v \in Workers : Track(v)' = Track(v) /\ InBatch(v)' = InBatch(v)
    BY <2>2 DEF Track, InBatch
  <2> QED
    BY <1>1, <2>2, <2>3, <2>4, <2>5 DEF TxInv
<1>6. CASE Commit(w) /\ ~GivesUp(w)
  BY <1>2, <1>6 DEF Commit
<1> QED
  BY <1>3, <1>4, <1>5, <1>6 DEF RecordStep

LEMMA TxStep ==
  ASSUME GroupTypeOK, WithinLog, PlayTypeOK, TxInv, [Next]_vars
  PROVE  TxInv'
<1>1. ASSUME NEW t \in Tracks, Stream(t) \/ PublishPlay(t) \/ LosePlay(t)
      PROVE  TxInv'
  <2>1. UNCHANGED <<step, newCount, playCount, at, upto, proc>>
    BY <1>1 DEF Stream, PublishPlay, LosePlay, AppendRecords, groupVars, clientVars,
                dbVars, txVars
  <2>2. \A i \in 1 .. Len(log) : log'[i] = log[i]
    <3>1. log' = log \/ \E records \in Seq(Events) : log' = log \o records
      <4>1. <<t>> \in Seq(Events) /\ <<t, t>> \in Seq(Events)
        BY DEF Tracks
      <4> QED
        BY <1>1, <4>1 DEF Stream, PublishPlay, LosePlay, AppendRecords, groupVars,
                          brokerVars
    <3> QED
      BY <3>1 DEF GroupTypeOK
  <2> QED
    BY <2>1, <2>2, TxKept DEF TxInv
<1>2. ASSUME NEW w \in Workers, RecordStep(w)
      PROVE  TxInv'
  BY <1>2, TxStepRecord
<1>3. ASSUME NEW w \in Workers, GroupStep(w)
      PROVE  TxInv'
  <2>1. UNCHANGED <<step, newCount, playCount, log>>
    BY <1>3 DEF GroupStep, playVars, txVars, dbVars, Poll, AutoCommit, Rebalance,
                Assign, Revoke, Lose, Stop, Restart, brokerVars
  <2>2. ASSUME NEW v \in Workers, step[v] # "begin"
        PROVE  at'[v] = at[v] /\ upto'[v] = upto[v] /\ proc'[v] # "down"
    <3>1. InBatch(v) /\ proc[v] # "down"
      BY <2>2 DEF TxInv
    <3>2. CASE Poll(w)
      BY <3>1, <3>2 DEF Poll, InBatch, GroupTypeOK
    <3>3. CASE AutoCommit(w) \/ Rebalance(w)
      BY <3>1, <3>3 DEF AutoCommit, Rebalance, Assign, Revoke, Lose, clientVars
    <3>4. CASE Stop(w) \/ Restart(w)
      BY <3>1, <3>4 DEF Stop, Restart, clientVars, GroupTypeOK
    <3> QED
      BY <1>3, <3>2, <3>3, <3>4 DEF GroupStep
  <2> QED
    BY <2>1, <2>2, TxKept
<1>4. ASSUME NEW w \in Workers, ProcessEnds(w)
      PROVE  TxInv'
  <2>1. /\ UNCHANGED <<log, playCount>>
        /\ step'[w] = "begin"
        /\ \A v \in Workers \ {w} :
              /\ step'[v] = step[v] /\ newCount'[v] = newCount[v]
              /\ at'[v] = at[v] /\ upto'[v] = upto[v] /\ proc'[v] = proc[v]
    BY <1>4 DEF ProcessEnds, Exit, Crash, Dies, EndsTx, Goto, dbVars, PlayTypeOK,
                GroupTypeOK
  <2> QED
    BY <2>1, TxEnds
<1>5. CASE UNCHANGED vars
  BY <1>5, TxKept DEF vars, groupVars, brokerVars, clientVars, playVars, dbVars,
                      txVars, TxInv
<1> QED
  BY <1>1, <1>2, <1>3, <1>4, <1>5 DEF Next

(***************************************************************************)
(* The counter and the table.                                              *)
(***************************************************************************)
LEMMA CountStep ==
  ASSUME GroupTypeOK, WithinLog, PlayTypeOK, TxInv, CountMatchesEvents, [Next]_vars
  PROVE  CountMatchesEvents'
<1>1. ASSUME UNCHANGED <<playCount, playEvents>>
      PROVE  CountMatchesEvents'
  BY <1>1 DEF CountMatchesEvents
<1>2. ASSUME NEW t \in Tracks, Stream(t) \/ PublishPlay(t) \/ LosePlay(t)
      PROVE  CountMatchesEvents'
  BY <1>1, <1>2 DEF Stream, PublishPlay, LosePlay, dbVars
<1>3. ASSUME NEW w \in Workers, RecordStep(w)
      PROVE  CountMatchesEvents'
  <2>1. CASE step[w] = "commit" /\ Committed(w)
    <3>1. newCount[w] = playCount[Track(w)] + 1 /\ Track(w) \in Tracks
      BY <2>1, TrackOfRecord DEF TxInv
    <3> QED
      BY <2>1, <3>1 DEF Committed, CountMatchesEvents, PlayTypeOK
  <2>2. CASE UNCHANGED dbVars
    BY <1>1, <2>2 DEF dbVars
  <2> QED
    BY <1>3, <2>1, <2>2 DEF RecordStep, Begin, InsertEvent, UpdateCount, Commit,
                            Advances, GivesUp
<1>4. ASSUME NEW w \in Workers, GroupStep(w) \/ ProcessEnds(w)
      PROVE  CountMatchesEvents'
  BY <1>1, <1>4 DEF GroupStep, ProcessEnds, playVars, dbVars
<1>5. CASE UNCHANGED vars
  BY <1>1, <1>5 DEF vars, playVars, dbVars
<1> QED
  BY <1>2, <1>3, <1>4, <1>5 DEF Next

(***************************************************************************)
(* How often a play is counted.                                            *)
(***************************************************************************)
Budget(o) ==
    /\ IsFiniteSet(Holders(o))
    /\ counted[o] + Cardinality(Holders(o)) + Due(o) <= 1 + disruptions

\* A step that gives no worker the record o, and counts its play only for a
\* worker that gives the record up.
LEMMA BudgetKept ==
  ASSUME GroupTypeOK, PlayTypeOK, GroupTypeOK', NEW o \in 0 .. MaxLog - 1, Budget(o),
         Holders(o)' \subseteq Holders(o),
         \/ counted'[o] = counted[o]
         \/ /\ counted'[o] = counted[o] + 1
            /\ \E w \in Holders(o) : w \notin Holders(o)',
         \/ disruptions' = disruptions + 1
         \/ disruptions' = disruptions /\ (ReadPast(o) => ReadPast(o)')
  PROVE  Budget(o)'
<1>1. /\ disruptions \in Nat /\ disruptions' \in Nat
      /\ counted[o] \in Nat
  BY GroupAssumption DEF GroupTypeOK, PlayTypeOK
<1>2. /\ Due(o) \in {0, 1} /\ Due(o)' \in {0, 1}
      /\ \/ disruptions' = disruptions + 1
         \/ disruptions' = disruptions /\ Due(o)' <= Due(o)
  BY DEF Due
<1>3. /\ IsFiniteSet(Holders(o)) /\ IsFiniteSet(Holders(o)')
      /\ Cardinality(Holders(o)) \in Nat /\ Cardinality(Holders(o)') \in Nat
      /\ Cardinality(Holders(o)') <= Cardinality(Holders(o))
  BY FS_Subset, FS_CardinalityType DEF Budget
<1>4. CASE counted'[o] = counted[o]
  BY <1>1, <1>2, <1>3, <1>4 DEF Budget
<1>5. ASSUME counted'[o] = counted[o] + 1,
             NEW w \in Holders(o), w \notin Holders(o)'
      PROVE  Budget(o)'
  <2>1. /\ IsFiniteSet(Holders(o) \ {w})
        /\ Cardinality(Holders(o) \ {w}) = Cardinality(Holders(o)) - 1
    BY <1>3, FS_RemoveElement
  <2>2. Holders(o)' \subseteq Holders(o) \ {w}
    BY <1>5
  <2>3. Cardinality(Holders(o)') <= Cardinality(Holders(o)) - 1
    BY <2>1, <2>2, FS_Subset
  <2> QED
    BY <1>1, <1>2, <1>3, <1>5, <2>3 DEF Budget
<1> QED
  BY <1>4, <1>5

\* The handler returns: the record that was counted, if any was, is out of the
\* worker's batch.
LEMMA BudgetRecord ==
  ASSUME GroupTypeOK, WithinLog, PlayTypeOK, TxInv, BudgetInv, GroupTypeOK',
         NEW w \in Workers, RecordStep(w)
  PROVE  BudgetInv'
<1>1. InBatch(w) /\ (step[w] # "begin" => proc[w] # "down")
  BY DEF TxInv, RecordStep, Begin, InsertEvent, UpdateCount, Commit
<1>2. CASE UNCHANGED <<groupVars, counted>>
  <2>1. UNCHANGED <<owner, proc, committed, pos, at, upto, marked, disruptions, counted>>
    BY <1>2 DEF groupVars, brokerVars, clientVars
  <2> QED
    BY <2>1 DEF BudgetInv, Holders, Due, ReadPast
<1>3. CASE /\ ReturnsNil(w) \/ ReturnsErr(w)
           /\ \/ UNCHANGED counted
              \/ counted' = [counted EXCEPT ![at[w]] = @ + 1]
  <2>1. /\ at' = [at EXCEPT ![w] = @ + 1]
        /\ upto' = [upto EXCEPT ![w] = IF proc[w] = "up" THEN @ ELSE at[w] + 1]
        /\ UNCHANGED <<owner, proc, committed, pos, disruptions>>
    BY <1>3 DEF ReturnsNil, ReturnsErr, NextRecord, brokerVars
  <2>2. ASSUME NEW o \in 0 .. MaxLog - 1
        PROVE  Budget(o)'
    <3>1. Holders(o)' \subseteq Holders(o)
      <4>1. /\ at \in [Workers -> Nat] /\ upto \in [Workers -> Nat]
            /\ at[w] < upto[w] /\ at[w] \in Nat
        BY <1>1 DEF InBatch, GroupTypeOK
      <4>2. \A v \in Workers : at[v] <= at'[v] /\ upto'[v] <= upto[v]
                               /\ at'[v] \in Nat /\ upto'[v] \in Nat
        BY <2>1, <4>1
      <4> QED
        BY <4>1, <4>2 DEF Holders
    <3>2. at[w] = o => w \in Holders(o) /\ w \notin Holders(o)'
      BY <1>1, <2>1 DEF Holders, InBatch, GroupTypeOK
    <3>3. counted'[o] = counted[o] \/ (counted'[o] = counted[o] + 1 /\ at[w] = o)
      BY <1>3 DEF PlayTypeOK
    <3>4. Budget(o) /\ disruptions' = disruptions /\ ReadPast(o)' = ReadPast(o)
      BY <2>1 DEF BudgetInv, Budget, ReadPast
    <3> QED
      BY <3>1, <3>2, <3>3, <3>4, BudgetKept
  <2>3. \A v \in Workers : owner' = v => proc'[v] # "down"
    BY <2>1 DEF BudgetInv
  <2> QED
    BY <2>2, <2>3 DEF BudgetInv, Budget
<1>4. \/ UNCHANGED <<groupVars, counted>>
      \/ /\ ReturnsNil(w) \/ ReturnsErr(w)
         /\ \/ UNCHANGED counted
            \/ counted' = [counted EXCEPT ![at[w]] = @ + 1]
  BY DEF RecordStep, Begin, InsertEvent, UpdateCount, Commit, GivesUp, Advances,
         Committed, dbVars
<1> QED
  BY <1>2, <1>3, <1>4

\* What a worker polls it has from then on, and it will read on after that.
LEMMA BudgetPoll ==
  ASSUME GroupTypeOK, PlayTypeOK, BudgetInv, NEW w \in Workers, Poll(w),
         UNCHANGED counted
  PROVE  BudgetInv'
<1>1. PICK n \in pos[w] + 1 .. Len(log) :
         /\ at' = [at EXCEPT ![w] = pos[w]]
         /\ upto' = [upto EXCEPT ![w] = n]
         /\ pos' = [pos EXCEPT ![w] = n]
  BY DEF Poll
<1>2. /\ owner = w /\ proc[w] = "up" /\ ~InBatch(w)
      /\ UNCHANGED <<owner, proc, disruptions>>
  BY DEF Poll, brokerVars
<1>3. pos[w] \in Nat /\ n \in Nat /\ pos[w] < n
  BY <1>1 DEF GroupTypeOK
<1>4. \A o \in Nat : (ReadPast(o) <=> o < pos[w]) /\ (ReadPast(o)' <=> o < n)
  <2>1. pos'[w] = n /\ owner = w /\ owner' = w /\ proc[w] = "up" /\ proc'[w] = "up"
    BY <1>1, <1>2 DEF GroupTypeOK
  <2> QED
    BY <2>1 DEF ReadPast
<1>5. ASSUME NEW o \in 0 .. MaxLog - 1
      PROVE  Budget(o)'
  <2>1. Budget(o) /\ o \in Nat
    BY DEF BudgetInv, Budget
  <2>2. w \notin Holders(o)
    BY <1>2 DEF Holders, InBatch, GroupTypeOK
  <2>3. Holders(o)' = IF pos[w] <= o /\ o < n THEN Holders(o) \cup {w} ELSE Holders(o)
    BY <1>1, <1>3, <2>2 DEF Holders, GroupTypeOK
  <2>4. /\ IsFiniteSet(Holders(o)) /\ Cardinality(Holders(o)) \in Nat
        /\ IsFiniteSet(Holders(o) \cup {w})
        /\ Cardinality(Holders(o) \cup {w}) = Cardinality(Holders(o)) + 1
    BY <2>1, <2>2, FS_CardinalityType, FS_AddElement DEF Budget
  <2>5. counted'[o] = counted[o] /\ counted[o] \in Nat /\ disruptions \in Nat
    BY DEF PlayTypeOK, GroupTypeOK
  <2>6. CASE pos[w] <= o /\ o < n
    <3>1. Due(o) = 1 /\ Due(o)' = 0
      BY <1>3, <1>4, <2>1, <2>6 DEF Due
    <3> QED
      BY <1>2, <2>1, <2>3, <2>4, <2>5, <2>6, <3>1 DEF Budget
  <2>7. CASE ~(pos[w] <= o /\ o < n)
    <3>1. Due(o) \in {0, 1} /\ Due(o)' \in {0, 1} /\ Due(o)' <= Due(o)
      BY <1>3, <1>4, <2>1, <2>7 DEF Due
    <3> QED
      BY <1>2, <2>1, <2>3, <2>4, <2>5, <2>7, <3>1 DEF Budget
  <2> QED
    BY <2>6, <2>7
<1>6. \A v \in Workers : owner' = v => proc'[v] # "down"
  BY <1>2 DEF BudgetInv
<1> QED
  BY <1>5, <1>6 DEF BudgetInv, Budget

\* The other steps of a worker count nothing and take no record; those that send
\* the next reader back use up a disruption.
LEMMA BudgetGroup ==
  ASSUME GroupTypeOK, PlayTypeOK, BudgetInv, GroupTypeOK', NEW w \in Workers,
         \/ AutoCommit(w) \/ Rebalance(w) \/ Stop(w) \/ Restart(w) \/ Crash(w)
         \/ Exit(w) /\ ~InBatch(w),
         UNCHANGED counted
  PROVE  BudgetInv'
<1> USE GroupAssumption
<1> DEFINE Alive == \A v \in Workers : owner = v => proc[v] # "down"
           Back == \/ disruptions' = disruptions + 1
                   \/ /\ disruptions' = disruptions
                      /\ \A o : ReadPast(o) => ReadPast(o)'
           Fewer == \A v \in Workers :
                       \/ at'[v] = at[v] /\ upto'[v] = upto[v]
                       \/ at'[v] = 0 /\ upto'[v] = 0
<1>1. Alive
  BY DEF BudgetInv
<1>2. Alive' /\ Back /\ Fewer
  <2>1. CASE AutoCommit(w)
    BY <1>1, <2>1 DEF AutoCommit, ReadPast
  <2>2. CASE Assign(w)
    <3>1. \A o : ~ReadPast(o)
      BY <2>2 DEF Assign, ReadPast
    <3> QED
      BY <2>2, <3>1 DEF Assign, GroupTypeOK
  <2>3. CASE Revoke(w) \/ Lose(w)
    BY <2>3 DEF Revoke, Lose, Disrupt
  <2>4. CASE Stop(w)
    BY <1>1, <2>4 DEF Stop, Disrupt, clientVars, brokerVars, GroupTypeOK
  <2>5. CASE Restart(w)
    <3>1. /\ owner # w /\ owner' = owner /\ disruptions' = disruptions
          /\ UNCHANGED <<at, upto, pos>>
          /\ \A v \in Workers \ {w} : proc'[v] = proc[v]
      BY <1>1, <2>5 DEF Restart, brokerVars, clientVars, GroupTypeOK
    <3>2. \A o : ReadPast(o) => ReadPast(o)'
      BY <3>1 DEF ReadPast
    <3> QED
      BY <1>1, <3>1, <3>2
  <2>6. CASE Crash(w)
    BY <1>1, <2>6 DEF Crash, Dies, Disrupt, GroupTypeOK
  <2>7. CASE Exit(w) /\ ~InBatch(w)
    <3>1. /\ proc[w] = "stopping"
          /\ owner' = IF owner = w THEN NoOwner ELSE owner
          /\ disruptions' = disruptions
          /\ at'[w] = 0 /\ upto'[w] = 0
          /\ \A v \in Workers \ {w} :
                /\ at'[v] = at[v] /\ upto'[v] = upto[v] /\ pos'[v] = pos[v]
                /\ proc'[v] = proc[v]
      BY <2>7 DEF Exit, Dies, GroupTypeOK
    <3>2. \A o : ReadPast(o) => ReadPast(o)'
      BY <3>1 DEF ReadPast
    <3> QED
      BY <1>1, <3>1, <3>2
  <2> QED
    BY <2>1, <2>2, <2>3, <2>4, <2>5, <2>6, <2>7 DEF Rebalance
<1>3. ASSUME NEW o \in 0 .. MaxLog - 1
      PROVE  Budget(o)'
  <2>1. Holders(o)' \subseteq Holders(o)
    BY <1>2 DEF Holders
  <2>2. Budget(o) /\ counted'[o] = counted[o]
    BY DEF BudgetInv, Budget
  <2> QED
    BY <1>2, <2>1, <2>2, BudgetKept
<1> QED
  BY <1>2, <1>3 DEF BudgetInv, Budget

LEMMA BudgetStep ==
  ASSUME GroupTypeOK, WithinLog, PlayTypeOK, TxInv, BudgetInv, GroupTypeOK',
         [Next]_vars
  PROVE  BudgetInv'
<1>1. ASSUME UNCHANGED <<owner, proc, clientVars, disruptions, counted>>
      PROVE  BudgetInv'
  BY <1>1 DEF BudgetInv, Holders, Due, ReadPast, clientVars
<1>2. ASSUME NEW t \in Tracks, Stream(t) \/ PublishPlay(t) \/ LosePlay(t)
      PROVE  BudgetInv'
  BY <1>1, <1>2 DEF Stream, PublishPlay, LosePlay, AppendRecords, groupVars,
                    brokerVars, dbVars
<1>3. ASSUME NEW w \in Workers, RecordStep(w)
      PROVE  BudgetInv'
  BY <1>3, BudgetRecord
<1>4. ASSUME NEW w \in Workers, GroupStep(w) \/ ProcessEnds(w)
      PROVE  BudgetInv'
  <2>1. UNCHANGED counted
    BY <1>4 DEF GroupStep, ProcessEnds, playVars, dbVars
  <2> QED
    BY <1>4, <2>1, BudgetPoll, BudgetGroup DEF GroupStep, ProcessEnds
<1>5. CASE UNCHANGED vars
  BY <1>1, <1>5 DEF vars, groupVars, brokerVars, playVars, dbVars
<1> QED
  BY <1>2, <1>3, <1>4, <1>5 DEF Next

IInv ==
    /\ GroupTypeOK /\ WithinLog /\ PlayTypeOK
    /\ TxInv /\ CountMatchesEvents /\ BudgetInv

LEMMA PlaysInvariance == Spec => []IInv
<1>1. Init => IInv
  <2>1. Init => GroupTypeOK /\ WithinLog
    BY GroupTypeInit, WithinLogInit DEF Init
  <2>2. Init => PlayTypeOK /\ TxInv /\ CountMatchesEvents
    BY DEF Init, PlayTypeOK, TxInv, CountMatchesEvents
  <2>3. Init => BudgetInv
    <3> SUFFICES ASSUME Init PROVE BudgetInv
      OBVIOUS
    <3>1. \A o \in 0 .. MaxLog - 1 : Holders(o) = {} /\ counted[o] = 0
      BY DEF Init, GroupInit, Holders
    <3>2. disruptions = 0 /\ owner \notin Workers
      BY GroupAssumption DEF Init, GroupInit
    <3>3. \A o \in 0 .. MaxLog - 1 : Due(o) = 1
      BY <3>2 DEF Due, ReadPast
    <3> QED
      BY <3>1, <3>2, <3>3, FS_EmptySet DEF BudgetInv
  <2> QED
    BY <2>1, <2>2, <2>3 DEF IInv
<1>2. IInv /\ [Next]_vars => IInv'
  BY PlaysMoveGroup, GroupTypeStep, WithinLogStep, PlayTypeStep, TxStep, CountStep,
     BudgetStep DEF IInv
<1> QED
  BY <1>1, <1>2, PTL DEF Spec

\* Every variable keeps its type: in particular no goroutine's event is
\* published twice by the application itself, and no count goes below zero.
THEOREM PlaysTyping == Spec => []TypeOK
<1>1. IInv => TypeOK
  BY DEF IInv, PlayTypeOK, TypeOK
<1> QED
  BY <1>1, PlaysInvariance, PTL

\* tracks.play_count is the number of committed play_events rows, for any number
\* of workers and whatever crashes, rebalances, shutdowns and failed statements
\* there were: the two statements commit together, and the UPDATE's lock on the
\* track's row keeps a second worker from reading the count before the first
\* has committed it (record, analytics.go:58-85).
THEOREM PlayCountsAgree == Spec => []CountMatchesEvents
<1>1. IInv => CountMatchesEvents
  BY DEF IInv
<1> QED
  BY <1>1, PlaysInvariance, PTL

\* "A crashed consumer may double-count a play" (analytics.go:23), and this is all
\* but for the producer's retries: for any number of workers, records and
\* disruptions, whoever holds a record, loses the partition inside its batch or
\* is cut off in its COMMIT, a play is counted at most once and once more per
\* crash, shutdown or rebalance, and as often again if its event was appended
\* twice.
THEOREM OverCountIsBounded == Spec => []OverCountBounded
<1>1. ASSUME IInv, NEW o \in 0 .. MaxLog - 1
      PROVE  counted[o] <= 1 + disruptions /\ counted[o] \in Nat
  <2>1. Cardinality(Holders(o)) \in Nat /\ Due(o) \in {0, 1}
    BY <1>1, FS_CardinalityType DEF IInv, BudgetInv, Due
  <2>2. counted[o] + Cardinality(Holders(o)) + Due(o) <= 1 + disruptions
    BY <1>1 DEF IInv, BudgetInv
  <2>3. counted[o] \in Nat /\ disruptions \in Nat
    BY <1>1, GroupAssumption DEF IInv, PlayTypeOK, GroupTypeOK
  <2> QED
    BY <2>1, <2>2, <2>3
<1>2. IInv => OverCountBounded
  <2> SUFFICES ASSUME IInv, NEW o \in (0 .. MaxLog - 1) \ again
               PROVE  TimesCounted(o) <= IF o + 1 \in again
                                         THEN 2 * (1 + disruptions)
                                         ELSE 1 + disruptions
    BY DEF OverCountBounded
  <2>1. disruptions \in Nat /\ again \subseteq 0 .. MaxLog - 1
    BY GroupAssumption DEF IInv, PlayTypeOK, GroupTypeOK
  <2>2. counted[o] <= 1 + disruptions /\ counted[o] \in Nat
    BY <1>1
  <2>3. CASE o + 1 \in again
    <3>1. counted[o + 1] <= 1 + disruptions /\ counted[o + 1] \in Nat
      BY <1>1, <2>1, <2>3
    <3>2. TimesCounted(o) = counted[o] + counted[o + 1]
      BY <2>3 DEF TimesCounted
    <3> QED
      BY <2>1, <2>2, <2>3, <3>1, <3>2
  <2>4. CASE o + 1 \notin again
    BY <2>1, <2>2, <2>4 DEF TimesCounted
  <2> QED
    BY <2>3, <2>4
<1> QED
  BY <1>2, PlaysInvariance, PTL

\* What holds of the group holds of the group whose handler is record(): a play
\* event that no handler has returned from is in the batch of the worker that has
\* the partition, or ahead of where it fetches.  It is the safety half of
\* EveryPlayCounted (kafka.go:118, analytics.go:23).
THEOREM PlayEventsAreInReach == Spec => []WithinReach
<1>1. Init => AttemptedInv
  BY AttemptedInit DEF Init
<1>2. IInv /\ AttemptedInv /\ [Next]_vars => AttemptedInv'
  BY AttemptedStep, PlaysMoveGroup DEF IInv
<1>3. IInv /\ AttemptedInv => WithinReach
  BY AttemptedInReach DEF IInv
<1> QED
  BY <1>1, <1>2, <1>3, PlaysInvariance, PTL DEF Spec
=============================================================================
