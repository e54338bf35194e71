------------------------ MODULE UploadPipelineProofs ------------------------
(***************************************************************************)
(* Proofs about UploadPipeline, for every set of workers and tracks, every *)
(* sequence of bitrates and every class of fault.                          *)
(***************************************************************************)
EXTENDS UploadPipeline, ConsumerGroupProofs

(***************************************************************************)
(* Every step of the pipeline is a step of the consumer group or leaves it *)
(* alone, so what ConsumerGroupProofs shows of the group holds of the      *)
(* group inside the pipeline.                                              *)
(***************************************************************************)
LEMMA PipelineMovesGroup == [Next]_vars => [GroupMove]_groupVars
<1> SUFFICES ASSUME [Next]_vars
             PROVE  GroupMove \/ UNCHANGED groupVars
  OBVIOUS
<1>1. ASSUME NEW t \in Tracks, CreateStep(t) \/ RequestCutOff(t)
      PROVE  GroupMove \/ UNCHANGED groupVars
  <2>1. <<t>> \in Seq(Events) /\ <<t, t>> \in Seq(Events)
    BY DEF Tracks
  <2>2. CASE StoreAudio(t) \/ StoreAudioFails(t) \/ SaveRow(t) \/ SaveRowFails(t)
             \/ RequestCutOff(t)
    BY <2>2 DEF StoreAudio, StoreAudioFails, SaveRow, SaveRowFails, RequestCutOff
  <2>3. CASE PublishUpload(t) \/ PublishFails(t)
    BY <2>1, <2>3 DEF PublishUpload, PublishFails, GroupMove
  <2> QED
    BY <1>1, <2>2, <2>3 DEF CreateStep
<1>2. ASSUME NEW w \in Workers, WorkerStep(w)
      PROVE  GroupMove \/ UNCHANGED groupVars
  <2>1. CASE Check(w)
    BY <2>1 DEF Check, GroupMove
  <2>2. CASE Claim(w) \/ Index(w) \/ MarkError(w)
    BY <2>2 DEF Claim, Index, MarkError, GroupMove
  <2>3. CASE Prepare(w) \/ Encode(w) \/ InsertFormat(w) \/ Finish(w)
    BY <2>3 DEF Prepare, Encode, InsertFormat, Finish
  <2> QED
    BY <1>2, <2>1, <2>2, <2>3 DEF WorkerStep
<1>3. ASSUME NEW w \in Workers, GroupStep(w)
      PROVE  GroupMove \/ UNCHANGED groupVars
  BY <1>3 DEF GroupStep, GroupMove, Process
<1>4. ASSUME NEW w \in Workers, ProcessEnds(w)
      PROVE  GroupMove \/ UNCHANGED groupVars
  BY <1>4 DEF ProcessEnds, GroupMove, Process
<1>5. CASE UNCHANGED vars
  BY <1>5 DEF vars
<1> QED
  BY <1>1, <1>2, <1>3, <1>4, <1>5 DEF Next

LEMMA GroupInPipeline == Spec => [](GroupTypeOK /\ WithinLog /\ AttemptedInv)
<1>1. Init => GroupInit
  BY DEF Init
<1> QED
  BY <1>1, GroupTypeInit, GroupTypeStep, WithinLogInit, WithinLogStep,
     AttemptedInit, AttemptedStep, PipelineMovesGroup, PTL DEF Spec

\* In the pipeline too, the committed offset never passes a record that no
\* handler has returned from.
THEOREM PipelineCommitsAttempted == Spec => []CommittedAttempted
<1>1. AttemptedInv => CommittedAttempted
  BY DEF AttemptedInv, Covers, CommittedAttempted
<1> QED
  BY <1>1, GroupInPipeline, PTL

\* Nor does any step of the pipeline take the committed offset back, as long as
\* no rebalance takes the partition from a worker that goes on with its batch.
THEOREM PipelineCommitsForward ==
  ASSUME "rebalance" \notin Faults
  PROVE  Spec => CommitForward
<1>1. Init => ForwardInv
  BY ForwardInit DEF Init
<1>2. GroupTypeOK /\ ForwardInv /\ [Next]_vars
        => ForwardInv' /\ [committed' >= committed]_groupVars
  BY PipelineMovesGroup, CommitForwardStep, ForwardStep
<1> QED
  BY <1>1, <1>2, GroupInPipeline, PTL DEF Spec, CommitForward

\* Nor do more workers have uploads in hand than the disruptions explain: the
\* exclusive claim that upload_flip refutes holds until a rebalance, and each
\* rebalance lets one more worker in (Consume, kafka.go:118).
THEOREM PipelineHandlersAreBounded == Spec => []HandlersBounded
<1>1. Init => HandlersInv
  BY HandlersInit DEF Init
<1>2. GroupTypeOK /\ GroupTypeOK' /\ HandlersInv /\ [Next]_vars => HandlersInv'
  BY HandlersStep, PipelineMovesGroup
<1> QED
  BY <1>1, <1>2, HandlersAreBounded, GroupInPipeline, PTL DEF Spec

(***************************************************************************)
(* Typing.                                                                 *)
(***************************************************************************)
PipeTypeOK ==
    /\ request \in [Tracks -> {"new", "stored", "saved", "accepted", "failed"}]
    /\ status \in [Tracks -> {"none", "pending", "processing", "ready", "error"}]
    /\ formats \in [Tracks -> SUBSET BitrateSet]
    /\ audio \subseteq Tracks
    /\ variants \in [Tracks -> SUBSET BitrateSet]
    /\ indexed \subseteq Tracks
    /\ pc \in [Workers -> Steps]
    /\ bit \in [Workers -> 1 .. Len(Bitrates) + 1]

LEMMA PipeTypeInit == Init => PipeTypeOK
  BY BitratesAssumption DEF Init, PipeTypeOK, Steps

LEMMA TrackOfRecord ==
  ASSUME GroupTypeOK, WithinLog, NEW w \in Workers, InBatch(w)
  PROVE  Track(w) \in Tracks
  BY DEF GroupTypeOK, WithinLog, InBatch, Track, Tracks

\* The bitrate of the loop's index is one of the bitrates inside the loop.
LEMMA BitrateOfLoop ==
  ASSUME PipeTypeOK, WorkInv, NEW w \in Workers, pc[w] \in {"encode", "insert"}
  PROVE  Bitrates[bit[w]] \in BitrateSet
  BY BitratesAssumption DEF PipeTypeOK, WorkInv, WorkOk, BitrateSet

LEMMA PipeTypeStep ==
  GroupTypeOK /\ WithinLog /\ PipeTypeOK /\ WorkInv /\ [Next]_vars => PipeTypeOK'
<1> SUFFICES ASSUME GroupTypeOK, WithinLog, PipeTypeOK, WorkInv, [Next]_vars
             PROVE  PipeTypeOK'
  OBVIOUS
<1> USE BitratesAssumption DEF PipeTypeOK
<1>1. ASSUME NEW t \in Tracks, CreateStep(t) \/ RequestCutOff(t)
      PROVE  PipeTypeOK'
  <2> USE DEF RequestMoves, dbVars, storeVars, workVars
  <2>1. CASE StoreAudio(t)
    BY <2>1 DEF StoreAudio
  <2>2. CASE StoreAudioFails(t)
    BY <2>2 DEF StoreAudioFails
  <2>3. CASE SaveRow(t)
    BY <2>3 DEF SaveRow
  <2>4. CASE SaveRowFails(t)
    BY <2>4 DEF SaveRowFails
  <2>5. CASE PublishUpload(t)
    BY <2>5 DEF PublishUpload
  <2>6. CASE PublishFails(t)
    BY <2>6 DEF PublishFails
  <2>7. CASE RequestCutOff(t)
    BY <2>7 DEF RequestCutOff
  <2> QED
    BY <1>1, <2>1, <2>2, <2>3, <2>4, <2>5, <2>6, <2>7 DEF CreateStep
<1>2. ASSUME NEW w \in Workers, WorkerStep(w)
      PROVE  PipeTypeOK'
  <2> USE DEF Goto, Steps, apiVars, dbVars, storeVars
  <2>1. CASE Check(w)
    BY <2>1 DEF Check
  <2>2. CASE Claim(w)
    <3>1. Claimed(Track(w)) \in
            [Tracks -> {"none", "pending", "processing", "ready", "error"}]
      BY DEF Claimed
    <3>2. status' \in [Tracks -> {"none", "pending", "processing", "ready", "error"}]
      BY <2>2, <3>1 DEF Claim
    <3>3. pc' \in [Workers -> Steps]
      BY <2>2 DEF Claim
    <3> QED
      BY <2>2, <3>2, <3>3 DEF Claim
  <2>3. CASE Prepare(w)
    BY <2>3 DEF Prepare
  <2>4. CASE Encode(w)
    <3>1. Bitrates[bit[w]] \in BitrateSet
      BY <2>4, BitrateOfLoop DEF Encode
    <3>2. [variants EXCEPT ![Track(w)] = @ \cup {Bitrates[bit[w]]}]
            \in [Tracks -> SUBSET BitrateSet]
      BY <3>1
    <3>3. variants' \in [Tracks -> SUBSET BitrateSet]
      BY <2>4, <3>2 DEF Encode
    <3>4. pc' \in [Workers -> Steps]
      BY <2>4 DEF Encode
    <3> QED
      BY <2>4, <3>3, <3>4 DEF Encode
  <2>5. CASE InsertFormat(w)
    <3>1. Bitrates[bit[w]] \in BitrateSet /\ bit[w] <= Len(Bitrates)
      BY <2>5, BitrateOfLoop DEF InsertFormat, WorkInv, WorkOk
    <3>2. [formats EXCEPT ![Track(w)] = @ \cup {Bitrates[bit[w]]}]
            \in [Tracks -> SUBSET BitrateSet]
      BY <3>1
    <3>3. formats' \in [Tracks -> SUBSET BitrateSet]
      BY <2>5, <3>2 DEF InsertFormat
    <3>4. pc' \in [Workers -> Steps]
      BY <2>5 DEF InsertFormat
    <3>5. bit' \in [Workers -> 1 .. Len(Bitrates) + 1]
      BY <2>5, <3>1 DEF InsertFormat
    <3> QED
      BY <2>5, <3>3, <3>4, <3>5 DEF InsertFormat
  <2>6. CASE Finish(w)
    <3>1. status' \in [Tracks -> {"none", "pending", "processing", "ready", "error"}]
      BY <2>6 DEF Finish
    <3>2. pc' \in [Workers -> Steps]
      <4>1. pc' = [pc EXCEPT ![w] = "index"] \/ pc' = [pc EXCEPT ![w] = "fail"]
        BY <2>6 DEF Finish
      <4> QED
        BY <4>1
    <3> QED
      BY <2>6, <3>1, <3>2 DEF Finish
  <2>7. CASE Index(w)
    <3>1. Track(w) \in Tracks
      BY <2>7, TrackOfRecord DEF Index, WorkInv, WorkOk
    <3> QED
      BY <2>7, <3>1 DEF Index, Leaves
  <2>8. CASE MarkError(w)
    <3>1. status' \in [Tracks -> {"none", "pending", "processing", "ready", "error"}]
      BY <2>8 DEF MarkError
    <3>2. pc' \in [Workers -> Steps] /\ bit' \in [Workers -> 1 .. Len(Bitrates) + 1]
      BY <2>8 DEF MarkError, Leaves
    <3> QED
      BY <2>8, <3>1, <3>2 DEF MarkError
  <2> QED
    BY <1>2, <2>1, <2>2, <2>3, <2>4, <2>5, <2>6, <2>7, <2>8 DEF WorkerStep
<1>3. ASSUME NEW w \in Workers, GroupStep(w)
      PROVE  PipeTypeOK'
  BY <1>3 DEF GroupStep, pipeVars, apiVars, dbVars, storeVars, workVars
<1>4. ASSUME NEW w \in Workers, ProcessEnds(w)
      PROVE  PipeTypeOK'
  BY <1>4 DEF ProcessEnds, Leaves, Goto, Steps, apiVars, dbVars, storeVars
<1>5. CASE UNCHANGED vars
  BY <1>5 DEF vars, pipeVars, apiVars, dbVars, storeVars, workVars
<1> QED
  BY <1>1, <1>2, <1>3, <1>4, <1>5 DEF Next
(***************************************************************************)
(* What a worker has done so far, and what the tables and the bucket hold. *)
(***************************************************************************)
\* What one step of another actor leaves of a worker's place in process().
LEMMA WorkKept ==
  ASSUME GroupTypeOK, WithinLog, PipeTypeOK, PipeTypeOK',
         NEW v \in Workers, WorkOk(v),
         pc'[v] = pc[v], bit'[v] = bit[v], at'[v] = at[v], upto'[v] = upto[v],
         pc[v] # "idle" => proc'[v] # "down",
         \A i \in 1 .. Len(log) : log'[i] = log[i],
         \A t \in Tracks : formats[t] \subseteq formats'[t],
         \A t \in Tracks : variants[t] \subseteq variants'[t]
  PROVE  WorkOk(v)'
<1>1. CASE pc[v] = "idle"
  BY <1>1 DEF WorkOk
<1>2. CASE pc[v] # "idle"
  <2>1. InBatch(v) /\ InBatch(v)'
    BY <1>2 DEF WorkOk, InBatch
  <2>2. Track(v) \in Tracks
    BY <2>1, TrackOfRecord
  <2>3. Track(v)' = Track(v)
    <3>1. at[v] + 1 \in 1 .. Len(log)
      BY <2>1 DEF InBatch, GroupTypeOK, WithinLog
    <3> QED
      BY <3>1 DEF Track
  <2>4. Encoded(v)' = Encoded(v)
    BY DEF Encoded
  <2> QED
    BY <1>2, <2>1, <2>2, <2>3, <2>4 DEF WorkOk
<1> QED
  BY <1>1, <1>2

\* A request appends to the log and touches no format, variant or worker.
LEMMA WorkStepCreate ==
  ASSUME GroupTypeOK, WithinLog, PipeTypeOK, PipeTypeOK', WorkInv,
         NEW t \in Tracks, CreateStep(t) \/ RequestCutOff(t)
  PROVE  WorkInv'
<1>1. UNCHANGED <<pc, bit, formats, variants, at, upto, proc>>
  BY DEF CreateStep, StoreAudio, StoreAudioFails, SaveRow, SaveRowFails,
         PublishUpload, PublishFails, RequestCutOff, AppendRecords,
         groupVars, clientVars, dbVars, storeVars, workVars
<1>2. \A i \in 1 .. Len(log) : log'[i] = log[i]
  <2>1. log' = log \/ \E records \in Seq(Events) : log' = log \o records
    <3>1. <<t>> \in Seq(Events) /\ <<t, t>> \in Seq(Events)
      BY DEF Tracks
    <3> QED
      BY <3>1 DEF CreateStep, StoreAudio, StoreAudioFails, SaveRow, SaveRowFails,
             PublishUpload, PublishFails, RequestCutOff, AppendRecords,
             groupVars, brokerVars
  <2> QED
    BY <2>1 DEF GroupTypeOK
<1> QED
  BY <1>1, <1>2, WorkKept DEF WorkInv, WorkOk
\* One step of process() in worker w: formats and variants only grow, and
\* nothing of another worker's place changes.
Frame(w) ==
    /\ UNCHANGED <<log, proc, request, audio>>
    /\ \A v \in Workers \ {w} :
          pc'[v] = pc[v] /\ bit'[v] = bit[v] /\ at'[v] = at[v] /\ upto'[v] = upto[v]
    /\ \A t \in Tracks : formats[t] \subseteq formats'[t]
    /\ \A t \in Tracks : variants[t] \subseteq variants'[t]

LEMMA RecordReturns ==
  ASSUME GroupTypeOK, NEW w \in Workers, ReturnsNil(w) \/ ReturnsErr(w)
  PROVE  /\ UNCHANGED <<log, proc>>
         /\ \A v \in Workers \ {w} : at'[v] = at[v] /\ upto'[v] = upto[v]
<1>1. NextRecord(w)
  BY DEF ReturnsNil, ReturnsErr
<1> QED
  BY <1>1 DEF NextRecord, brokerVars, GroupTypeOK

LEMMA WorkerFrame ==
  ASSUME GroupTypeOK, WithinLog, PipeTypeOK, NEW w \in Workers, WorkerStep(w)
  PROVE  Frame(w)
<1> USE DEF Frame, PipeTypeOK, Goto, apiVars, dbVars, storeVars
<1> DEFINE GroupKept == UNCHANGED <<log, proc, at, upto>>
<1>0. UNCHANGED groupVars => GroupKept
  BY DEF groupVars, brokerVars, clientVars
<1>1. CASE Check(w)
  <2>1. UNCHANGED <<request, formats, audio, variants, bit>>
    BY <1>1 DEF Check
  <2>2. \A v \in Workers \ {w} : pc'[v] = pc[v]
    BY <1>1 DEF Check
  <2>3. GroupKept \/ ReturnsNil(w) \/ ReturnsErr(w)
    BY <1>0, <1>1 DEF Check
  <2> QED
    BY <2>1, <2>2, <2>3, RecordReturns
<1>2. CASE Claim(w)
  <2>1. UNCHANGED <<request, formats, audio, variants, bit>>
    BY <1>2 DEF Claim
  <2>2. \A v \in Workers \ {w} : pc'[v] = pc[v]
    BY <1>2 DEF Claim
  <2>3. GroupKept \/ ReturnsErr(w)
    BY <1>0, <1>2 DEF Claim
  <2> QED
    BY <2>1, <2>2, <2>3, RecordReturns
<1>3. CASE Prepare(w)
  BY <1>0, <1>3 DEF Prepare
<1>4. CASE Encode(w)
  <2>1. UNCHANGED <<request, formats, audio, bit>> /\ GroupKept
    BY <1>0, <1>4 DEF Encode
  <2>2. \A v \in Workers \ {w} : pc'[v] = pc[v]
    BY <1>4 DEF Encode
  <2>3. variants' = variants
        \/ variants' = [variants EXCEPT ![Track(w)] = @ \cup {Bitrates[bit[w]]}]
    BY <1>4 DEF Encode
  <2>4. \A t \in Tracks : variants[t] \subseteq variants'[t]
    BY <2>3
  <2> QED
    BY <2>1, <2>2, <2>4
<1>5. CASE InsertFormat(w)
  <2>1. UNCHANGED <<request, audio, variants>> /\ GroupKept
    BY <1>0, <1>5 DEF InsertFormat
  <2>2. \A v \in Workers \ {w} : pc'[v] = pc[v] /\ bit'[v] = bit[v]
    BY <1>5 DEF InsertFormat
  <2>3. formats' = formats
        \/ formats' = [formats EXCEPT ![Track(w)] = @ \cup {Bitrates[bit[w]]}]
    BY <1>5 DEF InsertFormat
  <2>4. \A t \in Tracks : formats[t] \subseteq formats'[t]
    BY <2>3
  <2> QED
    BY <2>1, <2>2, <2>4
<1>6. CASE Finish(w)
  <2>1. UNCHANGED <<request, formats, audio, variants, bit>> /\ GroupKept
    BY <1>0, <1>6 DEF Finish
  <2>2. \A v \in Workers \ {w} : pc'[v] = pc[v]
    BY <1>6 DEF Finish
  <2> QED
    BY <2>1, <2>2
<1>7. CASE Index(w)
  <2>1. UNCHANGED <<request, formats, audio, variants>> /\ ReturnsNil(w)
    BY <1>7 DEF Index
  <2>2. \A v \in Workers \ {w} : pc'[v] = pc[v] /\ bit'[v] = bit[v]
    BY <1>7 DEF Index, Leaves
  <2> QED
    BY <2>1, <2>2, RecordReturns
<1>8. CASE MarkError(w)
  <2>1. UNCHANGED <<request, formats, audio, variants>> /\ ReturnsErr(w)
    BY <1>8 DEF MarkError
  <2>2. \A v \in Workers \ {w} : pc'[v] = pc[v] /\ bit'[v] = bit[v]
    BY <1>8 DEF MarkError, Leaves
  <2> QED
    BY <2>1, <2>2, RecordReturns
<1> QED
  BY <1>1, <1>2, <1>3, <1>4, <1>5, <1>6, <1>7, <1>8 DEF WorkerStep
\* A worker that left process() is between records, whatever it did before.
LEMMA WorkIdle ==
  ASSUME NEW w \in Workers, pc'[w] = "idle", bit'[w] = 1
  PROVE  WorkOk(w)'
  BY DEF WorkOk

LEMMA WorkStepOwn ==
  ASSUME GroupTypeOK, WithinLog, PipeTypeOK, WorkInv,
         NEW w \in Workers, WorkerStep(w)
  PROVE  WorkOk(w)'
<1> USE BitratesAssumption DEF PipeTypeOK, Goto
<1> DEFINE GroupKept == UNCHANGED <<log, proc, at, upto>>
<1>0. UNCHANGED groupVars => GroupKept
  BY DEF groupVars, brokerVars, clientVars
<1>k. GroupKept => Track(w)' = Track(w) /\ InBatch(w)' = InBatch(w)
  BY DEF Track, InBatch
<1>w. WorkOk(w)
  BY DEF WorkInv
<1>1. CASE Check(w)
  <2>1. bit' = bit /\ bit[w] = 1 /\ InBatch(w)
    BY <1>1, <1>w DEF Check, WorkOk
  <2>2. CASE pc' = pc
    BY <1>1, <2>1, <2>2, WorkIdle DEF Check
  <2>3. CASE pc' # pc
    <3>1. pc'[w] = "claim" /\ GroupKept /\ proc[w] # "down"
      BY <1>0, <1>1, <2>3 DEF Check, Works
    <3> QED
      BY <2>1, <3>1, <1>k DEF WorkOk
  <2> QED
    BY <2>2, <2>3
<1>2. CASE Claim(w)
  <2>1. bit' = bit /\ bit[w] = 1 /\ InBatch(w) /\ proc[w] # "down"
    BY <1>2, <1>w DEF Claim, WorkOk
  <2>2. CASE pc'[w] = "idle"
    BY <2>1, <2>2, WorkIdle
  <2>3. CASE pc'[w] # "idle"
    <3>1. pc'[w] = "prepare" /\ GroupKept
      BY <1>0, <1>2, <2>3 DEF Claim
    <3> QED
      BY <2>1, <3>1, <1>k DEF WorkOk
  <2> QED
    BY <2>2, <2>3
<1>3. CASE Prepare(w)
  <2>1. GroupKept /\ bit' = bit /\ bit[w] = 1 /\ InBatch(w) /\ proc[w] # "down"
    BY <1>0, <1>3, <1>w DEF Prepare, WorkOk
  <2>2. pc'[w] = "encode" \/ pc'[w] = "fail"
    BY <1>3 DEF Prepare
  <2>3. Encoded(w)' = {}
    BY <2>1 DEF Encoded
  <2> QED
    BY <2>1, <2>2, <2>3, <1>k DEF WorkOk
<1>4. CASE Encode(w)
  <2>1. /\ GroupKept /\ bit' = bit /\ formats' = formats
        /\ bit[w] <= Len(Bitrates) /\ InBatch(w) /\ proc[w] # "down"
        /\ Encoded(w) \subseteq formats[Track(w)]
    BY <1>0, <1>4, <1>w DEF Encode, WorkOk, dbVars
  <2>2. Encoded(w)' = Encoded(w)
    BY <2>1 DEF Encoded
  <2>3. CASE pc'[w] = "fail"
    BY <2>1, <2>3, <1>k DEF WorkOk
  <2>4. CASE pc'[w] # "fail"
    <3>1. /\ pc'[w] = "insert"
          /\ variants' = [variants EXCEPT ![Track(w)] = @ \cup {Bitrates[bit[w]]}]
      BY <1>4, <2>4 DEF Encode
    <3>2. Bitrates[bit[w]] \in variants'[Track(w)]
      BY <2>1, <3>1, TrackOfRecord
    <3> QED
      BY <2>1, <2>2, <3>1, <3>2, <1>k DEF WorkOk
  <2> QED
    BY <2>3, <2>4
<1>5. CASE InsertFormat(w)
  <2>1. /\ GroupKept
        /\ bit[w] <= Len(Bitrates) /\ InBatch(w) /\ proc[w] # "down"
        /\ Encoded(w) \subseteq formats[Track(w)]
    BY <1>0, <1>5, <1>w DEF InsertFormat, WorkOk
  <2>2. CASE pc'[w] = "fail"
    BY <2>1, <2>2, <1>k DEF WorkOk
  <2>3. CASE pc'[w] # "fail"
    <3>1. /\ pc'[w] = IF bit[w] < Len(Bitrates) THEN "encode" ELSE "finish"
          /\ bit'[w] = bit[w] + 1
          /\ formats' = [formats EXCEPT ![Track(w)] = @ \cup {Bitrates[bit[w]]}]
      BY <1>5, <2>3 DEF InsertFormat
    <3>2. formats'[Track(w)] = formats[Track(w)] \cup {Bitrates[bit[w]]}
      BY <2>1, <3>1, TrackOfRecord
    <3>3. Encoded(w)' = Encoded(w) \cup {Bitrates[bit[w]]}
      BY <3>1 DEF Encoded
    <3>4. bit[w] \in Nat /\ Len(Bitrates) \in Nat
      OBVIOUS
    <3> QED
      BY <2>1, <3>1, <3>2, <3>3, <3>4, <1>k DEF WorkOk
  <2> QED
    BY <2>2, <2>3
<1>6. CASE Finish(w)
  <2>1. GroupKept /\ InBatch(w) /\ proc[w] # "down"
    BY <1>0, <1>6, <1>w DEF Finish, WorkOk
  <2>2. pc'[w] = "index" \/ pc'[w] = "fail"
    BY <1>6 DEF Finish
  <2> QED
    BY <2>1, <2>2, <1>k DEF WorkOk
<1>7. CASE Index(w) \/ MarkError(w)
  BY <1>7, WorkIdle DEF Index, MarkError, Leaves
<1> QED
  BY <1>1, <1>2, <1>3, <1>4, <1>5, <1>6, <1>7 DEF WorkerStep

LEMMA WorkStep ==
  GroupTypeOK /\ WithinLog /\ PipeTypeOK /\ PipeTypeOK' /\ WorkInv /\ [Next]_vars
    => WorkInv'
<1> SUFFICES ASSUME GroupTypeOK, WithinLog, PipeTypeOK, PipeTypeOK', WorkInv,
                    [Next]_vars
             PROVE  WorkInv'
  OBVIOUS
<1>1. ASSUME NEW t \in Tracks, CreateStep(t) \/ RequestCutOff(t)
      PROVE  WorkInv'
  BY <1>1, WorkStepCreate
<1>2. ASSUME NEW w \in Workers, WorkerStep(w)
      PROVE  WorkInv'
  <2>1. Frame(w) /\ WorkOk(w)'
    BY <1>2, WorkerFrame, WorkStepOwn
  <2>2. ASSUME NEW v \in Workers \ {w}
        PROVE  WorkOk(v)'
    BY <2>1, WorkKept DEF Frame, WorkInv, WorkOk
  <2> QED
    BY <2>1, <2>2 DEF WorkInv
<1>3. ASSUME NEW w \in Workers, GroupStep(w)
      PROVE  WorkInv'
  <2>1. UNCHANGED <<pc, bit, formats, variants, log>>
    BY <1>3 DEF GroupStep, pipeVars, workVars, dbVars, storeVars, Poll, AutoCommit,
                Rebalance, Assign, Revoke, Lose, Stop, Restart, brokerVars
  <2>2. ASSUME NEW v \in Workers, pc[v] # "idle"
        PROVE  at'[v] = at[v] /\ upto'[v] = upto[v] /\ proc'[v] # "down"
    <3>1. InBatch(v) /\ proc[v] # "down"
      BY <2>2 DEF WorkInv, WorkOk
    <3>2. CASE Poll(w)
      BY <3>1, <3>2 DEF Poll, InBatch, GroupTypeOK
    <3>3. CASE AutoCommit(w) \/ Rebalance(w)
      BY <3>1, <3>3 DEF AutoCommit, Rebalance, Assign, Revoke, Lose, clientVars
    <3>4. CASE Stop(w) \/ Restart(w)
      BY <3>1, <3>4 DEF Stop, Restart, clientVars, GroupTypeOK
    <3> QED
      BY <1>3, <3>2, <3>3, <3>4 DEF GroupStep
  <2>3. ASSUME NEW v \in Workers, pc[v] = "idle"
        PROVE  WorkOk(v)'
    BY <2>1, <2>3, WorkIdle DEF WorkInv, WorkOk
  <2>4. ASSUME NEW v \in Workers, pc[v] # "idle"
        PROVE  WorkOk(v)'
    BY <2>1, <2>2, <2>4, WorkKept DEF WorkInv, WorkOk
  <2> QED
    BY <2>3, <2>4 DEF WorkInv
<1>4. ASSUME NEW w \in Workers, ProcessEnds(w)
      PROVE  WorkInv'
  <2>1. /\ UNCHANGED <<log, formats, variants>>
        /\ pc'[w] = "idle" /\ bit'[w] = 1
        /\ \A v \in Workers \ {w} :
              /\ pc'[v] = pc[v] /\ bit'[v] = bit[v] /\ at'[v] = at[v]
              /\ upto'[v] = upto[v] /\ proc'[v] = proc[v]
    BY <1>4 DEF ProcessEnds, Exit, Crash, Dies, Leaves, Goto, dbVars, storeVars,
                PipeTypeOK, GroupTypeOK
  <2>2. WorkOk(w)'
    BY <2>1, WorkIdle
  <2>3. ASSUME NEW v \in Workers \ {w}
        PROVE  WorkOk(v)'
    BY <2>1, WorkKept DEF WorkInv, WorkOk
  <2> QED
    BY <2>2, <2>3 DEF WorkInv
<1>5. CASE UNCHANGED vars
  BY <1>5, WorkKept DEF vars, groupVars, brokerVars, clientVars, pipeVars,
                        workVars, dbVars, storeVars, WorkInv, WorkOk
<1> QED
  BY <1>1, <1>2, <1>3, <1>4, <1>5 DEF Next
LEMMA StoreStepCreate ==
  ASSUME GroupTypeOK, PipeTypeOK, StoreInv,
         NEW t \in Tracks, CreateStep(t) \/ RequestCutOff(t)
  PROVE  StoreInv'
<1> USE DEF PipeTypeOK, StoreInv, RequestMoves, dbVars, storeVars
<1>1. CASE StoreAudio(t)
  BY <1>1 DEF StoreAudio, groupVars, brokerVars
<1>2. CASE StoreAudioFails(t)
  BY <1>2 DEF StoreAudioFails, groupVars, brokerVars
<1>3. CASE SaveRow(t)
  BY <1>3 DEF SaveRow, groupVars, brokerVars
<1>4. CASE SaveRowFails(t)
  BY <1>4 DEF SaveRowFails, groupVars, brokerVars
<1>5. CASE PublishUpload(t) \/ PublishFails(t)
  <2>1. /\ UNCHANGED <<status, formats, audio, variants>>
        /\ request[t] = "saved"
        /\ request' = [request EXCEPT ![t] = "accepted"]
           \/ request' = [request EXCEPT ![t] = "failed"]
    BY <1>5 DEF PublishUpload, PublishFails
  <2>2. t \in audio
    BY <2>1
  <2>3. log' = log \/ log' = log \o <<t>> \/ log' = log \o <<t, t>>
    BY <1>5 DEF PublishUpload, PublishFails, AppendRecords, groupVars, brokerVars
  <2>4. \A i \in 1 .. Len(log') : log'[i] \in audio
    <3>1. log \in Seq(Events) /\ <<t>> \in Seq(Events) /\ <<t, t>> \in Seq(Events)
      BY DEF GroupTypeOK, Tracks
    <3>2. CASE log' = log
      BY <3>2
    <3>3. CASE log' = log \o <<t>>
      BY <2>2, <3>1, <3>3
    <3>4. CASE log' = log \o <<t, t>>
      BY <2>2, <3>1, <3>4
    <3> QED
      BY <2>3, <3>2, <3>3, <3>4
  <2> QED
    BY <2>1, <2>2, <2>4
<1>6. CASE RequestCutOff(t)
  BY <1>6 DEF RequestCutOff, groupVars, brokerVars
<1> QED
  BY <1>1, <1>2, <1>3, <1>4, <1>5, <1>6 DEF CreateStep

\* A step of process() writes the row of its record's track only, and makes it
\* ready only with a format for every bitrate.
LEMMA StoreStepWorker ==
  ASSUME GroupTypeOK, WithinLog, PipeTypeOK, WorkInv, StoreInv,
         NEW w \in Workers, WorkerStep(w)
  PROVE  StoreInv'
<1> USE BitratesAssumption DEF PipeTypeOK
<1>1. UNCHANGED <<log, request, audio>>
  BY WorkerFrame DEF Frame
<1>2. WorkOk(w)
  BY DEF WorkInv
<1> DEFINE Rows == \A t \in Tracks :
              /\ status'[t] # "none" => t \in audio
              /\ formats'[t] \subseteq variants'[t]
              /\ status'[t] = "ready" => formats'[t] = BitrateSet
<1> SUFFICES Rows
  BY <1>1 DEF StoreInv
<1> USE DEF StoreInv
<1>3. InBatch(w) => Track(w) \in Tracks /\ Track(w) \in audio
  <2> SUFFICES ASSUME InBatch(w)
               PROVE  Track(w) \in Tracks /\ Track(w) \in audio
    OBVIOUS
  <2>1. at[w] \in Nat /\ upto[w] \in Nat /\ Len(log) \in Nat
    BY DEF GroupTypeOK
  <2>2. at[w] < upto[w] /\ upto[w] <= Len(log)
    BY DEF InBatch, WithinLog
  <2>3. at[w] + 1 \in 1 .. Len(log)
    BY <2>1, <2>2
  <2> QED
    BY <2>3, TrackOfRecord DEF Track
<1>4. CASE Check(w) \/ Prepare(w) \/ Index(w)
  <2>1. UNCHANGED <<status, formats, variants>>
    BY <1>4 DEF Check, Prepare, Index, dbVars, storeVars
  <2> QED
    BY <2>1
<1>5. CASE Claim(w)
  <2>1. UNCHANGED <<formats, variants>>
    BY <1>5 DEF Claim, storeVars
  <2>2. status' = status \/ status' = Claimed(Track(w))
    BY <1>5 DEF Claim
  <2> QED
    BY <2>1, <2>2 DEF Claimed
<1>6. CASE Encode(w)
  <2>1. UNCHANGED <<status, formats>>
    BY <1>6 DEF Encode, dbVars
  <2>2. \A t \in Tracks : variants[t] \subseteq variants'[t]
    BY WorkerFrame DEF Frame
  <2> QED
    BY <2>1, <2>2
<1>7. CASE InsertFormat(w)
  <2>1. UNCHANGED <<status, variants>>
    BY <1>7 DEF InsertFormat, storeVars
  <2>2. Bitrates[bit[w]] \in variants[Track(w)] /\ Bitrates[bit[w]] \in BitrateSet
    BY <1>2, <1>7, BitrateOfLoop DEF InsertFormat, WorkOk
  <2>3. \A t \in Tracks :
           \/ formats'[t] = formats[t]
           \/ t = Track(w) /\ formats'[t] = formats[t] \cup {Bitrates[bit[w]]}
    BY <1>7 DEF InsertFormat
  <2>4. ASSUME NEW t \in Tracks
        PROVE  /\ formats'[t] \subseteq variants'[t]
               /\ status'[t] = "ready" => formats'[t] = BitrateSet
    <3>1. CASE formats'[t] = formats[t]
      BY <2>1, <3>1
    <3>2. CASE t = Track(w) /\ formats'[t] = formats[t] \cup {Bitrates[bit[w]]}
      <4>1. formats'[t] \subseteq variants[t]
        BY <2>2, <3>2
      <4>2. formats[t] = BitrateSet => formats'[t] = BitrateSet
        BY <2>2, <3>2
      <4> QED
        BY <2>1, <4>1, <4>2
    <3> QED
      BY <2>3, <3>1, <3>2
  <2> QED
    BY <2>1, <2>4
<1>8. CASE Finish(w)
  <2>1. UNCHANGED <<formats, variants>>
    BY <1>8 DEF Finish, storeVars
  <2>2. status' = status \/ status' = [status EXCEPT ![Track(w)] = "ready"]
    BY <1>8 DEF Finish
  <2>3. bit[w] = Len(Bitrates) + 1 /\ InBatch(w) /\ Encoded(w) \subseteq formats[Track(w)]
    BY <1>2, <1>8 DEF Finish, WorkOk
  <2>4. Encoded(w) = BitrateSet
    BY <2>3 DEF Encoded, BitrateSet
  <2>5. formats[Track(w)] = BitrateSet /\ Track(w) \in audio
    BY <1>3, <2>3, <2>4
  <2> QED
    BY <2>1, <2>2, <2>5
<1>9. CASE MarkError(w)
  <2>1. UNCHANGED <<formats, variants>>
    BY <1>9 DEF MarkError, storeVars
  <2>2. status' = status \/ status' = [status EXCEPT ![Track(w)] = "error"]
    BY <1>9 DEF MarkError
  <2>3. Track(w) \in audio
    BY <1>2, <1>3, <1>9 DEF MarkError, WorkOk
  <2> QED
    BY <2>1, <2>2, <2>3
<1> QED
  BY <1>4, <1>5, <1>6, <1>7, <1>8, <1>9 DEF WorkerStep

LEMMA StoreStep ==
  GroupTypeOK /\ WithinLog /\ PipeTypeOK /\ WorkInv /\ StoreInv /\ [Next]_vars
    => StoreInv'
<1> SUFFICES ASSUME GroupTypeOK, WithinLog, PipeTypeOK, WorkInv, StoreInv,
                    [Next]_vars
             PROVE  StoreInv'
  OBVIOUS
<1>1. ASSUME NEW t \in Tracks, CreateStep(t) \/ RequestCutOff(t)
      PROVE  StoreInv'
  BY <1>1, StoreStepCreate
<1>2. ASSUME NEW w \in Workers, WorkerStep(w)
      PROVE  StoreInv'
  BY <1>2, StoreStepWorker
<1>3. CASE UNCHANGED <<log, request, status, formats, audio, variants>>
  BY <1>3 DEF StoreInv
<1>4. ASSUME NEW w \in Workers, GroupStep(w) \/ ProcessEnds(w)
      PROVE  UNCHANGED <<log, request, status, formats, audio, variants>>
  BY <1>4 DEF GroupStep, ProcessEnds, Poll, AutoCommit, Rebalance, Assign, Revoke,
              Lose, Stop, Restart, Exit, Crash, brokerVars, pipeVars, apiVars,
              dbVars, storeVars
<1>5. CASE UNCHANGED vars
  BY <1>3, <1>5 DEF vars, groupVars, brokerVars, pipeVars, apiVars, dbVars, storeVars
<1> QED
  BY <1>1, <1>2, <1>3, <1>4, <1>5 DEF Next

(***************************************************************************)
(* The theorems.                                                           *)
(***************************************************************************)
IInv == GroupTypeOK /\ WithinLog /\ PipeTypeOK /\ WorkInv /\ StoreInv

LEMMA PipelineInvariance == Spec => []IInv
<1>1. Init => IInv
  <2>1. Init => GroupTypeOK /\ WithinLog
    BY GroupTypeInit, WithinLogInit DEF Init
  <2>2. Init => WorkInv
    BY DEF Init, WorkInv, WorkOk
  <2>3. Init => StoreInv
    BY DEF Init, GroupInit, StoreInv
  <2> QED
    BY <2>1, <2>2, <2>3, PipeTypeInit DEF IInv
<1>2. IInv /\ [Next]_vars => IInv'
  BY PipelineMovesGroup, GroupTypeStep, WithinLogStep, PipeTypeStep, WorkStep,
     StoreStep DEF IInv
<1> QED
  BY <1>1, <1>2, PTL DEF Spec

\* Every variable of the pipeline keeps its type: in particular the loop over
\* the bitrates never runs past its end, and every format row and object is of
\* a bitrate of transcode.go.
THEOREM PipelineTyping == Spec => []TypeOK
<1>1. IInv => TypeOK
  BY DEF IInv, PipeTypeOK, TypeOK
<1> QED
  BY <1>1, PipelineInvariance, PTL

\* A ready track has a row and an object for every bitrate, for any number of
\* workers and whatever crashes, rebalances, duplicates and failed calls there
\* were: being ready is decided by a worker that went through the whole loop,
\* and neither a row nor an object is ever removed (process, upload.go:98-129).
THEOREM ReadyTracksAreComplete == Spec => []ReadyComplete
<1>1. IInv => ReadyComplete
  BY DEF IInv, StoreInv, ReadyComplete, PipeTypeOK
<1> QED
  BY <1>1, PipelineInvariance, PTL

\* Whatever key Stream finds for a track has its object (tracks.go:138-150).
THEOREM StreamedKeysHaveObjects == Spec => []StreamHasObject
<1>1. IInv => StreamHasObject
  BY DEF IInv, StoreInv, StreamHasObject
<1> QED
  BY <1>1, PipelineInvariance, PTL

(***************************************************************************)
(* No accepted upload is lost, as long as no statement fails but for a     *)
(* shutdown.                                                               *)
(***************************************************************************)
LEMMA LogGrows ==
  ASSUME GroupTypeOK, [Next]_vars
  PROVE  Len(log) <= Len(log') /\ \A i \in 1 .. Len(log) : log'[i] = log[i]
<1>1. [GroupMove]_groupVars
  BY PipelineMovesGroup
<1>2. log' = log \/ \E records \in Seq(Events) : log' = log \o records
  BY <1>1 DEF GroupMove, AppendRecords, Poll, ReturnsNil, ReturnsErr, NextRecord,
              AutoCommit, Rebalance, Assign, Revoke, Lose, Process, Stop, Exit,
              Crash, Restart, groupVars, brokerVars
<1> QED
  BY <1>2 DEF GroupTypeOK

\* A track leaves "none" for "pending", and does not come back to either.
LEMMA StatusForward ==
  ASSUME PipeTypeOK, QueueInv, [Next]_vars, NEW t \in Tracks
  PROVE  \/ status'[t] = status[t]
         \/ status[t] = "none" /\ status'[t] = "pending"
         \/ Left(t)'
<1> USE DEF PipeTypeOK
<1>1. ASSUME NEW u \in Tracks, CreateStep(u) \/ RequestCutOff(u)
      PROVE  status' = status \/ (status[u] = "none"
                                   /\ status' = [status EXCEPT ![u] = "pending"])
  BY <1>1 DEF CreateStep, StoreAudio, StoreAudioFails, SaveRow, SaveRowFails,
              PublishUpload, PublishFails, RequestCutOff, RequestMoves, QueueInv, dbVars
<1>2. ASSUME NEW w \in Workers, WorkerStep(w)
      PROVE  \/ status'[t] = status[t]
             \/ Left(t)'
  <2>1. CASE Claim(w)
    BY <2>1 DEF Claim, Claimed, Left
  <2>2. CASE Finish(w) \/ MarkError(w)
    BY <2>2 DEF Finish, MarkError, Left
  <2>3. CASE Check(w) \/ Prepare(w) \/ Encode(w) \/ InsertFormat(w) \/ Index(w)
    BY <2>3 DEF Check, Prepare, Encode, InsertFormat, Index, dbVars
  <2> QED
    BY <1>2, <2>1, <2>2, <2>3 DEF WorkerStep
<1>3. ASSUME NEW w \in Workers, GroupStep(w) \/ ProcessEnds(w)
      PROVE  status' = status
  BY <1>3 DEF GroupStep, ProcessEnds, pipeVars, dbVars
<1>4. UNCHANGED vars => status' = status
  BY DEF vars, pipeVars, dbVars
<1> QED
  BY <1>1, <1>2, <1>3, <1>4 DEF Next

\* A worker that is inside process() after a step was at that record before.
LEMMA SameRecord ==
  ASSUME IInv, [Next]_vars, NEW v \in Workers, pc'[v] # "idle"
  PROVE  /\ InBatch(v)
         /\ Track(v) \in Tracks
         /\ Track(v)' = Track(v)
         /\ proc'[v] = "up" => proc[v] = "up"
<1> USE DEF IInv
<1>1. InBatch(v) /\ UNCHANGED <<at[v], upto[v]>> /\ (proc'[v] = "up" => proc[v] = "up")
  <2>1. ASSUME NEW t \in Tracks, CreateStep(t) \/ RequestCutOff(t)
        PROVE  UNCHANGED <<pc, at, upto, proc>>
    BY <2>1 DEF CreateStep, StoreAudio, StoreAudioFails, SaveRow, SaveRowFails,
                PublishUpload, PublishFails, RequestCutOff, AppendRecords,
                groupVars, clientVars, workVars
  <2>2. ASSUME NEW w \in Workers, WorkerStep(w), v # w
        PROVE  UNCHANGED <<pc[v], at[v], upto[v], proc>>
    BY <2>2, WorkerFrame DEF Frame
  <2>3. ASSUME WorkerStep(v)
        PROVE  InBatch(v) /\ UNCHANGED <<at, upto, proc>>
    <3>1. UNCHANGED groupVars => UNCHANGED <<at, upto, proc>>
      BY DEF groupVars, clientVars
    <3>2. CASE Check(v)
      BY <3>1, <3>2 DEF Check
    <3>3. CASE ~Check(v)
      <4>1. pc[v] # "idle" /\ UNCHANGED groupVars
        BY <2>3, <3>3 DEF WorkerStep, Claim, Prepare, Encode, InsertFormat, Finish,
                          Index, MarkError, Leaves, Goto, PipeTypeOK
      <4> QED
        BY <3>1, <4>1 DEF WorkInv, WorkOk
    <3> QED
      BY <3>2, <3>3
  <2>4. ASSUME NEW w \in Workers, GroupStep(w)
        PROVE  InBatch(v) /\ UNCHANGED <<at[v], upto[v]>> /\ (proc'[v] = "up" => proc[v] = "up")
    <3>1. pc' = pc /\ InBatch(v) /\ proc[v] # "down"
      BY <2>4 DEF GroupStep, pipeVars, workVars, WorkInv, WorkOk
    <3>2. CASE Poll(w)
      BY <3>1, <3>2 DEF Poll, InBatch, GroupTypeOK
    <3>3. CASE AutoCommit(w) \/ Rebalance(w)
      BY <3>1, <3>3 DEF AutoCommit, Rebalance, Assign, Revoke, Lose, clientVars
    <3>4. CASE Stop(w) \/ Restart(w)
      BY <3>1, <3>4 DEF Stop, Restart, clientVars, GroupTypeOK
    <3> QED
      BY <2>4, <3>1, <3>2, <3>3, <3>4 DEF GroupStep
  <2>5. ASSUME NEW w \in Workers, ProcessEnds(w)
        PROVE  v # w /\ UNCHANGED <<pc[v], at[v], upto[v], proc[v]>>
    BY <2>5 DEF ProcessEnds, Exit, Crash, Dies, Leaves, Goto, PipeTypeOK, GroupTypeOK
  <2>6. UNCHANGED vars => UNCHANGED <<pc, at, upto, proc>>
    BY DEF vars, groupVars, clientVars, pipeVars, workVars
  <2>7. pc[v] # "idle" => InBatch(v)
    BY DEF WorkInv, WorkOk
  <2> QED
    BY <2>1, <2>2, <2>3, <2>4, <2>5, <2>6, <2>7 DEF Next
<1>2. at[v] + 1 \in 1 .. Len(log)
  BY <1>1 DEF InBatch, GroupTypeOK, WithinLog
<1> QED
  BY <1>1, <1>2, LogGrows, TrackOfRecord DEF Track

\* The track of a record in hand has a row.
LEMMA RecordHasRow ==
  ASSUME GroupTypeOK, WithinLog, QueueInv, NEW w \in Workers, InBatch(w)
  PROVE  Track(w) \in Tracks /\ status[Track(w)] # "none"
<1>1. at[w] + 1 \in 1 .. Len(log)
  BY DEF InBatch, GroupTypeOK, WithinLog
<1> QED
  BY <1>1, TrackOfRecord DEF Track, QueueInv

\* A step of process() writes the row of its record's track only, and takes no
\* track to "none" or "pending".
LEMMA WorkerMovesItsTrack ==
  ASSUME IInv, QueueInv, NEW w \in Workers, WorkerStep(w), NEW t \in Tracks
  PROVE  \/ status'[t] = status[t]
         \/ InBatch(w) /\ t = Track(w) /\ status[t] # "none" /\ Left(t)'
<1> USE DEF IInv, PipeTypeOK
<1>1. pc[w] # "idle" => InBatch(w)
  BY DEF WorkInv, WorkOk
<1>2. CASE Claim(w)
  <2>1. status' = status \/ status' = Claimed(Track(w))
    BY <1>2 DEF Claim
  <2>2. InBatch(w)
    BY <1>1, <1>2 DEF Claim
  <2> QED
    BY <2>1, <2>2, RecordHasRow DEF Claimed, Left
<1>3. CASE Finish(w)
  <2>1. status' = status \/ status' = [status EXCEPT ![Track(w)] = "ready"]
    BY <1>3 DEF Finish
  <2>2. InBatch(w)
    BY <1>1, <1>3 DEF Finish
  <2> QED
    BY <2>1, <2>2, RecordHasRow DEF Left
<1>4. CASE MarkError(w)
  <2>1. status' = status \/ status' = [status EXCEPT ![Track(w)] = "error"]
    BY <1>4 DEF MarkError
  <2>2. InBatch(w)
    BY <1>1, <1>4 DEF MarkError
  <2> QED
    BY <2>1, <2>2, RecordHasRow DEF Left
<1>5. CASE Check(w) \/ Prepare(w) \/ Encode(w) \/ InsertFormat(w) \/ Index(w)
  BY <1>5 DEF Check, Prepare, Encode, InsertFormat, Index, dbVars
<1> QED
  BY <1>2, <1>3, <1>4, <1>5 DEF WorkerStep

\* A worker past the claim has a track that has left "pending" for good.
LEMMA QueueStepWorking ==
  ASSUME IInv, QueueInv, [Next]_vars, NEW v \in Workers,
         pc'[v] \notin {"idle", "claim"}
  PROVE  Left(Track(v))'
<1>1. InBatch(v) /\ Track(v) \in Tracks /\ Track(v)' = Track(v)
  BY SameRecord
<1>2. Left(Track(v))' <=> status'[Track(v)] \notin {"none", "pending"}
  BY <1>1 DEF Left
<1>3. CASE pc[v] \notin {"idle", "claim"}
  <2>1. Left(Track(v))
    BY <1>3 DEF QueueInv
  <2> QED
    BY <1>1, <1>2, <2>1, StatusForward DEF Left, IInv
<1>4. CASE pc[v] \in {"idle", "claim"}
  <2>1. Claim(v) /\ status' = Claimed(Track(v))
    <3>1. ASSUME NEW t \in Tracks, CreateStep(t) \/ RequestCutOff(t)
          PROVE  pc' = pc
      BY <3>1 DEF CreateStep, StoreAudio, StoreAudioFails, SaveRow, SaveRowFails,
                  PublishUpload, PublishFails, RequestCutOff, workVars
    <3>2. ASSUME NEW w \in Workers, WorkerStep(w), v # w
          PROVE  pc'[v] = pc[v]
      BY <3>2, WorkerFrame DEF Frame, IInv
    <3>3. ASSUME NEW w \in Workers, GroupStep(w)
          PROVE  pc' = pc
      BY <3>3 DEF GroupStep, pipeVars, workVars
    <3>4. ASSUME NEW w \in Workers, ProcessEnds(w)
          PROVE  pc'[v] \in {pc[v], "idle"}
      BY <3>4 DEF ProcessEnds, Leaves, Goto, IInv, PipeTypeOK
    <3>5. UNCHANGED vars => pc' = pc
      BY DEF vars, pipeVars, workVars
    <3>6. WorkerStep(v)
      BY <1>4, <3>1, <3>2, <3>3, <3>4, <3>5 DEF Next
    <3>7. ~Check(v)
      BY <1>4 DEF Check, Goto, IInv, PipeTypeOK
    <3>8. Claim(v)
      BY <1>4, <3>6, <3>7 DEF WorkerStep, Prepare, Encode, InsertFormat, Finish,
                              Index, MarkError
    <3> QED
      BY <3>8 DEF Claim, Goto, IInv, PipeTypeOK
  <2>2. status[Track(v)] # "none"
    BY <1>1, RecordHasRow DEF IInv
  <2> QED
    BY <1>1, <1>2, <2>1, <2>2 DEF Claimed, IInv, PipeTypeOK
<1> QED
  BY <1>3, <1>4

\* The part of QueueInv that speaks of requests, rows and records.
QueueRows ==
    /\ \A t \in Tracks :
          /\ request[t] \in {"new", "stored"} => status[t] = "none"
          /\ request[t] \in {"saved", "accepted"} => status[t] # "none"
          /\ request[t] = "accepted" => \E i \in 1 .. Len(log) : log[i] = t
    /\ \A i \in 1 .. Len(log) : status[log[i]] # "none"

LEMMA QueueStepCreate ==
  ASSUME GroupTypeOK, PipeTypeOK, QueueRows,
         NEW t \in Tracks, CreateStep(t) \/ RequestCutOff(t)
  PROVE  QueueRows'
<1> USE DEF PipeTypeOK, RequestMoves, dbVars
<1>0. log \in Seq(Events) /\ \A i \in 1 .. Len(log) : log[i] \in Tracks
  BY DEF GroupTypeOK, Tracks
<1>1. CASE \/ StoreAudio(t) \/ StoreAudioFails(t) \/ RequestCutOff(t)
  <2>1. UNCHANGED <<log, status>>
    BY <1>1 DEF StoreAudio, StoreAudioFails, RequestCutOff, groupVars, brokerVars
  <2>2. \/ request[t] = "new" /\ request' = [request EXCEPT ![t] = "stored"]
        \/ request' = [request EXCEPT ![t] = "failed"]
    BY <1>1 DEF StoreAudio, StoreAudioFails, RequestCutOff
  <2> QED
    BY <2>1, <2>2 DEF QueueRows
<1>2. CASE SaveRow(t) \/ SaveRowFails(t)
  <2>1. UNCHANGED log
    BY <1>2 DEF SaveRow, SaveRowFails, groupVars, brokerVars
  <2>2. \/ /\ request' = [request EXCEPT ![t] = "saved"]
           /\ status' = [status EXCEPT ![t] = "pending"]
        \/ /\ request' = [request EXCEPT ![t] = "failed"]
           /\ status' \in {status, [status EXCEPT ![t] = "pending"]}
    BY <1>2 DEF SaveRow, SaveRowFails
  <2>3. request[t] = "stored"
    BY <1>2 DEF SaveRow, SaveRowFails
  <2>4. \A u \in Tracks : status'[u] = status[u] \/ status'[u] = "pending"
    BY <2>2
  <2>5. \A u \in Tracks \ {t} : request'[u] = request[u] /\ status'[u] = status[u]
    BY <2>2
  <2>6. \/ request'[t] = "saved" /\ status'[t] = "pending"
        \/ request'[t] = "failed"
    BY <2>2
  <2>7. \A i \in 1 .. Len(log) : status'[log[i]] # "none"
    BY <1>0, <2>4 DEF QueueRows
  <2> QED
    BY <2>1, <2>5, <2>6, <2>7 DEF QueueRows
<1>3. CASE PublishUpload(t) \/ PublishFails(t)
  <2>1. /\ status' = status /\ request[t] = "saved"
        /\ \/ /\ request' = [request EXCEPT ![t] = "accepted"]
              /\ log' \in {log \o <<t>>, log \o <<t, t>>}
           \/ /\ request' = [request EXCEPT ![t] = "failed"]
              /\ log' \in {log, log \o <<t>>}
    BY <1>3 DEF PublishUpload, PublishFails, AppendRecords, groupVars, brokerVars
  <2>2. \A i \in 1 .. Len(log') :
           \/ i \in 1 .. Len(log) /\ log'[i] = log[i]
           \/ log'[i] = t
    BY <1>0, <2>1
  <2>3. /\ \A i \in 1 .. Len(log) : i \in 1 .. Len(log') /\ log'[i] = log[i]
        /\ request'[t] = "accepted" => \E i \in 1 .. Len(log') : log'[i] = t
    <3>1. CASE log' = log
      BY <2>1, <3>1
    <3>2. CASE log' = log \o <<t>> \/ log' = log \o <<t, t>>
      <4>1. /\ \A i \in 1 .. Len(log) : i \in 1 .. Len(log') /\ log'[i] = log[i]
            /\ Len(log) + 1 \in 1 .. Len(log') /\ log'[Len(log) + 1] = t
        BY <1>0, <3>2
      <4> QED
        BY <4>1
    <3> QED
      BY <2>1, <3>1, <3>2
  <2>4. \A u \in Tracks \ {t} : request'[u] = request[u]
    BY <2>1
  <2>5. request'[t] \in {"accepted", "failed"}
    BY <2>1
  <2>6. \A u \in Tracks :
           /\ request'[u] \in {"new", "stored"} => status'[u] = "none"
           /\ request'[u] \in {"saved", "accepted"} => status'[u] # "none"
    BY <2>1, <2>4, <2>5 DEF QueueRows
  <2>7. ASSUME NEW u \in Tracks, request'[u] = "accepted"
        PROVE  \E i \in 1 .. Len(log') : log'[i] = u
    <3>1. CASE u = t
      BY <2>3, <2>7, <3>1
    <3>2. CASE u # t
      <4>1. PICK i \in 1 .. Len(log) : log[i] = u
        BY <2>4, <2>7, <3>2 DEF QueueRows
      <4> QED
        BY <2>3, <4>1
    <3> QED
      BY <3>1, <3>2
  <2>8. \A i \in 1 .. Len(log') : status'[log'[i]] # "none"
    BY <2>1, <2>2 DEF QueueRows
  <2> QED
    BY <2>6, <2>7, <2>8 DEF QueueRows
<1> QED
  BY <1>1, <1>2, <1>3 DEF CreateStep

LEMMA QueueStep == IInv /\ QueueInv /\ [Next]_vars => QueueInv'
<1> SUFFICES ASSUME IInv, QueueInv, [Next]_vars
             PROVE  QueueInv'
  OBVIOUS
<1> USE DEF IInv
<1>1. QueueRows
  BY DEF QueueInv, QueueRows
<1>2. ASSUME NEW t \in Tracks, CreateStep(t) \/ RequestCutOff(t)
      PROVE  QueueRows'
  BY <1>1, <1>2, QueueStepCreate
<1>3. ASSUME NEW w \in Workers, WorkerStep(w)
      PROVE  QueueRows'
  <2>1. UNCHANGED <<log, request>>
    BY <1>3, WorkerFrame DEF Frame
  <2>2. \A t \in Tracks :
           \/ status'[t] = status[t]
           \/ status[t] # "none" /\ status'[t] \notin {"none", "pending"}
    BY <1>3, WorkerMovesItsTrack DEF Left
  <2>3. \A i \in 1 .. Len(log) : log[i] \in Tracks
    BY DEF GroupTypeOK, Tracks
  <2> QED
    BY <1>1, <2>1, <2>2, <2>3 DEF QueueRows
<1>4. ASSUME NEW w \in Workers, GroupStep(w) \/ ProcessEnds(w)
      PROVE  UNCHANGED <<log, request, status>>
  BY <1>4 DEF GroupStep, ProcessEnds, Poll, AutoCommit, Rebalance, Assign, Revoke,
              Lose, Stop, Restart, Exit, Crash, brokerVars, pipeVars, apiVars, dbVars
<1>5. UNCHANGED vars => UNCHANGED <<log, request, status>>
  BY DEF vars, groupVars, brokerVars, pipeVars, apiVars, dbVars
<1>6. UNCHANGED <<log, request, status>> => QueueRows'
  BY <1>1 DEF QueueRows
<1>7. QueueRows'
  BY <1>2, <1>3, <1>4, <1>5, <1>6 DEF Next
<1>8. \A w \in Workers : pc'[w] \notin {"idle", "claim"} => Left(Track(w))'
  BY QueueStepWorking
<1> QED
  BY <1>7, <1>8 DEF QueueInv, QueueRows

\* A record stays in the log and a track that has left "pending" does not
\* return: what is settled stays settled.
LEMMA SettledGrows ==
  ASSUME IInv, QueueInv, [Next]_vars
  PROVE  Settled \subseteq Settled'
<1> SUFFICES ASSUME NEW o \in Settled
             PROVE  o \in Settled'
  OBVIOUS
<1> USE DEF IInv
<1>1. o \in 0 .. Len(log) - 1 /\ Left(log[o + 1])
  BY DEF Settled
<1>2. log[o + 1] \in Tracks
  BY <1>1 DEF GroupTypeOK, Tracks
<1>3. Left(log[o + 1])'
  <2>1. log'[o + 1] = log[o + 1]
    BY <1>1, LogGrows
  <2>2. status'[log[o + 1]] \notin {"none", "pending"}
    BY <1>1, <1>2, StatusForward DEF Left
  <2> QED
    BY <2>1, <2>2 DEF Left
<1>4. o \in 0 .. Len(log') - 1
  <2>1. Len(log') \in Nat
    BY GroupTypeStep, PipelineMovesGroup DEF GroupTypeOK
  <2> QED
    BY <1>1, <2>1, LogGrows
<1> QED
  BY <1>3, <1>4 DEF Settled

\* A handler that returns leaves its record settled, unless the shutdown cut
\* its first statements off: then it returns the error and marks nothing.
LEMMA ReturnSettles ==
  ASSUME "db" \notin Faults, IInv, QueueInv, NEW w \in Workers, WorkerStep(w),
         ReturnsNil(w) \/ ReturnsErr(w)
  PROVE  at[w] \in Settled \/ (proc[w] = "stopping" /\ ReturnsErr(w))
<1> USE DEF IInv
<1>1. InBatch(w) /\ at[w] \in 0 .. Len(log) - 1
  BY DEF ReturnsNil, ReturnsErr, NextRecord, InBatch, GroupTypeOK, WithinLog
<1>2. Left(Track(w)) => at[w] \in Settled
  BY <1>1 DEF Settled, Track
<1>3. CASE Check(w)
  <2>1. Left(Track(w)) \/ (proc[w] = "stopping" /\ ReturnsErr(w))
    <3>1. CASE Works(w) /\ status[Track(w)] # "pending"
      BY <1>1, <3>1, RecordHasRow DEF Left
    <3>2. CASE Fails(w, "db") /\ ReturnsErr(w)
      BY <3>2 DEF Fails
    <3>3. CASE UNCHANGED groupVars
      BY <1>1, <3>3 DEF ReturnsNil, ReturnsErr, NextRecord, groupVars, clientVars,
                        GroupTypeOK
    <3> QED
      BY <1>3, <3>1, <3>2, <3>3 DEF Check
  <2> QED
    BY <1>2, <2>1
<1>4. CASE Claim(w)
  <2>1. CASE Fails(w, "db") /\ ReturnsErr(w)
    BY <2>1 DEF Fails
  <2>2. CASE UNCHANGED groupVars
    BY <1>1, <2>2 DEF ReturnsNil, ReturnsErr, NextRecord, groupVars, clientVars,
                      GroupTypeOK
  <2> QED
    BY <1>4, <2>1, <2>2 DEF Claim
<1>5. CASE ~Check(w) /\ ~Claim(w)
  <2>1. pc[w] \notin {"idle", "claim"}
    BY <1>5 DEF WorkerStep, Prepare, Encode, InsertFormat, Finish, Index, MarkError
  <2> QED
    BY <1>2, <2>1 DEF QueueInv
<1> QED
  BY <1>3, <1>4, <1>5

LEMMA SettledStep ==
  ASSUME "db" \notin Faults, IInv, QueueInv, SettledInv, [Next]_vars
  PROVE  SettledInv'
<1> USE DEF IInv
<1>s. PICK S, T : S = Settled /\ T = Settled'
  OBVIOUS
<1>0. S \subseteq T /\ CoveredBy(S)
  BY <1>s, SettledGrows DEF SettledInv
<1>c. CoveredBy(T)' => SettledInv'
  BY <1>s DEF SettledInv, CoveredBy, Covers
<1>1. ASSUME \/ \E records \in Seq(Events) : AppendRecords(records)
             \/ \E w \in Workers : Poll(w) \/ AutoCommit(w) \/ Rebalance(w) \/ Process(w)
             \/ UNCHANGED groupVars
      PROVE  SettledInv'
  BY <1>c, <1>0, <1>1, CoveredStep
<1>2. ASSUME NEW w \in Workers, ReturnsNil(w) \/ ReturnsErr(w), WorkerStep(w)
      PROVE  SettledInv'
  <2>1. \/ at[w] \in T /\ (ReturnsNil(w) \/ ReturnsErr(w))
        \/ proc[w] = "stopping" /\ ReturnsErr(w)
    BY <1>s, <1>0, <1>2, ReturnSettles
  <2> QED
    BY <1>c, <1>0, <2>1, CoveredReturn
<1>3. ASSUME NEW t \in Tracks, CreateStep(t) \/ RequestCutOff(t)
      PROVE  SettledInv'
  <2>1. <<t>> \in Seq(Events) /\ <<t, t>> \in Seq(Events)
    BY DEF Tracks
  <2> QED
    BY <1>1, <1>3, <2>1 DEF CreateStep, StoreAudio, StoreAudioFails, SaveRow,
       SaveRowFails, PublishUpload, PublishFails, RequestCutOff
<1>4. ASSUME NEW w \in Workers, WorkerStep(w)
      PROVE  SettledInv'
  <2>1. UNCHANGED groupVars \/ ReturnsNil(w) \/ ReturnsErr(w)
    BY <1>4 DEF WorkerStep, Check, Claim, Prepare, Encode, InsertFormat, Finish,
                Index, MarkError
  <2> QED
    BY <1>1, <1>2, <1>4, <2>1
<1>5. ASSUME NEW w \in Workers, GroupStep(w) \/ ProcessEnds(w)
      PROVE  SettledInv'
  BY <1>1, <1>5 DEF GroupStep, ProcessEnds, Process
<1>6. CASE UNCHANGED vars
  BY <1>1, <1>6 DEF vars
<1> QED
  BY <1>3, <1>4, <1>5, <1>6 DEF Next

\* What has not left "pending" is not settled, so it is not committed.
LEMMA AcceptedInRemainder ==
  ASSUME GroupTypeOK, WithinLog, QueueInv, SettledInv
  PROVE  AcceptedNotLost
<1> SUFFICES ASSUME NEW t \in Tracks, request[t] = "accepted", status[t] = "pending"
             PROVE  \E o \in committed .. Len(log) - 1 : log[o + 1] = t
  BY DEF AcceptedNotLost
<1>1. PICK i \in 1 .. Len(log) : log[i] = t
  BY DEF QueueInv
<1>2. Len(log) \in Nat /\ committed \in Nat
  BY DEF GroupTypeOK
<1>3. i - 1 \notin Settled
  BY <1>1, <1>2 DEF Settled, Left
<1>4. ~(i - 1 \in 0 .. committed - 1)
  BY <1>3 DEF SettledInv, CoveredBy, Covers
<1>5. i - 1 \in committed .. Len(log) - 1 /\ log[(i - 1) + 1] = t
  BY <1>1, <1>2, <1>4
<1> QED
  BY <1>5

LEMMA QueueInvariance == Spec => [](IInv /\ QueueInv)
<1>1. Init => QueueInv
  BY DEF Init, GroupInit, QueueInv
<1> QED
  BY <1>1, QueueStep, PipelineInvariance, PTL DEF Spec

\* An upload that was answered with 202 and not claimed yet is still ahead of
\* the committed offset, for any number of workers and tracks and through
\* crashes, shutdowns, rebalances, duplicates and failed transcodes: a record is
\* marked only by a handler that found or made its track not pending, and a
\* shutdown ends the batch at the first record it cut off (kafka.go:75-77,
\* upload.go:61-69).  The assumption is needed: when the SELECT of a handler fails
\* by itself, the track stays pending and the mark of the next record passes it.
THEOREM AcceptedUploadsAreNotLost ==
  ASSUME "db" \notin Faults
  PROVE  Spec => []AcceptedNotLost
<1>1. Init => SettledInv
  BY DEF Init, GroupInit, SettledInv, CoveredBy, Covers, InBatch
<1>2. IInv /\ QueueInv /\ SettledInv /\ [Next]_vars => SettledInv'
  BY SettledStep
<1>3. IInv /\ QueueInv /\ SettledInv => AcceptedNotLost
  BY AcceptedInRemainder DEF IInv
<1> QED
  BY <1>1, <1>2, <1>3, QueueInvariance, PTL DEF Spec

\* Nor has such an upload to wait until the partition moves: whoever has it has
\* a record of the upload in its batch or ahead of its fetch position.  It is the
\* safety half of Processed (kafka.go:118, upload.go:61-69).
THEOREM AcceptedUploadsAreInReach ==
  ASSUME "db" \notin Faults
  PROVE  Spec => []AcceptedInReach
<1>1. Init => SettledInv
  BY DEF Init, GroupInit, SettledInv, CoveredBy, Covers, InBatch
<1>2. IInv /\ QueueInv /\ SettledInv /\ [Next]_vars => SettledInv'
  BY SettledStep
<1>3. IInv /\ QueueInv /\ SettledInv => AcceptedInReach
  <2> SUFFICES ASSUME IInv, QueueInv, SettledInv,
                      NEW t \in Tracks, request[t] = "accepted", status[t] = "pending",
                      NEW w \in Workers, owner = w, proc[w] = "up"
               PROVE  \E o \in Reach(w) : log[o + 1] = t
    BY DEF AcceptedInReach
  <2>1. PICK i \in 1 .. Len(log) : log[i] = t
    BY DEF QueueInv
  <2>2. i - 1 \in 0 .. Len(log) - 1 /\ log[(i - 1) + 1] = t
    BY <2>1 DEF IInv, GroupTypeOK
  <2>3. i - 1 \notin Settled
    BY <2>2 DEF Settled, Left
  <2>4. Covers(Settled, at[w]) /\ (pos[w] = upto[w] \/ Covers(Settled, pos[w]))
    BY DEF SettledInv, CoveredBy
  <2>5. i - 1 \in Reach(w)
    BY <2>2, <2>3, <2>4, BeyondCover DEF IInv
  <2> QED
    BY <2>2, <2>5
<1> QED
  BY <1>1, <1>2, <1>3, QueueInvariance, PTL DEF Spec

(***************************************************************************)
(* As long as the partition stays with a worker until its process ends and *)
(* no statement fails but for a shutdown, a track is worked on by one      *)
(* handler at a time.                                                      *)
(***************************************************************************)
\* The part of SoleInv that speaks of one worker inside process().
SoleOk(w) ==
    /\ pc[w] = "claim" => status[Track(w)] = "pending"
    /\ pc[w] \in {"prepare", "encode", "insert", "finish"} =>
          status[Track(w)] = "processing"
    /\ pc[w] = "index" => status[Track(w)] = "ready"
    /\ pc[w] = "fail" =>
          /\ status[Track(w)] \in {"processing", "ready"}
          /\ Track(w) \notin indexed

\* A worker enters a batch as the owner and is the owner until it is done.
LEMMA OwnerStep ==
  ASSUME "rebalance" \notin Faults, IInv, SoleInv, [Next]_vars, NEW v \in Workers
  PROVE  InBatch(v)' => owner' = v
<1> USE GroupAssumption DEF IInv, GroupTypeOK, InBatch
<1>0. [GroupMove]_groupVars
  BY PipelineMovesGroup
<1>1. \A u \in Workers : at[u] < upto[u] => owner = u
  BY DEF SoleInv
<1>2. ASSUME NEW records \in Seq(Events), AppendRecords(records)
      PROVE  InBatch(v)' => owner' = v
  BY <1>1, <1>2 DEF AppendRecords, clientVars
<1>3. ASSUME NEW w \in Workers, Poll(w)
      PROVE  InBatch(v)' => owner' = v
  BY <1>1, <1>3 DEF Poll, brokerVars
<1>4. ASSUME NEW w \in Workers, ReturnsNil(w) \/ ReturnsErr(w)
      PROVE  InBatch(v)' => owner' = v
  BY <1>1, <1>4 DEF ReturnsNil, ReturnsErr, NextRecord, brokerVars
<1>5. ASSUME NEW w \in Workers, AutoCommit(w) \/ Rebalance(w)
      PROVE  InBatch(v)' => owner' = v
  BY <1>1, <1>5 DEF AutoCommit, Rebalance, Assign, Revoke, Lose, Disrupt, clientVars
<1>6. ASSUME NEW w \in Workers, Process(w)
      PROVE  InBatch(v)' => owner' = v
  <2>1. CASE Stop(w) \/ Restart(w)
    BY <1>1, <2>1 DEF Stop, Restart, brokerVars, clientVars
  <2>2. CASE Exit(w) \/ Crash(w)
    <3>1. Dies(w)
      BY <2>2 DEF Exit, Crash
    <3>2. CASE v = w
      BY <3>1, <3>2 DEF Dies
    <3>3. CASE v # w
      <4>1. at'[v] = at[v] /\ upto'[v] = upto[v] /\ (owner = v => owner' = v)
        BY <3>1, <3>3 DEF Dies
      <4> QED
        BY <1>1, <4>1
    <3> QED
      BY <3>2, <3>3
  <2> QED
    BY <1>6, <2>1, <2>2 DEF Process
<1>7. CASE UNCHANGED groupVars
  BY <1>1, <1>7 DEF groupVars, brokerVars, clientVars
<1> QED
  BY <1>0, <1>2, <1>3, <1>4, <1>5, <1>6, <1>7 DEF GroupMove

\* No step but its own changes the status of the track a worker has in hand, or
\* puts it into the index.
LEMMA OthersLeaveTrack ==
  ASSUME IInv, QueueInv, SoleInv, [Next]_vars,
         NEW v \in Workers, pc'[v] # "idle", ~WorkerStep(v)
  PROVE  /\ pc'[v] = pc[v] /\ status'[Track(v)] = status[Track(v)]
         /\ indexed' = indexed
<1> USE DEF IInv, PipeTypeOK
<1>0. InBatch(v) /\ Track(v) \in Tracks /\ status[Track(v)] # "none"
  BY SameRecord, RecordHasRow
<1>1. ASSUME NEW t \in Tracks, CreateStep(t) \/ RequestCutOff(t)
      PROVE  /\ pc'[v] = pc[v] /\ status'[Track(v)] = status[Track(v)]
             /\ indexed' = indexed
  <2>1. pc' = pc /\ indexed' = indexed
    BY <1>1 DEF CreateStep, StoreAudio, StoreAudioFails, SaveRow, SaveRowFails,
                PublishUpload, PublishFails, RequestCutOff, workVars, storeVars
  <2>2. status' = status \/ (status[t] = "none"
                              /\ status' = [status EXCEPT ![t] = "pending"])
    BY <1>1 DEF CreateStep, StoreAudio, StoreAudioFails, SaveRow, SaveRowFails,
         PublishUpload, PublishFails, RequestCutOff, RequestMoves, QueueInv, dbVars
  <2> QED
    BY <1>0, <2>1, <2>2
<1>2. ASSUME NEW w \in Workers, WorkerStep(w)
      PROVE  /\ pc'[v] = pc[v] /\ status'[Track(v)] = status[Track(v)]
             /\ indexed' = indexed
  <2>1. w # v
    BY <1>2
  <2>2. pc'[v] = pc[v]
    BY <1>2, <2>1, WorkerFrame DEF Frame
  <2>3. ~InBatch(w)
    BY <1>0, <2>1 DEF SoleInv
  <2>4. indexed' = indexed
    <3>1. pc[w] = "idle" /\ ~Index(w)
      BY <2>3 DEF WorkInv, WorkOk, Index
    <3> QED
      BY <1>2, <3>1 DEF WorkerStep, Check, Claim, Prepare, Encode, InsertFormat,
                        Finish, MarkError, storeVars
  <2> QED
    BY <1>0, <1>2, <2>2, <2>3, <2>4, WorkerMovesItsTrack
<1>3. ASSUME NEW w \in Workers, GroupStep(w) \/ ProcessEnds(w)
      PROVE  /\ pc'[v] = pc[v] /\ status'[Track(v)] = status[Track(v)]
             /\ indexed' = indexed
  BY <1>3 DEF GroupStep, ProcessEnds, Leaves, Goto, pipeVars, workVars, dbVars, storeVars
<1>4. UNCHANGED vars => pc' = pc /\ status' = status /\ indexed' = indexed
  BY DEF vars, pipeVars, workVars, dbVars, storeVars
<1> QED
  BY <1>1, <1>2, <1>3, <1>4 DEF Next

\* A worker's own step keeps what it knows of its track true.
LEMMA OwnStepKnows ==
  ASSUME IInv, SoleInv, [Next]_vars,
         NEW v \in Workers, WorkerStep(v), pc'[v] # "idle"
  PROVE  SoleOk(v)'
<1> USE DEF IInv, PipeTypeOK, Goto
<1>0. InBatch(v) /\ Track(v) \in Tracks /\ Track(v)' = Track(v) /\ UNCHANGED proc
  BY SameRecord, WorkerFrame DEF Frame
<1>1. SoleOk(v)
  BY DEF SoleInv, SoleOk
<1>2. SoleOk(v)' <=>
        /\ pc'[v] = "claim" => status'[Track(v)] = "pending"
        /\ pc'[v] \in {"prepare", "encode", "insert", "finish"} =>
              status'[Track(v)] = "processing"
        /\ pc'[v] = "index" => status'[Track(v)] = "ready"
        /\ pc'[v] = "fail" =>
              /\ status'[Track(v)] \in {"processing", "ready"}
              /\ Track(v) \notin indexed'
  BY <1>0 DEF SoleOk
<1>3. CASE Check(v)
  <2>1. pc'[v] = "claim" /\ status' = status /\ status[Track(v)] = "pending"
    BY <1>3 DEF Check, dbVars
  <2> QED
    BY <1>2, <2>1
<1>4. CASE Claim(v)
  <2>1. pc'[v] = "prepare" /\ status' = Claimed(Track(v)) /\ status[Track(v)] = "pending"
    BY <1>1, <1>4 DEF Claim, SoleOk
  <2> QED
    BY <1>0, <1>2, <2>1 DEF Claimed
<1>5. CASE Prepare(v) \/ Encode(v) \/ InsertFormat(v)
  <2>1. /\ status' = status /\ status[Track(v)] = "processing"
        /\ Track(v) \notin indexed /\ indexed' = indexed
    BY <1>1, <1>5 DEF Prepare, Encode, InsertFormat, SoleOk, SoleInv, dbVars, storeVars
  <2>2. pc'[v] \in {"encode", "insert", "finish", "fail"}
    BY <1>5 DEF Prepare, Encode, InsertFormat
  <2> QED
    BY <1>2, <2>1, <2>2
<1>6. CASE Finish(v)
  <2>1. /\ status[Track(v)] = "processing"
        /\ Track(v) \notin indexed /\ indexed' = indexed
    BY <1>1, <1>6 DEF Finish, SoleOk, SoleInv, storeVars
  <2>2. \/ pc'[v] = "index" /\ status' = [status EXCEPT ![Track(v)] = "ready"]
        \/ /\ pc'[v] = "fail"
           /\ status' \in {status, [status EXCEPT ![Track(v)] = "ready"]}
    BY <1>6 DEF Finish
  <2> QED
    BY <1>0, <1>2, <2>1, <2>2
<1>7. ~Index(v) /\ ~MarkError(v)
  BY DEF Index, MarkError, Leaves
<1> QED
  BY <1>3, <1>4, <1>5, <1>6, <1>7 DEF WorkerStep

\* A track that the index shows stays ready: markError is not called for it.
LEMMA IndexedStaysReady ==
  ASSUME IInv, QueueInv, SoleInv, [Next]_vars,
         NEW t \in Tracks, t \in indexed, status[t] = "ready"
  PROVE  status'[t] = "ready"
<1> USE DEF IInv, PipeTypeOK
<1>1. ASSUME NEW w \in Workers, WorkerStep(w)
      PROVE  status'[t] = "ready"
  <2>1. CASE Claim(w)
    BY <2>1 DEF Claim, Claimed
  <2>2. CASE Finish(w)
    BY <2>2 DEF Finish
  <2>3. CASE MarkError(w)
    <3>1. Track(w) # t
      BY <2>3 DEF MarkError, SoleInv
    <3>2. status' = status \/ status' = [status EXCEPT ![Track(w)] = "error"]
      BY <2>3 DEF MarkError
    <3> QED
      BY <3>1, <3>2
  <2>4. CASE Check(w) \/ Prepare(w) \/ Encode(w) \/ InsertFormat(w) \/ Index(w)
    BY <2>4 DEF Check, Prepare, Encode, InsertFormat, Index, dbVars
  <2> QED
    BY <1>1, <2>1, <2>2, <2>3, <2>4 DEF WorkerStep
<1>2. ASSUME NEW u \in Tracks, CreateStep(u) \/ RequestCutOff(u)
      PROVE  status'[t] = "ready"
  <2>1. status' = status \/ (status[u] = "none"
                              /\ status' = [status EXCEPT ![u] = "pending"])
    BY <1>2 DEF CreateStep, StoreAudio, StoreAudioFails, SaveRow, SaveRowFails,
         PublishUpload, PublishFails, RequestCutOff, RequestMoves, QueueInv, dbVars
  <2> QED
    BY <2>1
<1>3. ASSUME NEW w \in Workers, GroupStep(w) \/ ProcessEnds(w)
      PROVE  status' = status
  BY <1>3 DEF GroupStep, ProcessEnds, pipeVars, dbVars
<1>4. UNCHANGED vars => status' = status
  BY DEF vars, pipeVars, dbVars
<1> QED
  BY <1>1, <1>2, <1>3, <1>4 DEF Next

LEMMA SoleStep ==
  ASSUME "rebalance" \notin Faults,
         IInv, IInv', QueueInv, SoleInv, [Next]_vars
  PROVE  SoleInv'
<1>1. ASSUME NEW v \in Workers
      PROVE  SoleOk(v)'
  <2>1. CASE pc'[v] = "idle"
    BY <2>1 DEF SoleOk
  <2>2. CASE pc'[v] # "idle" /\ WorkerStep(v)
    BY <2>2, OwnStepKnows
  <2>3. CASE pc'[v] # "idle" /\ ~WorkerStep(v)
    <3>1. /\ pc'[v] = pc[v] /\ status'[Track(v)] = status[Track(v)]
          /\ indexed' = indexed
      BY <2>3, OthersLeaveTrack
    <3>2. Track(v)' = Track(v)
      BY <2>3, SameRecord
    <3>3. SoleOk(v)
      BY DEF SoleInv, SoleOk
    <3> QED
      BY <3>1, <3>2, <3>3 DEF SoleOk
  <2> QED
    BY <2>1, <2>2, <2>3
<1>2. \A t \in indexed' : status'[t] = "ready"
  <2>1. \A t \in indexed : status'[t] = "ready"
    BY IndexedStaysReady DEF IInv, PipeTypeOK, SoleInv
  <2>2. ASSUME NEW w \in Workers, Index(w)
        PROVE  \A t \in indexed' : status'[t] = "ready"
    BY <2>1, <2>2 DEF Index, SoleInv, dbVars
  <2>3. ASSUME NEW w \in Workers, WorkerStep(w), ~Index(w)
        PROVE  indexed' = indexed
    BY <2>3 DEF WorkerStep, Check, Claim, Prepare, Encode, InsertFormat, Finish,
                MarkError, storeVars
  <2>4. ASSUME NEW t \in Tracks, CreateStep(t) \/ RequestCutOff(t)
        PROVE  indexed' = indexed
    BY <2>4 DEF CreateStep, StoreAudio, StoreAudioFails, SaveRow, SaveRowFails,
                PublishUpload, PublishFails, RequestCutOff, storeVars
  <2>5. ASSUME NEW w \in Workers, GroupStep(w) \/ ProcessEnds(w)
        PROVE  indexed' = indexed
    BY <2>5 DEF GroupStep, ProcessEnds, pipeVars, storeVars
  <2>6. UNCHANGED vars => indexed' = indexed
    BY DEF vars, pipeVars, storeVars
  <2> QED
    BY <2>1, <2>2, <2>3, <2>4, <2>5, <2>6 DEF Next
<1>3. \A v \in Workers : InBatch(v)' => owner' = v
  BY OwnerStep
<1> QED
  BY <1>1, <1>2, <1>3 DEF SoleInv, SoleOk

LEMMA SoleInvariance ==
  ASSUME "rebalance" \notin Faults
  PROVE  Spec => [](IInv /\ QueueInv /\ SoleInv)
<1>1. Init => SoleInv
  BY DEF Init, GroupInit, InBatch, SoleInv
<1>2. IInv /\ IInv' /\ QueueInv /\ SoleInv /\ [Next]_vars => SoleInv'
  BY SoleStep
<1> QED
  BY <1>1, <1>2, QueueInvariance, PTL DEF Spec

\* "Only one consumer can claim the work" (docs/phase-2.md:192): without
\* rebalances a worker that passes the UPDATE of the claim is the one that found
\* the track pending, whatever crashes, shutdowns, duplicates and failing calls
\* there were.  The run upload_flip shows what a rebalance does to it: nobody
\* looks at the number of rows the UPDATE changed (process, upload.go:71-75).
THEOREM ClaimsAreExclusive ==
  ASSUME "rebalance" \notin Faults
  PROVE  Spec => ClaimExclusive
<1>1. SoleInv => [\A w \in Workers : pc[w] = "claim" /\ pc'[w] = "prepare"
                     => status[Track(w)] = "pending"]_vars
  BY DEF SoleInv
<1> QED
  BY <1>1, SoleInvariance, PTL DEF ClaimExclusive

\* Search shows no track as ready that is not: the index is written by the worker
\* that made the track ready, after it did, and nobody takes the status back; an
\* UPDATE to ready whose answer was lost is undone by markError, but then the
\* track was not indexed (upload.go:129-153).
THEOREM IndexAgrees ==
  ASSUME "rebalance" \notin Faults
  PROVE  Spec => []IndexedReady
<1>1. SoleInv => IndexedReady
  BY DEF SoleInv, IndexedReady
<1> QED
  BY <1>1, SoleInvariance, PTL

\* Where statements fail only in a shutdown, so does the UPDATE to ready.
LEMMA FailStep ==
  ASSUME "db" \notin Faults, IInv, IInv', QueueInv, SoleInv, FailInv, [Next]_vars
  PROVE  FailInv'
<1> SUFFICES ASSUME NEW v \in Workers, pc'[v] = "fail"
             PROVE  status'[Track(v)'] = "processing" \/ proc'[v] = "stopping"
  BY DEF FailInv
<1> USE DEF IInv, PipeTypeOK, Goto
<1>1. Track(v)' = Track(v)
  BY SameRecord
<1>2. CASE WorkerStep(v)
  <2>1. UNCHANGED proc
    BY <1>2, WorkerFrame DEF Frame
  <2>2. CASE Prepare(v) \/ Encode(v) \/ InsertFormat(v)
    <3>1. status' = status /\ status[Track(v)] = "processing"
      BY <2>2 DEF Prepare, Encode, InsertFormat, SoleInv, dbVars
    <3> QED
      BY <1>1, <3>1
  <2>3. CASE Finish(v)
    BY <2>1, <2>3 DEF Finish, Fails
  <2>4. ~Check(v) /\ ~Claim(v) /\ ~Index(v) /\ ~MarkError(v)
    BY DEF Check, Claim, Index, MarkError, Leaves
  <2> QED
    BY <1>2, <2>2, <2>3, <2>4 DEF WorkerStep
<1>3. CASE ~WorkerStep(v)
  <2>1. pc[v] = "fail" /\ status'[Track(v)] = status[Track(v)]
    BY <1>3, OthersLeaveTrack
  <2>2. proc'[v] = "up" => proc[v] = "up"
    BY <1>3, SameRecord
  <2>3. proc'[v] \in {"up", "stopping"}
    BY DEF WorkInv, WorkOk, GroupTypeOK
  <2> QED
    BY <1>1, <2>1, <2>2, <2>3 DEF FailInv
<1> QED
  BY <1>2, <1>3

LEMMA FailInvariance ==
  ASSUME "db" \notin Faults, "rebalance" \notin Faults
  PROVE  Spec => []FailInv
<1>1. Init => FailInv
  BY DEF Init, FailInv
<1>2. IInv /\ IInv' /\ QueueInv /\ SoleInv /\ FailInv /\ [Next]_vars => FailInv'
  BY FailStep
<1> QED
  BY <1>1, <1>2, SoleInvariance, PTL DEF Spec

\* A step of process() is a step of the lifecycle of the track in hand.
LEMMA WorkerFollowsLifecycle ==
  ASSUME IInv, QueueInv, SoleInv, FailInv,
         NEW w \in Workers, WorkerStep(w)
  PROVE  Lifecycle!Next \/ UNCHANGED <<status, formats>>
<1> USE DEF IInv, PipeTypeOK
<1>0. pc[w] # "idle" => InBatch(w) /\ Track(w) \in Tracks
  BY TrackOfRecord DEF WorkInv, WorkOk
<1>1. CASE Check(w) \/ Prepare(w) \/ Encode(w) \/ Index(w)
  BY <1>1 DEF Check, Prepare, Encode, Index, dbVars
<1>2. CASE Claim(w)
  <2>1. Track(w) \in Tracks /\ status[Track(w)] = "pending" /\ formats' = formats
    BY <1>0, <1>2 DEF Claim, SoleInv
  <2>2. status' = status \/ status' = [status EXCEPT ![Track(w)] = "processing"]
    BY <1>2, <2>1 DEF Claim, Claimed
  <2>3. UNCHANGED <<status, formats>> \/ Lifecycle!Claim(Track(w))
    BY <2>1, <2>2 DEF Lifecycle!Claim, Lifecycle!Moves
  <2> QED
    BY <2>1, <2>3 DEF Lifecycle!Next
<1>3. CASE InsertFormat(w)
  <2>1. /\ Track(w) \in Tracks /\ status[Track(w)] = "processing"
        /\ status' = status
    BY <1>0, <1>3 DEF InsertFormat, SoleInv
  <2>2. Bitrates[bit[w]] \in BitrateSet
    BY <1>3, BitrateOfLoop DEF InsertFormat
  <2>3. \/ UNCHANGED <<status, formats>>
        \/ Lifecycle!AddFormat(Track(w), Bitrates[bit[w]])
    BY <1>3, <2>1 DEF InsertFormat, Lifecycle!AddFormat
  <2> QED
    BY <2>1, <2>2, <2>3 DEF Lifecycle!Next
<1>4. CASE Finish(w)
  <2>1. /\ Track(w) \in Tracks /\ status[Track(w)] = "processing"
        /\ formats' = formats
    BY <1>0, <1>4 DEF Finish, SoleInv
  <2>2. formats[Track(w)] = BitrateSet
    <3>1. bit[w] = Len(Bitrates) + 1 /\ Encoded(w) \subseteq formats[Track(w)]
      BY <1>4 DEF Finish, WorkInv, WorkOk
    <3>2. Encoded(w) = BitrateSet
      BY <3>1, BitratesAssumption DEF Encoded, BitrateSet
    <3> QED
      BY <2>1, <3>1, <3>2
  <2>3. \/ UNCHANGED <<status, formats>>
        \/ Lifecycle!Complete(Track(w))
    BY <1>4, <2>1, <2>2 DEF Finish, Lifecycle!Complete, Lifecycle!Moves
  <2> QED
    BY <2>1, <2>3 DEF Lifecycle!Next
<1>5. CASE MarkError(w)
  <2>1. Track(w) \in Tracks /\ formats' = formats
    BY <1>0, <1>5 DEF MarkError
  <2>2. status' = status \/ (status[Track(w)] = "processing"
                              /\ status' = [status EXCEPT ![Track(w)] = "error"])
    BY <1>5 DEF MarkError, Works, FailInv
  <2>3. UNCHANGED <<status, formats>> \/ Lifecycle!Fail(Track(w))
    BY <2>1, <2>2 DEF Lifecycle!Fail, Lifecycle!Moves
  <2> QED
    BY <2>1, <2>3 DEF Lifecycle!Next
<1> QED
  BY <1>1, <1>2, <1>3, <1>4, <1>5 DEF WorkerStep

LEMMA StepFollowsLifecycle ==
  ASSUME IInv, QueueInv, SoleInv, FailInv, [Next]_vars
  PROVE  Lifecycle!Next \/ UNCHANGED <<status, formats>>
<1>1. ASSUME NEW t \in Tracks, CreateStep(t) \/ RequestCutOff(t)
      PROVE  Lifecycle!Next \/ UNCHANGED <<status, formats>>
  <2>1. CASE SaveRow(t) \/ SaveRowFails(t)
    <3>1. /\ status[t] = "none" /\ formats' = formats
          /\ status' \in {status, [status EXCEPT ![t] = "pending"]}
      BY <2>1 DEF SaveRow, SaveRowFails, RequestMoves, QueueInv
    <3>2. UNCHANGED <<status, formats>> \/ Lifecycle!Create(t)
      BY <3>1 DEF Lifecycle!Create, Lifecycle!Moves
    <3> QED
      BY <3>2 DEF Lifecycle!Next
  <2>2. CASE ~SaveRow(t) /\ ~SaveRowFails(t)
    BY <1>1, <2>2 DEF CreateStep, StoreAudio, StoreAudioFails, PublishUpload,
                      PublishFails, RequestCutOff, dbVars
  <2> QED
    BY <2>1, <2>2
<1>2. ASSUME NEW w \in Workers, WorkerStep(w)
      PROVE  Lifecycle!Next \/ UNCHANGED <<status, formats>>
  BY <1>2, WorkerFollowsLifecycle
<1>3. ASSUME NEW w \in Workers, GroupStep(w) \/ ProcessEnds(w)
      PROVE  UNCHANGED <<status, formats>>
  BY <1>3 DEF GroupStep, ProcessEnds, pipeVars, dbVars
<1>4. UNCHANGED vars => UNCHANGED <<status, formats>>
  BY DEF vars, pipeVars, dbVars
<1> QED
  BY <1>1, <1>2, <1>3, <1>4 DEF Next

\* The pipeline implements the lifecycle of a track under these assumptions: a
\* track is created pending, claimed once, gains formats only while it is being
\* processed, is ready only with all of them, and ready and error are final, for
\* any number of workers, tracks and bitrates and through crashes, shutdowns,
\* duplicated and lost calls to Kafka and S3 (process, upload.go:60-156).
THEOREM PipelineImplementsLifecycle ==
  ASSUME "db" \notin Faults, "rebalance" \notin Faults
  PROVE  Spec => LifecycleSpec
<1>1. Init => Lifecycle!Init
  BY DEF Init, Lifecycle!Init
<1>2. IInv /\ QueueInv /\ SoleInv /\ FailInv /\ [Next]_vars
        => [Lifecycle!Next]_(Lifecycle!vars)
  BY StepFollowsLifecycle DEF Lifecycle!vars
<1> QED
  BY <1>1, <1>2, SoleInvariance, FailInvariance, PTL DEF Spec, LifecycleSpec, Lifecycle!Spec

(***************************************************************************)
(* What no step takes back, with every class of fault.                     *)
(***************************************************************************)
\* The ways a status may move; ready and error may still replace each other.
LEMMA StatusMoves ==
  ASSUME IInv, QueueInv, [Next]_vars, NEW t \in Tracks
  PROVE  \/ status'[t] = status[t]
         \/ status[t] = "none" /\ status'[t] = "pending"
         \/ status[t] = "pending" /\ status'[t] = "processing"
         \/ status'[t] \in {"ready", "error"}
<1> USE DEF IInv, PipeTypeOK
<1>1. ASSUME NEW u \in Tracks, CreateStep(u) \/ RequestCutOff(u)
      PROVE  status' = status \/ (status[u] = "none"
                                   /\ status' = [status EXCEPT ![u] = "pending"])
  BY <1>1 DEF CreateStep, StoreAudio, StoreAudioFails, SaveRow, SaveRowFails,
              PublishUpload, PublishFails, RequestCutOff, RequestMoves, QueueInv, dbVars
<1>2. ASSUME NEW w \in Workers, WorkerStep(w)
      PROVE  \/ status' = status
             \/ status' = Claimed(Track(w))
             \/ status' = [status EXCEPT ![Track(w)] = "ready"]
             \/ status' = [status EXCEPT ![Track(w)] = "error"]
  BY <1>2 DEF WorkerStep, Check, Claim, Prepare, Encode, InsertFormat, Finish, Index,
              MarkError, dbVars
<1>3. ASSUME NEW w \in Workers, GroupStep(w) \/ ProcessEnds(w)
      PROVE  status' = status
  BY <1>3 DEF GroupStep, ProcessEnds, pipeVars, dbVars
<1>4. UNCHANGED vars => status' = status
  BY DEF vars, pipeVars, dbVars
<1> QED
  BY <1>1, <1>2, <1>3, <1>4 DEF Next, Claimed

LEMMA FormatsGrow ==
  ASSUME IInv, [Next]_vars, NEW t \in Tracks
  PROVE  formats[t] \subseteq formats'[t] /\ variants[t] \subseteq variants'[t]
<1>1. ASSUME NEW u \in Tracks, CreateStep(u) \/ RequestCutOff(u)
      PROVE  UNCHANGED <<formats, variants>>
  BY <1>1 DEF CreateStep, StoreAudio, StoreAudioFails, SaveRow, SaveRowFails,
              PublishUpload, PublishFails, RequestCutOff, dbVars, storeVars
<1>2. ASSUME NEW w \in Workers, WorkerStep(w)
      PROVE  formats[t] \subseteq formats'[t] /\ variants[t] \subseteq variants'[t]
  BY <1>2, WorkerFrame DEF Frame, IInv
<1>3. ASSUME NEW w \in Workers, GroupStep(w) \/ ProcessEnds(w)
      PROVE  UNCHANGED <<formats, variants>>
  BY <1>3 DEF GroupStep, ProcessEnds, pipeVars, dbVars, storeVars
<1>4. UNCHANGED vars => UNCHANGED <<formats, variants>>
  BY DEF vars, pipeVars, dbVars, storeVars
<1> QED
  BY <1>1, <1>2, <1>3, <1>4 DEF Next

\* Whatever fails, and however many workers have the same track in hand, the
\* status of a track only moves on and none of its formats is taken away: the
\* claim is an UPDATE of a pending row, and the later ones set a last status
\* (upload.go:71-77, 123-129, markError).
THEOREM TracksNeverGoBack == Spec => NeverBack
<1> DEFINE Forward == \A t \in Tracks :
                         /\ Rank(status'[t]) >= Rank(status[t])
                         /\ formats[t] \subseteq formats'[t]
                         /\ variants[t] \subseteq variants'[t]
<1>1. IInv /\ QueueInv /\ [Next]_vars => Forward
  <2> SUFFICES ASSUME IInv, QueueInv, [Next]_vars, NEW t \in Tracks
               PROVE  Rank(status'[t]) >= Rank(status[t])
    BY FormatsGrow
  <2>1. /\ Rank("none") = 0 /\ Rank("pending") = 1 /\ Rank("processing") = 2
        /\ Rank("ready") = 3 /\ Rank("error") = 3
    BY DEF Rank
  <2>2. status[t] \in {"none", "pending", "processing", "ready", "error"}
    BY DEF IInv, PipeTypeOK
  <2> QED
    BY <2>1, <2>2, StatusMoves
<1> QED
  BY <1>1, QueueInvariance, PTL DEF Spec, NeverBack

(***************************************************************************)
(* How many uploads can be stranded in processing.                         *)
(***************************************************************************)
\* The count of StrandInv, when both sets only lose members, when one gains a
\* member and a disruption is counted, and when one member goes from one to the
\* other.
StrandCount ==
    /\ IsFiniteSet(Stranded) /\ IsFiniteSet(Doomed)
    /\ Cardinality(Stranded) + Cardinality(Doomed) <= disruptions

LEMMA StrandCountKept ==
  ASSUME StrandCount, disruptions \in Nat, disruptions' \in Nat, NEW t, NEW w,
         \/ /\ Stranded' \subseteq Stranded
            /\ Doomed' \subseteq Doomed
            /\ disruptions' >= disruptions
         \/ /\ Stranded' \subseteq Stranded \cup {t}
            /\ Doomed' \subseteq Doomed
            /\ disruptions' = disruptions + 1
         \/ /\ Stranded' \subseteq Stranded
            /\ Doomed' \subseteq Doomed \cup {w}
            /\ disruptions' = disruptions + 1
         \/ /\ Stranded' \subseteq Stranded \cup {t}
            /\ w \in Doomed /\ Doomed' \subseteq Doomed \ {w}
            /\ disruptions' = disruptions
  PROVE  StrandCount'
<1>1. /\ IsFiniteSet(Stranded) /\ IsFiniteSet(Doomed)
      /\ Cardinality(Stranded) \in Nat /\ Cardinality(Doomed) \in Nat
      /\ Cardinality(Stranded) + Cardinality(Doomed) <= disruptions
  BY FS_CardinalityType DEF StrandCount
<1>2. /\ IsFiniteSet(Stranded \cup {t}) /\ IsFiniteSet(Doomed \cup {w})
      /\ Cardinality(Stranded \cup {t}) \in Nat
      /\ Cardinality(Stranded \cup {t}) <= Cardinality(Stranded) + 1
      /\ Cardinality(Doomed \cup {w}) \in Nat
      /\ Cardinality(Doomed \cup {w}) <= Cardinality(Doomed) + 1
  <2>1. ASSUME NEW S, IsFiniteSet(S), NEW x
        PROVE  /\ IsFiniteSet(S \cup {x})
               /\ Cardinality(S \cup {x}) \in Nat
               /\ Cardinality(S \cup {x}) <= Cardinality(S) + 1
    <3>1. /\ IsFiniteSet(S \cup {x})
          /\ Cardinality(S \cup {x}) = Cardinality(S)
             \/ Cardinality(S \cup {x}) = Cardinality(S) + 1
      BY ONLY <2>1, FS_AddElement
    <3>2. Cardinality(S) \in Nat
      BY ONLY <2>1, FS_CardinalityType
    <3> QED
      BY ONLY <3>1, <3>2
  <2> QED
    BY <1>1, <2>1
<1>3. CASE /\ Stranded' \subseteq Stranded
           /\ Doomed' \subseteq Doomed
           /\ disruptions' >= disruptions
  <2>1. /\ IsFiniteSet(Stranded') /\ Cardinality(Stranded') \in Nat
        /\ Cardinality(Stranded') <= Cardinality(Stranded)
        /\ IsFiniteSet(Doomed') /\ Cardinality(Doomed') \in Nat
        /\ Cardinality(Doomed') <= Cardinality(Doomed)
    BY <1>1, <1>3, FS_Subset, FS_CardinalityType
  <2> QED
    BY <1>1, <1>3, <2>1 DEF StrandCount
<1>4. CASE /\ Stranded' \subseteq Stranded \cup {t}
           /\ Doomed' \subseteq Doomed
           /\ disruptions' = disruptions + 1
  <2>1. /\ IsFiniteSet(Stranded') /\ Cardinality(Stranded') \in Nat
        /\ Cardinality(Stranded') <= Cardinality(Stranded \cup {t})
        /\ IsFiniteSet(Doomed') /\ Cardinality(Doomed') \in Nat
        /\ Cardinality(Doomed') <= Cardinality(Doomed)
    BY <1>1, <1>2, <1>4, FS_Subset, FS_CardinalityType
  <2> QED
    BY <1>1, <1>2, <1>4, <2>1 DEF StrandCount
<1>5. CASE /\ Stranded' \subseteq Stranded
           /\ Doomed' \subseteq Doomed \cup {w}
           /\ disruptions' = disruptions + 1
  <2>1. /\ IsFiniteSet(Stranded') /\ Cardinality(Stranded') \in Nat
        /\ Cardinality(Stranded') <= Cardinality(Stranded)
        /\ IsFiniteSet(Doomed') /\ Cardinality(Doomed') \in Nat
        /\ Cardinality(Doomed') <= Cardinality(Doomed \cup {w})
    BY <1>1, <1>2, <1>5, FS_Subset, FS_CardinalityType
  <2> QED
    BY <1>1, <1>2, <1>5, <2>1 DEF StrandCount
<1>6. CASE /\ Stranded' \subseteq Stranded \cup {t}
           /\ w \in Doomed /\ Doomed' \subseteq Doomed \ {w}
           /\ disruptions' = disruptions
  <2>1. /\ IsFiniteSet(Doomed \ {w}) /\ Cardinality(Doomed \ {w}) = Cardinality(Doomed) - 1
    BY <1>1, <1>6, FS_RemoveElement
  <2>2. /\ IsFiniteSet(Stranded') /\ Cardinality(Stranded') \in Nat
        /\ Cardinality(Stranded') <= Cardinality(Stranded \cup {t})
        /\ IsFiniteSet(Doomed') /\ Cardinality(Doomed') \in Nat
        /\ Cardinality(Doomed') <= Cardinality(Doomed \ {w})
    BY <1>2, <1>6, <2>1, FS_Subset, FS_CardinalityType
  <2> QED
    BY <1>1, <1>2, <1>6, <2>1, <2>2 DEF StrandCount
<1> QED
  BY <1>3, <1>4, <1>5, <1>6

\* A track is newly stranded only when its status becomes processing under no
\* worker's hands, or when the last worker on it leaves process().
LEMMA StrandedOnlyBy ==
  ASSUME IInv, [Next]_vars, NEW t \in Stranded', t \notin Stranded
  PROVE  \/ status[t] # "processing" /\ status'[t] = "processing"
         \/ \E v \in Workers : pc[v] # "idle" /\ pc'[v] = "idle" /\ Track(v) = t
<1>1. t \in Tracks /\ status'[t] = "processing"
  BY DEF Stranded
<1>2. CASE status[t] = "processing"
  <2>1. PICK v \in Workers : pc[v] # "idle" /\ Track(v) = t
    BY <1>1, <1>2 DEF Stranded
  <2>2. CASE pc'[v] = "idle"
    BY <2>1, <2>2
  <2>3. CASE pc'[v] # "idle"
    <3>1. Track(v)' = t
      BY <2>1, <2>3, SameRecord
    <3>2. pc'[v] = "idle" \/ Track(v)' # t
      BY DEF Stranded
    <3> QED
      BY <2>3, <3>1, <3>2
  <2> QED
    BY <2>2, <2>3
<1> QED
  BY <1>1, <1>2

\* A step that strands no track by itself: the status moves to processing only
\* in the hands of the worker that claims, and whoever leaves process() leaves a
\* settled track.
LEMMA StrandNone ==
  ASSUME IInv, [Next]_vars,
         \A t \in Tracks : status'[t] = "processing" => status[t] = "processing",
         \A v \in Workers : pc[v] # "idle" /\ pc'[v] = "idle"
                               => status'[Track(v)] # "processing"
  PROVE  Stranded' \subseteq Stranded
  BY StrandedOnlyBy DEF Stranded

\* A step of process(): a shutdown may catch it before it has settled its track.
LEMMA StrandStepWorker ==
  ASSUME "db" \notin Faults, IInv, QueueInv, StrandInv, [Next]_vars,
         NEW w \in Workers, WorkerStep(w)
  PROVE  StrandCount'
<1> USE DEF IInv, PipeTypeOK, Goto
<1>1. StrandCount /\ disruptions \in Nat /\ proc' = proc
  <2>1. proc' = proc
    BY WorkerFrame DEF Frame
  <2>2. disruptions \in Nat
    BY GroupAssumption DEF GroupTypeOK
  <2> QED
    BY <2>1, <2>2 DEF StrandInv, StrandCount
<1>2. disruptions' = disruptions
  BY DEF WorkerStep, Check, Claim, Prepare, Encode, InsertFormat, Finish, Index,
         MarkError, ReturnsNil, ReturnsErr, NextRecord, groupVars
<1>3. \A v \in Workers \ {w} : pc'[v] = pc[v]
  BY WorkerFrame DEF Frame
<1>4. pc[w] # "idle" => Track(w) \in Tracks
  BY TrackOfRecord DEF WorkInv, WorkOk
<1>5. Doomed' \subseteq Doomed \cup {w}
  BY <1>1, <1>3 DEF Doomed
<1>6. ASSUME pc[w] # "idle" \/ proc[w] # "stopping"
      PROVE  Doomed' \subseteq Doomed
  BY <1>1, <1>3, <1>6 DEF Doomed
<1>7. ASSUME Doomed' \subseteq Doomed, Stranded' \subseteq Stranded
      PROVE  StrandCount'
  <2>1. disruptions' \in Nat /\ disruptions' >= disruptions
    BY <1>1, <1>2
  <2> QED
    BY <1>1, <1>7, <2>1, StrandCountKept
\* A worker that is cut off leaves its track behind, and was doomed before.
<1>8. ASSUME pc[w] # "idle", pc'[w] = "idle", proc[w] = "stopping",
             \A t \in Tracks \ {Track(w)} : status'[t] = status[t]
      PROVE  StrandCount'
  <2>1. w \in Doomed /\ Doomed' \subseteq Doomed \ {w}
    BY <1>1, <1>3, <1>8 DEF Doomed
  <2>2. Stranded' \subseteq Stranded \cup {Track(w)}
    <3> SUFFICES ASSUME NEW t \in Stranded', t \notin Stranded, t # Track(w)
                 PROVE  FALSE
      OBVIOUS
    <3>1. t \in Tracks
      BY DEF Stranded
    <3>2. status'[t] = status[t]
      BY <1>8, <3>1
    <3>3. PICK v \in Workers : pc[v] # "idle" /\ pc'[v] = "idle" /\ Track(v) = t
      BY <3>2, StrandedOnlyBy
    <3> QED
      BY <1>3, <3>3
  <2> QED
    BY <1>1, <1>2, <2>1, <2>2, StrandCountKept
<1>9. ASSUME \A t \in Tracks : status'[t] = "processing" => status[t] = "processing",
             pc[w] # "idle" /\ pc'[w] = "idle" => status'[Track(w)] # "processing"
      PROVE  Stranded' \subseteq Stranded
  BY <1>3, <1>9, StrandNone
<1>10. CASE Check(w)
  <2>1. pc[w] = "idle" /\ status' = status
        /\ (pc'[w] = "idle" \/ proc[w] # "stopping")
    BY <1>10 DEF Check, Works, dbVars
  <2>2. Doomed' \subseteq Doomed
    BY <1>1, <1>3, <2>1 DEF Doomed
  <2> QED
    BY <1>7, <1>9, <2>1, <2>2
<1>11. CASE Claim(w)
  <2>1. pc[w] # "idle" /\ \A t \in Tracks \ {Track(w)} : status'[t] = status[t]
    BY <1>11 DEF Claim, Claimed
  <2>2. CASE pc'[w] = "idle"
    <3>1. proc[w] = "stopping"
      BY <1>11, <2>2 DEF Claim, Fails
    <3> QED
      BY <1>8, <2>1, <2>2, <3>1
  <2>3. CASE pc'[w] # "idle"
    <3>1. Track(w)' = Track(w)
      BY <2>3, SameRecord
    <3>2. Track(w) \notin Stranded'
      BY <2>3, <3>1 DEF Stranded
    <3>3. Stranded' \subseteq Stranded
      <4> SUFFICES ASSUME NEW t \in Stranded', t \notin Stranded
                   PROVE  FALSE
        OBVIOUS
      <4>1. t \in Tracks /\ t # Track(w)
        BY <3>2 DEF Stranded
      <4>2. status'[t] = status[t]
        BY <2>1, <4>1
      <4>3. PICK v \in Workers : pc[v] # "idle" /\ pc'[v] = "idle" /\ Track(v) = t
        BY <4>2, StrandedOnlyBy
      <4> QED
        BY <1>3, <2>3, <4>3
    <3> QED
      BY <1>6, <1>7, <2>1, <3>3
  <2> QED
    BY <2>2, <2>3
<1>12. CASE Prepare(w) \/ Encode(w) \/ InsertFormat(w) \/ Finish(w)
  <2>1. status' = status \/ status' = [status EXCEPT ![Track(w)] = "ready"]
    BY <1>12 DEF Prepare, Encode, InsertFormat, Finish, dbVars
  <2>2. pc[w] # "idle"
    BY <1>12 DEF Prepare, Encode, InsertFormat, Finish
  <2>3. pc'[w] # "idle"
    <3>1. CASE Prepare(w) \/ Encode(w) \/ Finish(w)
      BY <3>1 DEF Prepare, Encode, Finish
    <3>2. CASE InsertFormat(w)
      <4>1. \E step \in {"encode", "finish", "fail"} : pc' = [pc EXCEPT ![w] = step]
        BY <3>2 DEF InsertFormat
      <4> QED
        BY <4>1
    <3> QED
      BY <1>12, <3>1, <3>2
  <2>4. \A t \in Tracks : status'[t] = "processing" => status[t] = "processing"
    BY <2>1
  <2> QED
    BY <1>6, <1>7, <1>9, <2>2, <2>3, <2>4
<1>13. CASE Index(w)
  <2>1. pc[w] = "index" /\ status' = status
    BY <1>13 DEF Index, dbVars
  <2>2. status[Track(w)] \in {"ready", "error"}
    BY <2>1 DEF StrandInv
  <2> QED
    BY <1>6, <1>7, <1>9, <2>1, <2>2
<1>14. CASE MarkError(w)
  <2>1. pc[w] = "fail" /\ pc'[w] = "idle"
    BY <1>14 DEF MarkError, Leaves
  <2>2. CASE Works(w)
    <3>1. status' = [status EXCEPT ![Track(w)] = "error"]
      BY <1>14, <2>2 DEF MarkError, Works, Fails
    <3> QED
      BY <1>4, <1>6, <1>7, <1>9, <2>1, <3>1
  <2>3. CASE ~Works(w)
    <3>1. proc[w] = "stopping" /\ status' = status
      BY <1>14, <2>3 DEF MarkError, Fails, Works
    <3> QED
      BY <1>8, <2>1, <3>1
  <2> QED
    BY <2>2, <2>3
<1> QED
  BY <1>10, <1>11, <1>12, <1>13, <1>14 DEF WorkerStep

\* A step of the group or the end of a process: each crash strands the track in
\* the process's hands, a shutdown dooms it first.
LEMMA StrandStepGroup ==
  ASSUME IInv, StrandInv, [Next]_vars, GroupTypeOK',
         NEW w \in Workers, GroupStep(w) \/ ProcessEnds(w)
  PROVE  StrandCount'
<1> USE DEF IInv, PipeTypeOK
<1>1. StrandCount /\ disruptions \in Nat /\ disruptions' \in Nat
  BY GroupAssumption DEF StrandInv, StrandCount, GroupTypeOK
<1>2. CASE GroupStep(w)
  <2>1. status' = status /\ pc' = pc
    BY <1>2 DEF GroupStep, pipeVars, dbVars, workVars
  <2>2. Stranded' \subseteq Stranded
    BY <2>1, StrandNone
  <2>3. CASE Stop(w)
    <3>1. proc' = [proc EXCEPT ![w] = "stopping"] /\ disruptions' = disruptions + 1
      BY <2>3 DEF Stop, Disrupt
    <3>2. Doomed' \subseteq Doomed \cup {w}
      BY <2>1, <3>1 DEF Doomed, GroupTypeOK
    <3> QED
      BY <1>1, <2>2, <3>1, <3>2, StrandCountKept
  <2>4. CASE ~Stop(w)
    <3>1. disruptions' = disruptions \/ disruptions' = disruptions + 1
      BY <1>2, <2>4 DEF GroupStep, Poll, AutoCommit, Rebalance, Assign, Revoke, Lose,
                        Restart, Disrupt
    <3>2. proc' = proc \/ proc' = [proc EXCEPT ![w] = "up"]
      BY <1>2, <2>4 DEF GroupStep, Poll, AutoCommit, Rebalance, Assign, Revoke, Lose,
                        Restart
    <3>3. Doomed' \subseteq Doomed
      BY <2>1, <3>2 DEF Doomed, GroupTypeOK
    <3>4. disruptions' >= disruptions
      BY <1>1, <3>1
    <3> QED
      BY <1>1, <2>2, <3>3, <3>4, StrandCountKept
  <2> QED
    BY <2>3, <2>4
<1>3. CASE ProcessEnds(w)
  <2>1. status' = status /\ pc' = [pc EXCEPT ![w] = "idle"]
        /\ proc' = [proc EXCEPT ![w] = "down"]
    BY <1>3 DEF ProcessEnds, Leaves, Goto, Exit, Crash, Dies, dbVars
  <2>2. Doomed' \subseteq Doomed \ {w}
    BY <2>1 DEF Doomed, GroupTypeOK
  <2>3. Stranded' \subseteq Stranded \cup {Track(w)}
    <3> SUFFICES ASSUME NEW t \in Stranded', t \notin Stranded
                 PROVE  t = Track(w)
      OBVIOUS
    <3>1. PICK v \in Workers : pc[v] # "idle" /\ pc'[v] = "idle" /\ Track(v) = t
      BY <2>1, StrandedOnlyBy
    <3> QED
      BY <2>1, <3>1
  <2>4. CASE Crash(w)
    <3>1. disruptions' = disruptions + 1
      BY <2>4 DEF Crash, Disrupt
    <3> QED
      BY <1>1, <2>2, <2>3, <3>1, StrandCountKept
  <2>5. CASE Exit(w)
    <3>1. disruptions' = disruptions /\ proc[w] = "stopping"
      BY <2>5 DEF Exit
    <3>2. CASE pc[w] # "idle"
      <4>1. w \in Doomed
        BY <3>1, <3>2 DEF Doomed
      <4> QED
        BY <1>1, <2>2, <2>3, <3>1, <4>1, StrandCountKept
    <3>3. CASE pc[w] = "idle"
      <4>1. Stranded' \subseteq Stranded
        BY <2>1, <3>3, StrandNone
      <4>2. Doomed' \subseteq Doomed /\ disruptions' >= disruptions
        BY <1>1, <2>2, <3>1
      <4> QED
        BY <1>1, <4>1, <4>2, StrandCountKept
    <3> QED
      BY <3>2, <3>3
  <2> QED
    BY <1>3, <2>4, <2>5 DEF ProcessEnds
<1> QED
  BY <1>2, <1>3

\* A request works on no track, and adds to the log only.
LEMMA StrandStepCreate ==
  ASSUME IInv, QueueInv, StrandInv, [Next]_vars,
         NEW t \in Tracks, CreateStep(t) \/ RequestCutOff(t)
  PROVE  StrandCount'
<1> USE DEF IInv, PipeTypeOK
<1>1. StrandCount /\ disruptions \in Nat
  BY GroupAssumption DEF StrandInv, StrandCount, GroupTypeOK
<1>2. UNCHANGED <<pc, proc, disruptions>>
  BY DEF CreateStep, StoreAudio, StoreAudioFails, SaveRow, SaveRowFails,
         PublishUpload, PublishFails, RequestCutOff, AppendRecords,
         groupVars, workVars
<1>3. status' = status \/ status' = [status EXCEPT ![t] = "pending"]
  BY DEF CreateStep, StoreAudio, StoreAudioFails, SaveRow, SaveRowFails,
         PublishUpload, PublishFails, RequestCutOff, dbVars
<1>4. Stranded' \subseteq Stranded
  BY <1>2, <1>3, StrandNone
<1>5. Doomed' \subseteq Doomed /\ disruptions' >= disruptions
  BY <1>1, <1>2 DEF Doomed
<1> QED
  BY <1>1, <1>2, <1>4, <1>5, StrandCountKept

\* A worker reaches the index call by setting its track ready, and nobody takes
\* the track out of ready and error again.
LEMMA IndexIsSettled ==
  ASSUME IInv, QueueInv, StrandInv, [Next]_vars, NEW v \in Workers, pc'[v] = "index"
  PROVE  status'[Track(v)'] \in {"ready", "error"}
<1> USE DEF IInv, PipeTypeOK
<1>1. Track(v) \in Tracks /\ Track(v)' = Track(v)
  BY SameRecord
<1>2. CASE pc[v] = "index"
  <2>1. status[Track(v)] \in {"ready", "error"}
    BY <1>2 DEF StrandInv
  <2> QED
    BY <1>1, <2>1, StatusMoves
<1>3. CASE pc[v] # "index"
  <2>1. ASSUME NEW t \in Tracks, CreateStep(t) \/ RequestCutOff(t)
        PROVE  FALSE
    BY <1>3, <2>1 DEF CreateStep, StoreAudio, StoreAudioFails, SaveRow, SaveRowFails,
                PublishUpload, PublishFails, RequestCutOff, workVars
  <2>2. ASSUME NEW w \in Workers, WorkerStep(w), v # w
        PROVE  FALSE
    BY <1>3, <2>2, WorkerFrame DEF Frame
  <2>3. ASSUME NEW w \in Workers, GroupStep(w) \/ ProcessEnds(w)
        PROVE  FALSE
    BY <1>3, <2>3 DEF GroupStep, ProcessEnds, Leaves, Goto, pipeVars, workVars
  <2>4. pc' # pc
    BY <1>3
  <2>5. WorkerStep(v)
    BY <2>1, <2>2, <2>3, <2>4 DEF Next, vars, pipeVars, workVars
  <2>6. Finish(v)
    <3>1. CASE InsertFormat(v)
      <4>1. \E step \in {"encode", "finish", "fail"} : pc' = [pc EXCEPT ![v] = step]
        BY <3>1 DEF InsertFormat, Goto
      <4> QED
        BY <4>1
    <3>2. CASE Check(v) \/ Claim(v) \/ Prepare(v) \/ Encode(v) \/ Index(v) \/ MarkError(v)
      BY <1>3, <3>2 DEF Check, Claim, Prepare, Encode, Index, MarkError, Leaves, Goto
    <3> QED
      BY <2>5, <3>1, <3>2 DEF WorkerStep
  <2>7. status' = [status EXCEPT ![Track(v)] = "ready"]
    BY <2>6 DEF Finish, Goto
  <2> QED
    BY <1>1, <2>7
<1> QED
  BY <1>2, <1>3

LEMMA StrandStep ==
  ASSUME "db" \notin Faults, IInv, IInv', QueueInv, StrandInv, [Next]_vars
  PROVE  StrandInv'
<1>1. GroupTypeOK'
  BY DEF IInv
<1>2. CASE UNCHANGED vars
  BY <1>2 DEF vars, groupVars, brokerVars, clientVars, pipeVars, dbVars, workVars, StrandInv,
              Stranded, Doomed, Track
<1>3. CASE Next
  <2>1. StrandCount'
    BY <1>1, <1>3, StrandStepCreate, StrandStepWorker, StrandStepGroup DEF Next
  <2> QED
    BY <2>1, IndexIsSettled DEF StrandInv, StrandCount
<1> QED
  BY <1>2, <1>3

\* However many uploads there are, each crash or shutdown leaves at most one of
\* them in processing with nobody at work on it; failing transcodes, uploads of a
\* variant, duplicates and rebalances leave none there.  It bounds the finding
\* that a claimed track is not picked up again.  The assumption is needed: when
\* the UPDATE of markError fails, the track stays in processing without a
\* disruption (process and markError, upload.go:60-156).
THEOREM StrandedUploadsAreBounded ==
  ASSUME "db" \notin Faults
  PROVE  Spec => []StrandedBounded
<1>1. Init => StrandInv
  <2> SUFFICES ASSUME Init PROVE StrandInv
    OBVIOUS
  <2>1. Stranded = {} /\ Doomed = {} /\ disruptions = 0
    BY DEF Init, GroupInit, Stranded, Doomed
  <2>2. \A w \in Workers : pc[w] # "index"
    BY DEF Init
  <2>3. IsFiniteSet({}) /\ Cardinality({}) = 0
    BY FS_EmptySet
  <2> QED
    BY <2>1, <2>2, <2>3 DEF StrandInv
<1>2. IInv /\ QueueInv /\ StrandInv /\ [Next]_vars /\ IInv' => StrandInv'
  BY StrandStep
<1>3. IInv /\ StrandInv => StrandedBounded
  <2> SUFFICES ASSUME IInv, StrandInv PROVE StrandedBounded
    OBVIOUS
  <2>1. disruptions \in Nat
    BY GroupAssumption DEF IInv, GroupTypeOK
  <2>2. Cardinality(Stranded) \in Nat /\ Cardinality(Doomed) \in Nat
    BY FS_CardinalityType DEF StrandInv
  <2> QED
    BY <2>1, <2>2 DEF StrandInv, StrandedBounded
<1> QED
  BY <1>1, <1>2, <1>3, QueueInvariance, PTL DEF Spec
=============================================================================
