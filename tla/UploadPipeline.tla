--------------------------- MODULE UploadPipeline ---------------------------
(***************************************************************************)
(* The upload pipeline of beatstream: POST /tracks (Tracks.Create in       *)
(* internal/handler/tracks.go) stores the audio, inserts a pending row and *)
(* publishes an event; a worker (UploadWorker.process in                   *)
(* internal/worker/upload.go) claims the track, encodes it at every        *)
(* bitrate and makes it ready.                                             *)
(*                                                                         *)
(* Every request has a fresh track id, so a request is named by its track. *)
(* An action is one call to Postgres, S3, Kafka or OpenSearch with the     *)
(* local code around it: what a crash, a cancelled context or another      *)
(* worker can come between.                                                *)
(*                                                                         *)
(* A call that fails may have had its effect (the answer was lost).  Faults *)
(* says which calls may fail: "db", "media" (S3, ffmpeg, the temporary     *)
(* directory), "kafka", and "api" for a request that is cut off.           *)
(***************************************************************************)
EXTENDS ConsumerGroup

CONSTANT Bitrates   \* the sequence of bitrates a track is encoded at

ASSUME BitratesAssumption ==
    /\ Bitrates \in Seq(Nat)
    /\ Len(Bitrates) > 0

Tracks == Events
BitrateSet == {Bitrates[i] : i \in 1 .. Len(Bitrates)}

VARIABLES
    request,   \* how far POST /tracks got for a track
    status,    \* tracks.status, "none" while there is no row
    formats,   \* the bitrates that have a track_formats row
    audio,     \* tracks whose uploaded original is in the bucket
    variants,  \* the bitrates that have an object in the bucket
    indexed,   \* tracks the OpenSearch index shows as ready
    pc,        \* where in process() a worker is
    bit        \* the index into Bitrates of the loop in process()

apiVars == <<request>>
dbVars == <<status, formats>>
storeVars == <<audio, variants, indexed>>
workVars == <<pc, bit>>
pipeVars == <<apiVars, dbVars, storeVars, workVars>>
vars == <<groupVars, pipeVars>>

Steps == {"idle", "claim", "prepare", "encode", "insert", "finish", "index", "fail"}

TypeOK ==
    /\ GroupTypeOK
    /\ request \in [Tracks -> {"new", "stored", "saved", "accepted", "failed"}]
    /\ status \in [Tracks -> {"none", "pending", "processing", "ready", "error"}]
    /\ formats \in [Tracks -> SUBSET BitrateSet]
    /\ audio \subseteq Tracks
    /\ variants \in [Tracks -> SUBSET BitrateSet]
    /\ indexed \subseteq Tracks
    /\ pc \in [Workers -> Steps]
    /\ bit \in [Workers -> 1 .. Len(Bitrates) + 1]

Init ==
    /\ GroupInit
    /\ request = [t \in Tracks |-> "new"]
    /\ status = [t \in Tracks |-> "none"]
    /\ formats = [t \in Tracks |-> {}]
    /\ audio = {}
    /\ variants = [t \in Tracks |-> {}]
    /\ indexed = {}
    /\ pc = [w \in Workers |-> "idle"]
    /\ bit = [w \in Workers |-> 1]

----------------------------------------------------------------------------
(* POST /tracks.                                                           *)

RequestMoves(t, from, to) ==
    /\ request[t] = from
    /\ request' = [request EXCEPT ![t] = to]

StoreAudio(t) ==
    /\ RequestMoves(t, "new", "stored")
    /\ audio' = audio \cup {t}
    /\ UNCHANGED <<groupVars, dbVars, variants, indexed, workVars>>

StoreAudioFails(t) ==
    /\ "media" \in Faults
    /\ RequestMoves(t, "new", "failed")
    /\ audio' \in {audio, audio \cup {t}}
    /\ UNCHANGED <<groupVars, dbVars, variants, indexed, workVars>>

SaveRow(t) ==
    /\ RequestMoves(t, "stored", "saved")
    /\ status' = [status EXCEPT ![t] = "pending"]
    /\ UNCHANGED <<groupVars, formats, storeVars, workVars>>

SaveRowFails(t) ==
    /\ "db" \in Faults
    /\ RequestMoves(t, "stored", "failed")
    /\ status' \in {status, [status EXCEPT ![t] = "pending"]}
    /\ UNCHANGED <<groupVars, formats, storeVars, workVars>>

\* The answer is 202 once the leader has the event.  A retry of the producer
\* after a lost acknowledgement appends it twice: the client is built with
\* DisableIdempotentWrite.
PublishUpload(t) ==
    /\ RequestMoves(t, "saved", "accepted")
    /\ \/ AppendRecords(<<t>>)
       \/ "kafka" \in Faults /\ AppendRecords(<<t, t>>)
    /\ UNCHANGED <<dbVars, storeVars, workVars>>

\* The answer is 500, and the row stays pending.
PublishFails(t) ==
    /\ "kafka" \in Faults
    /\ RequestMoves(t, "saved", "failed")
    /\ AppendRecords(<<t>>) \/ UNCHANGED groupVars
    /\ UNCHANGED <<dbVars, storeVars, workVars>>

\* The API process dies, or the client's disconnect cancels the request.
RequestCutOff(t) ==
    /\ "api" \in Faults
    /\ request[t] \in {"stored", "saved"}
    /\ request' = [request EXCEPT ![t] = "failed"]
    /\ UNCHANGED <<groupVars, dbVars, storeVars, workVars>>

CreateStep(t) ==
    \/ StoreAudio(t) \/ StoreAudioFails(t)
    \/ SaveRow(t) \/ SaveRowFails(t)
    \/ PublishUpload(t) \/ PublishFails(t)

----------------------------------------------------------------------------
(* UploadWorker.process.                                                   *)

Track(w) == log[at[w] + 1]
Goto(w, step) == pc' = [pc EXCEPT ![w] = step]

\* process() is left: the loop variable goes out of scope.
Leaves(w) == Goto(w, "idle") /\ bit' = [bit EXCEPT ![w] = 1]

\* A call that uses the worker's context works only while it is not cancelled;
\* one that fails, or that the shutdown cuts off, may have had its effect.
Works(w) == proc[w] = "up"
Fails(w, kind) == proc[w] = "stopping" \/ (proc[w] = "up" /\ kind \in Faults)

\* Mutant of Check: only a track in processing is skipped.
CheckNotProcessing(w) ==
    /\ InBatch(w)
    /\ pc[w] = "idle"
    /\ \/ /\ Works(w)
          /\ status[Track(w)] # "processing"
          /\ Goto(w, "claim")
          /\ UNCHANGED groupVars
       \/ /\ Works(w)
          /\ status[Track(w)] = "processing"
          /\ ReturnsNil(w)
          /\ UNCHANGED pc
       \/ /\ Fails(w, "db")
          /\ ReturnsErr(w)
          /\ UNCHANGED pc
    /\ UNCHANGED <<apiVars, dbVars, storeVars, bit>>

\* Mutant of Check: a query cut off by the shutdown counts as a skip.
CheckSwallowingErrors(w) ==
    /\ InBatch(w)
    /\ pc[w] = "idle"
    /\ \/ /\ Works(w)
          /\ status[Track(w)] = "pending"
          /\ Goto(w, "claim")
          /\ UNCHANGED groupVars
       \/ /\ Fails(w, "db") \/ status[Track(w)] # "pending"
          /\ ReturnsNil(w)
          /\ UNCHANGED pc
    /\ UNCHANGED <<apiVars, dbVars, storeVars, bit>>

\* SELECT status: an error leaves the record unmarked, a track that is not
\* pending is skipped and its record marked.
Check(w) ==
    /\ InBatch(w)
    /\ pc[w] = "idle"
    /\ \/ /\ Works(w)
          /\ status[Track(w)] = "pending"
          /\ Goto(w, "claim")
          /\ UNCHANGED groupVars
       \/ /\ Works(w)
          /\ status[Track(w)] # "pending"
          /\ ReturnsNil(w)
          /\ UNCHANGED pc
       \/ /\ Fails(w, "db")
          /\ ReturnsErr(w)
          /\ UNCHANGED pc
    /\ UNCHANGED <<apiVars, dbVars, storeVars, bit>>

\* Mutant of Claimed: the UPDATE without its WHERE clause.
ClaimedAnyway(t) == [status EXCEPT ![t] = "processing"]

\* UPDATE ... SET status = 'processing' WHERE status = 'pending'.  Nobody looks
\* at the number of rows it changed; an error returns without markError.
Claimed(t) == [status EXCEPT ![t] = IF @ = "pending" THEN "processing" ELSE @]

Claim(w) ==
    /\ pc[w] = "claim"
    /\ \/ /\ Works(w)
          /\ status' = Claimed(Track(w))
          /\ Goto(w, "prepare")
          /\ UNCHANGED groupVars
       \/ /\ Fails(w, "db")
          /\ status' \in {status, Claimed(Track(w))}
          /\ Goto(w, "idle")
          /\ ReturnsErr(w)
    /\ UNCHANGED <<apiVars, formats, storeVars, bit>>

\* The temporary directory, the download of the original and ffprobe.
Prepare(w) ==
    /\ pc[w] = "prepare"
    /\ \/ Works(w) /\ Goto(w, "encode")
       \/ Fails(w, "media") /\ Goto(w, "fail")
    /\ UNCHANGED <<groupVars, apiVars, dbVars, storeVars, bit>>

\* Mutant of Encode: the error of the upload is logged and the row inserted.
EncodeIgnoringErrors(w) ==
    LET stored == [variants EXCEPT ![Track(w)] = @ \cup {Bitrates[bit[w]]}] IN
    /\ pc[w] = "encode"
    /\ variants' \in {stored} \cup
          (IF Fails(w, "media") THEN {variants} ELSE {})
    /\ Goto(w, "insert")
    /\ UNCHANGED <<groupVars, apiVars, dbVars, audio, indexed, bit>>

\* ffmpeg, reading its output and the upload of the variant.
Encode(w) ==
    LET stored == [variants EXCEPT ![Track(w)] = @ \cup {Bitrates[bit[w]]}] IN
    /\ pc[w] = "encode"
    /\ \/ Works(w) /\ variants' = stored /\ Goto(w, "insert")
       \/ /\ Fails(w, "media")
          /\ variants' \in {variants, stored}
          /\ Goto(w, "fail")
    /\ UNCHANGED <<groupVars, apiVars, dbVars, audio, indexed, bit>>

\* Mutant of InsertFormat: the loop goes on when an insert fails.
InsertFormatIgnoringErrors(w) ==
    LET added == [formats EXCEPT ![Track(w)] = @ \cup {Bitrates[bit[w]]}] IN
    /\ pc[w] = "insert"
    /\ formats' \in {added} \cup (IF Fails(w, "db") THEN {formats} ELSE {})
    /\ bit' = [bit EXCEPT ![w] = @ + 1]
    /\ Goto(w, IF bit[w] < Len(Bitrates) THEN "encode" ELSE "finish")
    /\ UNCHANGED <<groupVars, apiVars, status, storeVars>>

\* INSERT INTO track_formats ... ON CONFLICT DO UPDATE.
InsertFormat(w) ==
    LET added == [formats EXCEPT ![Track(w)] = @ \cup {Bitrates[bit[w]]}] IN
    /\ pc[w] = "insert"
    /\ \/ /\ Works(w)
          /\ formats' = added
          /\ bit' = [bit EXCEPT ![w] = @ + 1]
          /\ Goto(w, IF bit[w] < Len(Bitrates) THEN "encode" ELSE "finish")
       \/ /\ Fails(w, "db")
          /\ formats' \in {formats, added}
          /\ Goto(w, "fail")
          /\ UNCHANGED bit
    /\ UNCHANGED <<groupVars, apiVars, status, storeVars>>

\* UPDATE ... SET status = 'ready': unconditional.
Finish(w) ==
    LET ready == [status EXCEPT ![Track(w)] = "ready"] IN
    /\ pc[w] = "finish"
    /\ \/ Works(w) /\ status' = ready /\ Goto(w, "index")
       \/ /\ Fails(w, "db")
          /\ status' \in {status, ready}
          /\ Goto(w, "fail")
    /\ UNCHANGED <<groupVars, apiVars, formats, storeVars, bit>>

\* The title query and the OpenSearch call: best effort, and optional.
Index(w) ==
    /\ pc[w] = "index"
    /\ \/ UNCHANGED indexed
       \/ Works(w) /\ indexed' = indexed \cup {Track(w)}
    /\ ReturnsNil(w)
    /\ Leaves(w)
    /\ UNCHANGED <<apiVars, dbVars, audio, variants>>

\* Mutants of MarkError: a status no reader knows; back to pending, so that a
\* redelivery would retry; no UPDATE at all.
MarkFailed(w) ==
    LET marks == [status EXCEPT ![Track(w)] = "failed"] IN
    /\ pc[w] = "fail"
    /\ \/ Works(w) /\ status' = marks
       \/ Fails(w, "db") /\ UNCHANGED status
    /\ ReturnsErr(w)
    /\ Leaves(w)
    /\ UNCHANGED <<apiVars, formats, storeVars>>

MarkForRetry(w) ==
    LET marks == [status EXCEPT ![Track(w)] = "pending"] IN
    /\ pc[w] = "fail"
    /\ \/ Works(w) /\ status' = marks
       \/ Fails(w, "db") /\ UNCHANGED status
    /\ ReturnsErr(w)
    /\ Leaves(w)
    /\ UNCHANGED <<apiVars, formats, storeVars>>

MarkNothing(w) ==
    /\ pc[w] = "fail"
    /\ ReturnsErr(w)
    /\ Leaves(w)
    /\ UNCHANGED <<apiVars, dbVars, storeVars>>

\* markError: unconditional too, its own error ignored; then return err.
MarkError(w) ==
    LET marks == [status EXCEPT ![Track(w)] = "error"] IN
    /\ pc[w] = "fail"
    /\ \/ Works(w) /\ status' = marks
       \/ Fails(w, "db") /\ UNCHANGED status
    /\ ReturnsErr(w)
    /\ Leaves(w)
    /\ UNCHANGED <<apiVars, formats, storeVars>>

WorkerStep(w) ==
    \/ Check(w) \/ Claim(w) \/ Prepare(w) \/ Encode(w)
    \/ InsertFormat(w) \/ Finish(w) \/ Index(w) \/ MarkError(w)

----------------------------------------------------------------------------
(* The steps of the group around the handler.                              *)

\* The loop polls, the client commits, the broker reassigns, a process is told
\* to stop or starts again: no handler is entered or left.
GroupStep(w) ==
    /\ \/ Poll(w) \/ AutoCommit(w) \/ Rebalance(w)
       \/ Stop(w) \/ Restart(w)
    /\ UNCHANGED pipeVars

\* A handler in flight goes with its process.
ProcessEnds(w) ==
    /\ Exit(w) \/ Crash(w)
    /\ Leaves(w)
    /\ UNCHANGED <<apiVars, dbVars, storeVars>>

Next ==
    \/ \E t \in Tracks : CreateStep(t) \/ RequestCutOff(t)
    \/ \E w \in Workers : WorkerStep(w) \/ GroupStep(w) \/ ProcessEnds(w)

Spec == Init /\ [][Next]_vars

\* A request and a handler run on; the loop polls and the broker assigns; the
\* process that was told to stop ends, the orchestrator restarts it.
Fairness ==
    /\ \A t \in Tracks : WF_vars(CreateStep(t))
    /\ \A w \in Workers :
          /\ WF_vars(WorkerStep(w))
          /\ WF_vars(Poll(w) /\ UNCHANGED pipeVars)
          /\ WF_vars(AutoCommit(w) /\ UNCHANGED pipeVars)
          /\ WF_vars(Assign(w) /\ UNCHANGED pipeVars)
          /\ WF_vars(Restart(w) /\ UNCHANGED pipeVars)
          /\ WF_vars(Exit(w) /\ ProcessEnds(w))

FairSpec == Spec /\ Fairness

----------------------------------------------------------------------------
(* Properties.                                                             *)

\* A ready track has a row and an object for every bitrate, whichever workers
\* processed it, how often, and wherever one of them crashed on the way
\* (process, upload.go:98-129).
ReadyComplete ==
    \A t \in Tracks : status[t] = "ready" =>
        /\ formats[t] = BitrateSet
        /\ variants[t] = BitrateSet

\* Stream looks a key up without looking at the status (tracks.go:138-150):
\* every key it can find, a variant's or the original's, has its object.
StreamHasObject ==
    \A t \in Tracks :
        /\ formats[t] \subseteq variants[t]
        /\ status[t] # "none" => t \in audio

\* The inductive invariant behind the two.  A worker inside process() is inside
\* its batch, and what it has done so far for the track of its record is in the
\* tables and the bucket; every record is for a track whose audio is stored.
Encoded(w) == {Bitrates[i] : i \in 1 .. bit[w] - 1}

WorkOk(w) ==
    /\ pc[w] # "idle" => InBatch(w) /\ proc[w] # "down"
    /\ pc[w] \in {"idle", "claim", "prepare"} => bit[w] = 1
    /\ pc[w] \in {"encode", "insert"} => bit[w] <= Len(Bitrates)
    /\ pc[w] = "finish" => bit[w] = Len(Bitrates) + 1
    /\ pc[w] \in {"encode", "insert", "finish"} =>
          Encoded(w) \subseteq formats[Track(w)]
    /\ pc[w] = "insert" => Bitrates[bit[w]] \in variants[Track(w)]

WorkInv == \A w \in Workers : WorkOk(w)

StoreInv ==
    /\ \A i \in 1 .. Len(log) : log[i] \in audio
    /\ \A t \in Tracks :
          /\ request[t] \in {"stored", "saved", "accepted"} => t \in audio
          /\ status[t] # "none" => t \in audio
          /\ formats[t] \subseteq variants[t]
          /\ status[t] = "ready" => formats[t] = BitrateSet

\* What AcceptedNotLost rests on: an accepted upload is in the log, what is in
\* the log has a row, and the records that may be committed are of tracks that
\* have left "pending", to which no step takes a track back.
Left(t) == status[t] \notin {"none", "pending"}

QueueInv ==
    /\ \A t \in Tracks :
          /\ request[t] \in {"new", "stored"} => status[t] = "none"
          /\ request[t] \in {"saved", "accepted"} => status[t] # "none"
          /\ request[t] = "accepted" => \E i \in 1 .. Len(log) : log[i] = t
    /\ \A i \in 1 .. Len(log) : status[log[i]] # "none"
    /\ \A w \in Workers : pc[w] \notin {"idle", "claim"} => Left(Track(w))

Settled == {o \in 0 .. Len(log) - 1 : Left(log[o + 1])}
SettledInv == CoveredBy(Settled)

\* What the claim and the index rest on, as long as the partition stays with
\* a worker until its process ends: only the owner is inside process(), so what
\* it has read or written of its track's status is still so.
SoleInv ==
    /\ \A w \in Workers :
          /\ InBatch(w) => owner = w
          /\ pc[w] = "claim" => status[Track(w)] = "pending"
          /\ pc[w] \in {"prepare", "encode", "insert", "finish"} =>
                status[Track(w)] = "processing"
          /\ pc[w] = "index" => status[Track(w)] = "ready"
          /\ pc[w] = "fail" =>
                /\ status[Track(w)] \in {"processing", "ready"}
                /\ Track(w) \notin indexed
    /\ \A t \in indexed : status[t] = "ready"

\* What the lifecycle needs on top: a track that markError will be called for is
\* not ready, unless markError is cut off as well.
FailInv ==
    \A w \in Workers : pc[w] = "fail" =>
        status[Track(w)] = "processing" \/ proc[w] = "stopping"

\* "Only one consumer can claim the work" (docs/phase-2.md:192): a worker goes
\* on past the claim only when its UPDATE found the track pending.
ClaimExclusive ==
    [][\A w \in Workers : pc[w] = "claim" /\ pc'[w] = "prepare"
            => status[Track(w)] = "pending"]_vars

\* An upload that was answered with 202 and has not been claimed still has a
\* record the group will read again: crashes, shutdowns and rebalances at any
\* step of the handler, and of a handler for another track in the same batch,
\* do not lose it (kafka.go:75-77, upload.go:61-69).
AcceptedNotLost ==
    \A t \in Tracks : request[t] = "accepted" /\ status[t] = "pending" =>
        \E o \in committed .. Len(log) - 1 : log[o + 1] = t

\* Nor does such an upload wait for a rebalance: the worker that has the
\* partition has a record of it in its batch, or has yet to fetch one.
AcceptedInReach ==
    \A t \in Tracks : request[t] = "accepted" /\ status[t] = "pending" =>
        \A w \in Workers : owner = w /\ proc[w] = "up" =>
            \E o \in Reach(w) : log[o + 1] = t

\* Search shows no track as ready that GET /tracks/:id does not: the index is
\* written after the status, and no later delivery takes the status back.
IndexedReady == \A t \in indexed : status[t] = "ready"

\* With any fault, and however many workers handle a track at the same time, its
\* status only moves on (none, pending, processing, then ready or error), and no
\* row or object of a format is taken away: the claim and the skip test for
\* pending (upload.go:61-77) are enough for that, though the updates to ready
\* and error test nothing.
Rank(s) == CASE s = "none" -> 0 [] s = "pending" -> 1
             [] s = "processing" -> 2 [] OTHER -> 3

NeverBack ==
    [][\A t \in Tracks :
          /\ Rank(status'[t]) >= Rank(status[t])
          /\ formats[t] \subseteq formats'[t]
          /\ variants[t] \subseteq variants'[t]]_vars

\* "Even if the event is delivered twice, the second delivery is a no-op"
\* (docs/phase-2.md:151), on which the read's cache of ready tracks builds
\* (tracks.go:119): a ready track stays ready (process, upload.go:61-135).
ReadyFinal ==
    [][\A t \in Tracks : status[t] = "ready" => status'[t] = "ready"]_vars

\* A track in processing that no worker is at work on stays so: Check skips it
\* whenever its record comes again.  As long as the database answers, a track
\* gets there only with a process that crashes or is shut down while it handles
\* the track, and each of these takes one track at most; a failing download,
\* ffmpeg or upload, and a rebalance, strand nothing (process, upload.go:61-135).
Stranded ==
    {t \in Tracks : /\ status[t] = "processing"
                    /\ \A w \in Workers : pc[w] = "idle" \/ Track(w) # t}

StrandedBounded == Cardinality(Stranded) <= disruptions

\* The inductive invariant behind it.  A handler that a shutdown has caught will
\* not get its track any further, and its disruption is counted already; the
\* index call comes after the status is settled.
Doomed == {w \in Workers : proc[w] = "stopping" /\ pc[w] # "idle"}

StrandInv ==
    /\ IsFiniteSet(Stranded) /\ IsFiniteSet(Doomed)
    /\ Cardinality(Stranded) + Cardinality(Doomed) <= disruptions
    /\ \A w \in Workers : pc[w] = "index" => status[Track(w)] \in {"ready", "error"}

\* An accepted upload is eventually ready or in error.
Processed ==
    \A t \in Tracks :
        request[t] = "accepted" ~> status[t] \in {"ready", "error"}

\* What the clients that poll a track's status may see: see TrackLifecycle.
Lifecycle == INSTANCE TrackLifecycle WITH
               Tracks <- Tracks, BitrateSet <- BitrateSet,
               status <- status, formats <- formats
LifecycleSpec == Lifecycle!Spec
=============================================================================
