----------------------------- MODULE TrackReads -----------------------------
(***************************************************************************)
(* GET /tracks/:id (Tracks.Get in beatstream/internal/handler/tracks.go):  *)
(* cache-aside reads of a track while the upload pipeline works on it.     *)
(*                                                                         *)
(* What the pipeline does to the tables is TrackLifecycle, which           *)
(* UploadPipeline implements as long as no track is processed twice.  A    *)
(* read is four calls (Redis, tracks, track_formats, Redis), and other     *)
(* reads, the pipeline and the cache's expiry come between them.           *)
(***************************************************************************)
EXTENDS Naturals

CONSTANTS
    Tracks,
    BitrateSet,
    Reads,       \* requests that may be in flight at the same time
    ReadFaults   \* which calls may fail

ASSUME ReadsAssumption ==
    /\ Tracks # {}
    /\ ReadFaults \subseteq {"cache", "row", "formats", "net"}

VARIABLES
    status,    \* tracks.status
    formats,   \* the bitrates of the track_formats rows
    cache,     \* the Redis key of a track: a row, or Absent
    phase,     \* the call a read makes next
    track,     \* the track a read is for
    row        \* what a read has in hand, and answers with

tableVars == <<status, formats>>
readVars == <<phase, track, row>>

Catalogue == INSTANCE TrackLifecycle WITH
               Tracks <- Tracks, BitrateSet <- BitrateSet,
               status <- status, formats <- formats

Statuses == {"none", "pending", "processing", "ready", "error"}
Rows == [status : Statuses, formats : SUBSET BitrateSet]

SomeTrack == CHOOSE t \in Tracks : TRUE

\* No such row, no such key; as an answer, 404.
Absent == [status |-> "none", formats |-> {}]
Final == {"ready", "error"}

ReadsTypeOK ==
    /\ status \in [Tracks -> Statuses]
    /\ formats \in [Tracks -> SUBSET BitrateSet]
    /\ cache \in [Tracks -> Rows]
    /\ phase \in [Reads -> {"idle", "lookup", "row", "formats", "store", "answered"}]
    /\ track \in [Reads -> Tracks]
    /\ row \in [Reads -> Rows]

ReadsInit ==
    /\ Catalogue!Init
    /\ cache = [t \in Tracks |-> Absent]
    /\ phase = [r \in Reads |-> "idle"]
    /\ track = [r \in Reads |-> SomeTrack]
    /\ row = [r \in Reads |-> Absent]

Goto(r, p) == phase' = [phase EXCEPT ![r] = p]

Begin(r, t) ==
    /\ phase[r] = "idle"
    /\ Goto(r, "lookup")
    /\ track' = [track EXCEPT ![r] = t]
    /\ row' = [row EXCEPT ![r] = Absent]
    /\ UNCHANGED <<tableVars, cache>>

\* The request has been answered, or its client is gone.
Over(r) ==
    /\ Goto(r, "idle")
    /\ track' = [track EXCEPT ![r] = SomeTrack]
    /\ row' = [row EXCEPT ![r] = Absent]

\* Mutant of Lookup: the key does not tell one track from another.
LookupAnyKey(r) ==
    /\ phase[r] = "lookup"
    /\ \/ \E t \in Tracks :
             /\ cache[t] # Absent
             /\ row' = [row EXCEPT ![r] = cache[t]]
             /\ Goto(r, "answered")
       \/ Goto(r, "row") /\ UNCHANGED row
    /\ UNCHANGED <<tableVars, cache, track>>

\* A key of Redis answers the request; without one, or without Redis, it is
\* a miss.
Lookup(r) ==
    /\ phase[r] = "lookup"
    /\ \/ /\ cache[track[r]] # Absent
          /\ row' = [row EXCEPT ![r] = cache[track[r]]]
          /\ Goto(r, "answered")
       \/ /\ cache[track[r]] = Absent \/ "cache" \in ReadFaults
          /\ Goto(r, "row")
          /\ UNCHANGED row
    /\ UNCHANGED <<tableVars, cache, track>>

\* Any error of the query is answered with 404.
ReadRow(r) ==
    /\ phase[r] = "row"
    /\ \/ /\ status[track[r]] # "none"
          /\ row' = [row EXCEPT ![r].status = status[track[r]]]
          /\ Goto(r, "formats")
       \/ /\ status[track[r]] = "none" \/ "row" \in ReadFaults
          /\ Goto(r, "answered")
          /\ UNCHANGED row
    /\ UNCHANGED <<tableVars, cache, track>>

\* Mutant of ReadFormats: a track is cached whatever its status.
ReadFormatsForCache(r) ==
    /\ phase[r] = "formats"
    /\ row' = [row EXCEPT ![r].formats = formats[track[r]]]
    /\ Goto(r, "store")
    /\ UNCHANGED <<tableVars, cache, track>>

\* An error of the query, or of a row of it, leaves formats out and nothing
\* else.  Only a ready track goes on to the cache.
ReadFormats(r) ==
    /\ phase[r] = "formats"
    /\ \E f \in {formats[track[r]]} \cup
                (IF "formats" \in ReadFaults THEN SUBSET formats[track[r]] ELSE {}) :
          row' = [row EXCEPT ![r].formats = f]
    /\ Goto(r, IF row[r].status = "ready" THEN "store" ELSE "answered")
    /\ UNCHANGED <<tableVars, cache, track>>

\* The error of the Set is ignored.
Store(r) ==
    /\ phase[r] = "store"
    /\ \/ cache' = [cache EXCEPT ![track[r]] = row[r]]
       \/ "cache" \in ReadFaults /\ UNCHANGED cache
    /\ Goto(r, "answered")
    /\ UNCHANGED <<tableVars, track, row>>

\* The hour is over, or Redis lost the key.
Expire(t) ==
    /\ cache[t] # Absent
    /\ cache' = [cache EXCEPT ![t] = Absent]
    /\ UNCHANGED <<tableVars, readVars>>

ReadStep(r) == Lookup(r) \/ ReadRow(r) \/ ReadFormats(r) \/ Store(r)

----------------------------------------------------------------------------
(* Properties.                                                             *)

ReadyRow == [status |-> "ready", formats |-> BitrateSet]

\* "Only cache ready tracks - pending/processing status changes and must not be
\* frozen in cache" (tracks.go:119): what is in the cache is the final row, with
\* every format, however old the read is that put it there.
CachedComplete ==
    \A t \in Tracks : cache[t] # Absent =>
        /\ status[t] = "ready"
        /\ cache[t] = ReadyRow

\* What a read holds is not ahead of the tables, and a final status in it is
\* still the status of the track when the answer arrives.
RowsTrue ==
    \A r \in Reads :
        /\ row[r].formats \subseteq formats[track[r]]
        /\ row[r].status \in Final => status[track[r]] = row[r].status

\* The inductive invariant behind RowsTrue also says what a ready track has, and
\* that only ready rows are in the cache or on their way to it.
ReadInv ==
    /\ \A t \in Tracks : status[t] = "ready" => formats[t] = BitrateSet
    /\ \A r \in Reads : phase[r] = "store" => row[r].status = "ready"
    /\ \A t \in Tracks : cache[t] # Absent =>
           status[t] = "ready" /\ cache[t].status = "ready"
    /\ RowsTrue

\* The one behind CachedComplete, unless the query for the formats fails.
CompleteInv ==
    /\ \A r \in Reads : phase[r] = "store" => row[r] = ReadyRow
    /\ CachedComplete
=============================================================================
