-------------------------- MODULE UploadFormProofs --------------------------
(***************************************************************************)
(* Proofs about UploadForm and the reads under it, for every set of tracks *)
(* and bitrates and any number of reads in flight: what is in the cache is *)
(* final and complete, what a read answers is true when it arrives, and a  *)
(* track that the form shows as ready is ready.                            *)
(*                                                                         *)
(* Only the first of the three needs "formats" \notin ReadFaults: a query  *)
(* for the formats that fails leaves them out of what is cached.           *)
(***************************************************************************)
EXTENDS UploadForm, TLAPS

(***************************************************************************)
(* What a step of the pipeline does to the tables, as far as a read in     *)
(* flight and the cache can tell.                                          *)
(***************************************************************************)
TablesMove ==
    /\ \A t \in Tracks :
          /\ formats[t] \subseteq formats'[t]
          /\ status[t] \in Final => status'[t] = status[t]
          /\ status'[t] = "ready" => formats'[t] = BitrateSet
    /\ UNCHANGED <<cache, readVars>>

LEMMA CatalogueMoves ==
    ASSUME ReadsTypeOK, ReadInv,
           UNCHANGED <<cache, readVars>>,
           NEW t \in Tracks,
           \/ Catalogue!Create(t) \/ Catalogue!Claim(t)
           \/ Catalogue!Complete(t) \/ Catalogue!Fail(t)
           \/ \E b \in BitrateSet : Catalogue!AddFormat(t, b)
    PROVE  ReadsTypeOK' /\ TablesMove
<1> USE DEF ReadsTypeOK, Catalogue!Moves, readVars, Final, Statuses
<1>1. CASE Catalogue!Create(t) \/ Catalogue!Claim(t) \/ Catalogue!Fail(t)
  <2>1. \E to \in {"pending", "processing", "error"} :
           /\ status' = [status EXCEPT ![t] = to]
           /\ status[t] \in {"none", "pending", "processing"}
           /\ formats' = formats
    BY <1>1 DEF Catalogue!Create, Catalogue!Claim, Catalogue!Fail
  <2> QED
    BY <2>1 DEF TablesMove, ReadInv
<1>2. CASE Catalogue!Complete(t)
  BY <1>2 DEF TablesMove, Catalogue!Complete, ReadInv
<1>3. ASSUME NEW b \in BitrateSet, Catalogue!AddFormat(t, b)
      PROVE  ReadsTypeOK' /\ TablesMove
  <2>1. /\ formats' = [formats EXCEPT ![t] = @ \cup {b}]
        /\ status' = status
        /\ status[t] = "processing"
    BY <1>3 DEF Catalogue!AddFormat
  <2>2. formats' \in [Tracks -> SUBSET BitrateSet]
    BY <2>1
  <2>3. \A u \in Tracks : formats[u] \subseteq formats'[u]
    BY <2>1
  <2>4. \A u \in Tracks : status'[u] = "ready" => formats'[u] = BitrateSet
    BY <2>1 DEF ReadInv
  <2> QED
    BY <2>1, <2>2, <2>3, <2>4 DEF TablesMove
<1> QED
  BY <1>1, <1>2, <1>3

LEMMA TablesMoveKeeps ==
    ASSUME ReadsTypeOK, ReadsTypeOK', ReadInv, TablesMove
    PROVE  ReadInv'
<1> USE DEF ReadsTypeOK, TablesMove, readVars
<1>1. \A t \in Tracks : status'[t] = "ready" => formats'[t] = BitrateSet
  OBVIOUS
<1>2. \A r \in Reads : phase'[r] = "store" => row'[r].status = "ready"
  BY DEF ReadInv
<1>3. \A t \in Tracks : cache'[t] # Absent =>
         status'[t] = "ready" /\ cache'[t].status = "ready"
  BY DEF ReadInv, Final
<1>4. RowsTrue'
  BY DEF ReadInv, RowsTrue, Final
<1> QED
  BY <1>1, <1>2, <1>3, <1>4 DEF ReadInv, Absent

(***************************************************************************)
(* The steps of a read.                                                    *)
(***************************************************************************)
LEMMA SomeTrackIsTrack == SomeTrack \in Tracks
  BY ReadsAssumption DEF SomeTrack

LEMMA ReadTypeStep ==
    ASSUME ReadsTypeOK, NEW r \in Reads,
           \/ ReadStep(r)
           \/ Over(r) /\ UNCHANGED <<tableVars, cache>>
           \/ \E t \in Tracks : Begin(r, t)
    PROVE  ReadsTypeOK'
<1> USE SomeTrackIsTrack DEF ReadsTypeOK, Rows, Statuses, Absent, Goto,
        tableVars, readVars
<1>1. CASE Lookup(r)
  <2>1. row' = row \/ row' = [row EXCEPT ![r] = cache[track[r]]]
    BY <1>1 DEF Lookup
  <2>2. row' \in [Reads -> Rows]
    BY <2>1
  <2>3. phase' \in [Reads -> {"idle", "lookup", "row", "formats", "store", "answered"}]
    BY <1>1 DEF Lookup
  <2> QED
    BY <1>1, <2>2, <2>3 DEF Lookup
<1>2. CASE ReadRow(r)
  <2>1. \/ row' = row
        \/ row' = [row EXCEPT ![r].status = status[track[r]]]
    BY <1>2 DEF ReadRow
  <2>2. row' \in [Reads -> Rows]
    BY <2>1
  <2>3. phase' \in [Reads -> {"idle", "lookup", "row", "formats", "store", "answered"}]
    BY <1>2 DEF ReadRow
  <2> QED
    BY <1>2, <2>2, <2>3 DEF ReadRow
<1>3. CASE ReadFormats(r)
  <2>1. PICK f \in SUBSET BitrateSet : row' = [row EXCEPT ![r].formats = f]
    BY <1>3 DEF ReadFormats
  <2>2. row' \in [Reads -> Rows]
    BY <2>1
  <2>3. phase' \in [Reads -> {"idle", "lookup", "row", "formats", "store", "answered"}]
    BY <1>3 DEF ReadFormats
  <2> QED
    BY <1>3, <2>2, <2>3 DEF ReadFormats
<1>4. CASE Store(r)
  BY <1>4 DEF Store
<1>5. CASE Over(r) /\ UNCHANGED <<tableVars, cache>>
  BY <1>5 DEF Over
<1>6. ASSUME NEW t \in Tracks, Begin(r, t)
      PROVE  ReadsTypeOK'
  BY <1>6 DEF Begin
<1> QED
  BY <1>1, <1>2, <1>3, <1>4, <1>5, <1>6 DEF ReadStep

\* A step that leaves the tables and the cache alone and keeps what every read
\* holds true keeps the invariant.
LEMMA ReadFrame ==
    ASSUME ReadsTypeOK, ReadInv, UNCHANGED <<tableVars, cache>>,
           NEW r \in Reads,
           \A q \in Reads \ {r} :
               /\ phase'[q] = phase[q]
               /\ row'[q] = row[q]
               /\ track'[q] = track[q],
           phase'[r] = "store" => row'[r].status = "ready",
           row'[r].formats \subseteq formats[track'[r]],
           row'[r].status \in Final => status[track'[r]] = row'[r].status
    PROVE  ReadInv'
<1> USE DEF ReadInv, tableVars
<1>1. RowsTrue'
  BY DEF RowsTrue
<1>2. \A q \in Reads : phase'[q] = "store" => row'[q].status = "ready"
  OBVIOUS
<1> QED
  BY <1>1, <1>2 DEF Absent

LEMMA ReadInvStep ==
    ASSUME ReadsTypeOK, ReadInv, NEW r \in Reads,
           \/ ReadStep(r)
           \/ Over(r) /\ UNCHANGED <<tableVars, cache>>
           \/ \E t \in Tracks : Begin(r, t)
    PROVE  ReadInv'
<1> USE SomeTrackIsTrack DEF ReadsTypeOK, Rows, Goto
<1>1. CASE Lookup(r)
  <2>1. CASE cache[track[r]] # Absent /\ row' = [row EXCEPT ![r] = cache[track[r]]]
                                      /\ phase' = [phase EXCEPT ![r] = "answered"]
    <3>1. /\ status[track[r]] = "ready"
          /\ formats[track[r]] = BitrateSet
          /\ row'[r].status = "ready" /\ row'[r].formats \subseteq BitrateSet
      BY <2>1 DEF ReadInv
    <3> QED
      BY <1>1, <2>1, <3>1, ReadFrame DEF Lookup
  <2>2. CASE row' = row /\ phase' = [phase EXCEPT ![r] = "row"]
    BY <1>1, <2>2, ReadFrame DEF Lookup, ReadInv, RowsTrue
  <2> QED
    BY <1>1, <2>1, <2>2 DEF Lookup
<1>2. CASE ReadRow(r)
  <2>1. CASE /\ row' = [row EXCEPT ![r].status = status[track[r]]]
             /\ phase' = [phase EXCEPT ![r] = "formats"]
    BY <1>2, <2>1, ReadFrame DEF ReadRow, ReadInv, RowsTrue
  <2>2. CASE row' = row /\ phase' = [phase EXCEPT ![r] = "answered"]
    BY <1>2, <2>2, ReadFrame DEF ReadRow, ReadInv, RowsTrue
  <2> QED
    BY <1>2, <2>1, <2>2 DEF ReadRow
<1>3. CASE ReadFormats(r)
  <2>1. PICK f \in SUBSET formats[track[r]] : row' = [row EXCEPT ![r].formats = f]
    BY <1>3 DEF ReadFormats
  <2>2. row'[r] = [status |-> row[r].status, formats |-> f]
    BY <2>1
  <2>3. phase'[r] = "store" => row[r].status = "ready"
    BY <1>3 DEF ReadFormats
  <2> QED
    BY <1>3, <2>1, <2>2, <2>3, ReadFrame DEF ReadFormats, ReadInv, RowsTrue
<1>4. CASE Store(r)
  <2>1. CASE cache' = cache
    BY <1>4, <2>1, ReadFrame DEF Store, ReadInv, RowsTrue
  <2>2. CASE cache' = [cache EXCEPT ![track[r]] = row[r]]
    <3>1. row[r].status = "ready" /\ status[track[r]] = "ready"
      BY <1>4 DEF Store, ReadInv, RowsTrue, Final
    <3>2. \A t \in Tracks : cache'[t] # Absent =>
             status'[t] = "ready" /\ cache'[t].status = "ready"
      BY <1>4, <2>2, <3>1 DEF Store, tableVars, ReadInv
    <3>3. RowsTrue'
      BY <1>4 DEF Store, tableVars, ReadInv, RowsTrue
    <3>4. \A q \in Reads : phase'[q] = "store" => row'[q].status = "ready"
      BY <1>4 DEF Store, ReadInv
    <3> QED
      BY <1>4, <3>2, <3>3, <3>4 DEF Store, tableVars, ReadInv, Absent
  <2> QED
    BY <1>4, <2>1, <2>2 DEF Store
<1>5. CASE Over(r) /\ UNCHANGED <<tableVars, cache>>
  BY <1>5, ReadFrame DEF Over, Absent, Final
<1>6. ASSUME NEW t \in Tracks, Begin(r, t)
      PROVE  ReadInv'
  BY <1>6, ReadFrame DEF Begin, Absent, Final
<1> QED
  BY <1>1, <1>2, <1>3, <1>4, <1>5, <1>6 DEF ReadStep

(***************************************************************************)
(* The form around them.                                                   *)
(***************************************************************************)
FormInv == TypeOK /\ ReadInv /\ ShownReadyIsReady

\* Every step of the application is one of these.
LEMMA FormSteps ==
    ASSUME Next
    PROVE  \/ \E t \in Tracks : Insert(t) \/ Pipeline(t)
           \/ \E t \in Tracks : Submit(t) \/ PostAnswered(t) \/ PostFails(t)
           \/ Reset
           \/ \E t \in Tracks : Expire(t) /\ UNCHANGED formVars
           \/ \E r \in Reads : ReadStep(r) /\ UNCHANGED formVars
           \/ \E r \in Reads : Tick(r) \/ Answer(r) \/ AnswerLost(r)
  BY DEF Next, FormStep, PollStep

LEMMA FormInvInit == Init => FormInv
<1> SUFFICES ASSUME Init PROVE FormInv
  OBVIOUS
<1> USE SomeTrackIsTrack DEF Init, ReadsInit, Catalogue!Init, Absent, Statuses, Rows
<1>1. TypeOK
  BY DEF TypeOK, ReadsTypeOK
<1>2. ReadInv
  BY DEF ReadInv, RowsTrue, Final
<1> QED
  BY <1>1, <1>2 DEF FormInv, ShownReadyIsReady

LEMMA FormInvStep ==
    ASSUME FormInv, [Next]_vars
    PROVE  FormInv'
<1>0. TypeOK /\ ReadsTypeOK /\ ReadInv /\ ShownReadyIsReady
  BY DEF FormInv, TypeOK
<1>1. ASSUME NEW t \in Tracks, Insert(t) \/ Pipeline(t)
      PROVE  FormInv'
  <2>1. UNCHANGED <<cache, readVars>> /\ UNCHANGED formVars
    BY <1>1 DEF Insert, Pipeline
  <2>2. \/ Catalogue!Create(t) \/ Catalogue!Claim(t)
        \/ Catalogue!Complete(t) \/ Catalogue!Fail(t)
        \/ \E b \in BitrateSet : Catalogue!AddFormat(t, b)
    BY <1>1 DEF Insert, Pipeline
  <2>3. ReadsTypeOK' /\ TablesMove
    BY <1>0, <2>1, <2>2, CatalogueMoves
  <2>4. ReadInv'
    BY <1>0, <2>3, TablesMoveKeeps
  <2>5. ShownReadyIsReady'
    BY <1>0, <2>1, <2>3 DEF TypeOK, formVars, ShownReadyIsReady, TablesMove, Final
  <2> QED
    BY <1>0, <2>1, <2>3, <2>4, <2>5 DEF FormInv, TypeOK, formVars
<1>2. ASSUME UNCHANGED <<tableVars, cache, readVars>>,
             TypeOK', ShownReadyIsReady'
      PROVE  FormInv'
  BY <1>0, <1>2 DEF FormInv, tableVars, readVars, ReadInv, RowsTrue, Absent
<1>3. ASSUME NEW t \in Tracks, Submit(t) \/ PostAnswered(t) \/ PostFails(t)
      PROVE  FormInv'
  <2>1. TypeOK' /\ kind' # "ready"
    BY <1>0, <1>3 DEF TypeOK, ReadsTypeOK, Submit, PostAnswered, PostFails, Shows,
          tableVars, readVars
  <2>2. UNCHANGED <<tableVars, cache, readVars>>
    BY <1>3 DEF Submit, PostAnswered, PostFails
  <2> QED
    BY <1>2, <2>1, <2>2 DEF ShownReadyIsReady
<1>4. CASE Reset
  <2>1. TypeOK' /\ kind' # "ready"
    BY <1>0, <1>4 DEF TypeOK, ReadsTypeOK, Reset, Shows, tableVars, readVars
  <2> QED
    BY <1>2, <1>4, <2>1 DEF Reset, ShownReadyIsReady
<1>5. ASSUME NEW t \in Tracks, Expire(t), UNCHANGED formVars
      PROVE  FormInv'
  <2>1. ReadsTypeOK'
    BY <1>0, <1>5 DEF ReadsTypeOK, Expire, Absent, Rows, Statuses, tableVars, readVars
  <2>2. RowsTrue'
    BY <1>0, <1>5 DEF Expire, tableVars, readVars, ReadInv, RowsTrue
  <2>3. ReadInv'
    BY <1>0, <1>5, <2>2 DEF ReadsTypeOK, Expire, tableVars, readVars, ReadInv, Absent
  <2> QED
    BY <1>0, <1>5, <2>1, <2>3 DEF FormInv, TypeOK, formVars, ShownReadyIsReady,
          Expire, tableVars
<1>6. ASSUME NEW r \in Reads, ReadStep(r), UNCHANGED formVars
      PROVE  FormInv'
  <2>1. ReadsTypeOK' /\ ReadInv'
    BY <1>0, <1>6, ReadTypeStep, ReadInvStep
  <2>2. UNCHANGED tableVars
    BY <1>6 DEF ReadStep, Lookup, ReadRow, ReadFormats, Store, tableVars
  <2> QED
    BY <1>0, <1>6, <2>1, <2>2 DEF FormInv, TypeOK, formVars, ShownReadyIsReady, tableVars
<1>7. ASSUME NEW r \in Reads, Tick(r)
      PROVE  FormInv'
  <2>1. Begin(r, shown) /\ UNCHANGED formVars /\ shown \in Tracks
    BY <1>0, <1>7 DEF Tick, TypeOK
  <2>2. ReadsTypeOK' /\ ReadInv'
    BY <1>0, <2>1, ReadTypeStep, ReadInvStep
  <2> QED
    BY <1>0, <2>1, <2>2 DEF FormInv, TypeOK, formVars, ShownReadyIsReady, Begin, tableVars
<1>8. ASSUME NEW r \in Reads, Answer(r) \/ AnswerLost(r)
      PROVE  FormInv'
  <2>1. Over(r) /\ UNCHANGED <<tableVars, cache>> /\ UNCHANGED posting
    BY <1>8 DEF Answer, AnswerLost, tableVars
  <2>2. ReadsTypeOK' /\ ReadInv'
    BY <1>0, <2>1, ReadTypeStep, ReadInvStep
  <2>3. \/ kind' = "ready" /\ shown' = track[r] /\ row[r].status = "ready"
        \/ kind' = "error" /\ shown' = shown
        \/ kind' = kind /\ shown' = shown
    BY <1>8 DEF Answer, AnswerLost, Shows
  <2>4. kind' \in {"idle", "uploading", "polling", "ready", "error"} /\ shown' \in Tracks
    BY <1>0, <2>3 DEF TypeOK, ReadsTypeOK
  <2>5. ShownReadyIsReady'
    BY <1>0, <2>1, <2>3 DEF ShownReadyIsReady, ReadInv, RowsTrue, Final, tableVars
  <2> QED
    BY <1>0, <2>1, <2>2, <2>4, <2>5 DEF FormInv, TypeOK
<1>9. CASE UNCHANGED vars
  BY <1>0, <1>9 DEF vars, tableVars, readVars, formVars, FormInv, TypeOK, ReadsTypeOK,
        ReadInv, RowsTrue, Absent, ShownReadyIsReady
<1> QED
  BY <1>1, <1>3, <1>4, <1>5, <1>6, <1>7, <1>8, <1>9, FormSteps

LEMMA FormInvariance == Spec => []FormInv
<1>1. FormInv /\ [Next]_vars => FormInv'
  BY FormInvStep
<1> QED
  BY <1>1, FormInvInit, PTL DEF Spec

(***************************************************************************)
(* Every variable keeps its type: in particular the form never shows       *)
(* anything but its five states (UploadForm.tsx:7-12).                     *)
(***************************************************************************)
THEOREM FormTyping == Spec => []TypeOK
  BY FormInvariance, PTL DEF FormInv

(***************************************************************************)
(* What a read answers is no older than its track can bear: a final status *)
(* in it is the track's status still (Tracks.Get, tracks.go:96-117).       *)
(***************************************************************************)
THEOREM ReadsAreTrue == Spec => []RowsTrue
  BY FormInvariance, PTL DEF FormInv, ReadInv

(***************************************************************************)
(* A track that the form shows as ready is ready, however many answers are *)
(* in flight and in whatever order they arrive (UploadForm.tsx:36-50).     *)
(***************************************************************************)
THEOREM FormShowsTruth == Spec => []ShownReadyIsReady
  BY FormInvariance, PTL DEF FormInv

(***************************************************************************)
(* What is in the cache is complete, when no query for the formats fails.  *)
(***************************************************************************)

\* A ready track stays ready.
LEMMA ReadyTracksStay ==
    ASSUME FormInv, [Next]_vars, NEW t \in Tracks, status[t] = "ready"
    PROVE  status'[t] = "ready"
<1> USE DEF FormInv, TypeOK
<1>1. ASSUME NEW u \in Tracks, Insert(u) \/ Pipeline(u)
      PROVE  status'[t] = "ready"
  <2>1. /\ UNCHANGED <<cache, readVars>>
        /\ \/ Catalogue!Create(u) \/ Catalogue!Claim(u)
           \/ Catalogue!Complete(u) \/ Catalogue!Fail(u)
           \/ \E b \in BitrateSet : Catalogue!AddFormat(u, b)
    BY <1>1 DEF Insert, Pipeline
  <2>2. TablesMove
    BY <2>1, CatalogueMoves
  <2> QED
    BY <2>2 DEF TablesMove, Final
<1>2. CASE UNCHANGED tableVars
  BY <1>2 DEF tableVars
<1>3. CASE UNCHANGED vars
  BY <1>3 DEF vars, tableVars
<1>4. (\A u \in Tracks : ~Insert(u) /\ ~Pipeline(u)) /\ Next => UNCHANGED tableVars
  BY DEF Next, FormStep, PollStep, Submit, PostAnswered, PostFails, Reset, Expire,
         ReadStep, Lookup, ReadRow, ReadFormats, Store, Tick, Begin, Answer,
         AnswerLost, tableVars
<1> QED
  BY <1>1, <1>2, <1>3, <1>4

\* What a step does to the reads and to the cache.
LEMMA CompleteStep ==
    ASSUME "formats" \notin ReadFaults, FormInv, CompleteInv, [Next]_vars
    PROVE  CompleteInv'
<1>0. TypeOK /\ ReadsTypeOK /\ ReadInv
  BY DEF FormInv, TypeOK
<1>1. \A t \in Tracks : status[t] = "ready" => status'[t] = "ready"
  BY ReadyTracksStay
<1>2. ASSUME NEW r \in Reads, ReadStep(r)
      PROVE  CompleteInv'
  <2>1. CASE Lookup(r) \/ ReadRow(r)
    <3>1. /\ cache' = cache
          /\ \A q \in Reads : phase'[q] = "store" => phase[q] = "store" /\ row'[q] = row[q]
      BY <1>0, <2>1 DEF Lookup, ReadRow, Goto, ReadsTypeOK
    <3> QED
      BY <1>1, <3>1 DEF CompleteInv, CachedComplete, ReadyRow, Absent
  <2>2. CASE ReadFormats(r)
    <3>1. row' = [row EXCEPT ![r].formats = formats[track[r]]]
      BY <2>2 DEF ReadFormats
    <3>2. row'[r] = [status |-> row[r].status, formats |-> formats[track[r]]]
      BY <1>0, <3>1 DEF ReadsTypeOK, Rows
    <3>3. phase'[r] = "store" => row'[r] = ReadyRow
      <4>1. phase'[r] = "store" => row[r].status = "ready"
        BY <1>0, <2>2 DEF ReadFormats, Goto, ReadsTypeOK
      <4>2. row[r].status = "ready" => formats[track[r]] = BitrateSet
        BY <1>0 DEF ReadInv, RowsTrue, Final, ReadsTypeOK
      <4> QED
        BY <3>2, <4>1, <4>2 DEF ReadyRow
    <3>4. /\ cache' = cache
          /\ \A q \in Reads \ {r} : phase'[q] = phase[q] /\ row'[q] = row[q]
      BY <1>0, <2>2, <3>1 DEF ReadFormats, Goto, ReadsTypeOK
    <3> QED
      BY <1>1, <3>3, <3>4 DEF CompleteInv, CachedComplete, ReadyRow, Absent
  <2>3. CASE Store(r)
    <3>1. row[r] = ReadyRow /\ status[track[r]] = "ready"
      BY <1>0, <2>3 DEF Store, CompleteInv, ReadInv, RowsTrue, ReadyRow, Final
    <3>2. /\ \/ cache' = [cache EXCEPT ![track[r]] = row[r]]
             \/ cache' = cache
          /\ row' = row
          /\ \A q \in Reads : phase'[q] = "store" => phase[q] = "store"
      BY <1>0, <2>3 DEF Store, Goto, ReadsTypeOK
    <3> QED
      BY <1>0, <1>1, <3>1, <3>2
         DEF ReadsTypeOK, CompleteInv, CachedComplete, ReadyRow, Absent
  <2> QED
    BY <1>2, <2>1, <2>2, <2>3 DEF ReadStep
<1>3. ASSUME NEW r \in Reads, Tick(r) \/ Answer(r) \/ AnswerLost(r)
      PROVE  CompleteInv'
  <2>1. /\ cache' = cache
        /\ \A q \in Reads : phase'[q] = "store" => phase[q] = "store" /\ row'[q] = row[q]
    BY <1>0, <1>3 DEF Tick, Begin, Answer, AnswerLost, Over, Goto, ReadsTypeOK
  <2> QED
    BY <1>1, <2>1 DEF CompleteInv, CachedComplete, ReadyRow, Absent
<1>4. ASSUME NEW t \in Tracks, Expire(t)
      PROVE  CompleteInv'
  BY <1>0, <1>1, <1>4 DEF Expire, tableVars, readVars, ReadsTypeOK, CompleteInv,
        CachedComplete, ReadyRow, Absent
<1>5. ASSUME UNCHANGED <<cache, readVars>>
      PROVE  CompleteInv'
  BY <1>1, <1>5 DEF readVars, CompleteInv, CachedComplete, ReadyRow, Absent
<1>6. ASSUME NEW t \in Tracks, FormStep(t) \/ Pipeline(t)
      PROVE  CompleteInv'
  BY <1>5, <1>6 DEF FormStep, Submit, Insert, PostAnswered, PostFails, Pipeline
<1>7. CASE Reset
  BY <1>5, <1>7 DEF Reset
<1>8. CASE UNCHANGED vars
  BY <1>5, <1>8 DEF vars
<1> QED
  BY <1>2, <1>3, <1>4, <1>6, <1>7, <1>8 DEF Next, PollStep

(***************************************************************************)
(* The cache never holds a row that is not final, or one that lacks a      *)
(* format, whichever reads fill it in whatever order, while the pipeline   *)
(* works on (Tracks.Get, tracks.go:84-124).  With a query for the formats  *)
(* that fails it may lack formats, but is final still: ReadInv says so.    *)
(***************************************************************************)
THEOREM CacheIsComplete ==
    ASSUME "formats" \notin ReadFaults
    PROVE  Spec => []CachedComplete
<1>1. Init => CompleteInv
  BY DEF Init, ReadsInit, CompleteInv, CachedComplete
<1>2. FormInv /\ CompleteInv /\ [Next]_vars => CompleteInv'
  BY CompleteStep
<1>3. CompleteInv => CachedComplete
  BY DEF CompleteInv
<1> QED
  BY <1>1, <1>2, <1>3, FormInvariance, PTL DEF Spec
=============================================================================
