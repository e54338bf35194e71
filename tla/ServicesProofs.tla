--------------------------- MODULE ServicesProofs ---------------------------
(***************************************************************************)
(* Proofs about the parts of MCServices: the search index and the lists    *)
(* cached from it, the start of the processes, paging through a playlist;  *)
(* and, with the rate limiters of RateLimitProofs and the ring of          *)
(* InterviewPrepProofs, that the parts keep their types next to each other.     *)
(***************************************************************************)
EXTENDS MCServices, RateLimitProofs, InterviewPrepProofs, FiniteSetTheorems

----------------------------------------------------------------------------
(* Search and recommendations.                                             *)

\* What is shown, unless it was looked up by the search in the table.
Playable(answer) == answer.from # "tsvector" => answer.shown \subseteq Ready

\* The inductive invariant: the worker indexes what it has finished, and a
\* request has in hand only what it may cache.
SearchInv ==
    /\ state \in [Songs -> {"none", "pending", "processing", "ready", "error"}]
    /\ indexed \subseteq Ready /\ toIndex \subseteq Ready
    /\ \A k \in Queries \cup Lists : Playable(answers[k])
    /\ DOMAIN answers = Queries \cup Lists
    /\ found \in [Requests -> [shown : SUBSET Songs, from : Sources]]
    /\ at \in [Requests -> {"idle", "hits", "store"}]
    /\ \A r \in Requests : /\ Playable(found[r])
                           /\ at[r] = "hits" => found[r].from = "index"

\* Ready is for good.
LEMMA ReadyGrows ==
  ASSUME SearchInv, Pipeline!Next
  PROVE  /\ state' \in [Songs -> {"none", "pending", "processing", "ready", "error"}]
         /\ Ready \subseteq Ready' /\ Finished \subseteq Ready'
<1>1. state' \in [Songs -> {"none", "pending", "processing", "ready", "error"}]
  BY DEF SearchInv, Pipeline!Next, Pipeline!Create, Pipeline!Claim, Pipeline!AddFormat,
         Pipeline!Complete, Pipeline!Fail, Pipeline!Moves
<1>2. Ready \subseteq Ready'
  BY DEF SearchInv, Ready, Pipeline!Next, Pipeline!Create, Pipeline!Claim,
         Pipeline!AddFormat, Pipeline!Complete, Pipeline!Fail, Pipeline!Moves
<1>3. Finished \subseteq Ready'
  BY DEF Finished, Ready
<1>4. QED
  BY <1>1, <1>2, <1>3

LEMMA SearchInitially == SearchInit => SearchInv
<1> SUFFICES ASSUME SearchInit PROVE SearchInv
  OBVIOUS
<1>1. NotCached \in [shown : SUBSET Songs, from : Sources] /\ Playable(NotCached)
  BY DEF NotCached, Sources, Playable
<1> HIDE DEF NotCached
<1>2. QED
  BY <1>1 DEF SearchInit, SearchInv, Pipeline!Init

LEMMA SearchStep == SearchInv /\ [SearchNext]_searchVars => SearchInv'
<1> SUFFICES ASSUME SearchInv, [SearchNext]_searchVars
             PROVE  SearchInv'
  OBVIOUS
<1> USE DEF SearchInv
<1>1. CASE Work
  <2>1. Ready \subseteq Ready' /\ Finished \subseteq Ready'
        /\ state' \in [Songs -> {"none", "pending", "processing", "ready", "error"}]
    BY <1>1, ReadyGrows DEF Work
  <2>2. QED
    BY <1>1, <2>1 DEF Work, requestVars, Playable
<1>2. ASSUME NEW t \in Songs, IndexSong(t)
      PROVE  SearchInv'
  BY <1>2 DEF IndexSong, tables, requestVars, Ready, Playable
<1>3. ASSUME NEW k \in Queries \cup Lists, Evict(k)
      PROVE  SearchInv'
  BY <1>3 DEF Evict, tables, requestVars, Ready, Playable, NotCached
<1>4. ASSUME NEW r \in Requests, NEW q \in Queries, Query(r, q)
      PROVE  SearchInv'
  <2>1. PICK songs \in SUBSET Songs, from \in Sources :
             /\ found' = [found EXCEPT ![r] = [shown |-> songs, from |-> from]]
             /\ from # "tsvector" => songs \subseteq Ready
             /\ at' = [at EXCEPT ![r] = IF from = "index" THEN "hits" ELSE "store"]
    BY <1>4 DEF Query, Hits, Finds, Reaches, Sources, Rows, Ready
  <2>2. QED
    BY <1>4, <2>1 DEF Query, tables, Ready, Playable
<1>5. ASSUME NEW r \in Requests, FetchHits(r)
      PROVE  SearchInv'
  <2>1. PICK songs \in SUBSET Songs, from \in Sources :
             /\ found' = [found EXCEPT ![r] = [shown |-> songs, from |-> from]]
             /\ from # "tsvector" => songs \subseteq found[r].shown
    <3>1. CASE Finds(r, found[r].shown \cap Rows, "index")
      <4>1. found[r].shown \cap Rows \in SUBSET Songs /\ "index" \in Sources
        BY DEF Rows, Sources
      <4>2. QED
        BY <3>1, <4>1 DEF Finds
    <3>2. ASSUME NEW rows \in SUBSET Rows, Finds(r, rows, "tsvector")
          PROVE  \E songs \in SUBSET Songs, from \in Sources :
                    /\ found' = [found EXCEPT ![r] = [shown |-> songs, from |-> from]]
                    /\ from # "tsvector" => songs \subseteq found[r].shown
      <4>1. rows \in SUBSET Songs /\ "tsvector" \in Sources
        BY DEF Rows, Sources
      <4>2. QED
        BY <3>2, <4>1 DEF Finds
    <3>3. QED
      BY <1>5, <3>1, <3>2 DEF FetchHits
  <2>2. from # "tsvector" => songs \subseteq Ready
    BY <1>5, <2>1 DEF FetchHits, Playable
  <2>3. QED
    BY <1>5, <2>1, <2>2 DEF FetchHits, Reaches, tables, Ready, Playable
<1>6. ASSUME NEW r \in Requests, NEW k \in Lists, List(r, k)
      PROVE  SearchInv'
  <2>1. PICK songs \in SUBSET Ready :
             found' = [found EXCEPT ![r] = [shown |-> songs, from |-> "table"]]
    BY <1>6 DEF List, Finds, Recommended
  <2>2. songs \in SUBSET Songs /\ "table" \in Sources
    BY <2>1 DEF Ready, Sources
  <2>3. QED
    BY <1>6, <2>1, <2>2 DEF List, Reaches, tables, Ready, Playable
<1>7. ASSUME NEW r \in Requests, Answer(r)
      PROVE  SearchInv'
  <2>1. found' = [found EXCEPT ![r] = [shown |-> {}, from |-> "nowhere"]]
        /\ "nowhere" \in Sources
    BY <1>7 DEF Answer, Finds, Sources
  <2>2. QED
    BY <1>7, <2>1 DEF Answer, Reaches, tables, Ready, Playable
<1>8. CASE UNCHANGED searchVars
  BY <1>8 DEF searchVars, tables, requestVars, Ready, Playable
<1>9. QED
  BY <1>1, <1>2, <1>3, <1>4, <1>5, <1>6, <1>7, <1>8 DEF SearchNext

\* Recommendations, hits of the index and the documents of the index itself are
\* of tracks that are ready, however late caches and index are written.
THEOREM OffersCanBePlayed == SearchSpec => []OffersPlayable
<1>1. SearchInv => OffersPlayable
  BY DEF SearchInv, OffersPlayable, Suggestions, Playable
<1>2. QED
  BY <1>1, SearchInitially, SearchStep, PTL DEF SearchSpec

LEMMA SearchTypes ==
  ASSUME SearchTypeOK, SearchInv, [SearchNext]_searchVars
  PROVE  SearchTypeOK'
<1>1. SearchInv'
  BY SearchStep
<1>2. indexed' \subseteq Songs /\ toIndex' \subseteq Songs
  BY <1>1 DEF SearchInv, Ready
<1>3. asked' \in [Requests -> Queries \cup Lists]
  BY DEF SearchTypeOK, SearchNext, searchVars, requestVars, Work, IndexSong, Evict,
         Query, List, FetchHits, Answer
<1>4. ASSUME NEW r \in Requests, Answer(r)
      PROVE  answers' \in [Queries \cup Lists -> [shown : SUBSET Songs, from : Sources]]
  BY <1>4 DEF Answer, SearchTypeOK
<1>5. ASSUME NEW k \in Queries \cup Lists, Evict(k)
      PROVE  answers' \in [Queries \cup Lists -> [shown : SUBSET Songs, from : Sources]]
  <2>1. NotCached \in [shown : SUBSET Songs, from : Sources]
    BY DEF NotCached, Sources
  <2> QED
    BY <1>5, <2>1 DEF Evict, SearchTypeOK
<1>6. answers' \in [Queries \cup Lists -> [shown : SUBSET Songs, from : Sources]]
  BY <1>4, <1>5 DEF SearchTypeOK, SearchNext, searchVars, Work, IndexSong, Query, List,
                    FetchHits
<1> QED
  BY <1>1, <1>2, <1>3, <1>6 DEF SearchInv, SearchTypeOK

----------------------------------------------------------------------------
(* The start of the processes.                                             *)

LEMMA NineMigrations ==
  /\ Len(Migrations) = 9
  /\ \A i \in 1 .. 9 : Migrations[i] \in {"create", "alter"}
BY DEF Migrations

LEMMA StartupInitially == StartupInit => StartupTypeOK /\ StartupInv
<1> SUFFICES ASSUME StartupInit PROVE StartupTypeOK /\ StartupInv
  OBVIOUS
<1> USE NineMigrations
<1>1. StartupTypeOK
  <2>1. phase \in [Processes -> {"down", "migrate", "create", "head", "bucket",
                                 "clients", "ensure", "serving"}]
    BY DEF StartupInit
  <2>2. next \in [Processes -> 1 .. Len(Migrations) + 1] /\ applied \in 0 .. Len(Migrations)
    BY DEF StartupInit
  <2>3. saw \in [Processes -> BOOLEAN] /\ client \in [Processes -> BOOLEAN]
    BY DEF StartupInit
  <2> QED
    BY <2>1, <2>2, <2>3 DEF StartupInit, StartupTypeOK
<1>2. StartupInv
  BY DEF StartupInit, StartupInv, IndexMapped
<1> QED
  BY <1>1, <1>2

\* What a process does to the others: migrations and the bucket stay.
LEMMA OthersKeep ==
  ASSUME StartupTypeOK, StartupInv, NEW p \in Processes,
         \A q \in Processes \ {p} :
             /\ phase'[q] = phase[q] /\ next'[q] = next[q] /\ client'[q] = client[q],
         applied' >= applied, applied' \in 0 .. 9, bucket => bucket',
         index' = "none" => index = "none", losses' = losses,
         /\ next'[p] <= applied' + 1
         /\ phase'[p] \in {"down", "migrate", "create"} => next'[p] <= 9
         /\ phase'[p] \in {"head", "bucket", "clients", "ensure", "serving"} => applied' = 9
         /\ phase'[p] \in {"clients", "ensure", "serving"} /\ p \in Apis => bucket'
         /\ client'[p] => index' # "none" \/ losses' > 0,
         IndexMapped'
  PROVE  StartupInv'
<1> USE NineMigrations DEF StartupTypeOK
<1> SUFFICES ASSUME NEW q \in Processes \ {p}
             PROVE  /\ next'[q] <= applied' + 1
                    /\ phase'[q] \in {"down", "migrate", "create"} => next'[q] <= 9
                    /\ phase'[q] \in {"head", "bucket", "clients", "ensure", "serving"} => applied' = 9
                    /\ phase'[q] \in {"clients", "ensure", "serving"} /\ q \in Apis => bucket'
                    /\ client'[q] => index' # "none" \/ losses' > 0
  BY DEF StartupInv
<1>1. /\ next[q] \in Nat /\ applied \in 0 .. 9 /\ losses \in Nat
      /\ next[q] <= applied + 1
      /\ phase[q] \in {"down", "migrate", "create"} => next[q] <= 9
      /\ phase[q] \in {"head", "bucket", "clients", "ensure", "serving"} => applied = 9
      /\ phase[q] \in {"clients", "ensure", "serving"} /\ q \in Apis => bucket
      /\ client[q] => index # "none" \/ losses > 0
  BY DEF StartupInv
<1> QED
  BY <1>1

LEMMA StartupTypes ==
  ASSUME StartupTypeOK, StartupInv, [StartupNext]_startupVars
  PROVE  StartupTypeOK'
<1> USE NineMigrations DEF StartupTypeOK, outside
<1>1. ASSUME NEW p \in Processes, StartStep(p) \/ IndexTrack(p) \/ Ends(p)
      PROVE  StartupTypeOK'
  <2>1. next[p] \in 1 .. 10 /\ (phase[p] \in {"down", "migrate", "create"} => next[p] \in 1 .. 9)
    BY DEF StartupInv
  <2>2. CASE Start(p)
    BY <2>2 DEF Start, Enters
  <2>3. CASE Alter(p)
    BY <2>1, <2>3 DEF Alter, Advances, Enters, There
  <2>4. CASE LookForObjects(p)
    BY <2>4 DEF LookForObjects, Enters, There
  <2>5. CASE CreateObjects(p)
    <3>1. CASE FindsDuplicate(p)
      <4>1. GoesDown(p) /\ UNCHANGED <<applied, outside>>
        BY <2>5, <3>1 DEF CreateObjects
      <4> QED
        BY <4>1 DEF GoesDown, Enters
    <3>2. CASE ~FindsDuplicate(p)
      <4>1. /\ Advances(p) /\ applied' = IF There(p) THEN applied ELSE next[p]
            /\ saw' = [saw EXCEPT ![p] = FALSE] /\ UNCHANGED <<client, outside>>
        BY <2>5, <3>2 DEF CreateObjects
      <4>2. applied' \in 0 .. 9 /\ next[p] + 1 \in 1 .. 10
        BY <2>1, <2>5, <4>1 DEF CreateObjects
      <4> QED
        BY <4>1, <4>2 DEF Advances, Enters
    <3> QED
      BY <3>1, <3>2
  <2>6. CASE HeadBucket(p)
    <3>1. PICK ph \in {"clients", "bucket"} : Enters(p, ph)
      BY <2>6 DEF HeadBucket
    <3>2. failures' \in Nat
      BY <2>6 DEF HeadBucket
    <3> QED
      BY <2>6, <3>1, <3>2 DEF HeadBucket, Enters
  <2>7. CASE CreateBucket(p)
    <3>1. CASE bucket
      <4>1. /\ GoesDown(p) /\ bucket' = TRUE
            /\ UNCHANGED <<applied, opensearch, index, losses, failures>>
        BY <2>7, <3>1 DEF CreateBucket
      <4> QED
        BY <4>1 DEF GoesDown, Enters
    <3>2. CASE ~bucket
      BY <2>7, <3>2 DEF CreateBucket, Enters
    <3> QED
      BY <3>1, <3>2
  <2>8. CASE EnsureIndex(p)
    BY <2>8 DEF EnsureIndex, AfterIndex, Enters
  <2>9. CASE IndexTrack(p)
    BY <2>9 DEF IndexTrack
  <2>10. CASE Ends(p)
    BY <2>10 DEF Ends, GoesDown, Enters
  <2>11. CASE ConnectClients(p)
    BY <2>11 DEF ConnectClients, Enters
  <2> QED
    BY <1>1, <2>2, <2>3, <2>4, <2>5, <2>6, <2>7, <2>8, <2>9, <2>10, <2>11 DEF StartStep
<1>2. CASE OpenSearchStarts
  BY <1>2 DEF OpenSearchStarts
<1>3. CASE OpenSearchLoses
  <2>1. losses' \in Nat
    BY <1>3 DEF OpenSearchLoses
  <2> QED
    BY <1>3, <2>1 DEF OpenSearchLoses
<1>4. CASE UNCHANGED startupVars
  BY <1>4 DEF startupVars
<1> QED
  BY <1>1, <1>2, <1>3, <1>4 DEF StartupNext

LEMMA StartupStep ==
  ASSUME StartupTypeOK, StartupInv, [StartupNext]_startupVars
  PROVE  StartupTypeOK' /\ StartupInv'
<1> USE NineMigrations DEF outside
<1>1. StartupTypeOK'
  BY StartupTypes
<1>2. ASSUME NEW p \in Processes, StartStep(p) \/ IndexTrack(p) \/ Ends(p)
      PROVE  StartupInv'
  <2> USE DEF StartupTypeOK
  <2>1. /\ next[p] \in 1 .. 10 /\ applied \in 0 .. 9 /\ losses \in Nat
        /\ next[p] <= applied + 1
        /\ phase[p] \in {"down", "migrate", "create"} => next[p] <= 9
        /\ phase[p] \in {"head", "bucket", "clients", "ensure", "serving"} => applied = 9
        /\ phase[p] \in {"clients", "ensure", "serving"} /\ p \in Apis => bucket
        /\ client[p] => index # "none" \/ losses > 0
        /\ index = "dynamic" => losses > 0
    BY DEF StartupInv, IndexMapped
  <2>2. CASE Start(p)
    <3>1. /\ \A q \in Processes \ {p} : phase'[q] = phase[q]
          /\ phase'[p] = "migrate" /\ next[p] <= 9
          /\ UNCHANGED <<next, client, applied, bucket, index, losses>>
      BY <2>1, <2>2 DEF Start, Enters
    <3> QED
      BY <2>1, <3>1, OthersKeep DEF IndexMapped
  <2>3. CASE Alter(p)
    BY <2>1, <2>3, OthersKeep DEF Alter, Advances, Enters, There, IndexMapped
  <2>4. CASE LookForObjects(p)
    BY <2>1, <2>4, OthersKeep DEF LookForObjects, Enters, IndexMapped
  <2>5. CASE CreateObjects(p)
    BY <2>1, <2>5, OthersKeep
       DEF CreateObjects, Advances, Enters, There, GoesDown, IndexMapped
  <2>6. CASE HeadBucket(p)
    BY <2>1, <2>6, OthersKeep DEF HeadBucket, Enters, IndexMapped
  <2>7. CASE CreateBucket(p)
    BY <2>1, <2>7, OthersKeep DEF CreateBucket, Enters, GoesDown, IndexMapped
  <2>8. CASE EnsureIndex(p)
    BY <2>1, <2>8, OthersKeep DEF EnsureIndex, AfterIndex, Enters, IndexMapped
  <2>9. CASE IndexTrack(p)
    BY <2>1, <2>9, OthersKeep DEF IndexTrack, IndexMapped
  <2>10. CASE Ends(p)
    <3>1. /\ \A q \in Processes \ {p} :
                phase'[q] = phase[q] /\ next'[q] = next[q] /\ client'[q] = client[q]
          /\ phase'[p] = "down" /\ next'[p] = 1 /\ ~client'[p]
          /\ UNCHANGED <<applied, bucket, index, losses>>
      BY <2>10 DEF Ends, GoesDown, Enters
    <3> QED
      BY <2>1, <3>1, OthersKeep DEF IndexMapped
  <2>11. CASE ConnectClients(p)
    BY <2>1, <2>11, OthersKeep DEF ConnectClients, Enters, IndexMapped
  <2> QED
    BY <1>2, <2>2, <2>3, <2>4, <2>5, <2>6, <2>7, <2>8, <2>9, <2>10, <2>11 DEF StartStep
<1>3. CASE OpenSearchStarts
  BY <1>1, <1>3 DEF OpenSearchStarts, StartupInv, IndexMapped
<1>4. CASE OpenSearchLoses
  <2>1. losses' > 0
    BY <1>4 DEF OpenSearchLoses, StartupTypeOK
  <2> QED
    BY <1>1, <1>4, <2>1 DEF OpenSearchLoses, StartupInv, IndexMapped
<1>5. CASE UNCHANGED startupVars
  BY <1>1, <1>5 DEF startupVars, StartupInv, IndexMapped
<1> QED
  BY <1>1, <1>2, <1>3, <1>4, <1>5 DEF StartupNext

LEMMA StartupInvariance == StartupSpec => [](StartupTypeOK /\ StartupInv)
<1>1. StartupTypeOK /\ StartupInv /\ [StartupNext]_startupVars =>
        (StartupTypeOK /\ StartupInv)'
  BY StartupStep
<1> QED
  BY <1>1, StartupInitially, PTL DEF StartupSpec

\* Whoever serves has the whole schema, and an API instance the bucket, however
\* many processes are started at the same time, fail and start again.
THEOREM ServingIsSafe == StartupSpec => []ServingHasSchema
<1>1. StartupInv => ServingHasSchema
  BY DEF StartupInv, ServingHasSchema
<1> QED
  BY <1>1, StartupInvariance, PTL

\* OpenSearch makes up an index of its own only after it lost the one it had.
THEOREM IndexHasMapping == StartupSpec => []IndexMapped
<1>1. StartupInv => IndexMapped
  BY DEF StartupInv
<1> QED
  BY <1>1, StartupInvariance, PTL

----------------------------------------------------------------------------
(* Paging through a playlist.                                              *)

LEMMA PagesInitially == PagesInit => PagesTypeOK /\ PagesInv
<1> SUFFICES ASSUME PagesInit PROVE PagesTypeOK /\ PagesInv
  OBVIOUS
<1>1. Cardinality(Tracks) \in Nat /\ MaxAddedAt \in Nat
  BY PagesAssumption, FS_CardinalityType
<1>2. PagesTypeOK
  <2>1. added_at \in [Tracks -> 0 .. MaxAddedAt] /\ clock \in 0 .. MaxAddedAt
    BY <1>1 DEF PagesInit
  <2>2. position \in [Tracks -> 0 .. Cardinality(Tracks)]
    BY <1>1 DEF PagesInit
  <2> QED
    BY <2>1, <2>2 DEF PagesInit, PagesTypeOK
<1>3. Listed = {}
  BY DEF PagesInit, Listed
<1> QED
  BY <1>2, <1>3 DEF PagesInit, PagesInv, OneOrder, WalkComplete

LEMMA PagesTypes ==
  ASSUME PagesTypeOK, PagesInv, [PagesNext]_pagesVars
  PROVE  PagesTypeOK'
<1> USE DEF PagesTypeOK
<1>1. Cardinality(Tracks) \in Nat /\ MaxAddedAt \in Nat
  BY PagesAssumption, FS_CardinalityType
<1>2. ASSUME NEW rows \in SUBSET Tracks, ListPage(rows)
      PROVE  cursor' \in Tracks \cup {NoTrack} /\ has_more' \in BOOLEAN /\ seen' \subseteq Tracks
  BY <1>2 DEF ListPage, NextCursor
<1>3. CASE Seed
  <2>1. position' \in [Tracks -> 1 .. Cardinality(Tracks)] /\ 1 \in 0 .. MaxAddedAt
    BY <1>1, <1>3 DEF Seed
  <2>2. position' \in [Tracks -> 0 .. Cardinality(Tracks)]
    BY <1>1, <2>1
  <2> QED
    BY <1>3, <2>1, <2>2 DEF Seed
<1>4. CASE FirstPage
  BY <1>2, <1>4 DEF FirstPage, Listed
<1>5. CASE NextPage
  BY <1>2, <1>5 DEF NextPage, Listed
<1>6. ASSUME NEW t \in Tracks, AddTrack(t)
      PROVE  PagesTypeOK'
  <2>1. CASE t \in Listed
    BY <1>6, <2>1 DEF AddTrack
  <2>2. CASE t \notin Listed
    <3>1. PICK time \in {clock, clock + 1} \cap (1 .. MaxAddedAt) :
            /\ added_at' = [added_at EXCEPT ![t] = time]
            /\ position' = [position EXCEPT ![t] = 0] /\ clock' = time
            /\ disturbed' = (disturbed \/ ~OneOrder')
            /\ UNCHANGED <<cursor, has_more, seen, steady>>
      BY <1>6, <2>2 DEF AddTrack
    <3>2. time \in 0 .. MaxAddedAt /\ 0 \in 0 .. Cardinality(Tracks)
      BY <1>1
    <3>3. /\ added_at' \in [Tracks -> 0 .. MaxAddedAt]
          /\ position' \in [Tracks -> 0 .. Cardinality(Tracks)]
      BY <3>1, <3>2
    <3> QED
      BY <3>1, <3>2, <3>3
  <2> QED
    BY <2>1, <2>2
<1>7. ASSUME NEW t \in Tracks, RemoveTrack(t)
      PROVE  PagesTypeOK'
  BY <1>1, <1>7 DEF RemoveTrack
<1>8. CASE UNCHANGED pagesVars
  BY <1>8 DEF pagesVars
<1> QED
  BY <1>3, <1>4, <1>5, <1>6, <1>7, <1>8 DEF PagesNext

\* A page ends before the rest of what was rows begins: while there is one
\* order, the rest was added later than the page's last track.
LEMMA PageLeavesLater ==
  ASSUME PagesTypeOK, NEW rows \in SUBSET Listed, ListPage(rows),
         UNCHANGED <<added_at, position>>
  PROVE  /\ IF has_more' THEN cursor' \in rows ELSE cursor' = NoTrack
         /\ \A t \in rows : \/ t \in seen'
                            \/ has_more' /\ (OneOrder => added_at[t] > added_at[cursor'])
         /\ cursor # NoTrack => seen \subseteq seen'
<1> USE DEF PagesTypeOK
<1>1. PICK page \in SUBSET rows :
        /\ \A t \in page, u \in rows \ page : ~Before(u, t)
        /\ has_more' = (rows \ page # {})
        /\ seen' = (IF cursor = NoTrack THEN {} ELSE seen) \cup page
        /\ IF rows \ page = {} THEN cursor' = NoTrack ELSE cursor' \in page
  BY DEF ListPage, NextCursor
<1>2. ASSUME NEW t \in rows \ page, OneOrder
      PROVE  added_at[t] > added_at[cursor']
  <2>1. cursor' \in page /\ ~Before(t, cursor') /\ t # cursor'
    BY <1>1
  <2>2. t \in Listed /\ cursor' \in Listed
    BY <2>1
  <2>3. added_at[t] # added_at[cursor'] /\ ~(added_at[t] < added_at[cursor'])
    BY <1>2, <2>1, <2>2 DEF OneOrder
  <2>4. added_at[t] \in Nat /\ added_at[cursor'] \in Nat
    BY <2>2 DEF Listed
  <2> QED
    BY <2>3, <2>4
<1> QED
  BY <1>1, <1>2

LEMMA PagesStep ==
  ASSUME PagesTypeOK, PagesInv, [PagesNext]_pagesVars
  PROVE  PagesTypeOK' /\ PagesInv'
<1>1. PagesTypeOK'
  BY PagesTypes
<1> USE DEF PagesTypeOK
<1>2. CASE Seed
  <2>1. Listed' = Tracks
    BY <1>2 DEF Seed, Listed
  <2> QED
    BY <1>1, <1>2, <2>1 DEF Seed, PagesInv, WalkComplete
<1>3. CASE FirstPage
  <2>1. Listed' = Listed /\ (OneOrder' <=> OneOrder)
    BY <1>3 DEF FirstPage, Listed, OneOrder, Before
  <2>2. /\ IF has_more' THEN cursor' \in Listed ELSE cursor' = NoTrack
        /\ \A t \in Listed : \/ t \in seen'
                             \/ has_more' /\ (OneOrder => added_at[t] > added_at[cursor'])
    BY <1>3, PageLeavesLater DEF FirstPage
  <2>3. Listed \subseteq Tracks /\ added_at' = added_at
        /\ steady' = Listed /\ disturbed' = ~OneOrder
    BY <1>3 DEF FirstPage, Listed
  <2> QED
    BY <1>1, <2>1, <2>2, <2>3 DEF PagesInv, WalkComplete
<1>4. CASE NextPage
  <2> DEFINE rows == IF cursor \in Listed
                      THEN {t \in Listed : added_at[t] > added_at[cursor]} ELSE {}
  <2>1. /\ has_more /\ ListPage(rows) /\ rows \subseteq Listed
        /\ UNCHANGED <<added_at, position, clock, steady, disturbed>>
    BY <1>4 DEF NextPage
  <2>2. Listed' = Listed /\ (OneOrder' <=> OneOrder)
    BY <2>1 DEF Listed, OneOrder, Before
  <2>3. cursor # NoTrack
    BY <2>1, PagesAssumption DEF PagesInv
  <2>4. /\ IF has_more' THEN cursor' \in rows ELSE cursor' = NoTrack
        /\ \A t \in rows : \/ t \in seen'
                           \/ has_more' /\ (OneOrder => added_at[t] > added_at[cursor'])
        /\ seen \subseteq seen'
    <3> HIDE DEF rows
    <3> QED
      BY <2>1, <2>3, PageLeavesLater
  <2>5. ASSUME ~disturbed, NEW t \in steady
        PROVE  t \in seen \/ t \in rows
    BY <2>1, <2>5 DEF PagesInv
  <2>6. Listed \subseteq Tracks
    BY DEF Listed
  <2> HIDE DEF rows
  <2>7. ~disturbed =>
          \A t \in steady : \/ t \in seen'
                            \/ has_more' /\ added_at[t] > added_at[cursor']
    BY <2>4, <2>5 DEF PagesInv
  <2> QED
    BY <1>1, <2>1, <2>2, <2>4, <2>6, <2>7 DEF PagesInv, WalkComplete
<1>5. ASSUME NEW t \in Tracks, AddTrack(t)
      PROVE  PagesInv'
  <2>1. CASE t \in Listed
    BY <1>5, <2>1 DEF AddTrack, PagesInv, WalkComplete, OneOrder, Listed, Before
  <2>2. CASE t \notin Listed
    <3>1. PICK time \in 1 .. MaxAddedAt :
            /\ added_at' = [added_at EXCEPT ![t] = time]
            /\ disturbed' = (disturbed \/ ~OneOrder')
            /\ UNCHANGED <<cursor, has_more, seen, steady>>
      BY <1>5, <2>2 DEF AddTrack
    <3>2. Listed \subseteq Listed'
      BY <3>1, PagesAssumption DEF Listed
    <3>3. ASSUME NEW u \in Listed PROVE added_at'[u] = added_at[u]
      BY <2>2, <3>1 DEF Listed
    <3> QED
      BY <3>1, <3>2, <3>3 DEF PagesInv, WalkComplete
  <2> QED
    BY <2>1, <2>2
<1>6. ASSUME NEW t \in Tracks, RemoveTrack(t)
      PROVE  PagesInv'
  <2>1. /\ added_at' = [added_at EXCEPT ![t] = 0] /\ steady' = steady \ {t}
        /\ disturbed' = (disturbed \/ (has_more /\ t = cursor))
        /\ UNCHANGED <<position, clock, cursor, has_more, seen>>
    BY <1>6 DEF RemoveTrack
  <2>2. Listed' = Listed \ {t}
    BY <2>1 DEF Listed
  <2>3. \A u \in Listed' : added_at'[u] = added_at[u]
    BY <2>1, <2>2 DEF Listed
  <2>4. OneOrder => OneOrder'
    BY <2>1, <2>2, <2>3 DEF OneOrder, Before
  <2> QED
    BY <2>1, <2>2, <2>3, <2>4 DEF PagesInv, WalkComplete
<1>7. CASE UNCHANGED pagesVars
  BY <1>7 DEF pagesVars, PagesInv, WalkComplete, OneOrder, Listed, Before
<1> QED
  BY <1>1, <1>2, <1>3, <1>4, <1>5, <1>6, <1>7 DEF PagesNext

\* A walk to the end has shown every track that was there all the time.
THEOREM WalkShowsAll == PagesSpec => []WalkComplete
<1>1. PagesTypeOK /\ PagesInv /\ [PagesNext]_pagesVars => (PagesTypeOK /\ PagesInv)'
  BY PagesStep
<1>2. PagesInv => WalkComplete
  BY DEF PagesInv
<1> QED
  BY <1>1, <1>2, PagesInitially, PTL DEF PagesSpec

----------------------------------------------------------------------------
(* All of them, next to each other.                                        *)

ServicesInv ==
    /\ BucketInv
    /\ LoginTypeOK /\ LoginInv
    /\ RingInv
    /\ PagesTypeOK /\ PagesInv
    /\ SearchTypeOK /\ SearchInv
    /\ StartupTypeOK /\ StartupInv
    /\ TimelineInv

LEMMA ServicesInitially == Init => ServicesInv
<1> SUFFICES ASSUME Init PROVE ServicesInv
  OBVIOUS
<1>1. BucketInv
  BY BucketInitially DEF Init
<1>2. LoginTypeOK /\ LoginInv
  BY LoginInitially DEF Init
<1>3. RingInv
  BY RingInitially DEF Init
<1>4. PagesTypeOK /\ PagesInv
  BY PagesInitially DEF Init
<1>5. SearchInv
  BY SearchInitially DEF Init
<1>6. SearchTypeOK
  <2>1. asked \in [Requests -> Queries \cup Lists]
    BY SearchAssumption DEF Init, SearchInit
  <2>2. NotCached \in [shown : SUBSET Songs, from : Sources]
    BY DEF NotCached, Sources
  <2> QED
    BY <2>1, <2>2 DEF Init, SearchInit, SearchTypeOK
<1>7. StartupTypeOK /\ StartupInv
  BY StartupInitially DEF Init
<1>8. TimelineInv
  BY TimelineInitially DEF Init
<1> QED
  BY <1>1, <1>2, <1>3, <1>4, <1>5, <1>6, <1>7, <1>8 DEF ServicesInv

LEMMA EachPartSteps ==
  ASSUME [Next]_servicesVars
  PROVE  /\ [BucketNext]_bucketVars /\ [LoginNext]_loginVars /\ [RingNext]_ringVars
         /\ [PagesNext]_pagesVars /\ [SearchNext]_searchVars
         /\ [StartupNext]_startupVars /\ [TimelineNext]_timelineVars
BY DEF Next, servicesVars

LEMMA ServicesStep == ServicesInv /\ [Next]_servicesVars => ServicesInv'
<1> SUFFICES ASSUME ServicesInv, [Next]_servicesVars PROVE ServicesInv'
  OBVIOUS
<1> USE DEF ServicesInv
<1>1. BucketInv'
  BY EachPartSteps, BucketStep
<1>2. LoginTypeOK' /\ LoginInv'
  BY EachPartSteps, LoginStep
<1>3. RingInv'
  BY EachPartSteps, RingStep
<1>4. PagesTypeOK' /\ PagesInv'
  BY EachPartSteps, PagesStep
<1>5. SearchTypeOK' /\ SearchInv'
  BY EachPartSteps, SearchStep, SearchTypes
<1>6. StartupTypeOK' /\ StartupInv'
  BY EachPartSteps, StartupStep
<1>7. TimelineInv'
  BY EachPartSteps, TimelineStep
<1> QED
  BY <1>1, <1>2, <1>3, <1>4, <1>5, <1>6, <1>7

LEMMA BucketIsTyped == BucketInv => BucketTypeOK
<1> SUFFICES ASSUME BucketInv PROVE BucketTypeOK
  OBVIOUS
<1>1. ASSUME NEW key, key = Absent \/ Written(key)
      PROVE  /\ key.last_refill \in Int /\ key.expires \in Nat
             /\ key.tokens \in Int /\ key.tokens <= Capacity
  <2>1. CASE key = Absent
    BY <2>1, BucketAssumption DEF Absent
  <2>2. CASE Written(key)
    BY <2>2, BucketAssumption DEF Written
  <2> QED
    BY <1>1, <2>1, <2>2
<1>2. (shared = Absent \/ Written(shared)) /\ (lone = Absent \/ Written(lone))
  BY DEF BucketInv, Conserves
<1> QED
  BY <1>1, <1>2 DEF BucketInv, BucketTypeOK

\* Whichever part runs, its variables keep their types.
THEOREM PartsAreTyped == Spec => []TypeOK
<1>1. ServicesInv => TypeOK
  BY BucketIsTyped DEF ServicesInv, TypeOK, RingInv, TimelineInv
<1> QED
  BY <1>1, ServicesInitially, ServicesStep, PTL DEF Spec
=============================================================================
