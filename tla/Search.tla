------------------------------- MODULE Search -------------------------------
(***************************************************************************)
(* Search and recommendations (search.go and recommendations.go in         *)
(* beatstream/internal/handler, internal/search/opensearch.go): answers    *)
(* from a cache, else from the index or the table, while the upload        *)
(* pipeline works on the tracks and indexes what it has finished.          *)
(*                                                                         *)
(* The tables change as in TrackLifecycle.  Which tracks match a query, in *)
(* which order they come and how many, is left open: a query finds some of *)
(* the tracks it can find.                                                 *)
(***************************************************************************)
EXTENDS Naturals

CONSTANTS
    Songs, Bitrates,
    Queries,       \* the keys "search:<q>"
    Lists,         \* the keys "recs:top", "recs:foryou:<u>", "recs:similar:<t>"
    Requests       \* requests that may be in flight at the same time

ASSUME SearchAssumption == Queries \cap Lists = {} /\ Queries \cup Lists # {}

VARIABLES
    state, variants,  \* tracks.status and track_formats
    indexed,          \* the documents in OpenSearch
    toIndex,          \* tracks whose worker has set ready and not yet indexed
    answers,          \* the cache: what is shown under a key, or NotCached
    at,               \* where a request is
    asked,            \* the key it asks for
    found             \* what it has found so far

tables == <<state, variants>>
requestVars == <<at, asked, found>>
searchVars == <<tables, indexed, toIndex, answers, requestVars>>

Pipeline == INSTANCE TrackLifecycle WITH
              Tracks <- Songs, BitrateSet <- Bitrates,
              status <- state, formats <- variants

Ready == {t \in Songs : state[t] = "ready"}
Rows == {t \in Songs : state[t] # "none"}

\* An answer: the tracks it shows, and where they were looked up.
NotCached == [shown |-> {}, from |-> "nowhere"]
Sources == {"nowhere", "index", "tsvector", "table"}

SearchTypeOK ==
    /\ indexed \subseteq Songs /\ toIndex \subseteq Songs
    /\ answers \in [Queries \cup Lists -> [shown : SUBSET Songs, from : Sources]]
    /\ at \in [Requests -> {"idle", "hits", "store"}]
    /\ asked \in [Requests -> Queries \cup Lists]
    /\ found \in [Requests -> [shown : SUBSET Songs, from : Sources]]

SearchInit ==
    /\ Pipeline!Init
    /\ indexed = {} /\ toIndex = {}
    /\ answers = [k \in Queries \cup Lists |-> NotCached]
    /\ at = [r \in Requests |-> "idle"]
    /\ asked \in [Requests -> {CHOOSE k \in Queries \cup Lists : TRUE}]
    /\ found = [r \in Requests |-> NotCached]

Finds(r, songs, source) == found' = [found EXCEPT ![r] = [shown |-> songs, from |-> source]]
Reaches(r, place) == at' = [at EXCEPT ![r] = place]

\* What OpenSearch may answer: the best documents for the words of a query, and
\* documents whose title or artist begins with a prefix, whatever their status.
Hits == SUBSET indexed
Suggestions == SUBSET indexed

\* A miss: a hit is answered with what is cached and changes nothing.  A query
\* goes to OpenSearch, whose hits are among the documents; without a client,
\* when OpenSearch fails, or when it finds nothing, the table is searched, and
\* there no status is asked for.
Query(r, q) ==
    /\ at[r] = "idle" /\ answers[q] = NotCached
    /\ asked' = [asked EXCEPT ![r] = q]
    /\ \/ \E hits \in Hits \ {{}} :
            Finds(r, hits, "index") /\ Reaches(r, "hits")
       \/ \E rows \in SUBSET Rows :
            Finds(r, rows, "tsvector") /\ Reaches(r, "store")
    /\ UNCHANGED <<tables, indexed, toIndex, answers>>

\* The rows of the hits, id = ANY($1); if that fails the table is searched.
FetchHits(r) ==
    /\ at[r] = "hits" /\ Reaches(r, "store")
    /\ \/ Finds(r, found[r].shown \cap Rows, "index")
       \/ \E rows \in SUBSET Rows : Finds(r, rows, "tsvector")
    /\ UNCHANGED <<tables, indexed, toIndex, answers, asked>>

\* Mutant: the status is forgotten in one of the queries.
RecommendedAny == Rows

Recommended == Ready

\* TopTracks, ForYou and Similar: one query, status = 'ready'.
List(r, k) ==
    /\ at[r] = "idle" /\ answers[k] = NotCached
    /\ asked' = [asked EXCEPT ![r] = k]
    /\ \E rows \in SUBSET Recommended : Finds(r, rows, "table")
    /\ Reaches(r, "store")
    /\ UNCHANGED <<tables, indexed, toIndex, answers>>

\* A Set that fails is ignored; a query that fails is answered with 500.
Answer(r) ==
    /\ at[r] = "store" /\ Reaches(r, "idle")
    /\ answers' \in {answers, [answers EXCEPT ![asked[r]] = found[r]]}
    /\ Finds(r, {}, "nowhere")
    /\ UNCHANGED <<tables, indexed, toIndex, asked>>

\* A key is there for a minute to an hour.
Evict(k) ==
    /\ answers[k] # NotCached
    /\ answers' = [answers EXCEPT ![k] = NotCached]
    /\ UNCHANGED <<tables, indexed, toIndex, requestVars>>

\* Mutant: the worker indexes what it has begun with.
FinishedEarly == {t \in Songs : state[t] = "pending" /\ state'[t] = "processing"}

Finished == {t \in Songs : state[t] = "processing" /\ state'[t] = "ready"}

\* The pipeline; a worker that has set a track ready goes on to index it.
Work ==
    /\ Pipeline!Next
    /\ toIndex' = toIndex \cup Finished
    /\ UNCHANGED <<indexed, answers, requestVars>>

\* The document is put, or the call fails and is only logged.
IndexSong(t) ==
    /\ t \in toIndex
    /\ toIndex' = toIndex \ {t}
    /\ indexed' \in {indexed, indexed \cup {t}}
    /\ UNCHANGED <<tables, answers, requestVars>>

SearchNext ==
    \/ Work \/ \E t \in Songs : IndexSong(t)
    \/ \E k \in Queries \cup Lists : Evict(k)
    \/ \E r \in Requests :
        \/ \E q \in Queries : Query(r, q)
        \/ \E k \in Lists : List(r, k)
        \/ FetchHits(r) \/ Answer(r)

SearchSpec == SearchInit /\ [][SearchNext]_searchVars

----------------------------------------------------------------------------

\* What is recommended, cached for up to an hour, and what a search found in
\* the index can be played, although the index and the caches are written after
\* the table by calls that may be late: only the search in the table shows
\* tracks that are not ready (search.go:85-91), and Autocomplete, which asks for
\* no status, suggests titles of ready tracks only (opensearch.go:167-179).
OffersPlayable ==
    /\ \A titles \in Suggestions : titles \subseteq Ready
    /\ \A k \in Queries \cup Lists :
        answers[k].from # "tsvector" => answers[k].shown \subseteq Ready
=============================================================================
