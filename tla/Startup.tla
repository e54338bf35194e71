------------------------------ MODULE Startup ------------------------------
(***************************************************************************)
(* The start of the processes (main in beatstream/cmd/api and cmd/worker,  *)
(* db.Migrate, EnsureBucket, EnsureIndex): several of them run the same     *)
(* migrations on one database at the same time, create the bucket and the  *)
(* search index, and are restarted by the orchestrator when they fail.     *)
(*                                                                         *)
(* A migration is one Exec of several statements, one transaction in       *)
(* PostgreSQL.  CREATE ... IF NOT EXISTS looks first and creates then: if   *)
(* another transaction has created the object in between, it fails with a  *)
(* duplicate.  A migration that starts with ALTER TABLE takes the table's  *)
(* lock before it looks.                                                   *)
(***************************************************************************)
EXTENDS Naturals, Sequences

CONSTANTS
    Apis,         \* instances of cmd/api
    Indexers,     \* instances of cmd/worker
    MaxLosses,    \* bound: how often OpenSearch comes back without its data
    MaxFailures   \* bound: processes that end and calls that fail

ASSUME StartupAssumption ==
    /\ Apis \cap Indexers = {}
    /\ MaxLosses \in Nat /\ MaxFailures \in Nat

Processes == Apis \cup Indexers

\* How each of the migrations begins.
Migrations ==
    << "create", "create", "create",  \* tracks, playlists, play_events
       "alter",                       \* tracks.status
       "create", "create",            \* users, audit_logs
       "alter",                       \* users.role and others
       "create", "create" >>          \* favorites, track_formats

VARIABLES
    phase,      \* what a process does next
    next,       \* the migration it is at
    saw,        \* whether the objects of that migration were there
    client,     \* osClient: whether it is set
    applied,    \* the migrations that are in the database, a prefix
    bucket,     \* whether the bucket exists
    opensearch, \* whether OpenSearch answers
    index,      \* its index: none, mapped by EnsureIndex, or made up
    losses, failures

startupVars ==
    <<phase, next, saw, client, applied, bucket, opensearch, index, losses, failures>>
outside == <<bucket, opensearch, index, losses, failures>>

StartupTypeOK ==
    /\ phase \in [Processes -> {"down", "migrate", "create", "head", "bucket",
                                "clients", "ensure", "serving"}]
    /\ next \in [Processes -> 1 .. Len(Migrations) + 1]
    /\ saw \in [Processes -> BOOLEAN] /\ client \in [Processes -> BOOLEAN]
    /\ applied \in 0 .. Len(Migrations)
    /\ bucket \in BOOLEAN /\ opensearch \in BOOLEAN
    /\ index \in {"none", "mapped", "dynamic"}
    /\ losses \in Nat /\ failures \in Nat

StartupInit ==
    /\ phase = [p \in Processes |-> "down"]
    /\ next = [p \in Processes |-> 1]
    /\ saw = [p \in Processes |-> FALSE] /\ client = [p \in Processes |-> FALSE]
    /\ applied = 0 /\ bucket = FALSE /\ opensearch = FALSE /\ index = "none"
    /\ losses = 0 /\ failures = 0

Enters(p, ph) == phase' = [phase EXCEPT ![p] = ph]

\* A process starts and connects to the database; where that fails it is down
\* as before.
Start(p) ==
    /\ phase[p] = "down" /\ Enters(p, "migrate")
    /\ UNCHANGED <<next, saw, client, applied, outside>>

\* Mutant: the API goes on without a bucket.
AdvancesPastBucket(p) ==
    /\ next' = [next EXCEPT ![p] = @ + 1]
    /\ Enters(p, IF next[p] < Len(Migrations) THEN "migrate"
                 ELSE IF p \in Apis THEN "clients" ELSE "ensure")

\* To the next migration, or out of db.Migrate: only the API has a bucket to
\* look for.
Advances(p) ==
    /\ next' = [next EXCEPT ![p] = @ + 1]
    /\ Enters(p, IF next[p] < Len(Migrations) THEN "migrate"
                 ELSE IF p \in Apis THEN "head" ELSE "ensure")

\* The process is gone with all it knew: log.Fatal, a signal, a crash.
GoesDown(p) ==
    /\ Enters(p, "down")
    /\ next' = [next EXCEPT ![p] = 1]
    /\ saw' = [saw EXCEPT ![p] = FALSE]
    /\ client' = [client EXCEPT ![p] = FALSE]

There(p) == next[p] <= applied

Alter(p) ==
    /\ phase[p] = "migrate" /\ Migrations[next[p]] = "alter"
    /\ applied' = IF There(p) THEN applied ELSE next[p]
    /\ Advances(p)
    /\ UNCHANGED <<saw, client, outside>>

LookForObjects(p) ==
    /\ phase[p] = "migrate" /\ Migrations[next[p]] = "create"
    /\ saw' = [saw EXCEPT ![p] = There(p)]
    /\ Enters(p, "create")
    /\ UNCHANGED <<next, client, applied, outside>>

\* Mutant: CREATE without IF NOT EXISTS.
FindsDuplicateAlways(p) == There(p)

FindsDuplicate(p) == There(p) /\ ~saw[p]

CreateObjects(p) ==
    /\ phase[p] = "create"
    /\ IF FindsDuplicate(p) THEN GoesDown(p) /\ UNCHANGED applied
       ELSE /\ applied' = IF There(p) THEN applied ELSE next[p]
            /\ Advances(p)
            /\ saw' = [saw EXCEPT ![p] = FALSE]
            /\ UNCHANGED client
    /\ UNCHANGED outside

\* Any error of the call counts as the bucket's absence.
HeadBucket(p) ==
    /\ phase[p] = "head"
    /\ \/ Enters(p, IF bucket THEN "clients" ELSE "bucket") /\ UNCHANGED failures
       \/ /\ bucket /\ failures < MaxFailures
          /\ Enters(p, "bucket") /\ failures' = failures + 1
    /\ UNCHANGED <<next, saw, client, applied, bucket, opensearch, index, losses>>

\* The server refuses a bucket that exists: somebody has created it in between,
\* or HeadBucket failed for another reason.
CreateBucket(p) ==
    /\ phase[p] = "bucket"
    /\ IF bucket THEN GoesDown(p)
       ELSE Enters(p, "clients") /\ UNCHANGED <<next, saw, client>>
    /\ bucket' = TRUE
    /\ UNCHANGED <<applied, opensearch, index, losses, failures>>

\* The connections to Redis and Kafka: the API makes them before it looks for
\* the index, the worker, which has only Kafka's, after it.
ConnectClients(p) ==
    /\ phase[p] = "clients"
    /\ Enters(p, IF p \in Apis THEN "ensure" ELSE "serving")
    /\ UNCHANGED <<next, saw, client, applied, outside>>

AfterIndex(p) == Enters(p, IF p \in Apis THEN "serving" ELSE "clients")

\* Mutant: the client is kept when EnsureIndex has failed.
EnsureIndexKeepingClient(p) ==
    /\ phase[p] = "ensure" /\ AfterIndex(p)
    /\ client' = [client EXCEPT ![p] = TRUE]
    /\ index' = IF opensearch /\ index = "none" THEN "mapped" ELSE index
    /\ UNCHANGED <<next, saw, applied, bucket, opensearch, losses, failures>>

\* An index that exists is not an error, however it came to be.
EnsureIndex(p) ==
    /\ phase[p] = "ensure" /\ AfterIndex(p)
    /\ client' = [client EXCEPT ![p] = opensearch]
    /\ index' = IF opensearch /\ index = "none" THEN "mapped" ELSE index
    /\ UNCHANGED <<next, saw, applied, bucket, opensearch, losses, failures>>

\* The upload worker's PUT of a document makes the index it needs.
IndexTrack(p) ==
    /\ p \in Indexers /\ phase[p] = "serving" /\ client[p] /\ opensearch
    /\ index' = IF index = "none" THEN "dynamic" ELSE index
    /\ UNCHANGED <<phase, next, saw, client, applied, bucket, opensearch, losses, failures>>

OpenSearchStarts ==
    /\ ~opensearch /\ opensearch' = TRUE
    /\ UNCHANGED <<phase, next, saw, client, applied, bucket, index, losses, failures>>

OpenSearchLoses ==
    /\ opensearch /\ losses < MaxLosses
    /\ opensearch' = FALSE /\ index' = "none" /\ losses' = losses + 1
    /\ UNCHANGED <<phase, next, saw, client, applied, bucket, failures>>

\* SIGTERM, a crash at any point, or log.Fatal: a call of a migration, to the
\* storage, to Redis or to Kafka has failed.
Ends(p) ==
    /\ phase[p] # "down" /\ failures < MaxFailures
    /\ GoesDown(p) /\ failures' = failures + 1
    /\ UNCHANGED <<applied, bucket, opensearch, index, losses>>

StartStep(p) ==
    \/ Start(p) \/ Alter(p) \/ LookForObjects(p) \/ CreateObjects(p)
    \/ HeadBucket(p) \/ CreateBucket(p) \/ ConnectClients(p) \/ EnsureIndex(p)

StartupNext ==
    \/ \E p \in Processes : StartStep(p) \/ IndexTrack(p) \/ Ends(p)
    \/ OpenSearchStarts \/ OpenSearchLoses

StartupFairness == \A p \in Processes : WF_startupVars(StartStep(p))

StartupSpec == StartupInit /\ [][StartupNext]_startupVars /\ StartupFairness

----------------------------------------------------------------------------

\* A process that serves finds every table and column, and an API instance the
\* bucket, whoever has made them and however the starts were interleaved
\* (postgres.go:44-48, cmd/api/main.go:61-86).
ServingHasSchema ==
    \A p \in Processes : phase[p] = "serving" =>
        applied = Len(Migrations) /\ (p \in Apis => bucket)

\* The failures of concurrent starts end: each is somebody else's progress, and
\* once no more calls fail on their own every process comes to serve (restart:
\* unless-stopped).
EveryoneServes == <>[](\A p \in Processes : phase[p] = "serving")

\* No document is put into an index that OpenSearch made up by itself, without
\* the suggest field that Autocomplete needs, unless OpenSearch lost the index
\* that was there: a process whose EnsureIndex failed indexes nothing
\* (cmd/worker/main.go:50-57, upload.go:139).
IndexMapped == index = "dynamic" => losses > 0

\* The inductive invariant behind both.  The migrations a process has left
\* behind are in the database, its own or somebody else's; past db.Migrate all
\* of them are.  A client is held only by a process that saw an index, so
\* that index is there unless OpenSearch lost it.
StartupInv ==
    /\ \A p \in Processes :
        /\ next[p] <= applied + 1
        /\ phase[p] \in {"down", "migrate", "create"} => next[p] <= Len(Migrations)
        /\ phase[p] \in {"head", "bucket", "clients", "ensure", "serving"} =>
               applied = Len(Migrations)
        /\ phase[p] \in {"clients", "ensure", "serving"} /\ p \in Apis => bucket
        /\ client[p] => index # "none" \/ losses > 0
    /\ IndexMapped
=============================================================================
