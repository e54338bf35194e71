# Verification of beatstream

`beatstream` (under `src/beatstream/`) is a music streaming service: a Go API,
a Go worker fed by a Kafka-compatible broker, PostgreSQL, Redis, S3 and
OpenSearch, and a Next.js front end. This directory holds TLA+ models of its
stateful parts, the TLC configurations that check them, and proofs that the
TLA+ proof system (TLAPS) checks. Paths below are relative to
`src/beatstream/` unless they start with `docs/` (`src/docs/`).

    tlc -workers 2 -config UploadPipeline_single.cfg MCUploadPipeline
    tlapm UploadPipelineProofs.tla

## 1. Inventory

### Components, their state and operations

| Component | State | Operations | What makes it hard |
|---|---|---|---|
| Queue (`internal/queue/kafka.go`) | log, committed offset, assignment; per member position, batch, marks | `Publish`, `Consume` (poll, handler, mark), background commit | members come and go in the middle of a batch; a commit is a prefix, handlers succeed record by record |
| Worker process (`cmd/worker/main.go`) | one context for two consumers | start, SIGTERM, exit, crash, restart | the exit waits for the analytics loop only |
| Upload API (`Tracks.Create`, `internal/handler/tracks.go`) | object in S3, row in `tracks`, record in the topic | three writes to three systems, no transaction over them | each may fail, and a failed one may have had its effect |
| Upload worker (`internal/worker/upload.go`, `transcode.go`) | `tracks.status`, `track_formats`, variants in S3, the index | check, claim, prepare, encode and insert per bitrate, finish, index | redelivery, two workers on one track, shutdown between any two calls |
| Play events (`Tracks.Stream`, `internal/worker/analytics.go`) | events in flight, `play_events`, `tracks.play_count` | fire-and-forget publish; one transaction per record | over-counting, row locks, ambiguous commits |
| Cached reads (`Tracks.Get`, `internal/cache/redis.go`) | one Redis key per track, one hour | lookup, two queries, store | the row changes between the four calls |
| Upload form (`web/components/UploadForm.tsx`) | five kinds of screen, an interval | submit, poll, reset | callbacks outlive the state they were started in |
| Rate limiters (`internal/middleware/ratelimit.go`) | token bucket and login counter in Redis | one Lua script; INCR, EXPIRE, TTL | several clocks; two calls that should be one |
| Audit log (`internal/middleware/audit.go`) | `audit_logs` | asynchronous insert after the handler | loss, order against hard deletes, recycled request contexts |
| Accounts (`internal/handler/auth.go`, `admin.go`, `internal/middleware/jwt.go`) | `users`, tokens | register, login, soft delete, hard delete, export | tokens outlive the account |
| Library (`playlists.go`, `favorites.go`) | playlists and their tracks, favorites | create, add, remove, page, delete | ownership, cursors over a changing list |
| Front end state (`web/context/*.tsx`, `web/app/search/page.tsx`) | favorites, player queue, search results | optimistic toggles, next/prev/ended, debounced search | answers out of order |
| Search and recommendations (`internal/handler/search.go`, `recommendations.go`, `internal/search/opensearch.go`) | the index, cached answers | search, suggest, recommend; index a document | index and caches are written after the table, by calls that may be late |
| Startup (`cmd/*/main.go`, `internal/db/postgres.go`, `internal/storage/s3.go`) | schema, bucket, index | nine migrations, create bucket, create index | several processes do it at once |
| Stand-alone programs (`src/interview-prep/`) | hash ring, bucket, timelines, codes | small data structures | collisions, duplicates |

Interactions: the API calls PostgreSQL, S3, Redis and OpenSearch synchronously
and publishes to two topics (`track.uploads`, `play.events`, one partition
each). The worker process runs one consumer per topic under one cancelled
context. The front end polls the API. There are no locks in memory; all
concurrency is between processes, goroutines that outlive a request, and
callbacks of the browser.

`PROJECT.json` lists every component with its status, and the hazards, each at
the line where it bites with the properties that are aimed at it.

### What each part promises

* The group never passes a record over unseen, and keeps every record within
  reach of the member that has the partition until its handler has run. Its commit
  goes back only where a rebalance happens.
* A track that is ready has all its formats and their objects; a row never
  points to an object that is not there; readers see a status move only along
  none, pending, processing, then ready or error.
* An upload answered with 202 is not lost before it is claimed, and ends ready
  or in error.
* The play counter agrees with the table of play events; a play is counted at
  least once and over-counted only by a repeated publish or a disruption.
* The cache holds final rows only; the form shows *ready* only for a ready
  track and learns of the end of the one it polls.
* A limiter lets through no more than the bucket, the time and the named faults
  allow, and a lockout ends.
* An audit row names who acted and is never changed but by the hard delete of
  its user; only admins delete users; favorites have owners; who creates a
  playlist can delete it.
* What is recommended, suggested or found in the index can be played.
* Whoever serves has its schema and its bucket, however the starts interleave,
  and in the end everybody serves.
* A walk over the pages of a playlist misses no track that was there all the
  time, but for two named cases.
* The ring finds a member for every key and moves few keys; a timeline is the
  newest of what was delivered to its reader.

## 2. Modules

| Module | Models | Uses |
|---|---|---|
| `ConsumerGroup` | one partition, its consumer group, `Consume`, the worker process | |
| `UploadPipeline` | `Tracks.Create` and `UploadWorker.process` as the handler of the group | extends `ConsumerGroup` |
| `TrackLifecycle` | abstract: what readers of `tracks` are promised | instantiated by `UploadPipeline`, `TrackReads` and `Search` |
| `PlayAnalytics` | `Tracks.Stream`'s goroutine and `AnalyticsWorker.record` | extends `ConsumerGroup` |
| `TrackReads` | `Tracks.Get` over `TrackLifecycle` | instantiates `TrackLifecycle` |
| `UploadForm` | `UploadForm.tsx` polling through `TrackReads` | extends `TrackReads` |
| `TokenBucket` | the Lua script of `StreamRateLimit` beside that of `interview-prep/rate-limiter` | |
| `LoginLimit` | `LoginRateLimit`: INCR and EXPIRE as two calls | |
| `Accounts` | the writing requests of accounts, admins, playlists and favorites, tokens, and the audit log | |
| `PlaylistPages` | `AddTrack`, `RemoveTrack`, `ListTracks` and a client that follows the cursor | |
| `Search` | search, autocomplete and recommendations over cache, index and table | instantiates `TrackLifecycle` |
| `Startup` | `main`, `db.Migrate`, `EnsureBucket`, `EnsureIndex` of several processes | |
| `HashRing` | `interview-prep/consistent-hashing` | |
| `Timeline` | `interview-prep/twitter-timeline`, fan-out on write | instantiates `Deliveries` |
| `Deliveries` | abstract: a timeline as the newest of all that was delivered | |
| `MCServices` | the seven parts that share no state, one of them running | extends them |
| `MC*` | constants and symmetry for TLC | |
| `RateLimitProofs` | theorems about `TokenBucket` and `LoginLimit` | extends them and `TLAPS` |
| `InterviewPrepProofs` | theorems about `HashRing` and `Timeline`, and the lemmas on recursion | extends them and `TLAPS` |
| `ServicesProofs` | theorems about `Search`, `Startup`, `PlaylistPages` and the whole of `MCServices` | extends it and the two above |
| the other `*Proofs` | theorems about the component in their name | extend it and `TLAPS` |

### ConsumerGroup

`log`, `committed` and `owner` are the broker's. `pos`, `at`, `upto`, `marked`
and `dirty` are a client's: where it fetches next, the record whose handler runs,
the end of the batch that `EachRecord` iterates over, the highest mark, and
whether that is still to be committed.
`Poll`, `ReturnsNil` and `ReturnsErr` are the loop of `kafka.go:118-136`.
`AutoCommit` is what `kgo.AutoCommitMarks()` does in the background. `Assign`,
`Revoke` and `Lose` are the broker's and the client library's part, taken from
how the code configures them: no `BlockRebalanceOnPoll`, so a rebalance can
happen inside a handler; a revoked member commits its marks, one that missed
its session timeout does not (both `Forget` their marks). The member goes on with the
batch it holds, and neither `Mark` nor `AutoCommit` asks whose the partition is,
since the code sets no callback for its loss: the broker takes the commit of any
live member, so that the group can be moved back. `Stop` is SIGTERM, `Exit` the end of `main` with
the deferred `Close`, `Crash` anything harder, `Restart` the orchestrator.
`attempted` and `done` are history variables.

After a cancellation the loop ends at its next poll, and the handlers of the
rest of the batch fail at their first query: `NextRecord` therefore ends the
batch with the record in hand.

### UploadPipeline

One action per call to another system, with the local code around it: what a
crash, a shutdown or another worker can come between. `request` is how far the
HTTP request got. `pc` and `bit` are the place in `process()`. Each call has
three outcomes where the code can meet them: it works; it fails without an
effect; it fails after it had its effect. `Faults` chooses which classes of
call may fail by themselves; under a cancelled context every call may fail.
`Claim` keeps what the code does: nobody looks at the number of rows changed.
`Finish` and `MarkError` are unconditional UPDATEs, as in the code.

### TrackLifecycle

A track is created pending, claimed once, gains formats only while it is
processing, and ends ready with all of them or in error. `UploadPipeline`
implements it (`LifecycleSpec`, the refinement being the identity on `status`
and `formats`) as long as no track is processed by two workers at once.

### PlayAnalytics

`record()` statement by statement. An open transaction is `step` and
`newCount`: what it will write to `play_count` when it commits. The UPDATE
waits while another transaction holds the row (`RowLocked`). A `Commit` cut off
by a shutdown may have been made. `counted` is a history variable: how often
the play of a record was committed. Here `Exit` waits for the handler, since
`main` waits for this loop; `UploadPipeline` has no such guard.

### TrackReads and UploadForm

`Tracks.Get` is four calls. `row` is what a read has in hand; the key's hour is
abstracted to `Expire` at any time. The pipeline appears as `TrackLifecycle`.
The form's callbacks are the reads: `Tick` starts one for the track the form
polls, and `Answer` handles whatever comes back, whatever the form shows by
then, since `clearInterval` does not recall a request under way.

### TokenBucket and LoginLimit

Tokens are counted in parts, of which one comes back per tick and a request takes
`Cost`: with more than one part to a token a denial can meet a fraction of one,
which the stream limit's script writes back with the new time and the stand-alone
script does not. A script is atomic in
Redis, but it is given the time of its caller: `Ask(stamp)` takes any stamp up
to `MaxLag` behind. `shared` is the key of the stream limit, `lone` that of the
stand-alone script; both get the same requests. `spent`, `lost` and `back` are
history: what was let through, losses of the keys, and by how much the stamps
went back. The expiry of a key is part of `Stored` and `Found`. Left out are the
requests that the middleware lets through without the script's answer: those with
X-User-ID (`ratelimit.go:113-117`) and those that find Redis unavailable (131-136).

In `LoginLimit` an attempt is `Incr`, and `Expire` by whoever saw the count 1.
`IncrTwice` is the client library's retry of the one; `Sent` lets it send the
other again, up to `MaxSends` times, and every one sets the full window.
`ExpireLost` is a process that ends between the two calls or an EXPIRE that fails:
its error is dropped. `recent`
holds the ages of the attempts let through, so that time need not be bounded.

### Accounts

Each handler is one statement and one action. A token is its claims: user and
role as they were when it was signed. `RequireRole` and `Refers` (the foreign
keys) are operators of their own. A playlist is its `owner_id`, which
`CreatePlaylist` leaves empty and `DeletePlaylist` asks for, and as history who
created it and whether that user asked for its deletion. `fits` is whether every
column of the audit row takes what the request brought (a UUID as the path's
`:id`, an address for the INET column, valid UTF-8). `Audited` appends to
`log` the request whose audit row is to be inserted; the goroutine of
`AuditLog` is `Insert`, `InsertFails` or `ProcessEnds` at any time later. The
order of `log` is that of the requests, not of the rows.

### PlaylistPages

`Before` is `ORDER BY position, added_at`, and `NextPage` selects by `added_at`
only, as the code does. `steady` is a history variable: the tracks that were in
the list ever since the first page. `disturbed` records the two cases in which
the code does skip tracks: the cursor's track was removed, or the two orders
differ (seeded positions, or tracks with the same time).

### Search

A request is at most three steps: `Query` or `List`, `FetchHits`, `Answer`. What
matches, in which order and how many, is left open. `Work` is a step of
`TrackLifecycle`; a worker that has set a track ready has it in `toIndex` until
`IndexSong`. The source of an answer is kept, since the fallback to the table
asks for no status.

### Startup

A migration is one transaction: `LookForObjects` then `CreateObjects` for those
that begin with CREATE ... IF NOT EXISTS, which fails with a duplicate if
another transaction has created the object in between; `Alter` for those that
begin with ALTER TABLE, which takes the lock first. `EnsureBucket` is two calls,
and any error of the first leads to the second. `ConnectClients` is Redis and
Kafka; `Ends` is a signal, a crash, or the `log.Fatal` after any call that fails,
which `failures` bounds together. A duplicate is not counted: it needs another
process. A failed connection to the database leaves a process where it was, down.
`index` tells the mapped index from one that OpenSearch made up for a document.

### HashRing, Timeline and Deliveries

The hashes of a node's points are chosen when it is first named, by `Add` or by
`Remove`, and may collide. Every method of the timeline store holds its mutex, so
each is one step. `Deliveries` keeps every post with those it was delivered to and
takes the newest `Cap` at the end; `Timeline` pushes to one list after the other
(`Pushes`) and cuts each at every push, and implements it. A post is delivered to
those who follow when it is made, once per call to `Follow`: this is not the fan-out
on read that the program's output speaks of, where who follows later would see
earlier posts. Both loops are recursive functions, so that the refinement can be
proved.

## 3. Runs

Every property of a passing run has a mutant: an operator beside the original
that changes it the way a plausible bug would, with which TLC finds the
property violated.

| Run | Instance | Shows |
|---|---|---|
| `group_skips` | 2 workers, handlers fail at will | **violation**: a success after a failure commits past the failure |
| `upload_all` | 2 workers, 1 upload, 3 bitrates, log of 2, 3 disruptions, all faults | types, ready is complete, rows have objects, no record passed over, statuses go forward |
| `upload_single` | 2 workers, 2 uploads, log of 3 (one duplicate), 2 disruptions (crash, stop), media, kafka and api faults | accepted is not lost, index agrees, claims exclusive, commits go forward, one stranded track per disruption at most, refinement of `TrackLifecycle` |
| `upload_live` | 2 workers, 2 uploads, 2 rebalances, media faults | accepted uploads end, and until they are claimed are in reach of the worker with the partition |
| `upload_flip` | 2 workers, 1 rebalance, media faults | **violation**: two workers pass the claim, and a ready track becomes *error* |
| `upload_stuck` | 1 crash | **violation**: a track stays in processing |
| `plays` | 3 workers, 1 track, 2 records, 2 disruptions, lost and repeated publishes | counter, over-count bound per play, handlers overlap once per disruption at most, what is committed was handled, records in reach until handled, every play counted |
| `form` | 2 tracks, 2 reads in flight, 2 bitrates, cache, row and network faults | cache complete, reads true, form true, the end of a track is noticed |
| `form_late` | 2 tracks, 2 reads, network faults | **violation**: a late failure replaces *ready* |
| `api` | 2 users, 2 addresses, 4 requests, 1 playlist, lost rows | audit rows name the actor and stay, only who was an admin deletes |
| `playlists` | the same without lost rows | **violation**: a playlist outlives its owner's DELETE |
| `services` | the parts of `MCServices`, see below | limits hold, lockouts end, ring, timelines, pages, search and startup as promised |

### Bounds

`MaxLog` and `MaxDisruptions` bound the records ever appended and the crashes,
shutdowns and rebalances. Two workers are enough for every two-party race over a
track; the bound on overlapping handlers needs more workers than one disruption
allows, so `plays` has three. Two disruptions let a
partition go away and come back; the three records of `upload_single` let a batch
hold a record before and one after the one in question, and the two of `plays` are
two plays, or one that a retry has published twice. Two bitrates give the loop a first
and a last pass (`upload_all` has the code's three). In `PlayAnalytics` one
event at a time waits to be published; the order of publishes is still free,
because records of one track are alike. Four requests register two users, make
one an admin's victim and leave one more to race with it; `Promote`, `Demote`
and `Expire` are not counted. Symmetry is used only in runs without liveness
properties. `CHECK_DEADLOCK FALSE` everywhere: a system whose log is
full and whose work is done stops.

In `services` the initial state chooses one part, and the others rest, so the
states of the parts add up instead of multiplying.

| Part | Instance | Why it is enough |
|---|---|---|
| bucket | 2 tokens of 2 parts, lag 1, 12 ticks, 3 units back, 1 loss of the keys | denials with half a token left; the key expires after 8 ticks: there is time to empty, expire and fill again |
| login | 2 attempts in flight, limit 2, window of 3, commands sent twice, 1 lost expiry, 2 denials counted | two lives of a key fit into the ages kept; time is not bounded |
| ring | 3 nodes, 5 positions, up to 2 points each | all ways in which points of two nodes interleave or collide, a removal of a node that was never added among them |
| timeline | 3 users, lists of 2, 3 posts, 3 follows | a list overflows, a user follows twice, follows between posts |
| pages | 3 tracks, pages of 1, 4 times | a middle page, and a track removed and added again |
| search | 2 songs, 1 query, 1 list, 2 requests | two requests write one key in either order |
| startup | 2 API instances, 1 worker, 1 process that ends or call that fails, 1 loss of the index | each pair of processes races on each migration, the bucket and the index |

### Why some faults are left out of some runs

* `upload_single` has no rebalance and no `db` fault. With a rebalance inside
  the handler `ClaimExclusive` fails, and with it `LifecycleSpec` and
  `IndexedReady` (`upload_flip` shows the root). A `db` fault is an error
  return followed by a later record's success, the loss of `group_skips`, and
  breaks `AcceptedNotLost`; an UPDATE to *ready* whose answer is lost is followed
  by `markError`, and breaks `LifecycleSpec`. The claim and the index hold with
  `db` faults as well, which is proved (section 4).
* `upload_live` has no process death: `upload_stuck` shows what that does.
* `services` lets every fault happen that the modules have; where the code does
  lose something, the property says which history variable must have moved
  (`dropped`, `back`, `lost`, `disturbed`, `losses`).
* `plays` has no `db` fault for the same reason as above (handlers that fail by
  themselves are those of `group_skips`); but for `CommittedDone` its safety
  properties hold with one as well.
* `form` has no `formats` fault: a failing query for the formats caches
  a ready track without them, and breaks `CachedComplete`.
* `form`, `services` (search) and the properties about *ready* tracks elsewhere rest
  on `TrackLifecycle`, in which ready is final; the pipeline implements it without
  rebalances only, and `upload_flip` shows what happens with one. Rows that were in
  the table before the column `status` existed count as ready without formats
  (`postgres.go`, migration 004) and are not in the models.

### Fairness

Weak fairness of what the code schedules by itself: a handler runs on, a
request runs on, the loop polls, the client commits, the broker assigns, a
process told to stop ends, the orchestrator restarts it (`restart:
unless-stopped`, a Deployment with one replica), the browser's interval fires.
Nothing is assumed of users, of faults, or of
which outcome a call has: a call that may fail may fail for ever, and the
disruptions are bounded by `MaxDisruptions`. In `UploadForm` nothing is assumed of
the pipeline either: an upload whose event was not published or whose worker died
has no end, and `EndIsNoticed` promises something only for tracks that have one. In
`LoginLimit` time
passes and the request that saw 1 goes on to EXPIRE; in `Startup` a process goes
on with its start and is started again. `MCServices` states both for the part
that runs; nothing is assumed of crashes, of OpenSearch or of who asks.

### Findings

* A failed record is committed past when a later one of its partition succeeds
  (`kafka.go:133` against `kafka.go:75-77`).
* The claim is not exclusive, and a ready track becomes *error* when a second worker
  on it fails (`upload.go:71`, `129` and `176` against `docs/phase-2.md:151` and
  `192`). What holds instead is `HandlersBounded`: as many workers handle the
  partition as there were disruptions, plus one. `NeverBack` is what remains of the
  order of statuses, `ReadyComplete` what remains of *ready*.
* A worker's death after the claim strands the track (`upload.go:66` against
  `docs/phase-2.md:318`). `StrandedBounded` says how many: one per disruption.
* A poll that fails late replaces the shown outcome (`UploadForm.tsx:46`
  against `UploadForm.tsx:30`).
* Nobody can delete a playlist: `Create` stores no owner and `Delete` asks for one
  (`playlists.go:75` and `182` against `src/README.md:158`).

Divergences seen while reading, that no run is about:

* INCR and EXPIRE are not atomic, and a repeated INCR locks an address out for good
  (`ratelimit.go:76` against `ratelimit.go:69` and `docs/phase-6.md:318`).
  `LockoutEnds` says that a lost or stepped-over EXPIRE is the only way to it.
* A writing request that brings what a column of the audit row does not take, or
  whose user is gone by the time the goroutine runs, leaves no audit row
  (`audit.go:57` against `audit.go:3-4`).
* A failed query for the formats is cached (`tracks.go:109` against
  `docs/design/db-design.md:82`).
* `src/README.md:188` says of cursor paging that insertion and deletion do not
  break it; removing the track the cursor names ends the walk
  (`playlists.go:104-111`). `WalkComplete` excludes just that, and seeded lists.
* `ratelimit.go:48` calls the login counter a sliding window; it is a fixed one,
  and `AtMostTwice` is the bound that holds.
* `buildAction` in `audit.go` has cases for `users/me` that no route reaches,
  `ExportMe` exports no playlists because none has an owner, the search in the
  table asks for no status, and the `play_count` of an indexed document is never
  refreshed.

## 4. Proofs

The theorems hold for every set of workers, every log, every list of bitrates
and every class of fault. The only assumptions are the named ASSUMEs on the
constants, and where a theorem needs a fault to be absent it says so.

Assumptions on faults:

| Theorem | Needs absent | Because |
|---|---|---|
| `CommittedRecordsAreDone` | `"handler"` | a failing handler loses its record (`group_skips`) |
| `AcceptedUploadsAreNotLost` | `"db"` | a failing SELECT does the same to an upload |
| `AcceptedUploadsAreInReach` | `"db"` | a failing SELECT returns an error, and the worker reads on past the record |
| `StrandedUploadsAreBounded` | `"db"` | the UPDATE of `markError` may fail with no process disturbed |
| `CommitsGoForward`, `PipelineCommitsForward` | `"rebalance"` | a member that lost the partition commits what it still marks |
| `ClaimsAreExclusive`, `IndexAgrees` | `"rebalance"` | a rebalance inside a handler breaks the claim (`upload_flip`) |
| `PipelineImplementsLifecycle` | `"rebalance"` and `"db"` | an UPDATE to *ready* whose answer is lost is followed by `markError`: *ready*, then *error* |
| `CacheIsComplete` | `"formats"` in `ReadFaults` | the swallowed error caches a ready track without formats |

Every other theorem holds for all classes of faults.

* **The group.** `AttemptedInv` is inductive: what is committed, what a client
  has marked and what it has iterated over are prefixes of records whose
  handler has returned, and the position it reads on from is one unless its
  batch ends there. `CommittedAttempted` alone is not inductive: a client's
  marks and position decide what is committed or skipped next. It does not ask
  who has the partition: a member that lost it marks only what it attempted.
  `ForwardInv` gives `CommitForward` without rebalances: nobody but the owner then
  holds records or marks, and `committed <= marked` for the owner.
  `DoneInv` does the same for handlers that returned nil, when `"handler"` is
  not in `Faults`; it allows a stopping worker to have iterated over one
  record in vain, because nothing after it is marked.
* **Reach.** `WithinReach` is what `EveryPlayCounted` needs of safety: a record
  without a handler is not only ahead of the commit, but in the batch or ahead of
  the fetch position of the member that has the partition. It follows from
  `AttemptedInv`, whose condition on the position reads: where a member goes on is
  the end of its batch, or all before it was attempted.
* **Overlapping handlers.** `HandlersInv` counts the workers with a batch or the
  partition (`Engaged`), and one more while nobody has the partition (`Vacant`).
  The bound on the batches alone is not inductive, for a free partition will engage
  one worker more without a disruption of its own. An assignment moves the one
  from `Vacant` to `Engaged`, and only a disruption adds to the sum.
* **The group inside a system.** The lemmas are stated for `GroupMove`, any
  step a system around the group may take of the group's state, so that
  `UploadPipeline` and `PlayAnalytics` inherit them.
* **The pipeline.** `ReadyTracksAreComplete` and `StreamedKeysHaveObjects`
  follow from `WorkInv` (what a worker inside `process()` has done so far for
  its track is in the tables and the bucket) and `StoreInv`. The argument does
  not need the claim to be exclusive: rows and objects are only ever added.
* **No upload is lost.** `QueueInv` says that accepted uploads are in the log,
  records have rows, and a worker past its claim has a track that has left
  *pending* for good. `SettledInv` is the group's `CoveredBy` for the offsets of
  such tracks: everything committed, marked or iterated over is settled, but for
  the one record a stopping worker was cut off at, after which nothing is
  marked. A handler that returns either settles its record or was cut off
  (`ReturnSettles`); without the assumption a failing SELECT does neither.
* **In reach.** `AcceptedInReach` is the same of uploads, from `QueueInv` and
  `SettledInv`: the position of a member that is not stopping has only settled
  records before it, or is the end of its batch, and an accepted pending upload is not settled.
* **Never back.** `NeverBack` holds for all faults and however many workers share
  a track. Its proof rests on `QueueInv`, which says that the track of a worker past
  its claim has left *pending*: the UPDATEs that set *ready* and *error* test
  nothing, so it is the order of the steps in `process()` that keeps the status
  from going back.
* **Stranded uploads.** `StrandInv` adds to the stranded tracks the handlers that a
  shutdown has caught (`Doomed`): these will strand their tracks later, when the
  disruption that is to blame has long been counted. A crash, a shutdown or the end
  of a process moves one of them at most, and every other way out of `process()`
  settles its track first.
* **One handler per track.** `SoleInv` says that only the owner of the partition
  is inside a batch and that the status it read or wrote is still so; of a track
  that `markError` will be called for it only says that it is not indexed, for
  an UPDATE to *ready* may have been made before its answer was lost. That is
  enough for the exclusive claim and the index, whichever statements fail.
  `FailInv` adds that such a track is still *processing* unless the worker is
  stopping, whose `markError` fails as well; with it every step of `process()`
  is a step of `TrackLifecycle` or a stutter.
* **Plays.** `PlayCountsAgree` follows from `TxInv`: an open transaction that
  has run its UPDATE holds the row's lock, so what it will write is one more
  than what is there. Without the lock the invariant fails at a second UPDATE,
  which is the mutant `UpdateUnlocked`. `OverCountIsBounded` follows from
  `BudgetInv`: for each record, how often its play was counted, the workers that
  have it in their batch, and one more if whoever reads next will read it, add
  up to at most one more than the disruptions. A poll turns the last summand
  into a worker, a commit a worker into a count, and only a crash, a shutdown or
  a rebalance adds to the sum. It does not mention the committed offset, which may
  be moved back. A play that a retry has published twice has two such budgets.
* **Reads and form.** `ReadInv` adds to `RowsTrue` what a ready track has and that
  only ready rows are in the cache or on their way to it; it holds for all
  faults, and with it what the form shows. `CompleteInv` adds, unless a query for
  the formats fails, that these rows have every format.
* **Buckets.** `BucketInv` bounds what was let through plus what is in the
  bucket plus what would still come back since `last_refill`. For the stream
  limit the bound needs `back`, because a stamp that lies back costs nothing
  when it is clamped and pays again later. `TheScriptsAgree` relates the keys: what
  the stand-alone script would refill is what the stream limit has written at its
  last denial and would refill since.
* **Login attempts.** `LoginInv` splits the attempts that are still remembered
  into those of the key before and those of the key that counts now, at most
  `MaxAttempts` of each. Once the key has its expiry, the age of an older one and
  the time the key has left make up a window, so that the older ones are
  forgotten before the key goes. Nothing is assumed of the time between INCR and
  EXPIRE, and an EXPIRE that is sent again only sets the time the key has left to a
  full window. `CountersExpire` is the safety half of `LockoutEnds`.
* **Accounts.** `AuditInv` ties each entry of `log` to the account that made it:
  a user named by a row exists or was hard deleted in a step that cleared it,
  and a token with the admin role belongs to somebody who once was an admin.
* **Search.** `SearchInv` adds what a request has in hand: what it may cache is
  playable, and what waits to be indexed is ready, which is for good.
* **Ring.** `RingInv` says that `sorted` is the domain of the map and that its
  entries are members' points. `SuccessorKept` is the lemma behind the movement
  of keys: a change of points elsewhere leaves a key's successor alone.
* **Timelines.** `PushesAreDeliveries` is the refinement of `Deliveries`, for any
  users, any cap and double follows. `TimelineInv` says that what a user is shown
  is the newest of all that was delivered. `PushedToAll` shows, along
  the loop over the followers, that a user gets as many copies in front as the
  calls to `Follow` that named the user, and `PrependNewest` that the cut commutes
  with putting a tweet in front.
* **Startup.** `StartupInv` says that the migrations a process has left behind
  are in the database, its own or somebody else's, and that a process that
  indexes saw an index, which is there unless OpenSearch lost it.
* **Pages.** `PagesInv` says that in the middle of an undisturbed walk what stayed
  in the list and was not shown was added later than the cursor's track.
* **The services together.** `PartsAreTyped` is about `MCServices` itself, from the
  conjunction of the invariants of its parts.

Induction over the numbers is obtained without the library's induction theorems:
`LeastExists` takes the least element of a set of numbers from
`NatLessThanWellFounded` and `WFMin`, `Induction` follows by contradiction for
sets of numbers, and `Recursion` builds from it the function that a recursion
over `0 .. n` defines. `CollectsStep` and `PushesStep` are its uses.

Only model-checked is liveness: `Processed`,
`EveryPlayCounted`, `EndIsNoticed`, `LockoutEnds` and `EveryoneServesIfStarted` rest
on fairness and ENABLED, which the prover cannot handle. Every safety invariant,
action property and refinement of a passing run is a theorem. Some theorems have no
run, for TLC has nothing to add to them: the types outside the upload pipeline,
`LoneLimitHolds`, `FavoritesHaveOwners` and `CountersExpire`.

## 5. Not modelled, and the plan

What could still be added, in this order:

1. Theorems about several partitions: the group's invariant is about one, and the
   partitions share only the fate of the processes.
2. A measure for `Processed`, that each step of `process()` brings its track nearer
   to an end. The safety half of the liveness properties, that what must happen
   stays possible, is proved: `WithinReach`, `AcceptedInReach` and `CounterExpires`.

Not modelled, and why:

* the favorites, the search page, the player and the login state of the front
  end (`web/context/`, `web/app/search/page.tsx`): the first two send requests
  without waiting and promise nothing about their order, so there is no property
  to state, only the hazards in `PROJECT.json`; the other two are sequential
  state of one browser tab;
* the track list, the artists, and the reads of accounts, playlists and
  favorites: single statements that change nothing;
* signed URLs and `Stream`'s redirect: values without state;
* the columns of an audit row read from a recycled gin context (address, agent,
  status), and the event source in `Stream`: these need a model of gin's pool of
  contexts, which is not part of the repository;
* replication of the broker (`LeaderAck`): the log is durable in the model;
* the URL shortener of `src/interview-prep/`: a map under a mutex and a
  conversion of numbers to text;
* logging, metrics, tracing, security headers, request ids, page layout and
  styling, Terraform, nginx, Kubernetes manifests (their restart policy is
  used) and load tests.
