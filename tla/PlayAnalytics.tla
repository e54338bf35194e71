--------------------------- MODULE PlayAnalytics ---------------------------
(***************************************************************************)
(* Play counting in beatstream: GET /tracks/:id/stream (Tracks.Stream in   *)
(* internal/handler/tracks.go) publishes a play event in a goroutine of    *)
(* its own, and AnalyticsWorker.record (internal/worker/analytics.go)      *)
(* inserts a play_events row and adds one to tracks.play_count in one      *)
(* transaction.                                                            *)
(*                                                                         *)
(* An event carries the track and no identity of its own.  The history     *)
(* variables tell the plays apart: counted by the offset of the record,    *)
(* and again knows the records that repeat the play of the one before.     *)
(*                                                                         *)
(* playCount is what the worker has added to the column: seed.sql starts   *)
(* its tracks with counts that no row of play_events stands for.           *)
(* Faults: "db" (a statement fails, no play_events partition for the       *)
(* month), "kafka" (a publish fails or is repeated).                       *)
(***************************************************************************)
EXTENDS ConsumerGroup

Tracks == Events

VARIABLES
    publishing,   \* per track: events that Stream's goroutines still hold
    again,        \* history: offsets of records that a retry appended
    playEvents,   \* per track: committed rows of play_events
    playCount,    \* tracks.play_count, less what it was seeded with
    step,         \* the statement of record() a worker runs next
    newCount,     \* the play_count a worker's open transaction has written
    counted       \* history: per offset, how often its play was committed

apiVars == <<publishing, again>>
dbVars == <<playEvents, playCount, counted>>
txVars == <<step, newCount>>
playVars == <<apiVars, dbVars, txVars>>
vars == <<groupVars, playVars>>

TypeOK ==
    /\ GroupTypeOK
    /\ publishing \in [Tracks -> Nat]
    /\ again \subseteq 0 .. MaxLog - 1
    /\ playEvents \in [Tracks -> Nat]
    /\ playCount \in [Tracks -> Nat]
    /\ step \in [Workers -> {"begin", "insert", "update", "commit"}]
    /\ newCount \in [Workers -> Nat]
    /\ counted \in [0 .. MaxLog - 1 -> Nat]

Init ==
    /\ GroupInit
    /\ publishing = [t \in Tracks |-> 0]
    /\ again = {}
    /\ playEvents = [t \in Tracks |-> 0]
    /\ playCount = [t \in Tracks |-> 0]
    /\ step = [w \in Workers |-> "begin"]
    /\ newCount = [w \in Workers |-> 0]
    /\ counted = [o \in 0 .. MaxLog - 1 |-> 0]

----------------------------------------------------------------------------
(* GET /tracks/:id/stream.                                                 *)

Unpublished == \E t \in Tracks : publishing[t] > 0

\* The lookup found a key.  The goroutine starts before the URL is signed: an
\* event is on its way also when the answer is 500.  Bound: one event at a time.
Stream(t) ==
    /\ ~Unpublished /\ Len(log) < MaxLog
    /\ publishing' = [publishing EXCEPT ![t] = @ + 1]
    /\ UNCHANGED <<groupVars, again, dbVars, txVars>>

\* The producer does not write idempotently: a retry whose first attempt was
\* appended but not acknowledged appends it again.  Bound: one repetition.
PublishPlay(t) ==
    /\ publishing[t] > 0
    /\ publishing' = [publishing EXCEPT ![t] = @ - 1]
    /\ \/ AppendRecords(<<t>>) /\ UNCHANGED again
       \/ /\ "kafka" \in Faults
          /\ AppendRecords(<<t, t>>)
          /\ again' = again \cup {Len(log) + 1}
    /\ UNCHANGED <<dbVars, txVars>>

\* The error is logged and the event dropped; so is it when the API process
\* ends, which does not wait for the goroutine.
LosePlay(t) ==
    /\ "kafka" \in Faults
    /\ publishing[t] > 0
    /\ publishing' = [publishing EXCEPT ![t] = @ - 1]
    /\ UNCHANGED <<groupVars, again, dbVars, txVars>>

----------------------------------------------------------------------------
(* AnalyticsWorker.record.                                                 *)

Track(w) == log[at[w] + 1]

\* A call with the worker's context: it works only while that is not cancelled.
Works(w) == proc[w] = "up"
Fails(w) == proc[w] = "stopping" \/ (proc[w] = "up" /\ "db" \in Faults)

Goto(w, s) == step' = [step EXCEPT ![w] = s]

\* The deferred Rollback: what the transaction wrote is dropped.
EndsTx(w) ==
    /\ Goto(w, "begin")
    /\ newCount' = [newCount EXCEPT ![w] = 0]

\* An early return with an error.
GivesUp(w) ==
    /\ Fails(w)
    /\ ReturnsErr(w)
    /\ EndsTx(w)
    /\ UNCHANGED <<apiVars, dbVars>>

Advances(w, s) ==
    /\ Works(w)
    /\ Goto(w, s)
    /\ UNCHANGED <<groupVars, apiVars, dbVars>>

Begin(w) ==
    /\ InBatch(w)
    /\ step[w] = "begin"
    /\ (Advances(w, "insert") /\ UNCHANGED newCount) \/ GivesUp(w)

InsertEvent(w) ==
    /\ step[w] = "insert"
    /\ (Advances(w, "update") /\ UNCHANGED newCount) \/ GivesUp(w)

\* UPDATE locks the track's row until the transaction ends.
RowLocked(w) ==
    \E v \in Workers \ {w} : step[v] = "commit" /\ Track(v) = Track(w)

\* Mutant of UpdateCount: the count is read and written back without the lock.
UpdateUnlocked(w) ==
    /\ step[w] = "update"
    /\ \/ /\ Advances(w, "commit")
          /\ newCount' = [newCount EXCEPT ![w] = playCount[Track(w)] + 1]
       \/ GivesUp(w)

UpdateCount(w) ==
    /\ step[w] = "update"
    /\ \/ /\ ~RowLocked(w)
          /\ Advances(w, "commit")
          /\ newCount' = [newCount EXCEPT ![w] = playCount[Track(w)] + 1]
       \/ GivesUp(w)

\* What the commit makes visible, once for the record at[w].
Committed(w) ==
    /\ playEvents' = [playEvents EXCEPT ![Track(w)] = @ + 1]
    /\ playCount' = [playCount EXCEPT ![Track(w)] = newCount[w]]
    /\ counted' = [counted EXCEPT ![at[w]] = @ + 1]
    /\ UNCHANGED apiVars

\* Mutant of Commit: an error is logged and the record marked.
CommitSwallowingErrors(w) ==
    /\ step[w] = "commit"
    /\ EndsTx(w)
    /\ ReturnsNil(w)
    /\ \/ Works(w) /\ Committed(w)
       \/ Fails(w) /\ UNCHANGED <<apiVars, dbVars>>

\* A commit that was cut off may have been made, and record() returns an error.
Commit(w) ==
    /\ step[w] = "commit"
    /\ \/ /\ Works(w) /\ ReturnsNil(w)
          /\ Committed(w)
          /\ EndsTx(w)
       \/ /\ Fails(w) /\ ReturnsErr(w)
          /\ Committed(w)
          /\ EndsTx(w)
       \/ GivesUp(w)

RecordStep(w) == Begin(w) \/ InsertEvent(w) \/ UpdateCount(w) \/ Commit(w)

----------------------------------------------------------------------------
(* The steps of the group around the handler.                              *)

GroupStep(w) ==
    /\ \/ Poll(w) \/ AutoCommit(w) \/ Rebalance(w)
       \/ Stop(w) \/ Restart(w)
    /\ UNCHANGED playVars

\* main waits for this loop, and the loop for its handler: a shutdown ends between
\* records, a crash anywhere.  Postgres rolls back what was open.
ProcessEnds(w) ==
    /\ (Exit(w) /\ ~InBatch(w)) \/ Crash(w)
    /\ EndsTx(w)
    /\ UNCHANGED <<apiVars, dbVars>>

Next ==
    \/ \E t \in Tracks : Stream(t) \/ PublishPlay(t) \/ LosePlay(t)
    \/ \E w \in Workers : RecordStep(w) \/ GroupStep(w) \/ ProcessEnds(w)

Spec == Init /\ [][Next]_vars

\* The goroutine and the handler run on; the loop polls, the client commits and
\* the broker assigns; a process that was told to stop ends and is restarted.
Fairness ==
    /\ \A t \in Tracks : WF_vars(PublishPlay(t))
    /\ \A w \in Workers :
          /\ WF_vars(RecordStep(w))
          /\ WF_vars(Poll(w) /\ UNCHANGED playVars)
          /\ WF_vars(AutoCommit(w) /\ UNCHANGED playVars)
          /\ WF_vars(Assign(w) /\ UNCHANGED playVars)
          /\ WF_vars(Restart(w) /\ UNCHANGED playVars)
          /\ WF_vars(Exit(w) /\ ProcessEnds(w))

FairSpec == Spec /\ Fairness

----------------------------------------------------------------------------
(* Properties.                                                             *)

\* The denormalised counter agrees with the table it summarises, also when two
\* workers hold records of one track and either of them dies or is cut off
\* between the statements of its transaction (record, analytics.go:58-85).
CountMatchesEvents == \A t \in Tracks : playCount[t] = playEvents[t]

\* The inductive invariant behind it.  An open transaction belongs to a worker
\* inside its batch; one that has updated the count holds the row's lock, and so
\* what it will commit is one more than what is there.
TxInv ==
    /\ \A w \in Workers :
          /\ step[w] # "begin" => InBatch(w) /\ proc[w] # "down"
          /\ step[w] = "commit" => newCount[w] = playCount[Track(w)] + 1
    /\ \A v, w \in Workers :
          step[v] = "commit" /\ step[w] = "commit" /\ Track(v) = Track(w) => v = w

\* "A crashed consumer may double-count a play" (analytics.go:23): what one play
\* adds to the count is at most one for each record it has, once more for each
\* crash, shutdown or rebalance.  A play has a second record when the producer's
\* retry repeated it (kafka.go:46): it is counted twice with no disruption then.
TimesCounted(o) == counted[o] + (IF o + 1 \in again THEN counted[o + 1] ELSE 0)

OverCountBounded ==
    \A o \in (0 .. MaxLog - 1) \ again :
        TimesCounted(o) <= IF o + 1 \in again THEN 2 * (1 + disruptions)
                           ELSE 1 + disruptions

\* The inductive invariant behind it, a budget per record: how often it was
\* counted, the workers that still have it in their batch, and one more unless
\* the worker that has the partition has read past it.  Only a disruption adds to
\* this sum; where the group's commits are, which a member that lost the
\* partition can take back, does not matter to it.
Holders(o) == {w \in Workers : at[w] <= o /\ o < upto[w]}

ReadPast(o) == \E w \in Workers : owner = w /\ proc[w] = "up" /\ o < pos[w]

Due(o) == IF ReadPast(o) THEN 0 ELSE 1

BudgetInv ==
    /\ \A w \in Workers : owner = w => proc[w] # "down"
    /\ \A o \in 0 .. MaxLog - 1 :
          /\ IsFiniteSet(Holders(o))
          /\ counted[o] + Cardinality(Holders(o)) + Due(o) <= 1 + disruptions

\* "At-least-once" (analytics.go:23): every play whose event reached the topic
\* is counted at some time, whatever happens to the worker that held it.
EveryPlayCounted ==
    \A o \in 0 .. MaxLog - 1 : o < Len(log) ~> counted[o] > 0
=============================================================================
