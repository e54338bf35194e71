--------------------------- MODULE ConsumerGroup ---------------------------
(***************************************************************************)
(* One partition of a topic, the consumer group that reads it, and the     *)
(* Consume loop of beatstream/internal/queue/kafka.go.                     *)
(*                                                                         *)
(* The broker keeps the log, the group's committed offset and the member   *)
(* the partition is assigned to.  A worker process polls a batch, runs its *)
(* handler on one record after the other, and marks a record only when     *)
(* the handler returned nil; the client library commits the highest mark   *)
(* in the background (kgo.AutoCommitMarks).  The handler is abstract here: *)
(* it returns nil or an error.  UploadPipeline puts the real one inside.   *)
(*                                                                         *)
(* A record's offset is its index in the log minus one; "n records are     *)
(* committed" means that a new owner starts to read at offset n.           *)
(***************************************************************************)
EXTENDS Naturals, Sequences, FiniteSets

CONSTANTS
    Workers,         \* worker processes of the group
    NoOwner,         \* the partition is assigned to nobody
    Events,          \* what a record may carry
    Faults,          \* the classes of fault a configuration allows
    MaxLog,          \* bound: records ever appended
    MaxDisruptions   \* bound: crashes, shutdowns and rebalances

FaultKinds == {"crash", "stop", "rebalance", "handler",
               "db", "media", "kafka", "api"}

ASSUME GroupAssumption ==
    /\ NoOwner \notin Workers
    /\ Faults \subseteq FaultKinds
    /\ MaxLog \in Nat
    /\ MaxDisruptions \in Nat

VARIABLES
    log,          \* the partition's records
    committed,    \* the group's committed offset
    owner,        \* the member the partition is assigned to
    proc,         \* "up", "stopping" (context cancelled) or "down"
    pos,          \* the offset a worker's client fetches from next
    at,           \* the offset whose handler a worker runs
    upto,         \* the end of the batch a worker iterates over
    marked,       \* the offset a worker's client will commit next
    dirty,        \* the workers whose client has a mark it has not committed
    attempted,    \* history: offsets whose handler has returned
    done,         \* history: offsets whose handler has returned nil
    disruptions   \* how many of MaxDisruptions were used

brokerVars == <<log, committed, owner>>
clientVars == <<pos, at, upto, marked, dirty>>
historyVars == <<attempted, done>>
groupVars == <<brokerVars, proc, clientVars, historyVars, disruptions>>

GroupTypeOK ==
    /\ log \in Seq(Events)
    /\ committed \in Nat
    /\ owner \in Workers \cup {NoOwner}
    /\ proc \in [Workers -> {"up", "stopping", "down"}]
    /\ pos \in [Workers -> Nat]
    /\ at \in [Workers -> Nat]
    /\ upto \in [Workers -> Nat]
    /\ marked \in [Workers -> Nat]
    /\ dirty \subseteq Workers
    /\ attempted \subseteq Nat
    /\ done \subseteq Nat
    /\ disruptions \in 0..MaxDisruptions

GroupInit ==
    /\ log = <<>>
    /\ committed = 0
    /\ owner = NoOwner
    /\ proc = [w \in Workers |-> "up"]
    /\ pos = [w \in Workers |-> 0]
    /\ at = [w \in Workers |-> 0]
    /\ upto = [w \in Workers |-> 0]
    /\ marked = [w \in Workers |-> 0]
    /\ dirty = {}
    /\ attempted = {}
    /\ done = {}
    /\ disruptions = 0

InBatch(w) == at[w] < upto[w]

Disrupt(kind) ==
    /\ kind \in Faults
    /\ disruptions < MaxDisruptions
    /\ disruptions' = disruptions + 1

----------------------------------------------------------------------------
(* The broker and the client library.                                      *)

\* ProduceSync reached the partition's leader: the records are in the log.
AppendRecords(records) ==
    /\ Len(log) + Len(records) <= MaxLog
    /\ log' = log \o records
    /\ UNCHANGED <<committed, owner, proc, clientVars, historyVars, disruptions>>

\* Mutant of Assign: without a commit the client reads from the end of the log.
AssignAtEnd(w) ==
    /\ owner = NoOwner
    /\ proc[w] = "up"
    /\ owner' = w
    /\ pos' = [pos EXCEPT ![w] = IF committed = 0 THEN Len(log) ELSE committed]
    /\ marked' = [marked EXCEPT ![w] = committed]
    /\ dirty' = dirty \ {w}
    /\ UNCHANGED <<log, committed, proc, at, upto, historyVars, disruptions>>

\* A member gets the partition: it reads from the committed offset, and its
\* client forgets what it had marked before.
Assign(w) ==
    /\ owner = NoOwner
    /\ proc[w] = "up"
    /\ owner' = w
    /\ pos' = [pos EXCEPT ![w] = committed]
    /\ marked' = [marked EXCEPT ![w] = committed]
    /\ dirty' = dirty \ {w}
    /\ UNCHANGED <<log, committed, proc, at, upto, historyVars, disruptions>>

\* What the group has committed once w's client has sent what it has marked.
Flushed(w) == IF w \in dirty THEN marked[w] ELSE committed

\* The client forgets its marks.
Forget(w) ==
    /\ marked' = [marked EXCEPT ![w] = 0]
    /\ dirty' = dirty \ {w}

\* The background commit.  The broker asks only that the sender is a live member
\* of the group, not that the partition is its own, and takes the offset it is
\* given: a member that lost the partition can take the group back.
AutoCommit(w) ==
    /\ w \in dirty
    /\ proc[w] # "down"
    /\ committed' = Flushed(w)
    /\ dirty' = dirty \ {w}
    /\ UNCHANGED <<log, owner, proc, pos, at, upto, marked, historyVars, disruptions>>

\* A rebalance takes the partition from a live member, which commits its marks
\* on the way out.  Nothing holds the rebalance back while the member is inside
\* its handler (the client is built without BlockRebalanceOnPoll).
Revoke(w) ==
    /\ owner = w
    /\ proc[w] = "up"
    /\ Disrupt("rebalance")
    /\ committed' = Flushed(w)
    /\ owner' = NoOwner
    /\ Forget(w)
    /\ UNCHANGED <<log, proc, pos, at, upto, historyVars>>

\* The member missed its session timeout: the partition goes without a commit,
\* and the member, which joins again, goes on with the batch it holds.
Lose(w) ==
    /\ owner = w
    /\ proc[w] = "up"
    /\ Disrupt("rebalance")
    /\ owner' = NoOwner
    /\ Forget(w)
    /\ UNCHANGED <<log, committed, proc, pos, at, upto, historyVars>>

----------------------------------------------------------------------------
(* Consume: poll a batch, run the handler on each record, mark what it did. *)

\* Mutant of Poll: the loop reads on from the committed offset.
PollFromCommitted(w) ==
    /\ owner = w
    /\ proc[w] = "up"
    /\ ~InBatch(w)
    /\ \E n \in committed + 1 .. Len(log) :
          /\ at' = [at EXCEPT ![w] = committed]
          /\ upto' = [upto EXCEPT ![w] = n]
          /\ pos' = [pos EXCEPT ![w] = n]
    /\ UNCHANGED <<brokerVars, proc, marked, dirty, historyVars, disruptions>>

\* Mutant of Poll: once there was a rebalance, what a member fetched before is
\* returned to it whoever has the partition.
PollOnceDisrupted(w) ==
    /\ owner = w \/ disruptions > 0
    /\ proc[w] = "up"
    /\ ~InBatch(w)
    /\ \E n \in pos[w] + 1 .. Len(log) :
          /\ at' = [at EXCEPT ![w] = pos[w]]
          /\ upto' = [upto EXCEPT ![w] = n]
          /\ pos' = [pos EXCEPT ![w] = n]
    /\ UNCHANGED <<brokerVars, proc, marked, dirty, historyVars, disruptions>>

\* PollFetches returns some of the records that follow the fetch position.
Poll(w) ==
    /\ owner = w
    /\ proc[w] = "up"
    /\ ~InBatch(w)
    /\ \E n \in pos[w] + 1 .. Len(log) :
          /\ at' = [at EXCEPT ![w] = pos[w]]
          /\ upto' = [upto EXCEPT ![w] = n]
          /\ pos' = [pos EXCEPT ![w] = n]
    /\ UNCHANGED <<brokerVars, proc, marked, dirty, historyVars, disruptions>>

\* Mutant of Mark: the whole batch is marked, as plain auto-commit would do.
MarkBatch(w) ==
    /\ marked' = [marked EXCEPT ![w] = upto[w]]
    /\ dirty' = dirty \cup {w}

\* MarkCommitRecords: the client's mark only moves forward.  The loop marks
\* whatever it holds, also after the partition went to another member.
Mark(w) ==
    /\ marked' = [marked EXCEPT ![w] = IF @ <= at[w] THEN at[w] + 1 ELSE @]
    /\ dirty' = IF marked[w] <= at[w] THEN dirty \cup {w} ELSE dirty

\* The handler of record at[w] has returned and the loop goes on.  Once the
\* context is cancelled, the handlers of the rest of the batch fail at their
\* first query and the loop ends at its next poll, so the batch ends here.
NextRecord(w) ==
    /\ InBatch(w)
    /\ proc[w] # "down"
    /\ at' = [at EXCEPT ![w] = @ + 1]
    /\ upto' = [upto EXCEPT ![w] = IF proc[w] = "up" THEN @ ELSE at[w] + 1]
    /\ attempted' = attempted \cup {at[w]}
    /\ UNCHANGED <<brokerVars, proc, pos, disruptions>>

ReturnsNil(w) ==
    /\ NextRecord(w)
    /\ Mark(w)
    /\ done' = done \cup {at[w]}

ReturnsErr(w) ==
    /\ NextRecord(w)
    /\ UNCHANGED <<marked, dirty, done>>

\* The handler of this module: any outcome the configuration allows.
HandlerOk(w) == ReturnsNil(w)

HandlerErr(w) ==
    /\ "handler" \in Faults \/ proc[w] = "stopping"
    /\ ReturnsErr(w)

----------------------------------------------------------------------------
(* The worker process.                                                     *)

\* SIGTERM: main cancels the context that both consumers run with.
Stop(w) ==
    /\ proc[w] = "up"
    /\ Disrupt("stop")
    /\ proc' = [proc EXCEPT ![w] = "stopping"]
    /\ UNCHANGED <<brokerVars, clientVars, historyVars>>

\* The memory of the process is gone, its membership lapses.
Dies(w) ==
    /\ proc' = [proc EXCEPT ![w] = "down"]
    /\ owner' = IF owner = w THEN NoOwner ELSE owner
    /\ pos' = [pos EXCEPT ![w] = 0]
    /\ at' = [at EXCEPT ![w] = 0]
    /\ upto' = [upto EXCEPT ![w] = 0]
    /\ Forget(w)

\* Mutant of Exit: what the client knows of the partition is committed, a mark
\* or none.
ExitCommittingAll(w) ==
    /\ proc[w] = "stopping"
    /\ Dies(w)
    /\ committed' = marked[w]
    /\ UNCHANGED <<log, historyVars, disruptions>>

\* main returns when the analytics loop does; the deferred Close commits the
\* marks and leaves the group, whatever the upload handler is doing.
Exit(w) ==
    /\ proc[w] = "stopping"
    /\ Dies(w)
    /\ committed' = Flushed(w)
    /\ UNCHANGED <<log, historyVars, disruptions>>

Crash(w) ==
    /\ proc[w] # "down"
    /\ Disrupt("crash")
    /\ Dies(w)
    /\ UNCHANGED <<log, committed, historyVars>>

Restart(w) ==
    /\ proc[w] = "down"
    /\ proc' = [proc EXCEPT ![w] = "up"]
    /\ UNCHANGED <<brokerVars, clientVars, historyVars, disruptions>>

----------------------------------------------------------------------------
Rebalance(w) == Assign(w) \/ Revoke(w) \/ Lose(w)
Process(w) == Stop(w) \/ Exit(w) \/ Crash(w) \/ Restart(w)

GroupNext ==
    \/ \E e \in Events : AppendRecords(<<e>>)
    \/ \E w \in Workers :
          \/ Poll(w) \/ HandlerOk(w) \/ HandlerErr(w) \/ AutoCommit(w)
          \/ Rebalance(w)
          \/ Process(w)

GroupSpec == GroupInit /\ [][GroupNext]_groupVars

\* The loop, the client's commits and the broker's assignment keep running; a
\* process that was told to stop ends, and the orchestrator starts it again.
GroupFairness ==
    \A w \in Workers :
        /\ WF_groupVars(Poll(w))
        /\ WF_groupVars(HandlerOk(w) \/ HandlerErr(w))
        /\ WF_groupVars(AutoCommit(w))
        /\ WF_groupVars(Assign(w))
        /\ WF_groupVars(Exit(w))
        /\ WF_groupVars(Restart(w))

FairGroupSpec == GroupSpec /\ GroupFairness

----------------------------------------------------------------------------
(* Properties.                                                             *)

\* The committed offset never passes a record whose handler has not at least
\* returned once: neither a crash, nor a batch cut short by a shutdown, nor a
\* member that goes on with a batch after the partition was taken from it can
\* make the group skip a record unseen (Consume, kafka.go:118).
CommittedAttempted == \A o \in 0 .. committed - 1 : o \in attempted

\* No record falls between two stools: one that no handler has returned from is
\* in the batch of the worker that has the partition, or that worker has yet to
\* fetch it, also when a batch was abandoned, a member went on with one that was
\* another's by then, or a restarted member has nothing in memory (Consume,
\* kafka.go:118).  Nothing would fetch it again otherwise until the partition
\* moves: it is what every record's being handled at last needs of safety.
Reach(w) == (at[w] .. upto[w] - 1) \cup (pos[w] .. Len(log) - 1)

WithinReach ==
    \A w \in Workers : owner = w /\ proc[w] = "up" =>
        \A o \in 0 .. Len(log) - 1 : o \notin attempted => o \in Reach(w)

\* "Records are only committed after the handler returns nil; errors leave the
\* offset uncommitted" (kafka.go:75): every record below the committed offset
\* was handled successfully.
CommittedDone == \A o \in 0 .. committed - 1 : o \in done

\* The inductive invariant behind CommittedAttempted and WithinReach.  What a
\* client may still commit (its marks), where it reads on (its position, unless
\* a batch ends there that is still being worked on) and what it has iterated
\* over in its batch are all prefixes of records whose handler has returned.
Covers(S, n) == \A o \in 0 .. n - 1 : o \in S

AttemptedInv ==
    /\ Covers(attempted, committed)
    /\ \A w \in Workers :
          /\ Covers(attempted, at[w])
          /\ Covers(attempted, marked[w])
          /\ at[w] <= upto[w]
          /\ proc[w] # "stopping" =>
                pos[w] = upto[w] \/ Covers(attempted, pos[w])

\* A member that has lost the partition goes on with its batch, but gets no other
\* one: the workers with records of the partition in hand are at most as many as
\* the disruptions, plus one.  With no disruption a record has one handler at a
\* time, which is all there is to "only one consumer" of docs/phase-2.md:192
\* (Consume, kafka.go:118).
HandlersBounded == Cardinality({w \in Workers : InBatch(w)}) <= disruptions + 1

\* The inductive invariant behind it: a partition that nobody has will engage one
\* more worker.
Engaged == {w \in Workers : InBatch(w) \/ owner = w}
Vacant == IF owner = NoOwner THEN 1 ELSE 0

HandlersInv ==
    /\ IsFiniteSet(Engaged)
    /\ Cardinality(Engaged) + Vacant <= disruptions + 1

\* The same for any set S of offsets, when a handler fails only in a shutdown:
\* a worker that is shutting down may have iterated over a record in vain, but
\* then its batch is over and nothing after that record is marked.
CoveredBy(S) ==
    /\ Covers(S, committed)
    /\ \A w \in Workers :
          /\ Covers(S, marked[w])
          /\ at[w] <= upto[w]
          /\ proc[w] # "stopping" \/ InBatch(w) => Covers(S, at[w])
          /\ proc[w] # "stopping" =>
                pos[w] = upto[w] \/ Covers(S, pos[w])

\* The inductive invariant behind CommittedDone when no handler fails by itself.
DoneInv == CoveredBy(done)

\* No offset of the broker or of a client points past the end of the log.
WithinLog ==
    /\ committed <= Len(log)
    /\ \A w \in Workers :
          /\ at[w] <= upto[w]
          /\ upto[w] <= Len(log)
          /\ pos[w] <= Len(log)
          /\ marked[w] <= Len(log)

\* Without a rebalance a commit never moves the group back, whatever crashes,
\* shutdowns and restarts there are: a worker that lost the partition with its
\* process has no mark left to commit (Consume, kafka.go:118, and Close).  With a
\* rebalance it does not hold: see AutoCommit.
CommitForward == [][committed' >= committed]_groupVars

\* The inductive invariant behind it: only the owner holds records and marks, and
\* its marks are not behind.
ForwardInv ==
    \A w \in Workers :
        /\ owner = w => committed <= marked[w]
        /\ owner # w => ~InBatch(w) /\ w \notin dirty
=============================================================================
