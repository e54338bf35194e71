-------------------------- MODULE MCConsumerGroup --------------------------
EXTENDS ConsumerGroup, TLC

\* Workers are interchangeable; used by the runs that check no liveness.
WorkerSymmetry == Permutations(Workers)
=============================================================================
