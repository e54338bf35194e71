-------------------------- MODULE MCUploadPipeline --------------------------
EXTENDS UploadPipeline, TLC

\* Two of the three bitrates of transcode.go: a first pass of the loop and a last.
TwoBitrates == <<64, 128>>

\* The three bitrates of transcode.go.
AllBitrates == <<64, 128, 320>>

\* Workers and tracks are interchangeable; for the runs that check no liveness.
Symmetry == Permutations(Workers) \cup Permutations(Events)
=============================================================================
