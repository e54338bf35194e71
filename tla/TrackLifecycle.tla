--------------------------- MODULE TrackLifecycle ---------------------------
(***************************************************************************)
(* What the upload pipeline promises to whoever reads the tracks table: a  *)
(* track is created pending, claimed once, gains its formats while it is   *)
(* processing, and ends ready with all of them or in error, for good.      *)
(* Nothing is said of requests, records, workers, crashes or retries.      *)
(***************************************************************************)
EXTENDS Naturals

CONSTANTS Tracks, BitrateSet
VARIABLES status, formats

vars == <<status, formats>>

Init ==
    /\ status = [t \in Tracks |-> "none"]
    /\ formats = [t \in Tracks |-> {}]

Moves(t, from, to) ==
    /\ status[t] = from
    /\ status' = [status EXCEPT ![t] = to]
    /\ UNCHANGED formats

Create(t) == Moves(t, "none", "pending")
Claim(t) == Moves(t, "pending", "processing")
Fail(t) == Moves(t, "processing", "error")

AddFormat(t, b) ==
    /\ status[t] = "processing"
    /\ formats' = [formats EXCEPT ![t] = @ \cup {b}]
    /\ UNCHANGED status

Complete(t) ==
    /\ formats[t] = BitrateSet
    /\ Moves(t, "processing", "ready")

Next ==
    \E t \in Tracks :
        \/ Create(t) \/ Claim(t) \/ Complete(t) \/ Fail(t)
        \/ \E b \in BitrateSet : AddFormat(t, b)

Spec == Init /\ [][Next]_vars
=============================================================================
