----------------------------- MODULE UploadForm -----------------------------
(***************************************************************************)
(* The upload form of the web application                                  *)
(* (beatstream/web/components/UploadForm.tsx): it posts a track, then asks *)
(* for its status every two seconds until it is ready or in error.         *)
(*                                                                         *)
(* The interval does not wait for an answer before it asks again, and an   *)
(* answer is handled by the callback that asked, whatever the form shows   *)
(* by then.  "net" in ReadFaults lets a request fail on its way.           *)
(***************************************************************************)
EXTENDS TrackReads

VARIABLES
    kind,      \* what the form shows: state.kind
    shown,     \* the track it shows: state.track
    posting    \* uploads whose answer the form waits for

formVars == <<kind, shown, posting>>
vars == <<tableVars, cache, readVars, formVars>>

TypeOK ==
    /\ ReadsTypeOK
    /\ kind \in {"idle", "uploading", "polling", "ready", "error"}
    /\ shown \in Tracks
    /\ posting \subseteq Tracks

Init ==
    /\ ReadsInit
    /\ kind = "idle"
    /\ shown = SomeTrack
    /\ posting = {}

Shows(k, t) ==
    /\ kind' = k
    /\ shown' = t

\* The button is disabled while the form is uploading or polling.  The track's
\* id is fresh: the API makes it.
Submit(t) ==
    /\ kind \in {"idle", "error"}
    /\ status[t] = "none" /\ t \notin posting
    /\ Shows("uploading", shown)
    /\ posting' = posting \cup {t}
    /\ UNCHANGED <<tableVars, cache, readVars>>

\* POST /tracks inserts the row.
Insert(t) ==
    /\ t \in posting
    /\ Catalogue!Create(t)
    /\ UNCHANGED <<cache, readVars, formVars>>

PostAnswered(t) ==
    /\ t \in posting
    /\ status[t] # "none"
    /\ Shows("polling", t)
    /\ posting' = posting \ {t}
    /\ UNCHANGED <<tableVars, cache, readVars>>

PostFails(t) ==
    /\ "net" \in ReadFaults
    /\ t \in posting
    /\ Shows("error", shown)
    /\ posting' = posting \ {t}
    /\ UNCHANGED <<tableVars, cache, readVars>>

\* The interval's callback asks for the track the form polls.
Tick(r) ==
    /\ kind = "polling"
    /\ Begin(r, shown)
    /\ UNCHANGED formVars

\* Mutant of Answer: everything but pending is taken for the end.
AnswerNotPending(r) ==
    /\ phase[r] = "answered"
    /\ Over(r)
    /\ \/ row[r].status \in {"ready", "processing"} /\ Shows("ready", track[r])
       \/ row[r].status \in {"error", "none"} /\ Shows("error", shown)
       \/ row[r].status = "pending" /\ UNCHANGED <<kind, shown>>
    /\ UNCHANGED <<tableVars, cache, posting>>

\* The callback goes on: getTrack throws on a 404.
Answer(r) ==
    /\ phase[r] = "answered"
    /\ Over(r)
    /\ \/ row[r].status = "ready" /\ Shows("ready", track[r])
       \/ row[r].status \in {"error", "none"} /\ Shows("error", shown)
       \/ row[r].status \in {"pending", "processing"} /\ UNCHANGED <<kind, shown>>
    /\ UNCHANGED <<tableVars, cache, posting>>

\* getTrack throws: the request or its answer got lost.
AnswerLost(r) ==
    /\ "net" \in ReadFaults
    /\ phase[r] # "idle"
    /\ Over(r)
    /\ Shows("error", shown)
    /\ UNCHANGED <<tableVars, cache, posting>>

\* "Upload another".
Reset ==
    /\ kind = "ready"
    /\ Shows("idle", shown)
    /\ UNCHANGED <<tableVars, cache, readVars, posting>>

\* The pipeline, as its abstract specification.
Pipeline(t) ==
    /\ \/ Catalogue!Claim(t) \/ Catalogue!Complete(t) \/ Catalogue!Fail(t)
       \/ \E b \in BitrateSet \ formats[t] : Catalogue!AddFormat(t, b)
    /\ UNCHANGED <<cache, readVars, formVars>>

FormStep(t) == Submit(t) \/ Insert(t) \/ PostAnswered(t) \/ PostFails(t)
PollStep(r) ==
    \/ Tick(r) \/ Answer(r) \/ AnswerLost(r)
    \/ ReadStep(r) /\ UNCHANGED formVars

Next ==
    \/ \E t \in Tracks : FormStep(t) \/ Pipeline(t)
    \/ \E t \in Tracks : Expire(t) /\ UNCHANGED formVars
    \/ \E r \in Reads : PollStep(r)
    \/ Reset

Spec == Init /\ [][Next]_vars

\* A request is answered, and the interval fires again and again.  Nothing is
\* asked of the pipeline: an upload may be pending or in processing for ever (its
\* event was not published, or its worker died after the claim).  Nobody has to
\* press a button.
Fairness == \A r \in Reads : WF_vars(PollStep(r))

FairSpec == Spec /\ Fairness

----------------------------------------------------------------------------
(* Properties.                                                             *)

\* A track the form shows as ready is ready, also when the answer that said so
\* was overtaken by later ones, or is for an upload before the last
\* (UploadForm.tsx:36-50).
ShownReadyIsReady == kind = "ready" => status[shown] = "ready"

\* A form that polls a track learns of its end, which no answer that was true
\* once, from the cache or from a read under way, keeps from it for ever.  A track
\* that has no end is polled until the user closes the page: the interval counts
\* neither the polls nor the time (UploadForm.tsx:36-50).
EndIsNoticed ==
    \A t \in Tracks :
        kind = "polling" /\ shown = t /\ status[t] \in Final ~> kind # "polling"

\* "Poll track status until ready or error" (UploadForm.tsx:30): once the form
\* shows ready, only the user makes it show something else.
ReadyStays == [][kind = "ready" => kind' \in {"ready", "idle"}]_vars
=============================================================================
