--------------------------- MODULE PlaylistPages ---------------------------
(***************************************************************************)
(* Paging through one playlist (ListTracks, AddTrack and RemoveTrack in    *)
(* beatstream/internal/handler/playlists.go) while it changes.  A client   *)
(* takes the first page and follows next_cursor to the end.                *)
(*                                                                         *)
(* Pages are ordered by position and added_at; the cursor is the id of the *)
(* last track of the page, and the next page is what was added later than  *)
(* it.  AddTrack leaves position at its default 0; db/migrations/seed.sql  *)
(* gives positions and adds all of its tracks at one time.                 *)
(***************************************************************************)
EXTENDS Naturals, FiniteSets

CONSTANTS
    Tracks,
    NoTrack,     \* a sub-select without a row
    Limit,       \* 50 in the code
    MaxAddedAt   \* bound: the last time at which a track is added

ASSUME PagesAssumption ==
    /\ Limit \in Nat \ {0} /\ MaxAddedAt \in Nat
    /\ NoTrack \notin Tracks /\ IsFiniteSet(Tracks)

VARIABLES
    added_at,   \* 0 for a track that is not in the playlist
    position,
    clock,
    cursor,     \* `after` of the next request; NoTrack before the first
    has_more,   \* what the last page said
    seen,       \* the tracks of the pages so far
    steady,     \* history: the tracks in the list ever since the first page
    disturbed   \* history: the list had two orders, or lost the cursor's track

pagesVars ==
    <<added_at, position, clock, cursor, has_more, seen, steady, disturbed>>

Listed == {t \in Tracks : added_at[t] > 0}

PagesTypeOK ==
    /\ added_at \in [Tracks -> 0 .. MaxAddedAt]
    /\ position \in [Tracks -> 0 .. Cardinality(Tracks)]
    /\ clock \in 0 .. MaxAddedAt
    /\ cursor \in Tracks \cup {NoTrack} /\ has_more \in BOOLEAN
    /\ seen \subseteq Tracks /\ steady \subseteq Tracks
    /\ disturbed \in BOOLEAN

PagesInit ==
    /\ added_at = [t \in Tracks |-> 0] /\ position = [t \in Tracks |-> 0]
    /\ clock = 0
    /\ cursor = NoTrack /\ has_more = FALSE /\ seen = {}
    /\ steady = {} /\ disturbed = FALSE

\* ORDER BY position, added_at; rows that are alike come in any order.
Before(t, u) ==
    \/ position[t] < position[u]
    \/ position[t] = position[u] /\ added_at[t] < added_at[u]

\* The order of the pages is the order the cursor goes by.
OneOrder ==
    \A t, u \in Listed :
        t # u => /\ added_at[t] # added_at[u]
                 /\ Before(t, u) <=> added_at[t] < added_at[u]

Seed ==
    /\ clock = 0 /\ clock < MaxAddedAt
    /\ clock' = 1
    /\ added_at' = [t \in Tracks |-> 1]
    /\ position' \in {p \in [Tracks -> 1 .. Cardinality(Tracks)] :
                         \A t, u \in Tracks : t # u => p[t] # p[u]}
    /\ disturbed' = TRUE
    /\ UNCHANGED <<cursor, has_more, seen, steady>>

\* A time of its own, or that of the track added last: NOW() has microseconds.
AddTrack(t) ==
    /\ IF t \in Listed THEN UNCHANGED <<added_at, position, clock, disturbed>>
       ELSE \E now \in {clock, clock + 1} \cap (1 .. MaxAddedAt) :
            /\ added_at' = [added_at EXCEPT ![t] = now]
            /\ position' = [position EXCEPT ![t] = 0]
            /\ clock' = now
            /\ disturbed' = (disturbed \/ ~OneOrder')
    /\ UNCHANGED <<cursor, has_more, seen, steady>>

RemoveTrack(t) ==
    /\ added_at' = [added_at EXCEPT ![t] = 0]
    /\ steady' = steady \ {t}
    /\ disturbed' = (disturbed \/ (has_more /\ t = cursor))
    /\ UNCHANGED <<position, clock, cursor, has_more, seen>>

\* Mutant: one row beyond the limit is asked for, and taken for the cursor.
CursorIsExtraRow(page, rest, last) ==
    IF rest = {} THEN last ELSE CHOOSE t \in rest : \A u \in rest : ~Before(u, t)

NextCursor(page, rest, last) == last

\* One page of the rows `found`.
ListPage(found) ==
    \E page \in SUBSET found :
        LET rest == found \ page IN
        /\ Cardinality(page) = IF Cardinality(found) < Limit
                               THEN Cardinality(found) ELSE Limit
        /\ \A t \in page, u \in rest : ~Before(u, t)
        /\ has_more' = (rest # {})
        /\ seen' = (IF cursor = NoTrack THEN {} ELSE seen) \cup page
        /\ IF rest = {} THEN cursor' = NoTrack
           ELSE \E last \in page :
                /\ \A t \in page : ~Before(last, t)
                /\ cursor' = NextCursor(page, rest, last)

FirstPage ==
    /\ ~has_more
    /\ ListPage(Listed)
    /\ steady' = Listed
    /\ disturbed' = ~OneOrder
    /\ UNCHANGED <<added_at, position, clock>>

\* added_at > NULL selects nothing.
NextPage ==
    /\ has_more
    /\ ListPage(IF cursor \in Listed
                THEN {t \in Listed : added_at[t] > added_at[cursor]} ELSE {})
    /\ UNCHANGED <<added_at, position, clock, steady, disturbed>>

PagesNext ==
    \/ Seed \/ FirstPage \/ NextPage
    \/ \E t \in Tracks : AddTrack(t) \/ RemoveTrack(t)

PagesSpec == PagesInit /\ [][PagesNext]_pagesVars

----------------------------------------------------------------------------

\* A walk that is told there is no more has shown every track that was in the
\* playlist all the time, whatever was added or removed between the pages:
\* unless the track the cursor names was removed, or the two orders differ, as
\* for seeded tracks and for tracks that share a time (playlists.go:110-111).
WalkComplete == ~has_more /\ ~disturbed => steady \subseteq seen

\* The inductive invariant behind it: in the middle of a walk, what stayed in
\* the list and was not shown was added later than the track of the cursor.
PagesInv ==
    /\ ~disturbed => OneOrder
    /\ steady \subseteq Listed
    /\ IF has_more THEN cursor \in Tracks ELSE cursor = NoTrack
    /\ has_more /\ ~disturbed =>
        /\ cursor \in Listed
        /\ \A t \in steady : t \in seen \/ added_at[t] > added_at[cursor]
    /\ WalkComplete
=============================================================================
