----------------------------- MODULE MCServices -----------------------------
(***************************************************************************)
(* The parts that share no state with each other, checked in one run: the  *)
(* initial state chooses one of them, and only that one takes steps.  The  *)
(* others rest in their initial states.                                    *)
(***************************************************************************)
EXTENDS TokenBucket, LoginLimit, HashRing, Timeline, PlaylistPages, Search, Startup

VARIABLE part  \* the one that runs

Parts == {"bucket", "login", "ring", "timeline", "pages", "search", "startup"}

servicesVars == <<part, bucketVars, loginVars, ringVars, timelineVars, pagesVars,
                  searchVars, startupVars>>

Init ==
    /\ part \in Parts
    /\ BucketInit /\ LoginInit /\ RingInit /\ TimelineInit
    /\ PagesInit /\ SearchInit /\ StartupInit

Next ==
    \/ /\ part = "bucket" /\ BucketNext
       /\ UNCHANGED <<part, loginVars, ringVars, timelineVars, pagesVars,
                     searchVars, startupVars>>
    \/ /\ part = "login" /\ LoginNext
       /\ UNCHANGED <<part, bucketVars, ringVars, timelineVars, pagesVars,
                     searchVars, startupVars>>
    \/ /\ part = "ring" /\ RingNext
       /\ UNCHANGED <<part, bucketVars, loginVars, timelineVars, pagesVars,
                     searchVars, startupVars>>
    \/ /\ part = "timeline" /\ TimelineNext
       /\ UNCHANGED <<part, bucketVars, loginVars, ringVars, pagesVars,
                     searchVars, startupVars>>
    \/ /\ part = "pages" /\ PagesNext
       /\ UNCHANGED <<part, bucketVars, loginVars, ringVars, timelineVars,
                     searchVars, startupVars>>
    \/ /\ part = "search" /\ SearchNext
       /\ UNCHANGED <<part, bucketVars, loginVars, ringVars, timelineVars,
                     pagesVars, startupVars>>
    \/ /\ part = "startup" /\ StartupNext
       /\ UNCHANGED <<part, bucketVars, loginVars, ringVars, timelineVars,
                     pagesVars, searchVars>>

\* The fairness of a part holds while that part runs.
Fairness ==
    /\ WF_loginVars(part = "login" /\ WindowTick)
    /\ \A a \in Attempts : WF_loginVars(part = "login" /\ Expire(a))
    /\ \A p \in Processes : WF_startupVars(part = "startup" /\ StartStep(p))

Spec == Init /\ [][Next]_servicesVars /\ Fairness

\* Every variable of every part keeps its type: a bucket never holds more than
\* its capacity, no age outlives the window, no timeline holds anything but ids,
\* no cursor is made up.
TypeOK ==
    /\ part = "bucket" => BucketTypeOK
    /\ part = "login" => LoginTypeOK
    /\ part = "ring" => RingTypeOK
    /\ part = "timeline" => TimelineTypeOK
    /\ part = "pages" => PagesTypeOK
    /\ part = "search" => SearchTypeOK
    /\ part = "startup" => StartupTypeOK

\* The processes are started where Startup is the part that runs.
EveryoneServesIfStarted == part = "startup" => EveryoneServes
=============================================================================
