------------------------------ MODULE HashRing ------------------------------
(***************************************************************************)
(* The consistent hashing ring of interview-prep/consistent-hashing:       *)
(* nodes come and go, and keys are looked up by their hash.                *)
(*                                                                         *)
(* The hash of a node's points is arbitrary but fixed: it is chosen when   *)
(* the node is first named, and two points, of one node or of two, may     *)
(* collide.  `sorted` is kept as a set: its order and its repetitions are  *)
(* invisible to the binary search of Get.                                  *)
(***************************************************************************)
EXTENDS Naturals, FiniteSets

CONSTANTS
    Nodes,
    NoNode,      \* what Get returns on an empty ring
    Positions,   \* the values of the hash
    VNodes       \* points per node

ASSUME RingAssumption ==
    /\ NoNode \notin Nodes
    /\ Positions \subseteq Nat /\ Positions # {}
    /\ VNodes \in Nat \ {0}

VARIABLES
    points,    \* the hashes of a node's points; {} until it is first named
    nodes,     \* position -> node name; NoNode where the map has no entry
    sorted,    \* the positions that Get searches
    members    \* history: the nodes added and not removed since

ringVars == <<points, nodes, sorted, members>>

RingTypeOK ==
    /\ points \in [Nodes -> SUBSET Positions]
    /\ nodes \in [Positions -> Nodes \cup {NoNode}]
    /\ sorted \subseteq Positions
    /\ members \subseteq Nodes

RingInit ==
    /\ points = [n \in Nodes |-> {}]
    /\ nodes = [p \in Positions |-> NoNode]
    /\ sorted = {} /\ members = {}

\* Get: the first position at or after the key's hash, or else the first one.
After(h) == {p \in sorted : p >= h}
First(P) == CHOOSE p \in P : \A q \in P : p <= q
Successor(h) == IF After(h) # {} THEN First(After(h)) ELSE First(sorted)

\* Mutant: hash modulo the number of points, as without a ring.
GetModulo(h) ==
    IF sorted = {} THEN NoNode
    ELSE nodes[CHOOSE p \in sorted :
                   Cardinality({q \in sorted : q < p}) = h % Cardinality(sorted)]

Get(h) == IF sorted = {} THEN NoNode ELSE nodes[Successor(h)]

\* The hashes of the points of n: what they were, if n was ever named.
Hashes(n) ==
    IF points[n] # {} THEN {points[n]}
    ELSE {P \in SUBSET Positions : P # {} /\ Cardinality(P) <= VNodes}

Add(n) ==
    \E P \in Hashes(n) :
        /\ points' = [points EXCEPT ![n] = P]
        /\ nodes' = [p \in Positions |-> IF p \in P THEN n ELSE nodes[p]]
        /\ sorted' = sorted \cup P
        /\ members' = members \cup {n}

\* Mutant: the list is not rebuilt from the map.
RemoveFromMap(n) ==
    \E P \in Hashes(n) :
        /\ points' = [points EXCEPT ![n] = P]
        /\ nodes' = [p \in Positions |-> IF p \in P THEN NoNode ELSE nodes[p]]
        /\ members' = members \ {n}
        /\ UNCHANGED sorted

\* Remove deletes the positions of n's points whoever they belong to, also
\* when n itself was never added.
Remove(n) ==
    \E P \in Hashes(n) :
        /\ points' = [points EXCEPT ![n] = P]
        /\ nodes' = [p \in Positions |-> IF p \in P THEN NoNode ELSE nodes[p]]
        /\ sorted' = {p \in Positions : nodes'[p] # NoNode}
        /\ members' = members \ {n}

RingNext == \E n \in Nodes : Add(n) \/ Remove(n)

RingSpec == RingInit /\ [][RingNext]_ringVars

----------------------------------------------------------------------------

\* No two of the nodes that were named have a point in common.
Distinct ==
    \A m, n \in Nodes : m # n => points[m] \cap points[n] = {}

\* Whatever is added and removed, and also when points collide, no key is sent
\* to a node that was removed, and without collisions every key has a node as
\* long as there is one (main.go:35-46, 48-60).
GetFindsMember ==
    \A h \in Positions :
        IF Get(h) = NoNode THEN Distinct => members = {} ELSE Get(h) \in members

\* A key moves only to a node that was just added or away from one that was
\* just removed, as long as no points collide (the comparison of main.go:93-110).
OnlyNeighboursMove ==
    [][ Distinct' =>
        \A h \in Positions : Get(h)' # Get(h) =>
            \/ Get(h)' \in members' \ members
            \/ Get(h) \in {NoNode} \cup (members \ members') ]_ringVars
=============================================================================
