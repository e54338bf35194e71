------------------------ MODULE InterviewPrepProofs ------------------------
(***************************************************************************)
(* Proofs about the interview preparation programs.  HashRing: Get finds a  *)
(* member, and a change of the members moves only the keys it must, for    *)
(* any nodes, any positions and any hashes of their points.  Timeline:     *)
(* pushing a tweet to the followers and cutting their lists leaves the      *)
(* newest of all that was delivered, for any users and any length of the   *)
(* lists.                                                                  *)
(***************************************************************************)
EXTENDS HashRing, Timeline, WellFoundedInduction, SequenceTheorems,
        FiniteSetTheorems, TLAPS

\* The inductive invariant: the list is what the map has, the map sends a
\* position only to a member that has a point there, and without collisions to
\* every one of them.
RingInv ==
    /\ RingTypeOK
    /\ sorted = {p \in Positions : nodes[p] # NoNode}
    /\ \A p \in sorted : nodes[p] \in members /\ p \in points[nodes[p]]
    /\ \A n \in members : points[n] # {}
    /\ Distinct => \A n \in members : \A p \in points[n] : nodes[p] = n

----------------------------------------------------------------------------
(* The least position of a set.                                            *)

LEMMA LeastExists ==
  ASSUME NEW P \in SUBSET Nat, P # {}
  PROVE  \E p \in P : \A q \in P : p <= q
<1>1. \E p \in P : \A q \in P : ~ (<<q, p>> \in OpToRel(<, Nat))
  BY NatLessThanWellFounded, WFMin
<1>2. \A p, q \in Nat : <<q, p>> \in OpToRel(<, Nat) <=> q < p
  BY Zenon DEF OpToRel
<1>3. PICK p \in P : \A q \in P : ~ (q < p)
  BY <1>1, <1>2
<1>4. QED
  BY <1>3

LEMMA FirstIsLeast ==
  ASSUME NEW P \in SUBSET Nat, P # {}
  PROVE  First(P) \in P /\ \A q \in P : First(P) <= q
  BY LeastExists DEF First

LEMMA LeastIsFirst ==
  ASSUME NEW P \in SUBSET Nat, NEW p \in P, \A q \in P : p <= q
  PROVE  First(P) = p
<1>1. First(P) \in P /\ First(P) <= p
  BY FirstIsLeast
<1>2. p <= First(P) /\ p \in Nat /\ First(P) \in Nat
  BY <1>1
<1>3. \A m, n \in Nat : m <= n /\ n <= m => m = n
  OBVIOUS
<1>4. QED
  BY <1>1, <1>2, <1>3

\* Successor, for any list.
SuccessorIn(S, h) ==
    IF {p \in S : p >= h} # {} THEN First({p \in S : p >= h}) ELSE First(S)

\* p is the least position at or after h, if there is one, and the least of all
\* if there is not.
Follows(S, h, p) ==
    /\ p \in S
    /\ \/ p >= h /\ \A q \in S : q >= h => p <= q
       \/ (\A q \in S : ~(q >= h)) /\ \A q \in S : p <= q

LEMMA SuccessorFollows ==
  ASSUME NEW S \in SUBSET Positions, S # {}, NEW h \in Positions
  PROVE  Follows(S, h, SuccessorIn(S, h))
<1> DEFINE After0 == {p \in S : p >= h}
<1>1. S \in SUBSET Nat /\ After0 \in SUBSET Nat
  BY RingAssumption
<1>2. CASE After0 # {}
  <2>1. First(After0) \in After0 /\ \A q \in After0 : First(After0) <= q
    BY <1>1, <1>2, FirstIsLeast
  <2>2. QED
    BY <1>2, <2>1 DEF SuccessorIn, Follows
<1>3. CASE After0 = {}
  <2>1. First(S) \in S /\ \A q \in S : First(S) <= q
    BY <1>1, FirstIsLeast
  <2>2. QED
    BY <1>3, <2>1 DEF SuccessorIn, Follows
<1>4. QED
  BY <1>2, <1>3

\* What follows h in a list follows it in every part of the list it is in.
LEMMA SuccessorKept ==
  ASSUME NEW S \in SUBSET Positions, NEW T \in SUBSET S, NEW h \in Positions,
         NEW p \in T, Follows(S, h, p)
  PROVE  SuccessorIn(T, h) = p
<1>1. T \in SUBSET Nat /\ {q \in T : q >= h} \in SUBSET Nat
  BY RingAssumption
<1>2. CASE p >= h /\ \A q \in S : q >= h => p <= q
  <2>1. p \in {q \in T : q >= h}
    BY <1>2
  <2>2. First({q \in T : q >= h}) = p
    BY <1>1, <1>2, <2>1, LeastIsFirst
  <2>3. QED
    BY <2>1, <2>2 DEF SuccessorIn
<1>3. CASE (\A q \in S : ~(q >= h)) /\ \A q \in S : p <= q
  <2>1. {q \in T : q >= h} = {}
    BY <1>3
  <2>2. First(T) = p
    BY <1>1, <1>3, LeastIsFirst
  <2>3. QED
    BY <2>1, <2>2 DEF SuccessorIn
<1>4. QED
  BY <1>2, <1>3 DEF Follows

----------------------------------------------------------------------------

LEMMA RingInitially == RingInit => RingInv
  BY RingAssumption DEF RingInit, RingInv, RingTypeOK, Distinct

LEMMA AddKeeps ==
  ASSUME RingInv, NEW n \in Nodes, Add(n)
  PROVE  RingInv'
<1> USE RingAssumption
<1>1. PICK P \in Hashes(n) :
        /\ points' = [points EXCEPT ![n] = P]
        /\ nodes' = [p \in Positions |-> IF p \in P THEN n ELSE nodes[p]]
        /\ sorted' = sorted \cup P
        /\ members' = members \cup {n}
  BY DEF Add
<1>2. P \in SUBSET Positions /\ P # {} /\ (points[n] # {} => P = points[n])
  BY <1>1 DEF Hashes, RingInv, RingTypeOK
<1>3. RingTypeOK'
  BY <1>1, <1>2 DEF RingInv, RingTypeOK
<1>4. sorted' = {p \in Positions : nodes'[p] # NoNode}
  BY <1>1, <1>2 DEF RingInv, RingTypeOK
<1>5. ASSUME NEW p \in sorted'
      PROVE  nodes'[p] \in members' /\ p \in points'[nodes'[p]]
  BY <1>1, <1>2, <1>4 DEF RingInv, RingTypeOK
<1>6. \A m \in members' : points'[m] # {}
  BY <1>1, <1>2 DEF RingInv, RingTypeOK
<1>7. ASSUME Distinct', NEW m \in members', NEW p \in points'[m]
      PROVE  nodes'[p] = m
  <2>1. Distinct
    BY <1>1, <1>2, <1>7 DEF Distinct, RingInv, RingTypeOK
  <2>2. QED
    BY <1>1, <1>2, <1>7, <2>1 DEF Distinct, RingInv, RingTypeOK
<1>8. QED
  BY <1>3, <1>4, <1>5, <1>6, <1>7 DEF RingInv

LEMMA RemoveKeeps ==
  ASSUME RingInv, NEW n \in Nodes, Remove(n)
  PROVE  RingInv'
<1> USE RingAssumption
<1>1. PICK P \in Hashes(n) :
        /\ points' = [points EXCEPT ![n] = P]
        /\ nodes' = [p \in Positions |-> IF p \in P THEN NoNode ELSE nodes[p]]
        /\ sorted' = {p \in Positions : nodes'[p] # NoNode}
        /\ members' = members \ {n}
  BY DEF Remove
<1>2. P \in SUBSET Positions /\ P # {} /\ (points[n] # {} => P = points[n])
  BY <1>1 DEF Hashes, RingInv, RingTypeOK
<1>3. RingTypeOK'
  BY <1>1, <1>2 DEF RingInv, RingTypeOK
<1>4. ASSUME NEW p \in sorted'
      PROVE  nodes'[p] \in members' /\ p \in points'[nodes'[p]]
  <2>1. p \notin P /\ nodes'[p] = nodes[p] /\ p \in sorted
    BY <1>1, <1>4 DEF RingInv
  <2>2. nodes[p] \in members /\ p \in points[nodes[p]] /\ nodes[p] \in Nodes
    BY <2>1 DEF RingInv, RingTypeOK
  <2>3. nodes[p] # n
    BY <1>2, <2>1, <2>2
  <2>4. QED
    BY <1>1, <2>1, <2>2, <2>3 DEF RingInv, RingTypeOK
<1>5. \A m \in members' : points'[m] # {}
  BY <1>1, <1>2 DEF RingInv, RingTypeOK
<1>6. ASSUME Distinct', NEW m \in members', NEW p \in points'[m]
      PROVE  nodes'[p] = m
  <2>1. Distinct
    BY <1>1, <1>2, <1>6 DEF Distinct, RingInv, RingTypeOK
  <2>2. m # n /\ m \in Nodes /\ m \in members /\ p \in points[m] /\ p \in Positions
    BY <1>1, <1>6 DEF RingInv, RingTypeOK
  <2>3. p \notin P
    BY <1>1, <1>6, <2>2 DEF Distinct, RingInv, RingTypeOK
  <2>4. QED
    BY <1>1, <2>1, <2>2, <2>3 DEF RingInv
<1>7. QED
  BY <1>1, <1>3, <1>4, <1>5, <1>6 DEF RingInv

LEMMA RingStep == RingInv /\ [RingNext]_ringVars => RingInv'
<1>1. RingInv /\ UNCHANGED ringVars => RingInv'
  BY DEF ringVars, RingInv, RingTypeOK, Distinct
<1>2. QED
  BY <1>1, AddKeeps, RemoveKeeps DEF RingNext

LEMMA RingInvariance == RingSpec => []RingInv
  BY RingStep, RingInitially, PTL DEF RingSpec

----------------------------------------------------------------------------

LEMMA GetOfMember ==
  ASSUME RingInv, NEW h \in Positions, sorted # {}
  PROVE  /\ Successor(h) \in sorted /\ Get(h) = nodes[Successor(h)]
         /\ Get(h) \in members /\ Get(h) \in Nodes
<1>1. sorted \in SUBSET Positions /\ members \subseteq Nodes
  BY DEF RingInv, RingTypeOK
<1>2. Successor(h) \in sorted
  BY <1>1, SuccessorFollows DEF Successor, SuccessorIn, After, Follows
<1>3. Get(h) = nodes[Successor(h)]
  BY DEF Get
<1>4. QED
  BY <1>1, <1>2, <1>3 DEF RingInv

\* No key is sent to a node that was removed, and without collisions every key
\* has a node as long as there is one.
THEOREM KeysFindMembers == RingSpec => []GetFindsMember
<1>1. RingInv => GetFindsMember
  <2> SUFFICES ASSUME RingInv, NEW h \in Positions
               PROVE  IF Get(h) = NoNode THEN Distinct => members = {} ELSE Get(h) \in members
    BY DEF GetFindsMember
  <2>1. CASE sorted = {}
    <3>1. Get(h) = NoNode
      BY <2>1 DEF Get
    <3>2. ASSUME Distinct, NEW m \in members
          PROVE  FALSE
      <4>1. PICK p \in points[m] : nodes[p] = m
        BY <3>2 DEF RingInv
      <4>2. m \in Nodes /\ p \in Positions
        BY <4>1 DEF RingInv, RingTypeOK
      <4>3. p \in sorted
        BY <4>1, <4>2, RingAssumption DEF RingInv
      <4>4. QED
        BY <2>1, <4>3
    <3>3. QED
      BY <3>1, <3>2
  <2>2. CASE sorted # {}
    BY <2>2, GetOfMember, RingAssumption
  <2>3. QED
    BY <2>1, <2>2
<1>2. QED
  BY <1>1, RingInvariance, PTL


\* A node that is added takes keys over and moves no other key.
LEMMA AddMoves ==
  ASSUME RingInv, Distinct, NEW n \in Nodes, Add(n), NEW h \in Positions, sorted # {}
  PROVE  Get(h)' = Get(h) \/ Get(h)' \in members' \ members
<1>1. PICK P \in Hashes(n) :
        /\ points' = [points EXCEPT ![n] = P]
        /\ nodes' = [p \in Positions |-> IF p \in P THEN n ELSE nodes[p]]
        /\ sorted' = sorted \cup P
        /\ members' = members \cup {n}
  BY DEF Add
<1>2. /\ sorted \in SUBSET Positions /\ sorted' \in SUBSET Positions
      /\ sorted \in SUBSET sorted' /\ sorted' # {}
  BY <1>1 DEF RingInv, RingTypeOK, Hashes
<1> DEFINE p == SuccessorIn(sorted', h)
<1>3. Follows(sorted', h, p) /\ p \in sorted' /\ p \in Positions
  BY <1>2, SuccessorFollows DEF Follows
<1>4. Get(h)' = nodes'[p] /\ Get(h) = nodes[SuccessorIn(sorted, h)]
  BY <1>2 DEF Get, Successor, SuccessorIn, After
<1>5. p \in sorted => SuccessorIn(sorted, h) = p
  BY <1>2, <1>3, SuccessorKept
<1> HIDE DEF p
<1>6. CASE p \in P /\ n \notin members
  BY <1>1, <1>3, <1>4, <1>6
<1>7. CASE p \in P /\ n \in members
  <2>1. P = points[n]
    BY <1>1, <1>7 DEF Hashes, RingInv
  <2>2. nodes[p] = n /\ p \in sorted
    BY <1>3, <1>7, <2>1, RingAssumption DEF RingInv
  <2>3. QED
    BY <1>1, <1>3, <1>4, <1>5, <1>7, <2>2
<1>8. CASE p \notin P
  BY <1>1, <1>3, <1>4, <1>5, <1>8
<1>9. QED
  BY <1>6, <1>7, <1>8

\* A node that is removed gives its keys away and moves no other key.
LEMMA RemoveMoves ==
  ASSUME RingInv, Distinct', NEW n \in Nodes, Remove(n), NEW h \in Positions, sorted # {}
  PROVE  Get(h)' = Get(h) \/ Get(h) \in members \ members'
<1> DEFINE p == SuccessorIn(sorted, h)
<1>1. PICK P \in Hashes(n) :
        /\ points' = [points EXCEPT ![n] = P]
        /\ nodes' = [q \in Positions |-> IF q \in P THEN NoNode ELSE nodes[q]]
        /\ sorted' = {q \in Positions : nodes'[q] # NoNode}
        /\ members' = members \ {n}
  BY DEF Remove
<1>2. sorted \in SUBSET Positions /\ sorted' \in SUBSET sorted
  BY <1>1 DEF RingInv, RingTypeOK
<1>3. Follows(sorted, h, p) /\ p \in sorted /\ p \in Positions
  BY <1>2, SuccessorFollows DEF Follows
<1>4. Get(h) = nodes[p] /\ (sorted' # {} => Get(h)' = nodes'[SuccessorIn(sorted', h)])
  BY DEF Get, Successor, SuccessorIn, After
<1> HIDE DEF p
<1>5. nodes[p] \in members /\ p \in points[nodes[p]] /\ nodes[p] \in Nodes
  BY <1>3 DEF RingInv, RingTypeOK
<1>6. CASE nodes[p] = n
  BY <1>1, <1>4, <1>5, <1>6
<1>7. CASE nodes[p] # n
  <2>1. p \notin P
    BY <1>1, <1>5, <1>7 DEF Distinct, RingInv, RingTypeOK
  <2>2. nodes'[p] = nodes[p] /\ p \in sorted'
    BY <1>1, <1>3, <1>5, <2>1, RingAssumption
  <2>3. SuccessorIn(sorted', h) = p
    BY <1>2, <1>3, <2>2, SuccessorKept
  <2>4. QED
    BY <1>4, <2>2, <2>3
<1>8. QED
  BY <1>6, <1>7

\* Without collisions a key moves only to a node that was just added or away
\* from one that was just removed.
THEOREM FewKeysMove == RingSpec => OnlyNeighboursMove
<1>1. RingInv /\ [RingNext]_ringVars
        => [Distinct' =>
             \A h \in Positions : Get(h)' # Get(h) =>
               \/ Get(h)' \in members' \ members
               \/ Get(h) \in {NoNode} \cup (members \ members') ]_ringVars
  <2> SUFFICES ASSUME RingInv, RingNext, Distinct', NEW h \in Positions,
                      Get(h)' # Get(h)
               PROVE  \/ Get(h)' \in members' \ members
                      \/ Get(h) \in {NoNode} \cup (members \ members')
    OBVIOUS
  <2>1. CASE sorted = {}
    BY <2>1 DEF Get
  <2>2. ASSUME sorted # {}, NEW n \in Nodes, Add(n)
        PROVE  Get(h)' \in members' \ members
    <3>1. PICK P \in Hashes(n) : points' = [points EXCEPT ![n] = P]
      BY <2>2 DEF Add
    <3>2. points[n] # {} => P = points[n]
      BY <3>1 DEF Hashes
    <3>3. Distinct
      BY <3>1, <3>2 DEF Distinct, RingInv, RingTypeOK
    <3>4. QED
      BY <2>2, <3>3, AddMoves
  <2>3. ASSUME sorted # {}, NEW n \in Nodes, Remove(n)
        PROVE  Get(h) \in members \ members'
    BY <2>3, RemoveMoves
  <2>4. QED
    BY <2>1, <2>2, <2>3 DEF RingNext
<1>2. QED
  BY <1>1, RingInvariance, PTL DEF RingSpec, OnlyNeighboursMove

----------------------------------------------------------------------------
(* Timelines.                                                              *)

LEMMA Induction ==
  ASSUME NEW S, S \subseteq Nat, 0 \in S, \A k \in S : k + 1 \in S
  PROVE  S = Nat
<1> SUFFICES ASSUME Nat \ S # {} PROVE FALSE
  OBVIOUS
<1>1. PICK m \in Nat \ S : \A k \in Nat \ S : m <= k
  BY LeastExists
<1>2. m # 0 /\ m - 1 \in Nat /\ ~(m <= m - 1)
  OBVIOUS
<1>3. m - 1 \in S
  BY <1>1, <1>2
<1>4. (m - 1) + 1 = m
  OBVIOUS
<1> QED
  BY <1>3, <1>4

\* A recursion over 0 .. n: from base, by step[i] from i - 1 to i.
Solvable(n, S, base, step) ==
    \E f \in [0 .. n -> S] :
        f[0] = base /\ \A i \in 1 .. n : f[i] = step[i][f[i - 1]]

\* It has a solution.
LEMMA Recursion ==
  ASSUME NEW n \in Nat, NEW S, NEW base \in S, NEW step \in [1 .. n -> [S -> S]]
  PROVE  Solvable(n, S, base, step)
<1> USE DEF Solvable
<1> DEFINE Solved == {k \in Nat : k <= n => Solvable(k, S, base, step)}
<1>1. 0 \in Solved
  <2> DEFINE f == [i \in 0 .. 0 |-> base]
  <2>1. f \in [0 .. 0 -> S] /\ f[0] = base /\ \A i \in 1 .. 0 : f[i] = step[i][f[i - 1]]
    OBVIOUS
  <2> QED
    BY <2>1
<1>2. ASSUME NEW k \in Solved PROVE k + 1 \in Solved
  <2> SUFFICES ASSUME k + 1 <= n
               PROVE  Solvable(k + 1, S, base, step)
    <3> HIDE DEF Solvable
    <3> QED
      OBVIOUS
  <2>1. PICK g \in [0 .. k -> S] :
            g[0] = base /\ \A i \in 1 .. k : g[i] = step[i][g[i - 1]]
    OBVIOUS
  <2> DEFINE f == [i \in 0 .. k + 1 |-> IF i <= k THEN g[i] ELSE step[k + 1][g[k]]]
  <2>2. step[k + 1] \in [S -> S] /\ g[k] \in S
    <3>1. k + 1 \in 1 .. n /\ k \in 0 .. k
      OBVIOUS
    <3> QED
      BY <3>1
  <2>3. step[k + 1][g[k]] \in S
    BY <2>2
  <2>4. f \in [0 .. k + 1 -> S]
    BY <2>3
  <2>5. f[0] = base
    BY <2>1
  <2>6. ASSUME NEW i \in 1 .. k + 1 PROVE f[i] = step[i][f[i - 1]]
    <3>1. i - 1 \in 0 .. k /\ f[i - 1] = g[i - 1]
      OBVIOUS
    <3>2. CASE i <= k
      BY <2>1, <3>1, <3>2
    <3>3. CASE i = k + 1
      BY <3>1, <3>3
    <3> QED
      BY <3>2, <3>3
  <2> QED
    BY <2>4, <2>5, <2>6
<1>3. Solved = Nat
  <2> HIDE DEF Solved
  <2>1. Solved \subseteq Nat
    BY DEF Solved
  <2> QED
    BY <1>1, <1>2, <2>1, Induction
<1> QED
  BY <1>3

\* What the posts of a list deliver, from its first post to its last.
LEMMA CollectsStep ==
  ASSUME NEW ps \in Seq([id : Nat, audience : [Users -> Nat]]), NEW u \in Users
  PROVE  /\ InFull!Collects(ps, u) \in [0 .. Len(ps) -> Seq(Nat)]
         /\ InFull!Collects(ps, u)[0] = <<>>
         /\ \A i \in 1 .. Len(ps) :
               InFull!Collects(ps, u)[i] =
                   InFull!Copies(ps[i], u) \o InFull!Collects(ps, u)[i - 1]
<1> DEFINE step == [i \in 1 .. Len(ps) |->
                      [ids \in Seq(Nat) |-> InFull!Copies(ps[i], u) \o ids]]
<1>1. Len(ps) \in Nat /\ <<>> \in Seq(Nat)
  OBVIOUS
<1>2. ASSUME NEW i \in 1 .. Len(ps) PROVE InFull!Copies(ps[i], u) \in Seq(Nat)
  <2>1. ps[i] \in [id : Nat, audience : [Users -> Nat]]
    BY ElementOfSeq
  <2>2. ps[i].id \in Nat /\ ps[i].audience[u] \in Nat
    BY <2>1
  <2> QED
    BY <2>2 DEF InFull!Copies
<1>3. step \in [1 .. Len(ps) -> [Seq(Nat) -> Seq(Nat)]]
  BY <1>2, ConcatProperties
<1>4. PICK f \in [0 .. Len(ps) -> Seq(Nat)] :
          f[0] = <<>> /\ \A i \in 1 .. Len(ps) : f[i] = step[i][f[i - 1]]
  <2> DEFINE n == Len(ps)
             S == Seq(Nat)
             base == <<>>
  <2>1. n \in Nat /\ base \in S /\ step \in [1 .. n -> [S -> S]]
    BY <1>1, <1>3
  <2> HIDE DEF step, n, S, base
  <2>2. Solvable(n, S, base, step)
    BY <2>1, Recursion
  <2> QED
    BY <2>2 DEF Solvable, n, S, base
<1> DEFINE Solves(g) == g = [i \in 0 .. Len(ps) |->
                          IF i = 0 THEN <<>> ELSE InFull!Copies(ps[i], u) \o g[i - 1]]
<1>5. Solves(f)
  <2>0. \A i \in 1 .. Len(ps) : i - 1 \in 0 .. Len(ps)
    BY <1>1
  <2>1. \A i \in 1 .. Len(ps) : f[i - 1] \in Seq(Nat)
    BY <2>0
  <2>2. \A i \in 1 .. Len(ps) : step[i][f[i - 1]] = InFull!Copies(ps[i], u) \o f[i - 1]
    BY <2>1
  <2>3. \A i \in 0 .. Len(ps) : i # 0 => i \in 1 .. Len(ps)
    BY <1>1
  <2> HIDE DEF step
  <2>4. \A i \in 0 .. Len(ps) :
           f[i] = IF i = 0 THEN <<>> ELSE InFull!Copies(ps[i], u) \o f[i - 1]
    BY <1>4, <2>2, <2>3
  <2> QED
    BY <2>4
<1> DEFINE m == InFull!Collects(ps, u)
<1>6. Solves(m)
  <2>1. m = CHOOSE g : Solves(g)
    BY DEF InFull!Collects
  <2> HIDE DEF Solves, m
  <2> QED
    BY <1>5, <2>1
<1> HIDE DEF m
<1>7. /\ m[0] = <<>>
      /\ \A i \in 1 .. Len(ps) : m[i] = InFull!Copies(ps[i], u) \o m[i - 1]
  <2> DEFINE rhs == [i \in 0 .. Len(ps) |->
                        IF i = 0 THEN <<>> ELSE InFull!Copies(ps[i], u) \o m[i - 1]]
  <2>1. /\ rhs[0] = <<>>
        /\ \A i \in 1 .. Len(ps) : rhs[i] = InFull!Copies(ps[i], u) \o m[i - 1]
    <3>1. 0 \in 0 .. Len(ps) /\ \A i \in 1 .. Len(ps) : i \in 0 .. Len(ps) /\ i # 0
      BY <1>1
    <3> QED
      BY <3>1
  <2>2. m = rhs
    BY <1>6
  <2> HIDE DEF rhs
  <2> QED
    BY <2>1, <2>2
<1>8. \A i \in 0 .. Len(ps) : m[i] \in Seq(Nat)
  <2> DEFINE Typed == {k \in Nat : k <= Len(ps) => m[k] \in Seq(Nat)}
  <2>1. 0 \in Typed
    BY <1>1, <1>7
  <2>2. ASSUME NEW k \in Typed PROVE k + 1 \in Typed
    <3> SUFFICES ASSUME k + 1 <= Len(ps) PROVE m[k + 1] \in Seq(Nat)
      OBVIOUS
    <3>1. k + 1 \in 1 .. Len(ps) /\ (k + 1) - 1 = k /\ m[k] \in Seq(Nat)
      BY <1>1
    <3>2. m[k + 1] = InFull!Copies(ps[k + 1], u) \o m[k]
      BY <1>7, <3>1
    <3> QED
      BY <1>2, <3>1, <3>2, ConcatProperties
  <2>3. Typed \subseteq Nat
    OBVIOUS
  <2>4. Typed = Nat
    <3> HIDE DEF Typed
    <3> QED
      BY <2>1, <2>2, <2>3, Induction
  <2> QED
    BY <1>1, <2>4
<1> QED
  BY <1>6, <1>7, <1>8 DEF m

\* One more post goes in front of what the others give.
LEMMA CollectedAppend ==
  ASSUME NEW ps \in Seq([id : Nat, audience : [Users -> Nat]]), NEW u \in Users,
         NEW p \in [id : Nat, audience : [Users -> Nat]]
  PROVE  /\ InFull!Collected(ps, u) \in Seq(Nat)
         /\ InFull!Collected(Append(ps, p), u) = InFull!Copies(p, u) \o InFull!Collected(ps, u)
<1> DEFINE qs == Append(ps, p)
           n == Len(ps)
<1>1. /\ qs \in Seq([id : Nat, audience : [Users -> Nat]])
      /\ Len(qs) = n + 1 /\ n \in Nat /\ qs[n + 1] = p
      /\ \A i \in 1 .. n : qs[i] = ps[i]
  OBVIOUS
<1> DEFINE m == InFull!Collects(ps, u)
           k == InFull!Collects(qs, u)
<1>2. /\ m \in [0 .. n -> Seq(Nat)] /\ m[0] = <<>>
      /\ \A i \in 1 .. n : m[i] = InFull!Copies(ps[i], u) \o m[i - 1]
  BY CollectsStep
<1>3. /\ k[0] = <<>>
      /\ \A i \in 1 .. n + 1 : k[i] = InFull!Copies(qs[i], u) \o k[i - 1]
  <2> HIDE DEF qs
  <2> QED
    BY <1>1, CollectsStep
<1> HIDE DEF m, k, qs
<1> DEFINE Same == {i \in Nat : i <= n => k[i] = m[i]}
<1>4. 0 \in Same
  BY <1>2, <1>3
<1>5. ASSUME NEW i \in Same PROVE i + 1 \in Same
  <2> SUFFICES ASSUME i + 1 <= n PROVE k[i + 1] = m[i + 1]
    OBVIOUS
  <2>0. n \in Nat
    BY <1>1
  <2> HIDE DEF n
  <2>1. i + 1 \in 1 .. n /\ i + 1 \in 1 .. n + 1 /\ (i + 1) - 1 = i /\ k[i] = m[i]
    BY <2>0
  <2>2. k[i + 1] = InFull!Copies(qs[i + 1], u) \o k[i]
    BY <1>3, <2>1
  <2>3. m[i + 1] = InFull!Copies(ps[i + 1], u) \o m[i]
    BY <1>2, <2>1
  <2> QED
    BY <1>1, <2>1, <2>2, <2>3
<1>6. Same = Nat
  <2>1. Same \subseteq Nat
    OBVIOUS
  <2> HIDE DEF Same
  <2> QED
    BY <1>4, <1>5, <2>1, Induction
<1>7. k[n] = m[n]
  <2>1. n \in Same
    <3> HIDE DEF Same
    <3> QED
      BY <1>1, <1>6
  <2> QED
    BY <2>1
<1>8. k[n + 1] = InFull!Copies(p, u) \o k[n]
  <2>1. n + 1 \in 1 .. n + 1 /\ (n + 1) - 1 = n
    BY <1>1
  <2> QED
    BY <1>1, <1>3, <2>1
<1>9. InFull!Collected(ps, u) = m[n] /\ m[n] \in Seq(Nat)
  BY <1>1, <1>2 DEF InFull!Collected, m
<1>10. InFull!Collected(qs, u) = k[n + 1]
  BY <1>1 DEF InFull!Collected, k
<1> QED
  BY <1>7, <1>8, <1>9, <1>10 DEF qs

\* Putting a tweet in front of the newest of a list gives the newest of the list
\* with the tweet in front.
LEMMA PrependNewest ==
  ASSUME NEW ids \in Seq(Nat), NEW id \in Nat
  PROVE  /\ InFull!Newest(ids) \in Seq(Nat)
         /\ Prepend(InFull!Newest(ids), id) = InFull!Newest(<<id>> \o ids)
<1> USE TimelineAssumption
<1> DEFINE n == Len(ids)
           l == IF n < Cap THEN n ELSE Cap
           new == InFull!Newest(ids)
           all == <<id>> \o new
           whole == <<id>> \o ids
<1>1. n \in Nat /\ l \in Nat /\ l <= n /\ l <= Cap
  OBVIOUS
<1>2. /\ new \in Seq(Nat) /\ Len(new) = l
      /\ \A i \in 1 .. l : new[i] = ids[i]
  <2>1. \A i \in 1 .. l : ids[i] \in Nat
    BY <1>1, ElementOfSeq
  <2>2. new = SubSeq(ids, 1, l)
    BY DEF InFull!Newest
  <2> HIDE DEF l, new
  <2>3. /\ SubSeq(ids, 1, l) \in Seq(Nat)
        /\ Len(SubSeq(ids, 1, l)) = IF 1 <= l THEN l - 1 + 1 ELSE 0
        /\ \A i \in 1 .. l - 1 + 1 : SubSeq(ids, 1, l)[i] = ids[1 + i - 1]
    BY <1>1, <2>1, SubSeqProperties
  <2> QED
    BY <1>1, <2>2, <2>3
<1>3. /\ <<id>> \in Seq(Nat) /\ Len(<<id>>) = 1 /\ <<id>>[1] = id
  OBVIOUS
<1> HIDE DEF new
<1>4. /\ all \in Seq(Nat) /\ Len(all) = l + 1 /\ all[1] = id
      /\ \A i \in 2 .. l + 1 : all[i] = ids[i - 1]
  <2>1. \A i \in 2 .. l + 1 : i - 1 \in 1 .. l
    BY <1>1
  <2>2. /\ all \in Seq(Nat) /\ Len(all) = 1 + l
        /\ \A i \in 1 .. 1 + l : all[i] = IF i <= 1 THEN <<id>>[i] ELSE new[i - 1]
    <3> HIDE DEF l
    <3> QED
      BY <1>2, <1>3, ConcatProperties
  <2> HIDE DEF all, l
  <2>3. \A i \in 2 .. l + 1 : i \in 1 .. 1 + l /\ ~(i <= 1)
    BY <1>1
  <2>4. \A i \in 2 .. l + 1 : all[i] = new[i - 1]
    BY <2>2, <2>3
  <2>5. \A i \in 2 .. l + 1 : all[i] = ids[i - 1]
    BY <1>2, <2>1, <2>4
  <2>6. all[1] = <<id>>[1] /\ 1 + l = l + 1
    BY <1>1, <2>2
  <2> QED
    BY <1>3, <2>2, <2>5, <2>6
<1>5. /\ whole \in Seq(Nat) /\ Len(whole) = n + 1 /\ whole[1] = id
      /\ \A i \in 2 .. n + 1 : whole[i] = ids[i - 1]
  <2>1. /\ whole \in Seq(Nat) /\ Len(whole) = 1 + n
        /\ \A i \in 1 .. 1 + n : whole[i] = IF i <= 1 THEN <<id>>[i] ELSE ids[i - 1]
    BY <1>1, <1>3, ConcatProperties
  <2> HIDE DEF whole, n
  <2> QED
    BY <1>1, <1>3, <2>1
<1> HIDE DEF all, whole
<1> DEFINE c == IF n + 1 < Cap THEN n + 1 ELSE Cap
<1>6. c \in Nat /\ c <= l + 1 /\ c <= n + 1 /\ (l + 1 <= Cap => c = l + 1)
      /\ (l + 1 > Cap => c = Cap)
  BY <1>1
<1>7. \A i \in 1 .. c : all[i] = whole[i] /\ all[i] \in Nat
  <2> SUFFICES ASSUME NEW i \in 1 .. c PROVE all[i] = whole[i] /\ all[i] \in Nat
    OBVIOUS
  <2>1. i \in 1 .. l + 1 /\ i \in 1 .. n + 1
    BY <1>1, <1>6
  <2>2. all[i] \in Nat
    <3> HIDE DEF l
    <3> QED
      BY <1>4, <2>1, ElementOfSeq
  <2>3. i = 1 \/ (i \in 2 .. l + 1 /\ i \in 2 .. n + 1)
    BY <1>1, <2>1
  <2> HIDE DEF n, l, c
  <2> QED
    BY <1>4, <1>5, <2>2, <2>3
<1>8. Prepend(new, id) = SubSeq(all, 1, c)
  <2>1. CASE l + 1 > Cap
    <3> HIDE DEF l, c
    <3> QED
      BY <1>4, <1>6, <2>1 DEF Prepend, all
  <2>2. CASE l + 1 <= Cap
    <3> HIDE DEF l, c
    <3>1. Prepend(new, id) = all
      BY <1>1, <1>4, <2>2 DEF Prepend, all
    <3>2. SubSeq(all, 1, Len(all)) = all
      BY <1>4, SubSeqFull
    <3> QED
      BY <1>4, <1>6, <2>2, <3>1, <3>2
  <2> QED
    BY <1>1, <2>1, <2>2
<1>9. InFull!Newest(whole) = SubSeq(whole, 1, c)
  BY <1>5 DEF InFull!Newest
<1>10. SubSeq(all, 1, c) = SubSeq(whole, 1, c)
  <2> HIDE DEF c
  <2>1. /\ SubSeq(all, 1, c) \in Seq(Nat)
        /\ Len(SubSeq(all, 1, c)) = IF 1 <= c THEN c - 1 + 1 ELSE 0
        /\ \A i \in 1 .. c - 1 + 1 : SubSeq(all, 1, c)[i] = all[1 + i - 1]
    BY <1>6, <1>7, SubSeqProperties
  <2>2. /\ SubSeq(whole, 1, c) \in Seq(Nat)
        /\ Len(SubSeq(whole, 1, c)) = IF 1 <= c THEN c - 1 + 1 ELSE 0
        /\ \A i \in 1 .. c - 1 + 1 : SubSeq(whole, 1, c)[i] = whole[1 + i - 1]
    BY <1>6, <1>7, SubSeqProperties
  <2>3. Len(SubSeq(all, 1, c)) = c /\ Len(SubSeq(whole, 1, c)) = c
    BY <1>6, <2>1, <2>2
  <2>4. \A i \in 1 .. c : SubSeq(all, 1, c)[i] = SubSeq(whole, 1, c)[i]
    BY <1>6, <1>7, <2>1, <2>2
  <2> QED
    BY <2>1, <2>2, <2>3, <2>4, SeqEqual
<1> QED
  BY <1>2, <1>8, <1>9, <1>10 DEF new, whole

\* How often u is among the first k entries of fs.
CallsIn(fs, u, k) == Cardinality({i \in 1 .. k : fs[i] = u})

LEMMA CallsStep ==
  ASSUME NEW fs, NEW u, NEW k \in Nat
  PROVE  /\ CallsIn(fs, u, 0) = 0
         /\ CallsIn(fs, u, k) \in Nat
         /\ CallsIn(fs, u, k + 1) =
              IF fs[k + 1] = u THEN CallsIn(fs, u, k) + 1 ELSE CallsIn(fs, u, k)
<1> DEFINE C(n) == {i \in 1 .. n : fs[i] = u}
<1>1. CallsIn(fs, u, 0) = 0
  <2>1. C(0) = {}
    OBVIOUS
  <2> QED
    BY <2>1, FS_EmptySet DEF CallsIn
<1>2. IsFiniteSet(C(k)) /\ Cardinality(C(k)) \in Nat
  <2>1. IsFiniteSet(1 .. k)
    BY FS_Interval
  <2>2. C(k) \subseteq 1 .. k
    OBVIOUS
  <2> HIDE DEF C
  <2>3. IsFiniteSet(C(k))
    BY <2>1, <2>2, FS_Subset
  <2> QED
    BY <2>3, FS_CardinalityType
<1>3. CASE fs[k + 1] = u
  <2>1. C(k + 1) = C(k) \cup {k + 1} /\ k + 1 \notin C(k)
    BY <1>3
  <2> HIDE DEF C
  <2>2. Cardinality(C(k + 1)) = Cardinality(C(k)) + 1
    BY <1>2, <2>1, FS_AddElement
  <2> QED
    BY <1>1, <1>2, <1>3, <2>2 DEF C, CallsIn
<1>4. CASE fs[k + 1] # u
  <2>1. C(k + 1) = C(k)
    BY <1>4
  <2> QED
    BY <1>1, <1>2, <1>4, <2>1 DEF CallsIn
<1> QED
  BY <1>3, <1>4

\* The count looks only at the entries it counts.
LEMMA CallsSame ==
  ASSUME NEW fs, NEW gs, NEW u, NEW k \in Nat, \A i \in 1 .. k : fs[i] = gs[i]
  PROVE  CallsIn(fs, u, k) = CallsIn(gs, u, k)
<1>1. {i \in 1 .. k : fs[i] = u} = {i \in 1 .. k : gs[i] = u}
  OBVIOUS
<1> QED
  BY <1>1 DEF CallsIn

LEMMA CallsAreCounted ==
  ASSUME TimelineTypeOK, NEW a \in Users, NEW u \in Users
  PROVE  /\ Calls(u, a) = CallsIn(followers[a], u, Len(followers[a]))
         /\ Calls(u, a) \in Nat
<1>1. followers[a] \in Seq(Users)
  BY DEF TimelineTypeOK
<1>2. Len(followers[a]) \in Nat /\ DOMAIN followers[a] = 1 .. Len(followers[a])
  BY <1>1
<1>3. Calls(u, a) = CallsIn(followers[a], u, Len(followers[a]))
  BY <1>2 DEF Calls, CallsIn
<1> QED
  BY <1>2, <1>3, CallsStep

\* c copies of a tweet, and one more in front.
Reps(c, id) == [i \in 1 .. c |-> id]

LEMMA OneMoreCopy ==
  ASSUME NEW c \in Nat, NEW id \in Nat, NEW ids \in Seq(Nat)
  PROVE  /\ Reps(c, id) \o ids \in Seq(Nat)
         /\ <<id>> \o (Reps(c, id) \o ids) = Reps(c + 1, id) \o ids
         /\ Reps(0, id) \o ids = ids
<1>1. /\ Reps(c, id) \in Seq(Nat) /\ Reps(c + 1, id) \in Seq(Nat)
      /\ <<id>> \in Seq(Nat)
  BY DEF Reps
<1>2. Reps(c, id) \o ids \in Seq(Nat)
  BY <1>1, ConcatProperties
<1>3. <<id>> \o (Reps(c, id) \o ids) = (<<id>> \o Reps(c, id)) \o ids
  <2> DEFINE one == <<id>>
             rs == Reps(c, id)
  <2>1. one \in Seq(Nat) /\ rs \in Seq(Nat)
    BY <1>1
  <2> HIDE DEF one, rs
  <2>2. (one \o rs) \o ids = one \o (rs \o ids)
    BY <2>1, ConcatAssociative
  <2> QED
    BY <2>2 DEF one, rs
<1>4. <<id>> \o Reps(c, id) = Reps(c + 1, id)
  <2> DEFINE l == <<id>> \o Reps(c, id)
             r == Reps(c + 1, id)
  <2>1. /\ Len(Reps(c, id)) = c /\ \A i \in 1 .. c : Reps(c, id)[i] = id
        /\ Len(r) = c + 1 /\ \A i \in 1 .. c + 1 : r[i] = id
        /\ Len(<<id>>) = 1 /\ <<id>>[1] = id
    BY DEF Reps
  <2>2. /\ l \in Seq(Nat) /\ Len(l) = 1 + c
        /\ \A i \in 1 .. 1 + c : l[i] = IF i <= 1 THEN <<id>>[i] ELSE Reps(c, id)[i - 1]
    BY <1>1, <2>1, ConcatProperties
  <2> HIDE DEF l, r
  <2>3. \A i \in 1 .. 1 + c : l[i] = id
    <3>1. ASSUME NEW i \in 1 .. 1 + c PROVE l[i] = id
      <4>1. CASE i = 1
        BY <2>1, <2>2, <4>1
      <4>2. CASE i # 1
        <5>1. i - 1 \in 1 .. c /\ ~(i <= 1)
          BY <4>2
        <5> QED
          BY <2>1, <2>2, <5>1
      <4> QED
        BY <4>1, <4>2
    <3> QED
      BY <3>1
  <2>4. Len(l) = Len(r) /\ \A i \in 1 .. Len(l) : l[i] = r[i]
    BY <2>1, <2>2, <2>3
  <2>5. r \in Seq(Nat)
    BY <1>1 DEF r
  <2>6. l = r
    BY <2>2, <2>4, <2>5, SeqEqual
  <2> QED
    BY <2>6 DEF l, r
<1>5. Reps(0, id) \o ids = ids
  <2>1. Reps(0, id) = <<>>
    BY DEF Reps
  <2> QED
    BY <2>1, ConcatEmptySeq
<1> QED
  BY <1>2, <1>3, <1>4, <1>5

\* What the loop over the followers does, from the first to the last.
LEMMA PushesStep ==
  ASSUME TimelineTypeOK, NEW a \in Users, NEW id \in Nat
  PROVE  /\ Len(followers[a]) \in Nat
         /\ Pushes(a, id)[0] = timelines
         /\ \A i \in 1 .. Len(followers[a]) :
               /\ followers[a][i] \in Users
               /\ Pushes(a, id)[i - 1] \in [Users -> Seq(Nat)]
               /\ Pushes(a, id)[i] =
                     [Pushes(a, id)[i - 1] EXCEPT
                         ![followers[a][i]] = Prepend(@, id)]
<1> DEFINE n == Len(followers[a])
           S == [Users -> Seq(Nat)]
           step == [i \in 1 .. n |->
                      [t \in S |-> [t EXCEPT ![followers[a][i]] = Prepend(@, id)]]]
<1>1. followers[a] \in Seq(Users) /\ timelines \in S
  BY DEF TimelineTypeOK
<1>2. n \in Nat /\ \A i \in 1 .. n : followers[a][i] \in Users
  BY <1>1, ElementOfSeq
<1>3. \A ids \in Seq(Nat) : Prepend(ids, id) \in Seq(Nat)
  <2> SUFFICES ASSUME NEW ids \in Seq(Nat) PROVE Prepend(ids, id) \in Seq(Nat)
    OBVIOUS
  <2> DEFINE all == <<id>> \o ids
  <2>1. all \in Seq(Nat)
    <3>1. <<id>> \in Seq(Nat)
      OBVIOUS
    <3> QED
      BY <3>1, ConcatProperties
  <2> HIDE DEF all
  <2>2. Len(all) \in Nat /\ (Len(all) > Cap => SubSeq(all, 1, Cap) \in Seq(Nat))
    <3>1. Len(all) \in Nat /\ \A i \in 1 .. Len(all) : all[i] \in Nat
      BY <2>1, ElementOfSeq
    <3>2. CASE Len(all) > Cap
      <4>1. Cap \in Nat /\ \A i \in 1 .. Cap : all[i] \in Nat
        BY <3>1, <3>2, TimelineAssumption
      <4> QED
        BY <3>1, <4>1, SubSeqProperties
    <3> QED
      BY <3>1, <3>2
  <2> QED
    BY <2>1, <2>2 DEF Prepend, all
<1>4. ASSUME NEW t \in S, NEW v \in Users
      PROVE  [t EXCEPT ![v] = Prepend(@, id)] \in S
  BY <1>3
<1>5. step \in [1 .. n -> [S -> S]]
  BY <1>2, <1>4
<1>6. PICK f \in [0 .. n -> S] :
          f[0] = timelines /\ \A i \in 1 .. n : f[i] = step[i][f[i - 1]]
  <2> DEFINE base == timelines
  <2>1. base \in S
    BY <1>1
  <2> HIDE DEF step, n, S, base
  <2>2. Solvable(n, S, base, step)
    BY <1>2, <1>5, <2>1, Recursion
  <2> QED
    BY <2>2 DEF Solvable, base
<1> DEFINE Next1(g, i) == [g[i - 1] EXCEPT ![followers[a][i]] = Prepend(@, id)]
           Solves(g) == g = [i \in 0 .. n |-> IF i = 0 THEN timelines ELSE Next1(g, i)]
<1>7. \A i \in 1 .. n : i - 1 \in 0 .. n /\ i \in 0 .. n /\ i # 0
  BY <1>2
<1>8. Solves(f)
  <2>1. \A i \in 1 .. n : f[i - 1] \in S
    BY <1>7
  <2>2. \A i \in 1 .. n : step[i][f[i - 1]] = Next1(f, i)
    BY <2>1
  <2>3. \A i \in 0 .. n : i # 0 => i \in 1 .. n
    BY <1>2
  <2> HIDE DEF step, Next1
  <2>4. \A i \in 0 .. n : f[i] = IF i = 0 THEN timelines ELSE Next1(f, i)
    BY <1>6, <2>2, <2>3
  <2> QED
    BY <2>4
<1> DEFINE m == Pushes(a, id)
<1>9. Solves(m)
  <2>1. m = CHOOSE g : Solves(g)
    BY DEF Pushes
  <2> HIDE DEF Solves, m
  <2> QED
    BY <1>8, <2>1
<1> HIDE DEF m
<1>10. m[0] = timelines /\ \A i \in 1 .. n : m[i] = Next1(m, i)
  <2> DEFINE rhs == [i \in 0 .. n |-> IF i = 0 THEN timelines ELSE Next1(m, i)]
  <2>1. 0 \in 0 .. n
    BY <1>2
  <2> HIDE DEF Next1
  <2>2. rhs[0] = timelines /\ \A i \in 1 .. n : rhs[i] = Next1(m, i)
    BY <1>7, <2>1
  <2>3. m = rhs
    BY <1>9
  <2> HIDE DEF rhs
  <2> QED
    BY <2>2, <2>3
<1>11. \A i \in 0 .. n : m[i] \in S
  <2> DEFINE Typed == {k \in Nat : k <= n => m[k] \in S}
  <2>1. 0 \in Typed
    BY <1>1, <1>10
  <2>2. ASSUME NEW k \in Typed PROVE k + 1 \in Typed
    <3> SUFFICES ASSUME k + 1 <= n PROVE m[k + 1] \in S
      OBVIOUS
    <3>1. k + 1 \in 1 .. n /\ (k + 1) - 1 = k /\ m[k] \in S
      BY <1>2
    <3>2. m[k + 1] = [m[k] EXCEPT ![followers[a][k + 1]] = Prepend(@, id)]
      BY <1>10, <3>1
    <3>3. followers[a][k + 1] \in Users
      BY <1>2, <3>1
    <3> HIDE DEF S, n
    <3> QED
      BY <1>4, <3>1, <3>2, <3>3
  <2>3. Typed \subseteq Nat
    OBVIOUS
  <2>4. Typed = Nat
    <3> HIDE DEF Typed
    <3> QED
      BY <2>1, <2>2, <2>3, Induction
  <2> HIDE DEF S
  <2> QED
    BY <1>2, <2>4
<1> QED
  BY <1>2, <1>7, <1>10, <1>11 DEF m

----------------------------------------------------------------------------
(* The inductive invariant: what a user is shown is the newest of what      *)
(* merging the posts gives.                                                *)

TimelineInv ==
    /\ TimelineTypeOK
    /\ timelines = [u \in Users |-> InFull!Newest(InFull!Collected(tweets, u))]

\* After a push to every follower, a user has the tweet in front as often as the
\* user followed the author.
LEMMA PushedToAll ==
  ASSUME TimelineInv, NEW a \in Users, NEW id \in Nat
  PROVE  Pushes(a, id)[Len(followers[a])] =
           [u \in Users |->
              InFull!Newest(Reps(Calls(u, a), id) \o InFull!Collected(tweets, u))]
<1> DEFINE n == Len(followers[a])
           m == Pushes(a, id)
           fs == followers[a]
           Shown(u, k) == InFull!Newest(Reps(CallsIn(fs, u, k), id)
                                          \o InFull!Collected(tweets, u))
           Good == {k \in Nat : k <= n => m[k] = [u \in Users |-> Shown(u, k)]}
<1>1. TimelineTypeOK
  BY DEF TimelineInv
<1>2. /\ n \in Nat /\ m[0] = timelines
      /\ \A i \in 1 .. n : /\ fs[i] \in Users
                           /\ m[i] = [m[i - 1] EXCEPT ![fs[i]] = Prepend(@, id)]
  BY <1>1, PushesStep
<1>3. \A u \in Users : InFull!Collected(tweets, u) \in Seq(Nat)
  <2> SUFFICES ASSUME NEW u \in Users PROVE InFull!Collected(tweets, u) \in Seq(Nat)
    OBVIOUS
  <2>1. tweets \in Seq([id : Nat, audience : [Users -> Nat]])
    BY <1>1 DEF TimelineTypeOK
  <2>2. InFull!Collects(tweets, u) \in [0 .. Len(tweets) -> Seq(Nat)]
    BY <2>1, CollectsStep
  <2>3. Len(tweets) \in 0 .. Len(tweets)
    BY <2>1
  <2> QED
    BY <2>2, <2>3 DEF InFull!Collected
<1> HIDE DEF m, fs, n
<1>4. 0 \in Good
  <2>1. \A u \in Users : Shown(u, 0) = InFull!Newest(InFull!Collected(tweets, u))
    <3> SUFFICES ASSUME NEW u \in Users
                 PROVE  Shown(u, 0) = InFull!Newest(InFull!Collected(tweets, u))
      OBVIOUS
    <3>1. CallsIn(fs, u, 0) = 0
      BY CallsStep
    <3>2. Reps(0, id) \o InFull!Collected(tweets, u) = InFull!Collected(tweets, u)
      BY <1>3, OneMoreCopy
    <3> QED
      BY <3>1, <3>2
  <2> HIDE DEF Shown
  <2> QED
    BY <1>2, <2>1 DEF TimelineInv
<1>5. ASSUME NEW k \in Good PROVE k + 1 \in Good
  <2> SUFFICES ASSUME k + 1 <= n
               PROVE  m[k + 1] = [u \in Users |-> Shown(u, k + 1)]
    <3> HIDE DEF Shown
    <3> QED
      OBVIOUS
  <2> DEFINE v == fs[k + 1]
  <2>1. k + 1 \in 1 .. n /\ (k + 1) - 1 = k
    BY <1>2
  <2>2. v \in Users /\ m[k + 1] = [m[k] EXCEPT ![v] = Prepend(@, id)]
    BY <1>2, <2>1
  <2>3. m[k] = [u \in Users |-> Shown(u, k)]
    <3> HIDE DEF Shown
    <3> QED
      BY <1>2
  <2>4. \A u \in Users : u # v => Shown(u, k + 1) = Shown(u, k)
    BY CallsStep
  <2>5. Shown(v, k + 1) = Prepend(Shown(v, k), id)
    <3> DEFINE c == CallsIn(fs, v, k)
               ids == InFull!Collected(tweets, v)
               some == Reps(c, id) \o ids
    <3>1. c \in Nat /\ CallsIn(fs, v, k + 1) = c + 1
      BY CallsStep
    <3>2. ids \in Seq(Nat)
      BY <1>3, <2>2
    <3> HIDE DEF c, ids, v
    <3>3. some \in Seq(Nat) /\ <<id>> \o some = Reps(c + 1, id) \o ids
      BY <3>1, <3>2, OneMoreCopy
    <3>4. Shown(v, k + 1) = InFull!Newest(<<id>> \o some)
      BY <3>1, <3>3 DEF ids
    <3>5. Shown(v, k) = InFull!Newest(some)
      BY DEF c, ids
    <3> HIDE DEF some, Shown
    <3> QED
      BY <3>3, <3>4, <3>5, PrependNewest
  <2> HIDE DEF Shown, v
  <2> QED
    BY <2>2, <2>3, <2>4, <2>5
<1>6. Good = Nat
  <2>1. Good \subseteq Nat
    OBVIOUS
  <2> HIDE DEF Good
  <2> QED
    BY <1>4, <1>5, <2>1, Induction
<1>7. m[n] = [u \in Users |-> Shown(u, n)]
  <2>1. n \in Good
    <3> HIDE DEF Good
    <3> QED
      BY <1>2, <1>6
  <2> HIDE DEF Shown
  <2> QED
    BY <1>2, <2>1
<1>8. \A u \in Users : Calls(u, a) = CallsIn(fs, u, n)
  BY <1>1, CallsAreCounted DEF fs, n
<1> QED
  BY <1>7, <1>8 DEF m, n

LEMMA NothingYet ==
  ASSUME NEW u \in Users
  PROVE  InFull!Newest(InFull!Collected(<<>>, u)) = <<>>
<1>1. <<>> \in Seq([id : Nat, audience : [Users -> Nat]]) /\ Len(<<>>) = 0
  OBVIOUS
<1>2. InFull!Collects(<<>>, u)[0] = <<>>
  BY <1>1, CollectsStep
<1>3. InFull!Collected(<<>>, u) = <<>>
  BY <1>1, <1>2 DEF InFull!Collected
<1>4. SubSeq(<<>>, 1, 0) = <<>>
  OBVIOUS
<1>5. IF 0 < Cap THEN 0 = 0 ELSE FALSE
  BY TimelineAssumption
<1> QED
  BY <1>1, <1>3, <1>4, <1>5 DEF InFull!Newest

LEMMA TimelineInitially == TimelineInit => TimelineInv
<1> SUFFICES ASSUME TimelineInit PROVE TimelineInv
  OBVIOUS
<1>1. TimelineTypeOK
  BY DEF TimelineInit, TimelineTypeOK
<1>2. timelines = [u \in Users |-> InFull!Newest(InFull!Collected(tweets, u))]
  BY NothingYet DEF TimelineInit
<1> QED
  BY <1>1, <1>2 DEF TimelineInv

\* Following is counted.
LEMMA FollowCounts ==
  ASSUME TimelineInv, NEW a \in Users, NEW u \in Users, Follow(u, a)
  PROVE  /\ TimelineInv'
         /\ \A x, b \in Users :
               Calls(x, b)' = IF x = u /\ b = a THEN Calls(x, b) + 1 ELSE Calls(x, b)
<1>1. /\ TimelineTypeOK
      /\ followers' = [followers EXCEPT ![a] = Append(@, u)]
      /\ timelines' = timelines /\ tweets' = tweets
  BY DEF TimelineInv, Follow
<1>2. followers \in [Users -> Seq(Users)]
  BY <1>1 DEF TimelineTypeOK
<1>3. TimelineTypeOK'
  <2>1. Append(followers[a], u) \in Seq(Users)
    BY <1>2, AppendProperties
  <2>2. followers' \in [Users -> Seq(Users)]
    BY <1>1, <1>2, <2>1
  <2> QED
    BY <1>1, <2>2 DEF TimelineTypeOK
<1>4. TimelineInv'
  BY <1>1, <1>3 DEF TimelineInv
<1>5. ASSUME NEW x \in Users, NEW b \in Users
      PROVE  Calls(x, b)' = IF x = u /\ b = a THEN Calls(x, b) + 1 ELSE Calls(x, b)
  <2>1. CASE b # a
    <3>1. followers'[b] = followers[b]
      BY <1>1, <1>2, <2>1
    <3> QED
      BY <2>1, <3>1 DEF Calls
  <2>2. CASE b = a
    <3> DEFINE fs == followers[a]
               gs == Append(fs, u)
               n == Len(fs)
    <3>1. fs \in Seq(Users) /\ followers'[a] = gs
      BY <1>1, <1>2
    <3>2. /\ n \in Nat /\ Len(gs) = n + 1 /\ gs[n + 1] = u
          /\ \A i \in 1 .. n : gs[i] = fs[i]
      BY <3>1, AppendProperties
    <3>3. Calls(x, a) = CallsIn(fs, x, n) /\ Calls(x, a) \in Nat
      BY <1>1, CallsAreCounted
    <3>4. Calls(x, a)' = CallsIn(gs, x, n + 1)
      <4>1. gs \in Seq(Users)
        BY <3>1, AppendProperties
      <4>2. DOMAIN gs = 1 .. n + 1
        BY <3>2, <4>1
      <4> HIDE DEF gs, n
      <4>3. DOMAIN followers'[a] = 1 .. n + 1
        BY <3>1, <4>2
      <4> QED
        BY <3>1, <4>3 DEF Calls, CallsIn
    <3> HIDE DEF fs, gs, n
    <3>5. CallsIn(gs, x, n) = CallsIn(fs, x, n)
      BY <3>2, CallsSame
    <3>6. CallsIn(gs, x, n + 1) =
             IF gs[n + 1] = x THEN CallsIn(gs, x, n) + 1 ELSE CallsIn(gs, x, n)
      <4>1. n \in Nat
        BY <3>2
      <4> QED
        BY ONLY <4>1, CallsStep
    <3> QED
      BY <2>2, <3>2, <3>3, <3>4, <3>5, <3>6
  <2> QED
    BY <2>1, <2>2
<1> QED
  BY <1>4, <1>5

\* A push is a delivery to all who follow, and the cut keeps the newest.
LEMMA PostShows ==
  ASSUME TimelineInv, NEW a \in Users, PostTweet(a)
  PROVE  /\ TimelineInv'
         /\ InFull!Post(a)
         /\ \A x, b \in Users : Calls(x, b)' = Calls(x, b)
<1> DEFINE id == Len(tweets) + 1
           p == [id |-> id, audience |-> [u \in Users |-> Calls(u, a)]]
<1>1. /\ TimelineTypeOK
      /\ followers' = followers
      /\ tweets' = Append(tweets, p)
      /\ timelines' = Pushes(a, id)[Len(followers[a])]
  BY DEF TimelineInv, PostTweet
<1>2. /\ tweets \in Seq([id : Nat, audience : [Users -> Nat]])
      /\ id \in Nat
  BY <1>1 DEF TimelineTypeOK
<1>3. p \in [id : Nat, audience : [Users -> Nat]]
  BY <1>1, <1>2, CallsAreCounted
<1>4. ASSUME NEW u \in Users
      PROVE  InFull!Collected(tweets', u) = Reps(Calls(u, a), id) \o InFull!Collected(tweets, u)
  <2>1. InFull!Copies(p, u) = Reps(Calls(u, a), id)
    BY DEF InFull!Copies, Reps
  <2> HIDE DEF p
  <2> QED
    BY <1>1, <1>2, <1>3, <2>1, CollectedAppend
<1>5. timelines' = [u \in Users |-> InFull!Newest(InFull!Collected(tweets', u))]
  <2>1. timelines' =
           [u \in Users |->
              InFull!Newest(Reps(Calls(u, a), id) \o InFull!Collected(tweets, u))]
    BY <1>1, <1>2, PushedToAll
  <2> QED
    BY <1>4, <2>1
<1>6. TimelineTypeOK'
  <2>1. tweets' \in Seq([id : Nat, audience : [Users -> Nat]])
    <3> HIDE DEF p
    <3> QED
      BY <1>1, <1>2, <1>3, AppendProperties
  <2>2. ASSUME NEW u \in Users
        PROVE  InFull!Newest(InFull!Collected(tweets', u)) \in Seq(Nat)
    <3>1. InFull!Collects(tweets', u) \in [0 .. Len(tweets') -> Seq(Nat)]
      BY <2>1, CollectsStep
    <3>2. Len(tweets') \in 0 .. Len(tweets')
      BY <2>1
    <3>3. InFull!Collected(tweets', u) \in Seq(Nat)
      BY <3>1, <3>2 DEF InFull!Collected
    <3> QED
      BY <1>2, <3>3, PrependNewest
  <2>3. timelines' \in [Users -> Seq(Nat)]
    BY <1>5, <2>2
  <2> QED
    BY <1>1, <2>1, <2>3 DEF TimelineTypeOK
<1>7. TimelineInv'
  BY <1>5, <1>6 DEF TimelineInv
<1>8. \A x, b \in Users : Calls(x, b)' = Calls(x, b)
  BY <1>1 DEF Calls
<1>9. InFull!Post(a)
  <2>1. [u \in Users |-> [b \in Users |-> Calls(u, b)]]' =
          [u \in Users |-> [b \in Users |-> Calls(u, b)]]
    BY <1>8
  <2>2. p = [id |-> Len(tweets) + 1,
             audience |-> [u \in Users |->
                [v \in Users |-> [b \in Users |-> Calls(v, b)]][u][a]]]
    OBVIOUS
  <2> HIDE DEF p
  <2> QED
    BY <1>1, <1>5, <2>1, <2>2 DEF InFull!Post
<1> QED
  BY <1>7, <1>8, <1>9

LEMMA TimelineStep ==
  TimelineInv /\ [TimelineNext]_timelineVars => TimelineInv'
<1> SUFFICES ASSUME TimelineInv, [TimelineNext]_timelineVars PROVE TimelineInv'
  OBVIOUS
<1>1. ASSUME NEW a \in Users, PostTweet(a) PROVE TimelineInv'
  BY <1>1, PostShows
<1>2. ASSUME NEW a \in Users, NEW u \in Users, Follow(u, a) PROVE TimelineInv'
  BY <1>2, FollowCounts
<1>3. CASE UNCHANGED timelineVars
  BY <1>3 DEF timelineVars, TimelineInv, TimelineTypeOK
<1> QED
  BY <1>1, <1>2, <1>3 DEF TimelineNext

\* A timeline is the newest Cap of the posts delivered to its reader, whatever
\* was cut, whoever follows in between and however often (main.go:37-58, 79-85).
THEOREM PushesAreDeliveries == TimelineSpec => ShowsDeliveries
<1>1. TimelineInit => InFull!Init
  <2> SUFFICES ASSUME TimelineInit PROVE InFull!Init
    OBVIOUS
  <2>1. \A u, a \in Users : Calls(u, a) = 0
    <3> SUFFICES ASSUME NEW u \in Users, NEW a \in Users PROVE Calls(u, a) = 0
      OBVIOUS
    <3>1. followers[a] = <<>>
      BY DEF TimelineInit
    <3>2. {i \in DOMAIN followers[a] : followers[a][i] = u} = {}
      BY <3>1
    <3> QED
      BY <3>2, FS_EmptySet DEF Calls
  <2> QED
    BY <2>1 DEF TimelineInit, InFull!Init
<1>2. TimelineInv /\ [TimelineNext]_timelineVars => [InFull!Next]_(InFull!vars)
  <2> SUFFICES ASSUME TimelineInv, [TimelineNext]_timelineVars
               PROVE  [InFull!Next]_(InFull!vars)
    OBVIOUS
  <2>1. ASSUME NEW a \in Users, PostTweet(a) PROVE InFull!Next
    <3>1. InFull!Post(a)
      BY <2>1, PostShows
    <3> QED
      BY <3>1 DEF InFull!Next
  <2>2. ASSUME NEW a \in Users, NEW u \in Users, Follow(u, a) PROVE InFull!Next
    <3> DEFINE was == [x \in Users |-> [b \in Users |-> Calls(x, b)]]
    <3>1. \A x, b \in Users :
             Calls(x, b)' = IF x = u /\ b = a THEN Calls(x, b) + 1 ELSE Calls(x, b)
      BY <2>2, FollowCounts
    <3>2. was' = [was EXCEPT ![u][a] = @ + 1]
      BY <3>1
    <3>3. tweets' = tweets /\ timelines' = timelines
      BY <2>2 DEF Follow
    <3>4. InFull!Follow(u, a)
      BY <3>2, <3>3 DEF InFull!Follow
    <3> QED
      BY <3>4 DEF InFull!Next
  <2>3. CASE UNCHANGED timelineVars
    <3>1. [x \in Users |-> [b \in Users |-> Calls(x, b)]]' =
            [x \in Users |-> [b \in Users |-> Calls(x, b)]]
      BY <2>3 DEF timelineVars, Calls
    <3> QED
      BY <2>3, <3>1 DEF timelineVars, InFull!vars
  <2> QED
    BY <2>1, <2>2, <2>3 DEF TimelineNext
<1> QED
  BY <1>1, <1>2, TimelineInitially, TimelineStep, PTL
     DEF TimelineSpec, ShowsDeliveries, InFull!Spec
=============================================================================
