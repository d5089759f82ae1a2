--------------------------- MODULE LinkStateProofs ---------------------------
(***************************************************************************)
(* The routing calculations, for any routers, costs and coordinates.       *)
(*                                                                         *)
(* Dijkstra's algorithm as calculateDijkstraPath runs it: when a pass      *)
(* ends, the distances carry the certificate of being the least ones.      *)
(* TypeOK and Certified are not inductive; the loop invariant is that      *)
(* explored routers are no farther than unexplored ones, that their links  *)
(* shorten nothing any more, and that every parent has been explored.      *)
(*                                                                         *)
(* The tables against the reference over all paths: the loop reaches every *)
(* distance by a path of no more links than there are explored routers     *)
(* (Reached), which bounds it from below by the reference; a solution of   *)
(* NoShortcut bounds it from above (Floor).  The walk of getNextHop ends   *)
(* because parents were explored before their children (Ranks).  TableInv  *)
(* adds what the multipath loop has put into the table so far.             *)
(*                                                                         *)
(* Last, hyperbolic routes stay current.                                   *)
(***************************************************************************)
EXTENDS LinkState, Hyperbolic, FiniteSetTheorems, WellFoundedInduction, TLAPS

Explored == Routers \ unexplored

Ordered == \A u \in Explored : \A v \in unexplored : distance[u] <= distance[v]

Relaxed ==
    \A u \in Explored : \A v \in Routers :
       matrix[u][v] >= 0 => distance[v] <= distance[u] + matrix[u][v]

ParentsExplored ==
    \A v \in Routers \ {Source} :
       IF parent[v] = NoParent THEN distance[v] = InfDistance
       ELSE /\ parent[v] \in Explored
            /\ matrix[parent[v]][v] >= 0
            /\ distance[v] = distance[parent[v]] + matrix[parent[v]][v]

LoopInv == pc = "explore" => distance[Source] = 0 /\ Ordered /\ Relaxed /\ ParentsExplored

(* Correcting and simulating keep a matrix a matrix.                       *)
LEMMA MatrixTypes ==
    ASSUME NEW mx \in [Routers -> [Routers -> LinkCosts]],
           NEW n \in Routers, NEW cost \in LinkCosts
    PROVE  /\ MakeAdjMatrix(mx) \in [Routers -> [Routers -> LinkCosts]]
           /\ SimulateOneNeighbor(mx, n, cost) \in [Routers -> [Routers -> LinkCosts]]
<1>1. ASSUME NEW x \in LinkCosts, NEW y \in LinkCosts PROVE CorrectedCost(x, y) \in LinkCosts
  BY DEF CorrectedCost, LinkCosts, NonAdjacentCost
<1>2. MakeAdjMatrix(mx) \in [Routers -> [Routers -> LinkCosts]]
  BY <1>1 DEF MakeAdjMatrix
<1>3. [i \in Routers |-> IF i = n THEN cost ELSE NonAdjacentCost] \in [Routers -> LinkCosts]
  BY DEF LinkCosts, NonAdjacentCost
<1>4. SimulateOneNeighbor(mx, n, cost) \in [Routers -> [Routers -> LinkCosts]]
  BY <1>3, ConstantsAssumption DEF SimulateOneNeighbor
<1> QED BY <1>2, <1>4

(* A new pass starts with everything unexplored.                           *)
LEMMA BeginEstablishes ==
    ASSUME BeginDijkstra
    PROVE  /\ unexplored' = Routers /\ pc' = "explore"
           /\ distance' \in [Routers -> 0..InfDistance]
           /\ parent' \in [Routers -> Routers \cup {NoParent}]
           /\ LoopInv'
<1>1. /\ unexplored' = Routers /\ pc' = "explore"
      /\ distance' = [r \in Routers |-> IF r = Source THEN 0 ELSE InfDistance]
      /\ parent' = [r \in Routers |-> NoParent]
  BY DEF BeginDijkstra
<1>2. distance' \in [Routers -> 0..InfDistance] /\ parent' \in [Routers -> Routers \cup {NoParent}]
  BY <1>1, ConstantsAssumption
<1>3. Explored' = {}
  BY <1>1 DEF Explored
<1>4. Ordered' /\ Relaxed'
  BY <1>3 DEF Ordered, Relaxed
<1>5. ParentsExplored' /\ distance'[Source] = 0
  BY <1>1, ConstantsAssumption DEF ParentsExplored
<1> QED BY <1>1, <1>2, <1>4, <1>5 DEF LoopInv

(* One pass of the loop.                                                   *)
LEMMA ExploreKeepsTypes ==
    ASSUME TypeOK, NEW u \in Routers, Explore(u)
    PROVE  /\ distance' \in [Routers -> 0..InfDistance]
           /\ parent' \in [Routers -> Routers \cup {NoParent}]
           /\ unexplored' \subseteq Routers
<1>1. ASSUME NEW v \in Routers, Improves(u, v)
      PROVE  distance[u] + matrix[u][v] \in 0..InfDistance
  <2>1. distance[u] \in 0..InfDistance /\ distance[v] \in 0..InfDistance
    BY DEF TypeOK
  <2>2. matrix[u][v] \in Int /\ matrix[u][v] >= 0
    BY <1>1 DEF TypeOK, LinkCosts, NonAdjacentCost, Improves
  <2> QED BY <1>1, <2>1, <2>2, ConstantsAssumption DEF Improves
<1>2. distance' \in [Routers -> 0..InfDistance]
  BY <1>1 DEF Explore, TypeOK
<1> QED BY <1>2 DEF Explore, TypeOK

LEMMA ExploreKeepsLoop ==
    ASSUME TypeOK, LoopInv, NEW u \in Routers, Explore(u)
    PROVE  LoopInv'
<1>1. /\ pc = "explore" /\ distance[Source] = 0 /\ Ordered /\ Relaxed /\ ParentsExplored
  BY DEF LoopInv, Explore
<1>2. /\ u \in unexplored /\ \A v \in unexplored : distance[u] <= distance[v]
      /\ distance[u] # InfDistance
      /\ unexplored' = unexplored \ {u} /\ matrix' = matrix
  BY DEF Explore, IsNearest
<1>3. \A v \in Routers : distance[v] \in Nat /\ distance[v] <= InfDistance
  BY DEF TypeOK
<1>4. \A v, w \in Routers : matrix[v][w] \in Int
  BY DEF TypeOK, LinkCosts, NonAdjacentCost
<1>5. \A v \in Routers :
         /\ distance'[v] = IF Improves(u, v) THEN distance[u] + matrix[u][v] ELSE distance[v]
         /\ parent'[v] = IF Improves(u, v) THEN u ELSE parent[v]
  BY DEF Explore
<1>6. \A v \in Routers :
         Improves(u, v) <=> /\ v \in unexplored /\ v # u
                            /\ matrix[u][v] >= 0
                            /\ distance[u] + matrix[u][v] < distance[v]
  BY DEF Improves
<1>7. Explored' = Explored \cup {u} /\ unexplored \subseteq Routers /\ u \notin Explored
  BY <1>2 DEF Explored, TypeOK
<1>8. \A v \in Routers : distance'[v] <= distance[v] /\ distance'[v] \in Int
  BY <1>3, <1>4, <1>5, <1>6
<1>9. \A v \in Explored' : distance'[v] = distance[v] /\ parent'[v] = parent[v]
  BY <1>5, <1>6, <1>7 DEF Explored
<1>10. \A v \in unexplored : distance[u] <= distance'[v]
  BY <1>2, <1>3, <1>4, <1>5, <1>6, <1>7
<1>11. distance'[Source] = 0
  BY <1>1, <1>3, <1>4, <1>5, <1>6, ConstantsAssumption
<1>12. Ordered'
  <2> SUFFICES ASSUME NEW x \in Explored', NEW v \in unexplored'
               PROVE  distance'[x] <= distance'[v]
    BY DEF Ordered
  <2>1. v \in unexplored /\ v \in Routers /\ distance'[x] = distance[x]
    BY <1>2, <1>7, <1>9
  <2>2. distance[x] <= distance[u]
    <3>1. CASE x = u
      BY <1>3, <3>1
    <3>2. CASE x # u
      BY <1>1, <1>2, <1>7, <3>2 DEF Ordered
    <3> QED BY <3>1, <3>2
  <2>3. x \in Routers
    BY <1>7 DEF Explored
  <2> QED BY <1>3, <1>8, <1>10, <2>1, <2>2, <2>3
<1>13. Relaxed'
  <2> SUFFICES ASSUME NEW x \in Explored', NEW v \in Routers, matrix[x][v] >= 0
               PROVE  distance'[v] <= distance'[x] + matrix[x][v]
    BY <1>2 DEF Relaxed
  <2>1. x \in Routers /\ distance'[x] = distance[x]
    BY <1>7, <1>9 DEF Explored
  <2>2. CASE x # u
    <3>1. distance[v] <= distance[x] + matrix[x][v]
      BY <1>1, <1>7, <2>2 DEF Relaxed
    <3> QED BY <1>3, <1>4, <1>8, <2>1, <3>1
  <2>3. CASE x = u /\ v \in unexplored /\ v # u
    BY <1>3, <1>4, <1>5, <1>6, <2>1, <2>3
  <2>4. CASE x = u /\ (v \notin unexplored \/ v = u)
    <3>1. distance[v] <= distance[u]
      BY <1>1, <1>2, <1>3, <2>4 DEF Ordered, Explored
    <3> QED BY <1>3, <1>4, <1>8, <2>1, <2>4, <3>1
  <2> QED BY <2>2, <2>3, <2>4
<1>14. ParentsExplored'
  <2> SUFFICES ASSUME NEW v \in Routers \ {Source}
               PROVE  IF parent'[v] = NoParent THEN distance'[v] = InfDistance
                      ELSE /\ parent'[v] \in Explored'
                           /\ matrix[parent'[v]][v] >= 0
                           /\ distance'[v] = distance'[parent'[v]] + matrix[parent'[v]][v]
    BY <1>2 DEF ParentsExplored
  <2>1. CASE Improves(u, v)
    <3>1. parent'[v] = u /\ distance'[v] = distance[u] + matrix[u][v]
      BY <1>5, <2>1
    <3>2. distance'[u] = distance[u] /\ u \in Explored' /\ u # NoParent
      BY <1>7, <1>9, ConstantsAssumption
    <3> QED BY <1>6, <2>1, <3>1, <3>2
  <2>2. CASE ~Improves(u, v)
    <3>1. parent'[v] = parent[v] /\ distance'[v] = distance[v]
      BY <1>5, <2>2
    <3>2. CASE parent[v] = NoParent
      BY <1>1, <3>1, <3>2 DEF ParentsExplored
    <3>3. CASE parent[v] # NoParent
      <4>1. /\ parent[v] \in Explored /\ matrix[parent[v]][v] >= 0
            /\ distance[v] = distance[parent[v]] + matrix[parent[v]][v]
        BY <1>1, <3>3 DEF ParentsExplored
      <4>2. parent[v] \in Explored' /\ distance'[parent[v]] = distance[parent[v]]
        BY <1>7, <1>9, <4>1
      <4> QED BY <3>1, <3>3, <4>1, <4>2
    <3> QED BY <3>2, <3>3
  <2> QED BY <2>1, <2>2
<1> QED BY <1>11, <1>12, <1>13, <1>14 DEF LoopInv

-----------------------------------------------------------------------------
IInv == TypeOK /\ LoopInv

LEMMA InitInv == Init => IInv
<1> SUFFICES ASSUME Init PROVE IInv
  OBVIOUS
<1>1. matrix \in [Routers -> [Routers -> LinkCosts]]
  BY DEF Init, LinkCosts, NonAdjacentCost
<1>2. distance \in [Routers -> 0..InfDistance]
  BY ConstantsAssumption DEF Init
<1> QED BY <1>1, <1>2, ConstantsAssumption DEF Init, IInv, TypeOK, LoopInv

LEMMA NextInv == IInv /\ [Next]_vars => IInv'
<1> SUFFICES ASSUME IInv, [Next]_vars PROVE IInv'
  OBVIOUS
<1> USE DEF IInv
<1>1. CASE CalculateSinglePath
  <2>1. BeginDijkstra /\ matrix' = MakeAdjMatrix(lsdb) /\ UNCHANGED <<maxFaces, lsdb, links, table>>
    BY <1>1 DEF CalculateSinglePath
  <2>2. matrix' \in [Routers -> [Routers -> LinkCosts]]
    BY <2>1, MatrixTypes, ConstantsAssumption DEF TypeOK, LinkCosts, NonAdjacentCost
  <2> QED BY <2>1, <2>2, BeginEstablishes DEF TypeOK
<1>2. CASE CalculateMultiPath
  <2>1. matrix' \in [Routers -> [Routers -> LinkCosts]]
    BY <1>2, MatrixTypes, ConstantsAssumption
    DEF CalculateMultiPath, TypeOK, LinkCosts, NonAdjacentCost
  <2> QED BY <1>2, <2>1 DEF CalculateMultiPath, TypeOK, LoopInv, GatherLinks
<1>3. ASSUME NEW n \in Routers, SimulateNeighbor(n) PROVE IInv'
  <2>1. MakeAdjMatrix(lsdb)[Source][n] \in LinkCosts
    BY MatrixTypes, ConstantsAssumption DEF TypeOK, LinkCosts, NonAdjacentCost
  <2>2. matrix' \in [Routers -> [Routers -> LinkCosts]]
    BY <1>3, <2>1, MatrixTypes DEF SimulateNeighbor, TypeOK
  <2>3. BeginDijkstra /\ links' \subseteq links /\ UNCHANGED <<maxFaces, lsdb, table>>
    BY <1>3 DEF SimulateNeighbor
  <2> QED BY <2>2, <2>3, BeginEstablishes DEF TypeOK
<1>4. ASSUME NEW u \in Routers, Explore(u) PROVE IInv'
  <2>1. UNCHANGED <<maxFaces, lsdb, pc, matrix, links, table>>
    BY <1>4 DEF Explore
  <2> QED BY <1>4, <2>1, ExploreKeepsTypes, ExploreKeepsLoop DEF TypeOK
<1>5. CASE FinishDijkstra
  BY <1>5 DEF FinishDijkstra, TypeOK, LoopInv, AddNextHops
<1>6. CASE UNCHANGED vars
  BY <1>6 DEF vars, TypeOK, LoopInv, Ordered, Relaxed, ParentsExplored, Explored
<1> QED BY <1>1, <1>2, <1>3, <1>4, <1>5, <1>6 DEF Next

(* The distances stay between 0 and INF_DISTANCE, for any costs.           *)
THEOREM TypeCorrectness == Spec => []TypeOK
<1>1. IInv => TypeOK
  BY DEF IInv
<1> QED BY <1>1, InitInv, NextInv, PTL DEF Spec

LEMMA EndOfPass ==
    ASSUME IInv, pc = "explore", DijkstraEnds
    PROVE  /\ distance[Source] = 0 /\ NoShortcut /\ ReachedOverParent
           /\ \A u \in unexplored : distance[u] = InfDistance
<1>1. distance[Source] = 0 /\ Relaxed /\ ParentsExplored
  BY DEF IInv, LoopInv
<1>2. \A v \in Routers : distance[v] \in Nat /\ distance[v] <= InfDistance
  BY DEF IInv, TypeOK
<1>3. \A u \in unexplored : distance[u] = InfDistance
  <2>1. CASE unexplored = {}
    BY <2>1
  <2>2. CASE unexplored # {}
    <3>1. PICK w \in unexplored : IsNearest(w) /\ distance[w] = InfDistance
      BY <2>2 DEF DijkstraEnds
    <3>2. unexplored \subseteq Routers
      BY DEF IInv, TypeOK
    <3> QED BY <1>2, <3>1, <3>2 DEF IsNearest
  <2> QED BY <2>1, <2>2
<1>4. NoShortcut
  <2> SUFFICES ASSUME NEW u \in Routers, NEW v \in Routers,
                      matrix[u][v] >= 0, distance[u] < InfDistance
               PROVE  distance[v] <= distance[u] + matrix[u][v]
    BY DEF NoShortcut
  <2>1. u \in Explored
    BY <1>3, ConstantsAssumption DEF Explored
  <2> QED BY <1>1, <2>1 DEF Relaxed
<1>5. ReachedOverParent
  BY <1>1 DEF ParentsExplored, ReachedOverParent
<1> QED BY <1>1, <1>3, <1>4, <1>5

(* When a pass of calculateDijkstraPath ends, no link shortens a distance  *)
(* and each finite one is reached over the link from its parent.           *)
THEOREM DijkstraCertificate == Spec => []Certified
<1>1. IInv => Certified
  BY EndOfPass DEF Certified
<1> QED BY <1>1, InitInv, NextInv, PTL DEF Spec
-----------------------------------------------------------------------------
(* Induction over data, in a form without operators as parameters. *)

(* A set of natural numbers that is not empty has a least one. *)
LEMMA LeastNatural ==
    ASSUME NEW S, S \subseteq Nat, S # {}
    PROVE  \E x \in S : \A y \in S : x <= y
<1> DEFINE R == OpToRel(<, Nat)
<1>1. IsWellFoundedOn(R, Nat)
  BY NatLessThanWellFounded, Zenon
<1>2. \A x, y \in Nat : ~(<<y, x>> \in R) => x <= y
  BY DEF R, OpToRel
<1> HIDE DEF R
<1>3. PICK x \in S : \A y \in S : ~(<<y, x>> \in R)
  BY <1>1, WFMin
<1> QED BY <1>2, <1>3

(* A property of numbers is the set of those that have it. *)
LEMMA SetInduction ==
    ASSUME NEW T, 0 \in T, NEW n \in Nat, \A k \in 1..n : k - 1 \in T => k \in T
    PROVE  0..n \subseteq T
<1> DEFINE U == (0..n) \ T
<1>1. SUFFICES ASSUME U # {} PROVE FALSE
  OBVIOUS
<1>2. U \subseteq Nat
  OBVIOUS
<1>3. PICK x \in U : \A y \in U : x <= y
  <2> HIDE DEF U
  <2> QED BY <1>1, <1>2, LeastNatural
<1>4. x \in 1..n /\ x - 1 \in 0..n /\ ~(x <= x - 1)
  BY <1>3
<1>5. x - 1 \in T
  BY <1>3, <1>4
<1> QED BY <1>3, <1>4, <1>5

LEMMA LeastLemma ==
    ASSUME NEW S, S \subseteq Nat, S # {}
    PROVE  Least(S) \in S /\ \A y \in S : Least(S) <= y
<1>1. \E x \in S : \A y \in S : x <= y
  BY LeastNatural
<1> QED BY <1>1, Zenon DEF Least

(* What iterating F from x gives, up to n times. *)
Iterates(f, F, D, x, n) ==
    f \in [0..n -> D] /\ f[0] = x /\ \A k \in 1..n : f[k] = F[f[k - 1]]

LEMMA Iteration ==
    ASSUME NEW D, NEW F \in [D -> D], NEW x \in D, NEW n \in Nat
    PROVE  \E f : Iterates(f, F, D, x, n)
<1> DEFINE P(k, f) == f \in [0..k -> D] /\ f[0] = x /\ \A i \in 1..k : f[i] = F[f[i - 1]]
           T == {k \in Nat : \E f : P(k, f)}
<1>1. 0 \in T
  <2>1. P(0, [k \in 0..0 |-> x])
    OBVIOUS
  <2> QED BY <2>1
<1>2. ASSUME NEW k \in 1..n, k - 1 \in T PROVE k \in T
  <2>1. PICK f : P(k - 1, f)
    BY <1>2
  <2> DEFINE g == [i \in 0..k |-> IF i = k THEN F[f[k - 1]] ELSE f[i]]
  <2>2. \A i \in 0..k : i \in 0..(k - 1) \/ i = k
    OBVIOUS
  <2>3. f[k - 1] \in D
    BY <2>1
  <2>4. g \in [0..k -> D]
    BY <2>1, <2>2, <2>3
  <2>5. ASSUME NEW i \in 1..k PROVE g[i] = F[g[i - 1]]
    <3>1. CASE i = k
      BY <3>1
    <3>2. CASE i # k
      <4>1. i \in 1..(k - 1) /\ i - 1 \in 0..(k - 1) /\ i - 1 # k
        BY <3>2
      <4> QED BY <2>1, <4>1
    <3> QED BY <3>1, <3>2
  <2>6. P(k, g)
    BY <2>1, <2>4, <2>5
  <2>7. k \in Nat
    OBVIOUS
  <2> HIDE DEF P, g
  <2> QED BY <2>6, <2>7
<1>3. n \in T
  <2> HIDE DEF T
  <2> QED BY <1>1, <1>2, SetInduction
<1>4. PICK f : P(n, f)
  BY <1>3
<1>5. Iterates(f, F, D, x, n)
  BY <1>4 DEF Iterates
<1> QED BY <1>5
-----------------------------------------------------------------------------
(* The reference: path costs by the number of links. *)
Size == Cardinality(Routers)

Distances == [Routers -> 0..InfDistance]

IsLsdb == lsdb \in [Routers -> [Routers -> LinkCosts]]

AtStart(s) == [r \in Routers |-> IF r = s THEN 0 ELSE InfDistance]

UpTo(s, avoid) ==
    LET upTo[k \in 0..Cardinality(Routers)] ==
            IF k = 0 THEN [r \in Routers |-> IF r = s THEN 0 ELSE InfDistance]
            ELSE Shortened(upTo[k - 1], avoid)
    IN  upTo

LEMMA SizeLemma == Size \in Nat \ {0}
<1>1. IsFiniteSet(Routers) /\ Routers # {}
  BY ConstantsAssumption
<1> QED BY <1>1, FS_CardinalityType, FS_EmptySet DEF Size

LEMMA PathCostsUpTo == \A s, avoid : PathCosts(s, avoid) = UpTo(s, avoid)[Size]
  BY Zenon DEF PathCosts, UpTo, Size

(* The cost of a link is its entry in the corrected matrix. *)
LEMMA LinkCostLemma ==
    ASSUME IsLsdb, NEW m \in Routers, NEW n \in Routers
    PROVE  LinkCost(m, n) = MakeAdjMatrix(lsdb)[m][n] /\ LinkCost(m, n) \in LinkCosts
<1> DEFINE x == lsdb[m][n]
           y == lsdb[n][m]
<1>1. x \in LinkCosts /\ y \in LinkCosts
  BY DEF IsLsdb
<1>2. LinkCost(m, n) = IF NonAdjacentCost \in {x, y} THEN NonAdjacentCost
                       ELSE CHOOSE z \in {x, y} : \A w \in {x, y} : w <= z
  BY Zenon DEF LinkCost
<1>3. MakeAdjMatrix(lsdb)[m][n] = CorrectedCost(x, y)
  BY DEF MakeAdjMatrix
<1> HIDE DEF x, y
<1>4. CASE NonAdjacentCost \in {x, y}
  BY <1>1, <1>2, <1>3, <1>4 DEF CorrectedCost, LinkCosts, NonAdjacentCost
<1>5. CASE NonAdjacentCost \notin {x, y}
  <2>1. x \in Nat /\ y \in Nat
    BY <1>1, <1>5 DEF LinkCosts
  <2> DEFINE z == CHOOSE z \in {x, y} : \A w \in {x, y} : w <= z
  <2>2. \E v \in {x, y} : \A w \in {x, y} : w <= v
    BY <2>1
  <2>3. z \in {x, y} /\ \A w \in {x, y} : w <= z
    BY <2>2, Zenon
  <2>4. LinkCost(m, n) = z
    BY <1>2, <1>5
  <2> HIDE DEF z
  <2> QED BY <1>3, <2>1, <2>3, <2>4 DEF CorrectedCost, LinkCosts
<1> QED BY <1>4, <1>5

(* One link more. *)
LEMMA ShortenedLemma ==
    ASSUME IsLsdb, NEW cost \in Distances, NEW avoid
    PROVE  /\ Shortened(cost, avoid) \in Distances
           /\ \A r \in Routers : Shortened(cost, avoid)[r] <= cost[r]
           /\ \A r \in Routers, m \in Routers \ avoid :
                 LinkCost(m, r) >= 0 /\ cost[m] < InfDistance
                    => Shortened(cost, avoid)[r] <= cost[m] + LinkCost(m, r)
           /\ \A r \in Routers :
                 \/ Shortened(cost, avoid)[r] = cost[r]
                 \/ \E m \in Routers \ avoid :
                       /\ LinkCost(m, r) >= 0 /\ cost[m] < InfDistance
                       /\ Shortened(cost, avoid)[r] = cost[m] + LinkCost(m, r)
<1> DEFINE From(r) == {m \in Routers \ avoid : LinkCost(m, r) >= 0 /\ cost[m] < InfDistance}
           Ways(r) == {cost[r]} \cup {cost[m] + LinkCost(m, r) : m \in From(r)}
           S == Shortened(cost, avoid)
<1>1. S = [r \in Routers |-> Least(Ways(r))]
  BY DEF Shortened
<1>2. ASSUME NEW r \in Routers
      PROVE  /\ S[r] \in Ways(r) /\ S[r] \in 0..InfDistance
             /\ \A y \in Ways(r) : S[r] <= y
  <2>1. cost[r] \in 0..InfDistance /\ InfDistance \in Nat
    BY ConstantsAssumption DEF Distances
  <2>2. ASSUME NEW m \in From(r) PROVE cost[m] + LinkCost(m, r) \in Nat
    <3>1. cost[m] \in 0..InfDistance /\ LinkCost(m, r) \in LinkCosts /\ LinkCost(m, r) >= 0
      BY LinkCostLemma DEF Distances
    <3> QED BY <2>1, <3>1 DEF LinkCosts, NonAdjacentCost
  <2>3. Ways(r) \subseteq Nat /\ cost[r] \in Ways(r)
    BY <2>1, <2>2
  <2>4. S[r] = Least(Ways(r))
    BY <1>1
  <2> HIDE DEF S, Ways
  <2>5. S[r] \in Ways(r) /\ \A y \in Ways(r) : S[r] <= y
    BY <2>3, <2>4, LeastLemma
  <2> QED BY <2>1, <2>3, <2>5
<1>3. S \in Distances
  BY <1>1, <1>2 DEF Distances
<1>4. \A r \in Routers : S[r] <= cost[r]
  BY <1>2
<1>5. \A r \in Routers : \A m \in From(r) : S[r] <= cost[m] + LinkCost(m, r)
  BY <1>2
<1>6. \A r \in Routers : S[r] = cost[r] \/ \E m \in From(r) : S[r] = cost[m] + LinkCost(m, r)
  BY <1>2
<1> HIDE DEF S
<1> QED BY <1>3, <1>4, <1>5, <1>6 DEF S

(* The recursive function is what its equation says. *)
LEMMA UpToLemma ==
    ASSUME IsLsdb, NEW s, NEW avoid
    PROVE  /\ UpTo(s, avoid) \in [0..Size -> Distances]
           /\ UpTo(s, avoid)[0] = AtStart(s)
           /\ \A k \in 1..Size : UpTo(s, avoid)[k] = Shortened(UpTo(s, avoid)[k - 1], avoid)
<1> DEFINE F == [c \in Distances |-> Shortened(c, avoid)]
           E(f) == f = [k \in 0..Size |-> IF k = 0 THEN AtStart(s) ELSE Shortened(f[k - 1], avoid)]
<1>1. F \in [Distances -> Distances] /\ AtStart(s) \in Distances
  BY ShortenedLemma, ConstantsAssumption DEF AtStart, Distances
<1>2. PICK g : Iterates(g, F, Distances, AtStart(s), Size)
  <2>1. F \in [Distances -> Distances] /\ AtStart(s) \in Distances /\ Size \in Nat
    BY <1>1, SizeLemma
  <2> HIDE DEF F
  <2> QED BY <2>1, Iteration
<1>3. E(g)
  <2>1. ASSUME NEW k \in 0..Size
        PROVE  g[k] = IF k = 0 THEN AtStart(s) ELSE Shortened(g[k - 1], avoid)
    <3>1. k = 0 \/ (k \in 1..Size /\ k - 1 \in 0..Size)
      BY SizeLemma
    <3>2. k # 0 => g[k - 1] \in Distances
      BY <1>2, <3>1 DEF Iterates
    <3> QED BY <1>2, <3>1, <3>2 DEF Iterates
  <2> HIDE DEF F
  <2>2. g = [k \in 0..Size |-> g[k]]
    BY <1>2 DEF Iterates
  <2>3. g = [k \in 0..Size |-> IF k = 0 THEN AtStart(s) ELSE Shortened(g[k - 1], avoid)]
    BY <2>1, <2>2
  <2> QED BY <2>3
<1>4. UpTo(s, avoid) = CHOOSE f : E(f)
  BY Zenon DEF UpTo, Size, AtStart
<1>5. E(UpTo(s, avoid))
  <2> HIDE DEF E
  <2> QED BY <1>3, <1>4, Zenon
<1> DEFINE f == UpTo(s, avoid)
<1>6. f = [k \in 0..Size |-> IF k = 0 THEN AtStart(s) ELSE Shortened(f[k - 1], avoid)]
  BY <1>5
<1> HIDE DEF f
<1> DEFINE T == {k \in 0..Size : f[k] \in Distances}
<1>7. 0 \in T
  BY <1>1, <1>6, SizeLemma
<1>8. ASSUME NEW k \in 1..Size, k - 1 \in T PROVE k \in T
  <2>1. k \in 0..Size /\ k # 0 /\ f[k - 1] \in Distances
    BY <1>8, SizeLemma
  <2>2. f[k] = Shortened(f[k - 1], avoid)
    BY <1>6, <2>1
  <2> QED BY <2>1, <2>2, ShortenedLemma
<1>9. 0..Size \subseteq T
  <2> HIDE DEF T
  <2> QED BY <1>7, <1>8, SizeLemma, SetInduction
<1>10. f \in [0..Size -> Distances]
  BY <1>6, <1>9
<1>11. f[0] = AtStart(s) /\ \A k \in 1..Size : f[k] = Shortened(f[k - 1], avoid)
  BY <1>6, SizeLemma
<1> QED BY <1>10, <1>11 DEF f

LEMMA StepLemma ==
    ASSUME IsLsdb, NEW s, NEW avoid, NEW k \in 1..Size, NEW r \in Routers
    PROVE  LET f == UpTo(s, avoid)
           IN  /\ f[k][r] \in 0..InfDistance /\ f[k - 1][r] \in 0..InfDistance
               /\ f[k][r] <= f[k - 1][r]
               /\ \A m \in Routers \ avoid :
                     LinkCost(m, r) >= 0 /\ f[k - 1][m] < InfDistance
                        => f[k][r] <= f[k - 1][m] + LinkCost(m, r)
               /\ \/ f[k][r] = f[k - 1][r]
                  \/ \E m \in Routers \ avoid :
                        /\ LinkCost(m, r) >= 0 /\ f[k - 1][m] < InfDistance
                        /\ f[k][r] = f[k - 1][m] + LinkCost(m, r)
<1> DEFINE f == UpTo(s, avoid)
           old == f[k - 1]
           new == Shortened(old, avoid)
<1>1. k \in 0..Size /\ k - 1 \in 0..Size
  BY SizeLemma
<1>2. f \in [0..Size -> Distances] /\ f[k] = new
  BY UpToLemma
<1>3. old \in Distances /\ new \in Distances
  BY <1>1, <1>2
<1> HIDE DEF f, old
<1>4. /\ new[r] <= old[r]
      /\ \A m \in Routers \ avoid :
            LinkCost(m, r) >= 0 /\ old[m] < InfDistance => new[r] <= old[m] + LinkCost(m, r)
      /\ \/ new[r] = old[r]
         \/ \E m \in Routers \ avoid :
               /\ LinkCost(m, r) >= 0 /\ old[m] < InfDistance
               /\ new[r] = old[m] + LinkCost(m, r)
  BY <1>3, ShortenedLemma
<1>5. new[r] \in 0..InfDistance /\ old[r] \in 0..InfDistance
  BY <1>3 DEF Distances
<1> HIDE DEF new
<1> QED BY <1>2, <1>4, <1>5 DEF f, old

LEMMA CostType ==
    ASSUME IsLsdb, NEW s, NEW avoid, NEW k \in 0..Size, NEW r \in Routers
    PROVE  UpTo(s, avoid)[k][r] \in 0..InfDistance
<1>1. UpTo(s, avoid)[k] \in Distances
  BY UpToLemma
<1> QED BY <1>1 DEF Distances

LEMMA StartType ==
    ASSUME IsLsdb, NEW s, NEW avoid, NEW r \in Routers
    PROVE  UpTo(s, avoid)[0][r] = IF r = s THEN 0 ELSE InfDistance
<1>1. UpTo(s, avoid)[0] = AtStart(s)
  BY UpToLemma
<1> QED BY <1>1 DEF AtStart

(* More links make no path dearer. *)
LEMMA MoreLinks ==
    ASSUME IsLsdb, NEW s, NEW avoid, NEW k \in 0..Size, NEW j \in 0..k, NEW r \in Routers
    PROVE  UpTo(s, avoid)[k][r] <= UpTo(s, avoid)[j][r]
<1> DEFINE f == UpTo(s, avoid)
           T == {n \in 0..Size : \A i \in 0..n : f[n][r] <= f[i][r]}
<1>1. \A n \in 0..Size : f[n][r] \in 0..InfDistance
  BY CostType
<1>2. ASSUME NEW n \in 1..Size PROVE f[n][r] <= f[n - 1][r] /\ f[n - 1][r] \in 0..InfDistance
  BY StepLemma
<1> HIDE DEF f
<1>3. 0 \in T
  BY <1>1, SizeLemma
<1>4. ASSUME NEW n \in 1..Size, n - 1 \in T PROVE n \in T
  <2>1. ASSUME NEW i \in 0..n PROVE f[n][r] <= f[i][r]
    <3>1. i \in 0..Size /\ n \in 0..Size
      BY SizeLemma
    <3>2. CASE i = n
      BY <1>1, <3>1, <3>2
    <3>3. CASE i # n
      <4>1. i \in 0..(n - 1)
        BY <3>3
      <4>2. f[n - 1][r] <= f[i][r]
        BY <1>4, <4>1
      <4> QED BY <1>1, <1>2, <3>1, <4>2
    <3> QED BY <3>2, <3>3
  <2> QED BY <2>1, SizeLemma
<1>5. 0..Size \subseteq T
  <2> HIDE DEF T
  <2> QED BY <1>3, <1>4, SizeLemma, SetInduction
<1> QED BY <1>5 DEF f

(* A function that no link shortens is below every path's cost. *)
LEMMA Floor ==
    ASSUME IsLsdb, NEW s \in Routers, NEW avoid, NEW g \in Distances, NEW a \in Nat, g[s] <= a,
           \A m \in Routers \ avoid, r \in Routers :
              LinkCost(m, r) >= 0 /\ g[m] < InfDistance => g[r] <= g[m] + LinkCost(m, r),
           NEW k \in 0..Size, NEW r \in Routers
    PROVE  g[r] <= a + UpTo(s, avoid)[k][r]
<1> DEFINE f == UpTo(s, avoid)
           T == {n \in 0..Size : \A q \in Routers : g[q] <= a + f[n][q]}
<1>0. InfDistance \in Nat /\ \A q \in Routers : g[q] \in 0..InfDistance
  BY ConstantsAssumption DEF Distances
<1>1. 0 \in T
  <2>1. \A q \in Routers : f[0][q] = IF q = s THEN 0 ELSE InfDistance
    BY StartType
  <2> HIDE DEF f
  <2> QED BY <1>0, <2>1, SizeLemma
<1>2. ASSUME NEW n \in 1..Size, n - 1 \in T PROVE n \in T
  <2>1. ASSUME NEW q \in Routers PROVE g[q] <= a + f[n][q]
    <3>1. \/ f[n][q] = f[n - 1][q]
          \/ \E m \in Routers \ avoid :
                /\ LinkCost(m, q) >= 0 /\ f[n - 1][m] < InfDistance
                /\ f[n][q] = f[n - 1][m] + LinkCost(m, q)
      BY StepLemma
    <3>2. \A m \in Routers : g[m] <= a + f[n - 1][m]
      BY <1>2
    <3>3. CASE f[n][q] = f[n - 1][q]
      BY <3>2, <3>3
    <3>4. ASSUME NEW m \in Routers \ avoid, LinkCost(m, q) >= 0,
                 f[n][q] = f[n - 1][m] + LinkCost(m, q)
          PROVE  g[q] <= a + f[n][q]
      <4>1. LinkCost(m, q) \in Nat
        BY <3>4, LinkCostLemma DEF LinkCosts, NonAdjacentCost
      <4>2. f[n - 1][m] \in Nat
        BY StepLemma, <1>0
      <4>3. g[m] <= a + f[n - 1][m] /\ g[m] \in 0..InfDistance /\ g[q] \in 0..InfDistance
        BY <1>0, <3>2
      <4>4. g[m] < InfDistance => g[q] <= g[m] + LinkCost(m, q)
        BY <3>4
      <4> HIDE DEF f
      <4> QED BY <1>0, <3>4, <4>1, <4>2, <4>3, <4>4
    <3> QED BY <3>1, <3>3, <3>4
  <2> QED BY <2>1, SizeLemma
<1>3. 0..Size \subseteq T
  <2> HIDE DEF T
  <2> QED BY <1>1, <1>2, SizeLemma, SetInduction
<1> QED BY <1>3

(* To avoid more makes no path cheaper. *)
LEMMA AvoidMore ==
    ASSUME IsLsdb, NEW s, NEW avoid, NEW k \in 0..Size, NEW r \in Routers
    PROVE  UpTo(s, {})[k][r] <= UpTo(s, avoid)[k][r]
<1> DEFINE f == UpTo(s, {})
           g == UpTo(s, avoid)
           T == {n \in 0..Size : \A q \in Routers : f[n][q] <= g[n][q]}
<1>0. InfDistance \in Nat
  BY ConstantsAssumption
<1>1. 0 \in T
  <2>1. \A q \in Routers : f[0][q] = g[0][q] /\ f[0][q] \in 0..InfDistance
    BY StartType, <1>0
  <2> HIDE DEF f, g
  <2> QED BY <2>1, SizeLemma
<1>2. ASSUME NEW n \in 1..Size, n - 1 \in T PROVE n \in T
  <2>1. ASSUME NEW q \in Routers PROVE f[n][q] <= g[n][q]
    <3>1. \/ g[n][q] = g[n - 1][q]
          \/ \E m \in Routers \ avoid :
                /\ LinkCost(m, q) >= 0 /\ g[n - 1][m] < InfDistance
                /\ g[n][q] = g[n - 1][m] + LinkCost(m, q)
      BY StepLemma
    <3>2. /\ f[n][q] \in 0..InfDistance /\ f[n - 1][q] \in 0..InfDistance
          /\ f[n][q] <= f[n - 1][q]
          /\ \A m \in Routers :
                LinkCost(m, q) >= 0 /\ f[n - 1][m] < InfDistance
                   => f[n][q] <= f[n - 1][m] + LinkCost(m, q)
      BY StepLemma
    <3>3. \A m \in Routers : f[n - 1][m] <= g[n - 1][m]
      BY <1>2
    <3>4. \A m \in Routers : f[n - 1][m] \in 0..InfDistance /\ g[n - 1][m] \in 0..InfDistance
      BY StepLemma
    <3> HIDE DEF f, g
    <3>5. CASE g[n][q] = g[n - 1][q]
      BY <1>0, <3>2, <3>3, <3>4, <3>5
    <3>6. ASSUME NEW m \in Routers \ avoid, LinkCost(m, q) >= 0, g[n - 1][m] < InfDistance,
                 g[n][q] = g[n - 1][m] + LinkCost(m, q)
          PROVE  f[n][q] <= g[n][q]
      <4>1. LinkCost(m, q) \in Nat
        BY <3>6, LinkCostLemma DEF LinkCosts, NonAdjacentCost
      <4>2. f[n][q] <= f[n - 1][m] + LinkCost(m, q)
        BY <1>0, <3>2, <3>3, <3>4, <3>6
      <4> QED BY <1>0, <3>2, <3>3, <3>4, <3>6, <4>1, <4>2
    <3> QED BY <3>1, <3>5, <3>6
  <2> QED BY <2>1, SizeLemma
<1>3. 0..Size \subseteq T
  <2> HIDE DEF T
  <2> QED BY <1>1, <1>2, SizeLemma, SetInduction
<1> QED BY <1>3

LEMMA StartIsNear ==
    ASSUME IsLsdb, NEW s \in Routers, NEW avoid, NEW k \in 0..Size
    PROVE  UpTo(s, avoid)[k][s] = 0
<1>1. UpTo(s, avoid)[0][s] = 0
  BY StartType
<1>2. UpTo(s, avoid)[k][s] <= UpTo(s, avoid)[0][s]
  BY MoreLinks, SizeLemma
<1>3. UpTo(s, avoid)[k][s] \in 0..InfDistance
  BY CostType
<1> QED BY <1>1, <1>2, <1>3

(* A path from the source that is as cheap as any starts over some link    *)
(* and does not come back.                                                 *)
LEMMA FirstHop ==
    ASSUME IsLsdb, NEW k \in 0..Size, NEW r \in Routers \ {Source},
           UpTo(Source, {})[k][r] < InfDistance
    PROVE  \E h \in Routers \ {Source} :
              /\ LinkCost(Source, h) >= 0
              /\ LinkCost(Source, h) + UpTo(h, {Source})[k][r] <= UpTo(Source, {})[k][r]
<1> DEFINE f == UpTo(Source, {})
           g(h) == UpTo(h, {Source})
           Starts(h, n, q) == h \in Routers \ {Source} /\ LinkCost(Source, h) >= 0
                              /\ LinkCost(Source, h) + g(h)[n][q] <= f[n][q]
           T == {n \in 0..Size : \A q \in Routers \ {Source} :
                                    f[n][q] < InfDistance => \E h : Starts(h, n, q)}
<1>0. InfDistance \in Nat /\ Source \in Routers
  BY ConstantsAssumption
<1>1. 0 \in T
  <2>1. \A q \in Routers \ {Source} : f[0][q] = InfDistance
    BY StartType
  <2> HIDE DEF f, Starts
  <2> QED BY <1>0, <2>1, SizeLemma
<1>2. ASSUME NEW n \in 1..Size, n - 1 \in T PROVE n \in T
  <2>0. n \in 0..Size /\ n - 1 \in 0..Size
    BY SizeLemma
  <2>1. ASSUME NEW q \in Routers \ {Source}, f[n][q] < InfDistance PROVE \E h : Starts(h, n, q)
    <3>1. \/ f[n][q] = f[n - 1][q]
          \/ \E m \in Routers :
                /\ LinkCost(m, q) >= 0 /\ f[n - 1][m] < InfDistance
                /\ f[n][q] = f[n - 1][m] + LinkCost(m, q)
      BY StepLemma
    <3>2. /\ f[n][q] \in 0..InfDistance
          /\ \A m \in Routers : f[n - 1][m] \in 0..InfDistance
      BY <2>0, CostType
    <3>3. \A h \in Routers, m \in Routers : g(h)[n][m] \in 0..InfDistance /\ g(h)[n - 1][m] \in 0..InfDistance
      BY <2>0, CostType
    <3>4. \A h, m \in Routers : LinkCost(h, m) \in Int
      BY LinkCostLemma DEF LinkCosts, NonAdjacentCost
    <3>5. ASSUME NEW h \in Routers
          PROVE  /\ g(h)[n][q] <= g(h)[n - 1][q]
                 /\ \A m \in Routers \ {Source} :
                       LinkCost(m, q) >= 0 /\ g(h)[n - 1][m] < InfDistance
                          => g(h)[n][q] <= g(h)[n - 1][m] + LinkCost(m, q)
      BY StepLemma
    <3>6. g(q)[n][q] = 0
      BY <2>0, StartIsNear
    <3>7. \A p \in Routers \ {Source} : f[n - 1][p] < InfDistance => \E h : Starts(h, n - 1, p)
      BY <1>2
    <3> HIDE DEF f, g
    <3>8. CASE f[n][q] = f[n - 1][q]
      <4>1. PICK h : Starts(h, n - 1, q)
        BY <2>1, <3>7, <3>8
      <4>2. Starts(h, n, q)
        BY <1>0, <3>2, <3>3, <3>4, <3>5, <3>8, <4>1
      <4> QED BY <4>2
    <3>9. ASSUME NEW m \in Routers, LinkCost(m, q) >= 0, f[n - 1][m] < InfDistance,
                 f[n][q] = f[n - 1][m] + LinkCost(m, q)
          PROVE  \E h : Starts(h, n, q)
      <4>1. CASE m = Source
        <5>1. Starts(q, n, q)
          BY <1>0, <3>2, <3>4, <3>6, <3>9, <4>1
        <5> QED BY <5>1
      <4>2. CASE m # Source
        <5>1. PICK h : Starts(h, n - 1, m)
          BY <3>7, <3>9, <4>2
        <5>2. g(h)[n - 1][m] < InfDistance
          BY <1>0, <3>2, <3>3, <3>4, <3>9, <5>1
        <5>3. g(h)[n][q] <= g(h)[n - 1][m] + LinkCost(m, q)
          BY <3>5, <3>9, <4>2, <5>1, <5>2
        <5>4. Starts(h, n, q)
          BY <1>0, <3>2, <3>3, <3>4, <3>9, <5>1, <5>3
        <5> QED BY <5>4
      <4> QED BY <4>1, <4>2
    <3> QED BY <3>1, <3>8, <3>9
  <2> HIDE DEF f, Starts
  <2> QED BY <2>0, <2>1
<1>3. 0..Size \subseteq T
  <2> HIDE DEF T
  <2> QED BY <1>1, <1>2, SizeLemma, SetInduction
<1>4. \E h : Starts(h, k, r)
  BY <1>3
<1> QED BY <1>4

LEMMA SameLsdb ==
    ASSUME lsdb' = lsdb
    PROVE  /\ \A m, n : LinkCost(m, n)' = LinkCost(m, n)
           /\ \A c, a : Shortened(c, a)' = Shortened(c, a)
           /\ \A s, a : UpTo(s, a)' = UpTo(s, a)
<1>1. \A m, n : LinkCost(m, n)' = LinkCost(m, n)
  BY DEF LinkCost
<1>2. \A c, a : Shortened(c, a)' = Shortened(c, a)
  BY <1>1 DEF Shortened
<1>3. \A s, a : UpTo(s, a)' = UpTo(s, a)
  BY <1>2 DEF UpTo
<1> QED BY <1>1, <1>2, <1>3

-----------------------------------------------------------------------------
(* The loop against the reference: with k routers explored, every finite   *)
(* distance is the cost of a path of at most k links, less what it takes   *)
(* to get to the router s where those paths start.                         *)
Count == Cardinality(Explored)

Reached(s, avoid, a) ==
    \A v \in Routers \ avoid :
       distance[v] < InfDistance => a + UpTo(s, avoid)[Count][v] <= distance[v]

(* Parents were explored before their children. *)
Ranks(rank) ==
    /\ rank \in [Routers -> Nat]
    /\ \A v \in Explored : /\ rank[v] < Count
                           /\ parent[v] # NoParent => rank[parent[v]] < rank[v]

TreeInv ==
    pc = "explore" =>
       /\ parent[Source] = NoParent
       /\ \A v \in Routers : parent[v] # NoParent => distance[v] < InfDistance
       /\ \E rank : Ranks(rank)

LEMMA CountLemma ==
    ASSUME TypeOK
    PROVE  Count \in 0..Size /\ IsFiniteSet(Explored)
<1>1. Explored \in SUBSET Routers /\ IsFiniteSet(Routers)
  BY ConstantsAssumption DEF Explored
<1>2. IsFiniteSet(Explored) /\ Cardinality(Explored) <= Cardinality(Routers)
  BY <1>1, FS_Subset
<1>3. Cardinality(Explored) \in Nat
  BY <1>2, FS_CardinalityType
<1> QED BY <1>2, <1>3, SizeLemma DEF Count, Size

LEMMA ExploreFacts ==
    ASSUME TypeOK, NEW u \in Routers, Explore(u)
    PROVE  /\ Explored' = Explored \cup {u} /\ u \notin Explored
           /\ Count' = Count + 1 /\ Count' \in 1..Size
           /\ distance[u] < InfDistance
           /\ \A v \in Routers :
                 /\ distance'[v] = IF Improves(u, v) THEN distance[u] + matrix[u][v] ELSE distance[v]
                 /\ parent'[v] = IF Improves(u, v) THEN u ELSE parent[v]
                 /\ Improves(u, v) => /\ v \notin Explored' /\ matrix[u][v] \in Nat
                                      /\ distance[u] + matrix[u][v] < distance[v]
<1>1. /\ u \in unexplored /\ distance[u] # InfDistance
      /\ unexplored' = unexplored \ {u} /\ unexplored \subseteq Routers
  BY DEF Explore, IsNearest, TypeOK
<1>2. Explored' = Explored \cup {u} /\ u \notin Explored
  BY <1>1 DEF Explored
<1>3. Count' = Count + 1
  <2>1. Cardinality(Explored \cup {u}) = Cardinality(Explored) + 1
    BY <1>2, CountLemma, FS_AddElement
  <2> QED BY <1>2, <2>1 DEF Count
<1>4. Count' \in 1..Size
  <2>1. Explored' \in SUBSET Routers /\ IsFiniteSet(Routers)
    BY ConstantsAssumption DEF Explored
  <2>2. Cardinality(Explored') <= Cardinality(Routers)
    BY <2>1, FS_Subset
  <2>3. Count' <= Size
    BY <2>2 DEF Count, Size
  <2> QED BY <1>3, <2>3, CountLemma, SizeLemma
<1>5. distance[u] < InfDistance
  <2>1. distance[u] \in 0..InfDistance /\ InfDistance \in Nat
    BY ConstantsAssumption DEF TypeOK
  <2> QED BY <1>1, <2>1
<1>6. \A v \in Routers :
         /\ distance'[v] = IF Improves(u, v) THEN distance[u] + matrix[u][v] ELSE distance[v]
         /\ parent'[v] = IF Improves(u, v) THEN u ELSE parent[v]
  BY DEF Explore
<1>7. ASSUME NEW v \in Routers, Improves(u, v)
      PROVE  /\ v \notin Explored' /\ matrix[u][v] \in Nat
             /\ distance[u] + matrix[u][v] < distance[v]
  <2>1. matrix[u][v] \in LinkCosts /\ matrix[u][v] >= 0
    BY <1>7 DEF TypeOK, Improves
  <2> QED BY <1>2, <1>7, <2>1 DEF Improves, Explored, LinkCosts, NonAdjacentCost
<1> QED BY <1>2, <1>3, <1>4, <1>5, <1>6, <1>7

LEMMA ReachedStep ==
    ASSUME TypeOK, NEW u \in Routers, Explore(u), NEW s \in Routers, NEW avoid, NEW a \in Nat,
           Reached(s, avoid, a),
           \A v \in Routers \ avoid : Improves(u, v) =>
              \/ u \notin avoid /\ matrix[u][v] = LinkCost(u, v)
              \/ v = s /\ distance[u] + matrix[u][v] >= a
    PROVE  Reached(s, avoid, a)'
<1> DEFINE f == UpTo(s, avoid)
<1>1. IsLsdb /\ lsdb' = lsdb /\ InfDistance \in Nat
  BY ConstantsAssumption DEF TypeOK, IsLsdb, Explore
<1>2. UpTo(s, avoid)' = f
  BY <1>1, SameLsdb
<1>3. Count \in 0..Size /\ Count' = Count + 1 /\ Count' \in 1..Size /\ Count = Count' - 1
  BY CountLemma, ExploreFacts
<1>4. \A v \in Routers : distance[v] \in 0..InfDistance
  BY DEF TypeOK
<1>5. \A v \in Routers : f[Count][v] \in 0..InfDistance /\ f[Count'][v] \in 0..InfDistance
  BY <1>1, <1>3, StepLemma
<1>6. SUFFICES ASSUME NEW v \in Routers \ avoid, distance'[v] < InfDistance
               PROVE  a + f[Count'][v] <= distance'[v]
  BY <1>2 DEF Reached
<1>7. CASE ~Improves(u, v)
  <2>1. distance'[v] = distance[v]
    BY <1>7, ExploreFacts
  <2>2. a + f[Count][v] <= distance[v]
    BY <1>6, <2>1 DEF Reached
  <2>3. f[Count'][v] <= f[Count][v]
    BY <1>1, <1>3, StepLemma
  <2> HIDE DEF f
  <2> QED BY <1>4, <1>5, <2>1, <2>2, <2>3
<1>8. CASE Improves(u, v) /\ u \notin avoid /\ matrix[u][v] = LinkCost(u, v)
  <2>1. /\ distance'[v] = distance[u] + matrix[u][v] /\ matrix[u][v] \in Nat
        /\ distance[u] < InfDistance
    BY <1>8, ExploreFacts
  <2>2. a + f[Count][u] <= distance[u]
    BY <1>8, <2>1 DEF Reached
  <2>3. f[Count][u] < InfDistance
    BY <1>1, <1>4, <1>5, <2>1, <2>2
  <2>4. f[Count'][v] <= f[Count][u] + LinkCost(u, v)
    BY <1>1, <1>3, <1>8, <2>1, <2>3, StepLemma
  <2> HIDE DEF f
  <2> QED BY <1>4, <1>5, <1>8, <2>1, <2>2, <2>4
<1>9. CASE Improves(u, v) /\ v = s /\ distance[u] + matrix[u][v] >= a
  <2>1. distance'[v] = distance[u] + matrix[u][v]
    BY <1>9, ExploreFacts
  <2>2. f[Count'][v] = 0
    <3>1. Count' \in 0..Size
      BY <1>3
    <3> QED BY <1>1, <1>9, <3>1, StartIsNear
  <2> HIDE DEF f
  <2> QED BY <1>4, <1>9, <2>1, <2>2
<1> QED BY <1>7, <1>8, <1>9

LEMMA TreeStep ==
    ASSUME IInv, TreeInv, NEW u \in Routers, Explore(u) PROVE TreeInv'
<1>1. /\ pc = "explore" /\ TypeOK /\ distance[Source] = 0 /\ ParentsExplored
      /\ parent[Source] = NoParent
      /\ \A v \in Routers : parent[v] # NoParent => distance[v] < InfDistance
  BY DEF IInv, TreeInv, LoopInv, Explore
<1>2. PICK rank : Ranks(rank)
  BY <1>1 DEF TreeInv
<1>3. /\ Explored' = Explored \cup {u} /\ u \notin Explored /\ Explored \subseteq Routers
      /\ Count \in Nat /\ Count' = Count + 1
      /\ \A v \in Routers :
            /\ distance'[v] = IF Improves(u, v) THEN distance[u] + matrix[u][v] ELSE distance[v]
            /\ parent'[v] = IF Improves(u, v) THEN u ELSE parent[v]
            /\ Improves(u, v) => /\ v \notin Explored' /\ matrix[u][v] \in Nat
                                 /\ distance[u] + matrix[u][v] < distance[v]
  BY <1>1, ExploreFacts, CountLemma DEF Explored
<1>4. \A v \in Routers : distance[v] \in Nat /\ distance[v] <= InfDistance
  BY <1>1 DEF TypeOK
<1>5. Source \in Routers /\ InfDistance \in Nat
  BY ConstantsAssumption
<1>6. parent'[Source] = NoParent
  <2>1. ~Improves(u, Source)
    BY <1>1, <1>3, <1>4, <1>5
  <2> QED BY <1>1, <1>3, <1>5, <2>1
<1>7. ASSUME NEW v \in Routers, parent'[v] # NoParent PROVE distance'[v] < InfDistance
  BY <1>1, <1>3, <1>4, <1>5, <1>7
<1>0. PICK new : new = [rank EXCEPT ![u] = Count]
  OBVIOUS
<1>8. Ranks(new)'
  <2>1. rank \in [Routers -> Nat]
    BY <1>2 DEF Ranks
  <2>2. new \in [Routers -> Nat]
    BY <1>0, <1>3, <2>1
  <2>3. ASSUME NEW v \in Explored'
        PROVE  new[v] < Count' /\ (parent'[v] # NoParent => new[parent'[v]] < new[v])
    <3>1. v \in Routers /\ parent'[v] = parent[v]
      BY <1>3, <2>3
    <3>2. parent[v] # NoParent => parent[v] \in Explored
      BY <1>1, <3>1 DEF ParentsExplored
    <3>3. CASE v = u
      <4>1. new[v] = Count
        BY <1>0, <2>1, <3>3
      <4>2. parent[v] # NoParent => new[parent[v]] < Count
        BY <1>0, <1>2, <1>3, <2>1, <3>2 DEF Ranks
      <4> QED BY <1>3, <3>1, <4>1, <4>2
    <3>4. CASE v # u
      <4>1. v \in Explored
        BY <1>3, <2>3, <3>4
      <4>2. rank[v] < Count /\ (parent[v] # NoParent => rank[parent[v]] < rank[v])
        BY <1>2, <4>1 DEF Ranks
      <4>3. new[v] = rank[v] /\ (parent[v] # NoParent => new[parent[v]] = rank[parent[v]])
        BY <1>0, <1>3, <2>1, <3>1, <3>2, <3>4
      <4>4. rank[v] \in Nat
        BY <2>1, <3>1
      <4> QED BY <1>3, <3>1, <4>2, <4>3, <4>4
    <3> QED BY <3>3, <3>4
  <2> QED BY <2>2, <2>3 DEF Ranks
<1>9. \E r : Ranks(r)'
  BY <1>8
<1> QED BY <1>6, <1>7, <1>9 DEF TreeInv

-----------------------------------------------------------------------------
(* getNextHop: the walk from a destination to the source. *)
Above(v) == IF parent[v] = NoParent THEN v ELSE parent[v]

LEMMA AncestorLemma ==
    ASSUME TypeOK, NEW d \in Routers
    PROVE  /\ Ancestor(d) \in [0..Size -> Routers]
           /\ Ancestor(d)[0] = d
           /\ \A k \in 1..Size : Ancestor(d)[k] = Above(Ancestor(d)[k - 1])
<1> DEFINE F == [v \in Routers |-> Above(v)]
           E(f) == f = [k \in 0..Size |-> IF k = 0 THEN d ELSE Above(f[k - 1])]
           f == Ancestor(d)
<1>1. F \in [Routers -> Routers] /\ Size \in Nat
  BY SizeLemma DEF TypeOK, Above
<1>2. PICK g : Iterates(g, F, Routers, d, Size)
  <2> HIDE DEF F
  <2> QED BY <1>1, Iteration
<1>3. E(g)
  <2>1. ASSUME NEW k \in 0..Size PROVE g[k] = IF k = 0 THEN d ELSE Above(g[k - 1])
    <3>1. k = 0 \/ (k \in 1..Size /\ k - 1 \in 0..Size)
      BY SizeLemma
    <3>2. k # 0 => g[k - 1] \in Routers
      BY <1>2, <3>1 DEF Iterates
    <3> QED BY <1>2, <3>1, <3>2 DEF Iterates
  <2>2. g = [k \in 0..Size |-> g[k]]
    BY <1>2 DEF Iterates
  <2> HIDE DEF F
  <2>3. g = [k \in 0..Size |-> IF k = 0 THEN d ELSE Above(g[k - 1])]
    BY <2>1, <2>2
  <2> QED BY <2>3
<1>4. Ancestor(d) = CHOOSE h : E(h)
  BY Zenon DEF Ancestor, Size, Above
<1>5. E(Ancestor(d))
  <2> HIDE DEF E
  <2> QED BY <1>3, <1>4, Zenon
<1>6. f = [k \in 0..Size |-> IF k = 0 THEN d ELSE Above(f[k - 1])]
  BY <1>5
<1> HIDE DEF f
<1> DEFINE T == {k \in 0..Size : f[k] \in Routers}
<1>7. 0 \in T
  BY <1>6, SizeLemma
<1>8. ASSUME NEW k \in 1..Size, k - 1 \in T PROVE k \in T
  <2>1. k \in 0..Size /\ k # 0 /\ f[k - 1] \in Routers
    BY <1>8, SizeLemma
  <2>2. f[k] = Above(f[k - 1])
    BY <1>6, <2>1
  <2> QED BY <2>1, <2>2 DEF Above, TypeOK
<1>9. 0..Size \subseteq T
  <2> HIDE DEF T
  <2> QED BY <1>7, <1>8, SizeLemma, SetInduction
<1>10. f \in [0..Size -> Routers]
  BY <1>6, <1>9
<1>11. f[0] = d /\ \A k \in 1..Size : f[k] = Above(f[k - 1])
  BY <1>6, SizeLemma
<1> QED BY <1>10, <1>11 DEF f

(* Above a router that has been reached are routers that have been, each   *)
(* explored earlier, up to the source.                                     *)
LEMMA ReachedAbove ==
    ASSUME IInv, TreeInv, pc = "explore", DijkstraEnds,
           NEW v \in Routers, distance[v] < InfDistance
    PROVE  /\ Above(v) \in Routers /\ distance[Above(v)] < InfDistance
           /\ v # Source => /\ Above(v) = parent[v]
                            /\ matrix[parent[v]][v] \in Nat
                            /\ distance[v] = distance[parent[v]] + matrix[parent[v]][v]
           /\ v = Source => Above(v) = Source
<1>1. ReachedOverParent /\ parent[Source] = NoParent /\ TypeOK
  BY EndOfPass DEF TreeInv, IInv
<1>2. InfDistance \in Nat /\ NoParent \notin Routers
  BY ConstantsAssumption
<1>3. CASE v = Source
  BY <1>1, <1>3 DEF Above
<1>4. CASE v # Source
  <2>1. parent[v] # NoParent
    BY <1>1, <1>2, <1>4 DEF ReachedOverParent
  <2>2. parent[v] \in Routers /\ distance[parent[v]] \in 0..InfDistance
    BY <1>1, <2>1 DEF TypeOK
  <2>3. /\ matrix[parent[v]][v] >= 0
        /\ distance[v] = distance[parent[v]] + matrix[parent[v]][v]
    BY <1>1, <1>4, <2>1 DEF ReachedOverParent
  <2>4. matrix[parent[v]][v] \in Nat
    BY <1>1, <2>2, <2>3 DEF TypeOK, LinkCosts, NonAdjacentCost
  <2>5. distance[parent[v]] < InfDistance
    BY <1>2, <2>2, <2>3, <2>4
  <2> QED BY <1>4, <2>1, <2>2, <2>3, <2>4, <2>5 DEF Above
<1> QED BY <1>3, <1>4

LEMMA WalkIsReached ==
    ASSUME IInv, TreeInv, pc = "explore", DijkstraEnds,
           NEW d \in Routers, distance[d] < InfDistance, NEW k \in 0..Size
    PROVE  distance[Ancestor(d)[k]] < InfDistance /\ Ancestor(d)[k] \in Routers
<1> DEFINE up == Ancestor(d)
           T == {n \in 0..Size : up[n] \in Routers /\ distance[up[n]] < InfDistance}
<1>1. up[0] = d /\ \A n \in 1..Size : up[n] = Above(up[n - 1])
  BY AncestorLemma DEF IInv
<1> HIDE DEF up
<1>2. 0 \in T
  BY <1>1, SizeLemma
<1>3. ASSUME NEW n \in 1..Size, n - 1 \in T PROVE n \in T
  BY <1>1, <1>3, ReachedAbove, SizeLemma
<1>4. 0..Size \subseteq T
  <2> HIDE DEF T
  <2> QED BY <1>2, <1>3, SizeLemma, SetInduction
<1> QED BY <1>4 DEF up

LEMMA WalkEnds ==
    ASSUME IInv, TreeInv, pc = "explore", DijkstraEnds,
           NEW d \in Routers, distance[d] < InfDistance
    PROVE  Ancestor(d)[Size] = Source
<1> DEFINE up == Ancestor(d)
<1>1. up[0] = d /\ \A n \in 1..Size : up[n] = Above(up[n - 1])
  BY AncestorLemma DEF IInv
<1>2. \A n \in 0..Size : up[n] \in Routers /\ distance[up[n]] < InfDistance
  BY WalkIsReached
<1>3. PICK rank : Ranks(rank)
  BY DEF TreeInv
<1>4. /\ rank \in [Routers -> Nat]
      /\ \A v \in Explored : rank[v] < Count /\ (parent[v] # NoParent => rank[parent[v]] < rank[v])
  BY <1>3 DEF Ranks
<1>5. \A v \in Routers : distance[v] < InfDistance => v \in Explored
  <2>1. \A v \in unexplored : distance[v] = InfDistance
    BY EndOfPass
  <2> QED BY <2>1, ConstantsAssumption DEF Explored
<1>6. Count \in 0..Size
  BY CountLemma DEF IInv
<1> HIDE DEF up
<1> DEFINE T == {n \in 0..Size : up[n] = Source \/ rank[up[n]] + n < Count}
<1>7. 0 \in T
  BY <1>1, <1>2, <1>4, <1>5, SizeLemma
<1>8. ASSUME NEW n \in 1..Size, n - 1 \in T PROVE n \in T
  <2>0. n \in 0..Size /\ n - 1 \in 0..Size
    BY SizeLemma
  <2>1. up[n] = Above(up[n - 1]) /\ up[n - 1] \in Routers /\ distance[up[n - 1]] < InfDistance
    BY <1>1, <1>2, <2>0
  <2>2. CASE up[n - 1] = Source
    <3>1. Above(up[n - 1]) = Source
      BY <2>1, <2>2, ReachedAbove
    <3> QED BY <2>0, <2>1, <3>1
  <2>3. CASE up[n - 1] # Source
    <3>1. rank[up[n - 1]] + (n - 1) < Count
      BY <1>8, <2>3
    <3>2. up[n] = parent[up[n - 1]] /\ up[n] \in Routers
      BY <2>1, <2>3, ReachedAbove
    <3>3. rank[up[n]] < rank[up[n - 1]]
      BY <1>4, <1>5, <2>1, <3>2, ConstantsAssumption
    <3>4. rank[up[n]] \in Nat /\ rank[up[n - 1]] \in Nat
      BY <1>4, <2>1, <3>2
    <3>5. rank[up[n]] + n < Count
      BY <1>6, <3>1, <3>3, <3>4, <2>0
    <3> QED BY <2>0, <3>5
  <2> QED BY <2>2, <2>3
<1>9. 0..Size \subseteq T
  <2> HIDE DEF T
  <2> QED BY <1>7, <1>8, SizeLemma, SetInduction
<1>10. up[Size] = Source \/ rank[up[Size]] + Size < Count
  BY <1>9, SizeLemma
<1>11. rank[up[Size]] \in Nat
  BY <1>2, <1>4, SizeLemma
<1> QED BY <1>6, <1>10, <1>11, SizeLemma DEF up

LEMMA NextHopLemma ==
    ASSUME IInv, TreeInv, pc = "explore", DijkstraEnds, NEW d \in Routers \ {Source}
    PROVE  /\ distance[d] = InfDistance => GetNextHop(d) = NoParent
           /\ distance[d] < InfDistance =>
                 /\ GetNextHop(d) \in Routers \ {Source}
                 /\ parent[GetNextHop(d)] = Source
                 /\ \E j \in 0..Size : GetNextHop(d) = Ancestor(d)[j]
<1> DEFINE up == Ancestor(d)
           Passed == {up[k] : k \in 0..Size}
<1>0. /\ parent[Source] = NoParent /\ TypeOK /\ ReachedOverParent
      /\ Source \in Routers /\ NoParent \notin Routers /\ InfDistance \in Nat
  BY EndOfPass, ConstantsAssumption DEF TreeInv, IInv
<1>1. up[0] = d /\ (\A n \in 1..Size : up[n] = Above(up[n - 1])) /\ up \in [0..Size -> Routers]
  BY <1>0, AncestorLemma
<1>2. GetNextHop(d) = IF up[Size] # Source \/ d = Source THEN NoParent
                      ELSE CHOOSE h \in Passed : parent[h] = Source
  BY Zenon DEF GetNextHop, Size
<1>3. ASSUME distance[d] = InfDistance PROVE GetNextHop(d) = NoParent
  <2>1. parent[d] = NoParent
    BY <1>0, <1>3 DEF TreeInv
  <2> DEFINE T == {n \in 0..Size : up[n] = d}
  <2> HIDE DEF up
  <2>2. 0 \in T
    BY <1>1, SizeLemma
  <2>3. ASSUME NEW n \in 1..Size, n - 1 \in T PROVE n \in T
    BY <1>1, <2>1, <2>3, SizeLemma DEF Above
  <2>4. 0..Size \subseteq T
    <3> HIDE DEF T
    <3> QED BY <2>2, <2>3, SizeLemma, SetInduction
  <2>5. up[Size] # Source
    BY <2>4, SizeLemma
  <2> QED BY <1>2, <2>5
<1>4. ASSUME distance[d] < InfDistance
      PROVE  /\ GetNextHop(d) \in Routers \ {Source}
             /\ parent[GetNextHop(d)] = Source
             /\ \E j \in 0..Size : GetNextHop(d) = up[j]
  <2>1. up[Size] = Source
    BY <1>4, WalkEnds
  <2>2. \A n \in 0..Size : up[n] \in Routers /\ distance[up[n]] < InfDistance
    BY <1>4, WalkIsReached
  <2> HIDE DEF up
  <2> DEFINE S == {n \in 0..Size : up[n] = Source}
  <2>3. PICK n \in S : \A m \in S : n <= m
    <3>1. S \subseteq Nat /\ S # {}
      BY <2>1, SizeLemma
    <3> HIDE DEF S
    <3> QED BY <3>1, LeastNatural
  <2>4. n \in 1..Size /\ n - 1 \in 0..Size /\ n - 1 \notin S
    BY <1>1, <2>3, SizeLemma
  <2>5. up[n - 1] # Source /\ up[n] = Source /\ up[n] = Above(up[n - 1]) /\ up[n - 1] \in Routers
    BY <1>1, <2>2, <2>3, <2>4
  <2>6. parent[up[n - 1]] = Source /\ up[n - 1] \in Passed
    BY <2>4, <2>5 DEF Above
  <2>7. GetNextHop(d) = CHOOSE h \in Passed : parent[h] = Source
    BY <1>2, <2>1
  <2>8. GetNextHop(d) \in Passed /\ parent[GetNextHop(d)] = Source
    <3> HIDE DEF Passed
    <3> QED BY <2>6, <2>7, Zenon
  <2>9. PICK j \in 0..Size : GetNextHop(d) = up[j]
    BY <2>8
  <2> QED BY <1>0, <2>2, <2>8, <2>9
<1> QED BY <1>3, <1>4

(* The walk from d back to h, read the other way, is a path from h. *)
LEMMA ChainCost ==
    ASSUME IInv, TreeInv, pc = "explore", DijkstraEnds,
           \A u, v \in Routers : matrix[u][v] = LinkCost(u, v),
           NEW d \in Routers, distance[d] < InfDistance,
           NEW j \in 0..Size, NEW h \in Routers, h = Ancestor(d)[j]
    PROVE  UpTo(h, {})[Size][d] + distance[h] <= distance[d]
<1> DEFINE up == Ancestor(d)
           f == UpTo(h, {})
           T == {i \in 0..j : f[i][up[j - i]] + distance[h] <= distance[up[j - i]]}
<1>0. IsLsdb /\ InfDistance \in Nat /\ \A v \in Routers : distance[v] \in 0..InfDistance
  BY ConstantsAssumption DEF IInv, TypeOK, IsLsdb
<1>1. up[0] = d /\ \A n \in 1..Size : up[n] = Above(up[n - 1])
  BY AncestorLemma DEF IInv
<1>2. \A n \in 0..Size : up[n] \in Routers /\ distance[up[n]] < InfDistance
  BY WalkIsReached
<1>3. f[0][h] = 0
  BY <1>0, StartType
<1>4. 0 \in T
  <2>1. j - 0 = j
    BY SizeLemma
  <2> HIDE DEF f
  <2> QED BY <1>0, <1>3, <2>1, SizeLemma
<1>5. ASSUME NEW i \in 1..j, i - 1 \in T PROVE i \in T
  <2>0. /\ i \in 1..Size /\ j - i \in 0..Size /\ j - (i - 1) \in 1..Size
        /\ (j - (i - 1)) - 1 = j - i
    BY SizeLemma
  <2> DEFINE v == up[j - i]
             w == up[j - (i - 1)]
  <2>1. w = Above(v)
    BY <1>1, <2>0
  <2>2. v \in Routers /\ distance[v] < InfDistance
    BY <1>2, <2>0
  <2>3. f[i - 1][w] + distance[h] <= distance[w]
    BY <1>5
  <2>4. /\ w \in Routers /\ distance[w] < InfDistance
        /\ v # Source => /\ w = parent[v] /\ matrix[w][v] \in Nat
                         /\ distance[v] = distance[w] + matrix[w][v]
        /\ v = Source => w = v
    BY <2>1, <2>2, ReachedAbove
  <2>5. f[i - 1][w] \in 0..InfDistance /\ f[i][v] \in 0..InfDistance
    BY <1>0, <2>0, <2>2, <2>4, StepLemma
  <2>6. f[i - 1][w] < InfDistance
    BY <1>0, <2>3, <2>4, <2>5
  <2>7. f[i][v] + distance[h] <= distance[v]
    <3>1. CASE v = Source
      <4>1. f[i][v] <= f[i - 1][v]
        BY <1>0, <2>0, <2>2, StepLemma
      <4> HIDE DEF f, v, w
      <4> QED BY <1>0, <2>2, <2>3, <2>4, <2>5, <3>1, <4>1
    <3>2. CASE v # Source
      <4>1. LinkCost(w, v) = matrix[w][v] /\ LinkCost(w, v) >= 0
        BY <2>2, <2>4, <3>2
      <4>2. f[i][v] <= f[i - 1][w] + LinkCost(w, v)
        BY <1>0, <2>0, <2>2, <2>4, <2>6, <4>1, StepLemma
      <4> HIDE DEF f, v, w
      <4> QED BY <1>0, <2>2, <2>3, <2>4, <2>5, <3>2, <4>1, <4>2
    <3> QED BY <3>1, <3>2
  <2> QED BY <2>7, SizeLemma
<1>6. 0..j \subseteq T
  <2>1. j \in Nat
    BY SizeLemma
  <2> HIDE DEF T
  <2> QED BY <1>4, <1>5, <2>1, SetInduction
<1>7. f[j][d] + distance[h] <= distance[d]
  <2>1. j \in T /\ j - j = 0
    BY <1>6, SizeLemma
  <2> QED BY <1>1, <2>1
<1>8. f[Size][d] <= f[j][d]
  BY <1>0, MoreLinks, SizeLemma
<1>9. f[Size][d] \in 0..InfDistance /\ f[j][d] \in 0..InfDistance
  BY <1>0, CostType, SizeLemma
<1> HIDE DEF f
<1> QED BY <1>0, <1>7, <1>8, <1>9 DEF f

-----------------------------------------------------------------------------
(* The table against the reference. *)
Neighbors == {n \in Routers \ {Source} : LinkCost(Source, n) >= 0}

TableFor(N) ==
    \A d \in Routers \ {Source} :
       table[d] = {[hop |-> h, cost |-> CostThrough(h, d)] :
                     h \in {h \in N : CostThrough(h, d) < InfDistance}}

(* The pass that sees no link of the source but the one to n. *)
OnlyThrough(n) ==
    /\ n \in Neighbors \ links
    /\ \A u, v \in Routers :
          matrix[u][v] = IF u # Source \/ v = n THEN LinkCost(u, v) ELSE NonAdjacentCost
    /\ TableFor(Neighbors \ (links \cup {n}))
    /\ Reached(n, {Source}, LinkCost(Source, n))

SingleInv ==
    maxFaces = 1 =>
       /\ pc # "link"
       /\ pc # "done" => links = {} /\ \A d \in Routers : table[d] = {}
       /\ pc = "explore" => /\ \A u, v \in Routers : matrix[u][v] = LinkCost(u, v)
                            /\ Reached(Source, {}, 0)
       /\ pc = "done" => SinglePathTable

MultiInv ==
    maxFaces # 1 =>
       /\ links \subseteq Neighbors
       /\ pc = "start" => \A d \in Routers : table[d] = {}
       /\ pc = "link" => /\ \A u \in Routers \ {Source}, v \in Routers : matrix[u][v] = LinkCost(u, v)
                         /\ TableFor(Neighbors \ links)
       /\ pc = "explore" => \E n : OnlyThrough(n)
       /\ pc = "done" => TableFor(Neighbors)

TableInv == TreeInv /\ SingleInv /\ MultiInv

LEMMA SameReference ==
    ASSUME lsdb' = lsdb
    PROVE  /\ \A s, a : PathCosts(s, a)' = PathCosts(s, a)
           /\ \A h, d : CostThrough(h, d)' = CostThrough(h, d)
           /\ \A m, n : LinkCost(m, n)' = LinkCost(m, n)
           /\ Neighbors' = Neighbors
<1>1. \A s, a : PathCosts(s, a)' = PathCosts(s, a)
  <2>1. \A s, a : PathCosts(s, a) = UpTo(s, a)[Size] /\ PathCosts(s, a)' = UpTo(s, a)'[Size]
    BY Zenon DEF PathCosts, UpTo, Size
  <2> QED BY <2>1, SameLsdb
<1>2. \A m, n : LinkCost(m, n)' = LinkCost(m, n)
  BY SameLsdb
<1> QED BY <1>1, <1>2 DEF CostThrough, Neighbors

LEMMA NeighborsLemma ==
    ASSUME IsLsdb
    PROVE  GatherLinks(MakeAdjMatrix(lsdb)) = Neighbors
  BY LinkCostLemma, ConstantsAssumption DEF GatherLinks, Neighbors

LEMMA CostThroughType ==
    ASSUME IsLsdb, NEW h \in Neighbors, NEW d \in Routers
    PROVE  /\ LinkCost(Source, h) \in Nat /\ h \in Routers \ {Source}
           /\ PathCosts(h, {Source})[d] \in 0..InfDistance
           /\ CostThrough(h, d) \in Nat
<1>1. h \in Routers \ {Source} /\ LinkCost(Source, h) >= 0
  BY DEF Neighbors
<1>2. LinkCost(Source, h) \in Nat
  BY <1>1, LinkCostLemma, ConstantsAssumption DEF LinkCosts, NonAdjacentCost
<1>3. PathCosts(h, {Source})[d] \in 0..InfDistance
  BY PathCostsUpTo, CostType, SizeLemma
<1>4. InfDistance \in Nat
  BY ConstantsAssumption
<1> QED BY <1>1, <1>2, <1>3, <1>4 DEF CostThrough

(* The end of the only pass of a single-path calculation. *)
LEMMA SinglePass ==
    ASSUME IInv, TreeInv, pc = "explore", DijkstraEnds,
           \A u, v \in Routers : matrix[u][v] = LinkCost(u, v), Reached(Source, {}, 0),
           NEW d \in Routers \ {Source}
    PROVE  /\ distance[d] = PathCosts(Source, {})[d]
           /\ distance[d] < InfDistance =>
                 /\ GetNextHop(d) \in Routers
                 /\ LinkCost(Source, GetNextHop(d)) >= 0
                 /\ LinkCost(Source, GetNextHop(d)) + PathCosts(GetNextHop(d), {})[d] = distance[d]
<1>0. /\ TypeOK /\ IsLsdb /\ InfDistance \in Nat /\ Source \in Routers
      /\ distance \in Distances /\ \A v \in Routers : distance[v] \in 0..InfDistance
  BY ConstantsAssumption DEF IInv, TypeOK, IsLsdb, Distances
<1>1. /\ distance[Source] = 0 /\ ReachedOverParent
      /\ \A m \in Routers \ {}, r \in Routers :
            LinkCost(m, r) >= 0 /\ distance[m] < InfDistance => distance[r] <= distance[m] + LinkCost(m, r)
  BY EndOfPass DEF NoShortcut
<1>2. Size \in 0..Size /\ Count \in 0..Size /\ Size \in Nat
  BY <1>0, SizeLemma, CountLemma
<1>3. \A s : UpTo(s, {})[Size][d] \in 0..InfDistance
  BY <1>0, <1>2, CostType
<1>4. distance[d] = UpTo(Source, {})[Size][d]
  <2>1. distance[d] <= 0 + UpTo(Source, {})[Size][d]
    BY <1>0, <1>1, <1>2, Floor
  <2>2. UpTo(Source, {})[Size][d] <= UpTo(Source, {})[Count][d]
    BY <1>0, <1>2, MoreLinks
  <2>3. UpTo(Source, {})[Count][d] \in 0..InfDistance
    BY <1>0, <1>2, CostType
  <2>4. distance[d] < InfDistance => 0 + UpTo(Source, {})[Count][d] <= distance[d]
    BY DEF Reached
  <2> QED BY <1>0, <1>3, <2>1, <2>2, <2>3, <2>4
<1>5. ASSUME distance[d] < InfDistance
      PROVE  /\ GetNextHop(d) \in Routers
             /\ LinkCost(Source, GetNextHop(d)) >= 0
             /\ LinkCost(Source, GetNextHop(d)) + UpTo(GetNextHop(d), {})[Size][d] = distance[d]
  <2> DEFINE h == GetNextHop(d)
  <2>1. h \in Routers \ {Source} /\ parent[h] = Source
    BY <1>5, NextHopLemma
  <2>2. PICK j \in 0..Size : h = Ancestor(d)[j]
    BY <1>5, NextHopLemma
  <2> HIDE DEF h
  <2>3. LinkCost(Source, h) >= 0 /\ distance[h] = LinkCost(Source, h) /\ distance[h] \in 0..InfDistance
    <3>1. matrix[Source][h] >= 0 /\ distance[h] = distance[Source] + matrix[Source][h]
      BY <1>0, <1>1, <2>1, ConstantsAssumption DEF ReachedOverParent
    <3>2. LinkCost(Source, h) \in Int /\ matrix[Source][h] = LinkCost(Source, h)
      BY <1>0, <2>1, LinkCostLemma DEF LinkCosts, NonAdjacentCost
    <3> QED BY <1>0, <1>1, <2>1, <3>1, <3>2
  <2>4. UpTo(h, {})[Size][d] + distance[h] <= distance[d]
    BY <1>5, <2>1, <2>2, ChainCost
  <2>5. distance[d] <= distance[h] + UpTo(h, {})[Size][d]
    <3>1. distance[h] \in Nat /\ distance[h] <= distance[h]
      BY <1>0, <2>3
    <3> QED BY <1>0, <1>1, <1>2, <2>1, <3>1, Floor
  <2>6. LinkCost(Source, h) + UpTo(h, {})[Size][d] = distance[d]
    BY <1>0, <1>3, <2>3, <2>4, <2>5
  <2> QED BY <2>1, <2>3, <2>6 DEF h
<1> QED BY <1>4, <1>5, PathCostsUpTo

(* The end of a pass of a multipath calculation. *)
LEMMA MultiPass ==
    ASSUME IInv, TreeInv, pc = "explore", DijkstraEnds, NEW n, OnlyThrough(n),
           NEW d \in Routers \ {Source}
    PROVE  /\ distance[d] = InfDistance => ~(CostThrough(n, d) < InfDistance)
           /\ distance[d] < InfDistance => GetNextHop(d) = n /\ distance[d] = CostThrough(n, d)
<1> DEFINE a == LinkCost(Source, n)
<1>0. /\ TypeOK /\ IsLsdb /\ InfDistance \in Nat /\ Source \in Routers
      /\ distance \in Distances /\ \A v \in Routers : distance[v] \in 0..InfDistance
  BY ConstantsAssumption DEF IInv, TypeOK, IsLsdb, Distances
<1>1. /\ n \in Routers \ {Source} /\ a \in Nat /\ CostThrough(n, d) \in Nat
      /\ CostThrough(n, d) = a + UpTo(n, {Source})[Size][d]
  BY <1>0, CostThroughType, PathCostsUpTo DEF OnlyThrough, CostThrough
<1>2. /\ distance[Source] = 0 /\ NoShortcut /\ ReachedOverParent
  BY EndOfPass
<1>3. \A u, v \in Routers :
         matrix[u][v] = IF u # Source \/ v = n THEN LinkCost(u, v) ELSE NonAdjacentCost
  BY DEF OnlyThrough
<1>4. distance[n] <= a
  <2>1. matrix[Source][n] = a
    BY <1>0, <1>1, <1>3
  <2>2. distance[n] <= distance[Source] + matrix[Source][n]
    <3>1. matrix[Source][n] >= 0 /\ distance[Source] < InfDistance
      BY <1>1, <1>2, <2>1, ConstantsAssumption
    <3> QED BY <1>0, <1>1, <1>2, <3>1 DEF NoShortcut
  <2> HIDE DEF a
  <2> QED BY <1>1, <1>2, <2>1, <2>2
<1>5. \A m \in Routers \ {Source}, r \in Routers :
         LinkCost(m, r) >= 0 /\ distance[m] < InfDistance => distance[r] <= distance[m] + LinkCost(m, r)
  BY <1>2, <1>3 DEF NoShortcut
<1>6. Size \in 0..Size /\ Count \in 0..Size /\ Size \in Nat
  BY <1>0, SizeLemma, CountLemma
<1>7. distance[d] <= CostThrough(n, d)
  <2> HIDE DEF a
  <2>1. distance[d] <= a + UpTo(n, {Source})[Size][d]
    BY <1>0, <1>1, <1>4, <1>5, <1>6, Floor
  <2> QED BY <1>1, <2>1
<1>8. ASSUME distance[d] < InfDistance PROVE CostThrough(n, d) <= distance[d]
  <2>1. a + UpTo(n, {Source})[Count][d] <= distance[d]
    BY <1>8 DEF Reached, OnlyThrough
  <2>2. UpTo(n, {Source})[Size][d] <= UpTo(n, {Source})[Count][d]
    BY <1>0, <1>6, MoreLinks
  <2>3. UpTo(n, {Source})[Size][d] \in 0..InfDistance /\ UpTo(n, {Source})[Count][d] \in 0..InfDistance
    BY <1>0, <1>6, CostType
  <2> HIDE DEF a
  <2> QED BY <1>0, <1>1, <2>1, <2>2, <2>3
<1>9. ASSUME distance[d] < InfDistance PROVE GetNextHop(d) = n
  <2> DEFINE h == GetNextHop(d)
  <2>1. h \in Routers \ {Source} /\ parent[h] = Source
    BY <1>9, NextHopLemma
  <2>2. matrix[Source][h] >= 0
    BY <1>0, <1>2, <2>1, ConstantsAssumption DEF ReachedOverParent
  <2>3. matrix[Source][h] = IF h = n THEN LinkCost(Source, h) ELSE NonAdjacentCost
    BY <1>0, <1>3, <2>1
  <2> HIDE DEF h
  <2>4. h = n
    BY <2>2, <2>3 DEF NonAdjacentCost
  <2> QED BY <2>4 DEF h
<1> HIDE DEF a
<1> QED BY <1>0, <1>1, <1>7, <1>8, <1>9

-----------------------------------------------------------------------------
(* A pass starts, explores and ends. *)
LEMMA BeginTree ==
    ASSUME BeginDijkstra, NEW s \in Routers, NEW avoid, NEW a \in Nat,
           IsLsdb, lsdb' = lsdb, Source \in avoid \/ (s = Source /\ a = 0)
    PROVE  TreeInv' /\ Reached(s, avoid, a)'
<1>1. /\ unexplored' = Routers /\ pc' = "explore"
      /\ distance' = [r \in Routers |-> IF r = Source THEN 0 ELSE InfDistance]
      /\ parent' = [r \in Routers |-> NoParent]
  BY DEF BeginDijkstra
<1>2. Explored' = {} /\ Count' = 0
  BY <1>1, FS_EmptySet DEF Explored, Count
<1>3. TreeInv'
  <2> DEFINE rank == [r \in Routers |-> 0]
  <2>1. Ranks(rank)'
    BY <1>2 DEF Ranks
  <2>2. \E r : Ranks(r)'
    BY <2>1
  <2>3. parent'[Source] = NoParent /\ \A v \in Routers : parent'[v] = NoParent
    BY <1>1, ConstantsAssumption
  <2> QED BY <2>2, <2>3 DEF TreeInv
<1>4. ASSUME NEW v \in Routers \ avoid, distance'[v] < InfDistance
      PROVE  a + UpTo(s, avoid)[0][v] <= distance'[v]
  <2>1. v = Source /\ distance'[v] = 0
    BY <1>1, <1>4, ConstantsAssumption
  <2>2. UpTo(s, avoid)[0][v] = 0
    BY <1>4, <2>1, StartType
  <2> QED BY <1>4, <2>1, <2>2
<1>5. UpTo(s, avoid)' = UpTo(s, avoid)
  BY SameLsdb
<1>6. Reached(s, avoid, a)'
  BY <1>2, <1>4, <1>5 DEF Reached
<1> QED BY <1>3, <1>6

LEMMA SimulatedMatrix ==
    ASSUME IsLsdb, NEW mx \in [Routers -> [Routers -> LinkCosts]], NEW n \in Routers,
           \A u \in Routers \ {Source}, v \in Routers : mx[u][v] = LinkCost(u, v)
    PROVE  \A u, v \in Routers :
              SimulateOneNeighbor(mx, n, MakeAdjMatrix(lsdb)[Source][n])[u][v]
                 = IF u # Source \/ v = n THEN LinkCost(u, v) ELSE NonAdjacentCost
<1>1. MakeAdjMatrix(lsdb)[Source][n] = LinkCost(Source, n)
  BY LinkCostLemma, ConstantsAssumption
<1>2. ASSUME NEW cost
      PROVE  \A u, v \in Routers :
                SimulateOneNeighbor(mx, n, cost)[u][v]
                   = IF u # Source THEN mx[u][v] ELSE IF v = n THEN cost ELSE NonAdjacentCost
  BY ConstantsAssumption DEF SimulateOneNeighbor
<1> QED BY <1>1, <1>2

LEMMA ExploreTable ==
    ASSUME IInv, TableInv, NEW u \in Routers, Explore(u) PROVE SingleInv' /\ MultiInv'
<1>1. /\ pc = "explore" /\ TypeOK /\ IsLsdb /\ distance[Source] = 0 /\ Source \in Routers
      /\ \A v \in Routers : distance[v] \in 0..InfDistance
  BY ConstantsAssumption DEF IInv, LoopInv, Explore, TypeOK, IsLsdb
<1>2. UNCHANGED <<maxFaces, lsdb, pc, matrix, links, table>>
  BY DEF Explore
<1>3. ASSUME maxFaces = 1 PROVE SingleInv'
  <2>1. /\ links = {} /\ (\A d \in Routers : table[d] = {})
        /\ (\A x, v \in Routers : matrix[x][v] = LinkCost(x, v)) /\ Reached(Source, {}, 0)
    BY <1>1, <1>3 DEF TableInv, SingleInv
  <2>2. Reached(Source, {}, 0)'
    <3>1. \A v \in Routers \ {} : Improves(u, v) =>
             \/ u \notin {} /\ matrix[u][v] = LinkCost(u, v)
             \/ v = Source /\ distance[u] + matrix[u][v] >= 0
      BY <2>1
    <3>2. 0 \in Nat
      OBVIOUS
    <3> QED BY <1>1, <2>1, <3>1, <3>2, ReachedStep
  <2>3. \A x, v \in Routers : matrix'[x][v] = LinkCost(x, v)'
    BY <1>2, <2>1, SameReference
  <2> QED BY <1>1, <1>2, <2>1, <2>2, <2>3 DEF SingleInv
<1>4. ASSUME maxFaces # 1 PROVE MultiInv'
  <2>1. PICK n : OnlyThrough(n)
    BY <1>1, <1>4 DEF TableInv, MultiInv
  <2>2. /\ n \in Neighbors \ links /\ n \in Routers \ {Source} /\ links \subseteq Neighbors
        /\ \A x, v \in Routers :
              matrix[x][v] = IF x # Source \/ v = n THEN LinkCost(x, v) ELSE NonAdjacentCost
        /\ TableFor(Neighbors \ (links \cup {n})) /\ Reached(n, {Source}, LinkCost(Source, n))
    BY <1>4, <2>1 DEF OnlyThrough, Neighbors, TableInv, MultiInv
  <2>3. LinkCost(Source, n) \in Nat
    BY <1>1, <2>2, CostThroughType
  <2>4. ASSUME NEW v \in Routers \ {Source}, Improves(u, v)
        PROVE  \/ u \notin {Source} /\ matrix[u][v] = LinkCost(u, v)
               \/ v = n /\ distance[u] + matrix[u][v] >= LinkCost(Source, n)
    <3>1. matrix[u][v] \in Nat
      BY <1>1, <2>4, ExploreFacts
    <3>2. CASE u # Source
      BY <2>2, <3>2
    <3>3. CASE u = Source
      <4>1. v = n
        BY <2>2, <3>1, <3>3 DEF NonAdjacentCost
      <4> QED BY <1>1, <2>2, <2>3, <3>3, <4>1
    <3> QED BY <3>2, <3>3
  <2> DEFINE a == LinkCost(Source, n)
  <2>5. a' = a
    BY <1>2, SameReference
  <2>6. Reached(n, {Source}, a)'
    <3>1. PICK b : b = a
      OBVIOUS
    <3>2. b \in Nat /\ Reached(n, {Source}, b)
      BY <2>2, <2>3, <3>1
    <3>3. \A v \in Routers \ {Source} : Improves(u, v) =>
             \/ u \notin {Source} /\ matrix[u][v] = LinkCost(u, v)
             \/ v = n /\ distance[u] + matrix[u][v] >= b
      BY <2>4, <3>1
    <3> HIDE DEF a
    <3>4. Reached(n, {Source}, b)'
      BY <1>1, <2>2, <3>2, <3>3, ReachedStep
    <3>5. b = a'
      BY <2>5, <3>1
    <3> QED BY <3>4, <3>5 DEF Reached
  <2>7. Neighbors' = Neighbors /\ TableFor(Neighbors \ (links \cup {n}))'
    <3>1. /\ Neighbors' = Neighbors /\ links' = links /\ table' = table
          /\ \A h, d : CostThrough(h, d)' = CostThrough(h, d)
      BY <1>2, SameReference
    <3> QED BY <2>2, <3>1 DEF TableFor
  <2>8. \A x, v \in Routers :
           matrix'[x][v] = IF x # Source \/ v = n THEN LinkCost(x, v)' ELSE NonAdjacentCost
    BY <1>2, <2>2, SameReference
  <2>9. OnlyThrough(n)'
    BY <1>2, <2>2, <2>6, <2>7, <2>8 DEF OnlyThrough
  <2>10. \E m : OnlyThrough(m)'
    BY <2>9
  <2> QED BY <1>1, <1>2, <2>2, <2>7, <2>10 DEF MultiInv
<1>5. maxFaces' = maxFaces
  BY <1>2
<1> QED BY <1>3, <1>4, <1>5 DEF SingleInv, MultiInv

(* A pass ends: its next hops go to the table. *)
LEMMA FinishSingle ==
    ASSUME IInv, TableInv, FinishDijkstra, maxFaces = 1 PROVE SingleInv'
<1>1. /\ pc = "explore" /\ DijkstraEnds /\ links = {} /\ TreeInv
      /\ (\A d \in Routers : table[d] = {})
      /\ (\A u, v \in Routers : matrix[u][v] = LinkCost(u, v)) /\ Reached(Source, {}, 0)
  BY DEF FinishDijkstra, TableInv, SingleInv
<1>2. pc' = "done" /\ table' = AddNextHops /\ UNCHANGED <<maxFaces, lsdb>>
  BY <1>1 DEF FinishDijkstra
<1>3. ASSUME NEW d \in Routers \ {Source}
      PROVE  LET least == PathCosts(Source, {})[d]
             IN  IF least = InfDistance THEN table'[d] = {}
                 ELSE \E h \in Routers :
                        /\ table'[d] = {[hop |-> h, cost |-> least]}
                        /\ LinkCost(Source, h) >= 0
                        /\ LinkCost(Source, h) + PathCosts(h, {})[d] = least
  <2> DEFINE least == PathCosts(Source, {})[d]
  <2>1. distance[d] = least /\ distance[d] \in 0..InfDistance /\ InfDistance \in Nat
    BY <1>1, SinglePass, ConstantsAssumption DEF IInv, TypeOK
  <2>2. table'[d] = IF GetNextHop(d) = NoParent THEN {}
                    ELSE AddNextHop({}, [hop |-> GetNextHop(d), cost |-> distance[d]])
    BY <1>1, <1>2 DEF AddNextHops
  <2>3. \A x : AddNextHop({}, x) = {x}
    BY DEF AddNextHop
  <2> HIDE DEF least
  <2>4. CASE least = InfDistance
    <3>1. GetNextHop(d) = NoParent
      BY <1>1, <2>1, <2>4, NextHopLemma
    <3> QED BY <2>2, <2>4, <3>1 DEF least
  <2>5. CASE least # InfDistance
    <3>1. distance[d] < InfDistance
      BY <2>1, <2>5
    <3>2. /\ GetNextHop(d) \in Routers
          /\ LinkCost(Source, GetNextHop(d)) >= 0
          /\ LinkCost(Source, GetNextHop(d)) + PathCosts(GetNextHop(d), {})[d] = least
      BY <1>1, <2>1, <3>1, SinglePass
    <3>3. table'[d] = {[hop |-> GetNextHop(d), cost |-> least]}
      BY <2>1, <2>2, <2>3, <3>2, ConstantsAssumption
    <3> QED BY <2>5, <3>2, <3>3 DEF least
  <2> QED BY <2>4, <2>5
<1>4. SinglePathTable'
  <2>1. /\ \A s, a : PathCosts(s, a)' = PathCosts(s, a)
        /\ \A m, n : LinkCost(m, n)' = LinkCost(m, n)
    BY <1>2, SameReference
  <2> QED BY <1>3, <2>1 DEF SinglePathTable
<1> QED BY <1>2, <1>4 DEF SingleInv

LEMMA FinishMulti ==
    ASSUME IInv, TableInv, FinishDijkstra, maxFaces # 1 PROVE MultiInv'
<1>1. PICK n : OnlyThrough(n)
  BY DEF FinishDijkstra, TableInv, MultiInv
<1>2. /\ pc = "explore" /\ DijkstraEnds /\ links \subseteq Neighbors /\ TreeInv
      /\ n \in Neighbors \ links /\ TableFor(Neighbors \ (links \cup {n}))
      /\ \A u, v \in Routers :
            matrix[u][v] = IF u # Source \/ v = n THEN LinkCost(u, v) ELSE NonAdjacentCost
  BY <1>1 DEF FinishDijkstra, TableInv, MultiInv, OnlyThrough
<1>3. /\ pc' = (IF links = {} THEN "done" ELSE "link") /\ table' = AddNextHops
      /\ UNCHANGED <<maxFaces, lsdb, matrix, links>>
  BY <1>2 DEF FinishDijkstra
<1> DEFINE N == Neighbors \ (links \cup {n})
           M == Neighbors \ links
           Hops(S, d) == {[hop |-> h, cost |-> CostThrough(h, d)] :
                            h \in {h \in S : CostThrough(h, d) < InfDistance}}
<1>4. M = N \cup {n} /\ n \notin N
  BY <1>2
<1>5. ASSUME NEW d \in Routers \ {Source} PROVE table'[d] = Hops(M, d)
  <2>1. table[d] = Hops(N, d)
    BY <1>2 DEF TableFor
  <2>2. table'[d] = IF GetNextHop(d) = NoParent THEN table[d]
                    ELSE AddNextHop(table[d], [hop |-> GetNextHop(d), cost |-> distance[d]])
    BY <1>3 DEF AddNextHops
  <2>3. distance[d] \in 0..InfDistance /\ InfDistance \in Nat /\ n # NoParent
    BY <1>2, ConstantsAssumption DEF IInv, TypeOK, Neighbors
  <2> HIDE DEF N, M
  <2>4. CASE distance[d] = InfDistance
    <3>1. GetNextHop(d) = NoParent /\ ~(CostThrough(n, d) < InfDistance)
      BY <1>1, <1>2, <2>4, MultiPass, NextHopLemma
    <3>2. Hops(M, d) = Hops(N, d)
      BY <1>4, <3>1
    <3> QED BY <2>1, <2>2, <3>1, <3>2
  <2>5. CASE distance[d] # InfDistance
    <3>1. distance[d] < InfDistance
      BY <2>3, <2>5
    <3>2. GetNextHop(d) = n /\ distance[d] = CostThrough(n, d)
      BY <1>1, <1>2, <3>1, MultiPass
    <3> DEFINE new == [hop |-> n, cost |-> CostThrough(n, d)]
    <3>3. table'[d] = AddNextHop(Hops(N, d), new)
      BY <2>1, <2>2, <2>3, <3>2
    <3>4. {h \in Hops(N, d) : h.hop = new.hop} = {}
      BY <1>4
    <3>5. AddNextHop(Hops(N, d), new) = Hops(N, d) \cup {new}
      <4> HIDE DEF Hops, new
      <4> QED BY <3>4 DEF AddNextHop
    <3>6. Hops(M, d) = Hops(N, d) \cup {new}
      BY <1>4, <3>1, <3>2
    <3> QED BY <3>3, <3>5, <3>6
  <2> QED BY <2>4, <2>5
<1>6. /\ \A h, d : CostThrough(h, d)' = CostThrough(h, d)
      /\ \A u, v : LinkCost(u, v)' = LinkCost(u, v)
      /\ Neighbors' = Neighbors
  BY <1>3, SameReference
<1>7. TableFor(Neighbors \ links)'
  BY <1>3, <1>5, <1>6 DEF TableFor
<1>8. links = {} => TableFor(Neighbors)'
  <2>1. links = {} => Neighbors \ links = Neighbors
    OBVIOUS
  <2> QED BY <1>3, <1>5, <1>6, <2>1 DEF TableFor
<1>9. \A u \in Routers \ {Source}, v \in Routers : matrix'[u][v] = LinkCost(u, v)'
  BY <1>2, <1>3, <1>6
<1> QED BY <1>2, <1>3, <1>6, <1>7, <1>8, <1>9 DEF MultiInv

LEMMA InitTable == Init => TableInv
<1> SUFFICES ASSUME Init PROVE TableInv
  OBVIOUS
<1>1. pc = "start" /\ links = {} /\ table = [r \in Routers |-> {}]
  BY DEF Init
<1> QED BY <1>1 DEF TableInv, TreeInv, SingleInv, MultiInv

LEMMA StartSingle ==
    ASSUME IInv, TableInv, CalculateSinglePath PROVE TableInv'
<1>1. /\ IsLsdb /\ pc = "start" /\ maxFaces = 1 /\ maxFaces' = 1 /\ pc' = "explore"
      /\ matrix' = MakeAdjMatrix(lsdb) /\ BeginDijkstra
      /\ UNCHANGED <<lsdb, links, table>>
  BY DEF CalculateSinglePath, BeginDijkstra, IInv, TypeOK, IsLsdb
<1>2. TreeInv' /\ Reached(Source, {}, 0)'
  <2>1. Source \in Routers /\ 0 \in Nat
    BY ConstantsAssumption
  <2> QED BY <1>1, <2>1, BeginTree
<1>3. \A u, v \in Routers : matrix'[u][v] = LinkCost(u, v)'
  BY <1>1, LinkCostLemma, SameReference
<1>4. links' = {} /\ \A d \in Routers : table'[d] = {}
  BY <1>1 DEF TableInv, SingleInv
<1>5. SingleInv'
  BY <1>1, <1>2, <1>3, <1>4 DEF SingleInv
<1>6. MultiInv'
  BY <1>1 DEF MultiInv
<1> QED BY <1>2, <1>5, <1>6 DEF TableInv

LEMMA StartMulti ==
    ASSUME IInv, TableInv, CalculateMultiPath PROVE TableInv'
<1>1. /\ IsLsdb /\ pc = "start" /\ maxFaces # 1 /\ maxFaces' = maxFaces
      /\ matrix' = MakeAdjMatrix(lsdb) /\ links' = GatherLinks(MakeAdjMatrix(lsdb))
      /\ pc' = (IF links' = {} THEN "done" ELSE "link")
      /\ UNCHANGED <<lsdb, table>>
  BY DEF CalculateMultiPath, IInv, TypeOK, IsLsdb
<1>2. /\ Neighbors' = Neighbors
      /\ \A m, n : LinkCost(m, n)' = LinkCost(m, n)
  BY <1>1, SameReference
<1>3. links' = Neighbors
  BY <1>1, NeighborsLemma
<1>4. \A u, v \in Routers : matrix'[u][v] = LinkCost(u, v)'
  BY <1>1, <1>2, LinkCostLemma
<1>5. \A d \in Routers : table'[d] = {}
  BY <1>1 DEF TableInv, MultiInv
<1>6. TableFor(Neighbors \ links)'
  <2>1. (Neighbors \ links)' = {}
    BY <1>2, <1>3
  <2> QED BY <1>5, <2>1 DEF TableFor
<1>7. links' = {} => TableFor(Neighbors)'
  <2>1. links' = {} => Neighbors' = {}
    BY <1>2, <1>3
  <2> QED BY <1>5, <2>1 DEF TableFor
<1>8. MultiInv'
  <2>1. pc' # "start" /\ pc' # "explore" /\ (pc' = "done" => links' = {})
    BY <1>1
  <2> QED BY <1>2, <1>3, <1>4, <1>6, <1>7, <2>1 DEF MultiInv
<1>9. SingleInv' /\ TreeInv'
  BY <1>1 DEF SingleInv, TreeInv
<1> QED BY <1>8, <1>9 DEF TableInv

LEMMA SimulateTable ==
    ASSUME IInv, TableInv, NEW n \in Routers, SimulateNeighbor(n) PROVE TableInv'
<1>1. /\ IsLsdb /\ pc = "link" /\ n \in links /\ links' = links \ {n} /\ pc' = "explore"
      /\ matrix \in [Routers -> [Routers -> LinkCosts]]
      /\ matrix' = SimulateOneNeighbor(matrix, n, MakeAdjMatrix(lsdb)[Source][n])
      /\ BeginDijkstra
      /\ UNCHANGED <<maxFaces, lsdb, table>>
  BY DEF SimulateNeighbor, BeginDijkstra, IInv, TypeOK, IsLsdb
<1>2. /\ maxFaces # 1 /\ links \subseteq Neighbors /\ TableFor(Neighbors \ links)
      /\ \A u \in Routers \ {Source}, v \in Routers : matrix[u][v] = LinkCost(u, v)
  BY <1>1 DEF TableInv, SingleInv, MultiInv
<1>3. /\ Neighbors' = Neighbors
      /\ \A u, v : LinkCost(u, v)' = LinkCost(u, v)
      /\ \A h, d : CostThrough(h, d)' = CostThrough(h, d)
  BY <1>1, SameReference
<1>4. PICK a : a = LinkCost(Source, n)
  OBVIOUS
<1>5. n \in Neighbors /\ a \in Nat
  BY <1>1, <1>2, <1>4, CostThroughType, ConstantsAssumption
<1>6. TreeInv' /\ Reached(n, {Source}, a)'
  <2>1. Source \in {Source}
    OBVIOUS
  <2> QED BY <1>1, <1>5, <2>1, BeginTree
<1>7. Reached(n, {Source}, LinkCost(Source, n))'
  <2>1. a = LinkCost(Source, n)'
    BY <1>3, <1>4
  <2> QED BY <1>6, <2>1 DEF Reached
<1>8. \A u, v \in Routers :
         matrix'[u][v] = IF u # Source \/ v = n THEN LinkCost(u, v)' ELSE NonAdjacentCost
  BY <1>1, <1>2, <1>3, SimulatedMatrix
<1>9. TableFor(Neighbors \ (links \cup {n}))'
  <2>1. (Neighbors \ (links \cup {n}))' = Neighbors \ links
    BY <1>1, <1>3
  <2> QED BY <1>1, <1>2, <1>3, <2>1 DEF TableFor
<1>10. OnlyThrough(n)'
  BY <1>1, <1>3, <1>5, <1>7, <1>8, <1>9 DEF OnlyThrough
<1>11. \E m : OnlyThrough(m)'
  BY <1>10
<1>12. MultiInv'
  BY <1>1, <1>2, <1>3, <1>11 DEF MultiInv
<1>13. SingleInv'
  BY <1>1, <1>2 DEF SingleInv
<1> QED BY <1>6, <1>12, <1>13 DEF TableInv

LEMMA NextTable == IInv /\ TableInv /\ [Next]_vars => TableInv'
<1> SUFFICES ASSUME IInv, TableInv, [Next]_vars PROVE TableInv'
  OBVIOUS
<1>1. CASE CalculateSinglePath
  BY <1>1, StartSingle
<1>2. CASE CalculateMultiPath
  BY <1>2, StartMulti
<1>3. ASSUME NEW n \in Routers, SimulateNeighbor(n) PROVE TableInv'
  BY <1>3, SimulateTable
<1>4. ASSUME NEW u \in Routers, Explore(u) PROVE TableInv'
  BY <1>4, ExploreTable, TreeStep DEF TableInv
<1>5. CASE FinishDijkstra
  <2>1. maxFaces' = maxFaces /\ pc' # "explore"
    BY <1>5 DEF FinishDijkstra
  <2>2. SingleInv'
    <3>1. CASE maxFaces = 1
      BY <1>5, <3>1, FinishSingle
    <3>2. CASE maxFaces # 1
      BY <2>1, <3>2 DEF SingleInv
    <3> QED BY <3>1, <3>2
  <2>3. MultiInv'
    <3>1. CASE maxFaces # 1
      BY <1>5, <3>1, FinishMulti
    <3>2. CASE maxFaces = 1
      BY <2>1, <3>2 DEF MultiInv
    <3> QED BY <3>1, <3>2
  <2>4. TreeInv'
    BY <2>1 DEF TreeInv
  <2> QED BY <2>2, <2>3, <2>4 DEF TableInv
<1>6. CASE UNCHANGED vars
  <2>1. UNCHANGED <<maxFaces, lsdb, pc, matrix, links, unexplored, distance, parent, table>>
    BY <1>6 DEF vars
  <2>2. /\ Neighbors' = Neighbors
        /\ \A s, a : PathCosts(s, a)' = PathCosts(s, a)
        /\ \A s, a : UpTo(s, a)' = UpTo(s, a)
        /\ \A u, v : LinkCost(u, v)' = LinkCost(u, v)
        /\ \A h, d : CostThrough(h, d)' = CostThrough(h, d)
    BY <2>1, SameReference, SameLsdb
  <2>3. Count' = Count /\ Explored' = Explored
    BY <2>1 DEF Count, Explored
  <2>4. /\ SinglePathTable' = SinglePathTable
        /\ \A N : TableFor(N)' = TableFor(N)
        /\ \A s, v, a : Reached(s, v, a)' = Reached(s, v, a)
        /\ \A r : Ranks(r)' = Ranks(r)
    BY <2>1, <2>2, <2>3 DEF SinglePathTable, TableFor, Reached, Ranks
  <2>5. TreeInv' = TreeInv
    BY <2>1, <2>4 DEF TreeInv
  <2>6. SingleInv' = SingleInv
    BY <2>1, <2>2, <2>4 DEF SingleInv
  <2>7. MultiInv' = MultiInv
    BY <2>1, <2>2, <2>4 DEF MultiInv, OnlyThrough
  <2> QED BY <2>5, <2>6, <2>7 DEF TableInv
<1> QED BY <1>1, <1>2, <1>3, <1>4, <1>5, <1>6 DEF Next

LEMMA FinishedTable == TableInv => TablesAreShortest
<1> SUFFICES ASSUME TableInv PROVE TablesAreShortest
  OBVIOUS
<1>1. CASE maxFaces = 1
  BY <1>1 DEF TableInv, SingleInv, TablesAreShortest
<1>2. CASE maxFaces # 1
  <2>1. \A d : {h \in Routers \ {Source} : LinkCost(Source, h) >= 0 /\ CostThrough(h, d) < InfDistance}
               = {h \in Neighbors : CostThrough(h, d) < InfDistance}
    BY DEF Neighbors
  <2>2. TableFor(Neighbors) => MultiPathTable
    BY <2>1 DEF TableFor, MultiPathTable
  <2> QED BY <1>2, <2>2 DEF TableInv, MultiInv, TablesAreShortest
<1> QED BY <1>1, <1>2

(* The table of a finished calculation is the one the reference over all   *)
(* paths gives, with one path per destination and with several             *)
(* (calculateLinkStateRoutingPath).                                        *)
THEOREM ShortestTables == Spec => []TablesAreShortest
<1>1. Spec => [](IInv /\ TableInv)
  BY InitInv, NextInv, InitTable, NextTable, PTL DEF Spec
<1> QED BY <1>1, FinishedTable, PTL

(* With one path per destination the rest of the path from the next hop    *)
(* is cheaper by the link to it.                                           *)
LEMMA SingleHopIsNearer ==
    ASSUME IsLsdb, SinglePathTable, \A m, n \in Routers : LinkCost(m, n) # 0,
           NEW d \in Routers \ {Source}, NEW e \in table[d]
    PROVE  PathCosts(e.hop, {})[d] < PathCosts(Source, {})[d]
<1> DEFINE least == PathCosts(Source, {})[d]
<1>1. PICK h \in Routers : /\ table[d] = {[hop |-> h, cost |-> least]}
                           /\ LinkCost(Source, h) >= 0
                           /\ LinkCost(Source, h) + PathCosts(h, {})[d] = least
  BY DEF SinglePathTable
<1>2. e.hop = h
  BY <1>1
<1>3. LinkCost(Source, h) \in Nat \ {0}
  BY <1>1, LinkCostLemma, ConstantsAssumption DEF LinkCosts, NonAdjacentCost
<1>4. PathCosts(h, {})[d] \in Nat
  BY <1>1, CostType, PathCostsUpTo, SizeLemma, ConstantsAssumption
<1> QED BY <1>1, <1>2, <1>3, <1>4

(* With several, a path from the source is no cheaper than the cheapest    *)
(* next hop, and the rest of the path from there is cheaper by the link.   *)
LEMMA MultiHopIsNearer ==
    ASSUME IsLsdb, MultiPathTable, \A m, n \in Routers : LinkCost(m, n) # 0,
           NEW d \in Routers \ {Source}, NEW e \in table[d],
           \A f \in table[d] : e.cost <= f.cost
    PROVE  PathCosts(e.hop, {})[d] < PathCosts(Source, {})[d]
<1> DEFINE least == PathCosts(Source, {})[d]
<1>1. table[d] = {[hop |-> h, cost |-> CostThrough(h, d)] :
                    h \in {h \in Neighbors : CostThrough(h, d) < InfDistance}}
  <2>1. {h \in Routers \ {Source} : LinkCost(Source, h) >= 0 /\ CostThrough(h, d) < InfDistance}
        = {h \in Neighbors : CostThrough(h, d) < InfDistance}
    BY DEF Neighbors
  <2> QED BY <2>1 DEF MultiPathTable
<1>2. PICK h \in Neighbors : e = [hop |-> h, cost |-> CostThrough(h, d)] /\ CostThrough(h, d) < InfDistance
  BY <1>1
<1>3. e.hop = h /\ e.cost = CostThrough(h, d)
  BY <1>2
<1>4. /\ LinkCost(Source, h) \in Nat \ {0} /\ h \in Routers \ {Source}
      /\ PathCosts(h, {Source})[d] \in 0..InfDistance
      /\ CostThrough(h, d) \in Nat
  BY CostThroughType, ConstantsAssumption
<1>5. /\ least \in 0..InfDistance /\ PathCosts(h, {})[d] \in 0..InfDistance
      /\ InfDistance \in Nat /\ Size \in 0..Size
  BY <1>4, CostType, PathCostsUpTo, SizeLemma, ConstantsAssumption
<1>6. PathCosts(h, {})[d] <= PathCosts(h, {Source})[d]
  BY <1>5, AvoidMore, PathCostsUpTo
<1>7. PathCosts(h, {})[d] < e.cost
  BY <1>3, <1>4, <1>5, <1>6 DEF CostThrough
<1>8. e.cost <= least
  <2>1. CASE least < InfDistance
    <3>1. PICK g \in Routers \ {Source} :
             LinkCost(Source, g) >= 0 /\ CostThrough(g, d) <= least
      BY <1>5, <2>1, FirstHop, PathCostsUpTo DEF CostThrough
    <3>2. g \in Neighbors
      BY <3>1 DEF Neighbors
    <3>3. CostThrough(g, d) \in Nat
      BY <3>2, CostThroughType
    <3>4. CostThrough(g, d) < InfDistance
      BY <1>5, <2>1, <3>1, <3>3
    <3>5. [hop |-> g, cost |-> CostThrough(g, d)] \in table[d]
      BY <1>1, <3>2, <3>4
    <3>6. e.cost <= CostThrough(g, d)
      BY <3>5
    <3> QED BY <1>3, <1>4, <1>5, <3>1, <3>3, <3>6
  <2>2. CASE ~(least < InfDistance)
    BY <1>2, <1>3, <1>4, <1>5, <2>2
  <2> QED BY <2>1, <2>2
<1> QED BY <1>3, <1>4, <1>5, <1>7, <1>8

(* Over links of positive cost the cheapest next hop is nearer to the      *)
(* destination than the source is, whatever max-faces-per-prefix is.       *)
THEOREM BestHop == Spec => []BestHopIsNearer
<1>1. IInv /\ TableInv => BestHopIsNearer
  <2> SUFFICES ASSUME IInv, TableInv, pc = "done", \A m, n \in Routers : LinkCost(m, n) # 0,
                      NEW d \in Routers \ {Source}, NEW e \in table[d],
                      \A f \in table[d] : e.cost <= f.cost
               PROVE  PathCosts(e.hop, {})[d] < PathCosts(Source, {})[d]
    BY DEF BestHopIsNearer
  <2>1. IsLsdb /\ (IF maxFaces = 1 THEN SinglePathTable ELSE MultiPathTable)
    BY FinishedTable DEF TablesAreShortest, IInv, TypeOK, IsLsdb
  <2>2. CASE maxFaces = 1
    BY <2>1, <2>2, SingleHopIsNearer
  <2>3. CASE maxFaces # 1
    BY <2>1, <2>3, MultiHopIsNearer
  <2> QED BY <2>2, <2>3
<1>2. Spec => [](IInv /\ TableInv)
  BY InitInv, NextInv, InitTable, NextTable, PTL DEF Spec
<1> QED BY <1>1, <1>2, PTL

-----------------------------------------------------------------------------
LEMMA HypInitInv == HypInit => HypTypeOK /\ HyperbolicRoutesAreCurrent
<1> SUFFICES ASSUME HypInit PROVE HypTypeOK /\ HyperbolicRoutesAreCurrent
  OBVIOUS
<1>1. HypTypeOK
  <2>1. coordinate \in [AllRouters -> Coordinates \cup {None}]
    <3>1. PICK c \in Coordinates : coordinate = [r \in AllRouters |-> IF r = Self THEN c ELSE None]
      BY DEF HypInit
    <3> QED BY <3>1
  <2>2. /\ dryRun \in BOOLEAN /\ scheduled = FALSE
        /\ active = {} /\ ownLsa = {} /\ removed = {} /\ changes = 0
        /\ hypTable = NoRoutes /\ dryTable = NoRoutes
    BY DEF HypInit
  <2>3. changes \in 0..MaxChanges
    BY <2>2, HyperbolicAssumption
  <2> QED BY <2>1, <2>2, <2>3 DEF HypTypeOK, NoRoutes
<1>2. \A d \in Others : NextHopsTo(d) = {} /\ hypTable[d] = {}
  BY DEF HypInit, NextHopsTo, UsableNeighbors, NoRoutes
<1> QED BY <1>1, <1>2 DEF HyperbolicRoutesAreCurrent, HypInit

LEMMA HypNextType == HypTypeOK /\ [HypNext]_hypVars => HypTypeOK'
<1> SUFFICES ASSUME HypTypeOK, [HypNext]_hypVars PROVE HypTypeOK'
  OBVIOUS
<1> USE HyperbolicAssumption DEF HypTypeOK, Change
<1>1. ASSUME NEW r \in Others, NEW c \in Coordinates, InstallCoordinateLsa(r, c) PROVE HypTypeOK'
  BY <1>1 DEF InstallCoordinateLsa, AllRouters
<1>2. ASSUME NEW r \in Others, RemoveCoordinateLsa(r) PROVE HypTypeOK'
  BY <1>2 DEF RemoveCoordinateLsa, AllRouters
<1>3. ASSUME NEW n \in Nbrs, StatusChange(n) PROVE HypTypeOK'
  BY <1>3 DEF StatusChange, AsksForCalculation
<1>4. CASE BuildOwnAdjLsa
  BY <1>4 DEF BuildOwnAdjLsa, NoRoutes
<1>5. CASE Calculate
  BY <1>5 DEF Calculate, CalculatePath
<1>6. CASE UNCHANGED hypVars
  BY <1>6 DEF hypVars
<1> QED BY <1>1, <1>2, <1>3, <1>4, <1>5, <1>6 DEF HypNext

(* Removing an LSA takes away only next hops through its router and to it. *)
LEMMA RemovalIsLocal ==
    ASSUME HypTypeOK, NEW r \in Others, RemoveCoordinateLsa(r), NEW d \in Others
    PROVE  /\ NextHopsTo(d)' \subseteq NextHopsTo(d)
           /\ \A h \in NextHopsTo(d) \ NextHopsTo(d)' : h.hop \in active /\ r \in {h.hop, d}
<1>1. /\ active' = active /\ UsableNeighbors' = UsableNeighbors
      /\ coordinate' = [coordinate EXCEPT ![r] = None]
      /\ DOMAIN coordinate = AllRouters
  BY DEF RemoveCoordinateLsa, UsableNeighbors, HypTypeOK
<1>2. r # Self /\ Self \in AllRouters /\ coordinate'[Self] = coordinate[Self]
  BY <1>1, HyperbolicAssumption DEF AllRouters
<1>3. \A n : n # r => coordinate'[n] = coordinate[n]
  BY <1>1
<1>4. coordinate'[r] = None
  BY <1>1 DEF AllRouters
<1>5. \A n : DistanceFrom(n, d)' = IF r \in {n, d} THEN None ELSE DistanceFrom(n, d)
  <2>1. \A x, y : GetHyperbolicDistance(x, y)' = GetHyperbolicDistance(x, y)
    BY DEF GetHyperbolicDistance, CalculateAngularDistance, LastAngle
  <2> QED BY <1>3, <1>4, <2>1 DEF DistanceFrom
<1> DEFINE Direct == {[hop |-> d, cost |-> 0] : x \in {d} \cap UsableNeighbors}
           Via == {n \in UsableNeighbors \ {d} :
                     coordinate[Self] # None /\ DistanceFrom(n, d) # None}
<1>6. Direct' = Direct /\ Via' \subseteq Via
  BY <1>1, <1>2, <1>5
<1>7. \A n \in Via' : DistanceFrom(n, d)' = DistanceFrom(n, d)
  BY <1>5
<1>8. \A n \in Via \ Via' : n \in active /\ r \in {n, d}
  BY <1>1, <1>2, <1>5 DEF UsableNeighbors
<1>9. /\ NextHopsTo(d) = Direct \cup {[hop |-> n, cost |-> DistanceFrom(n, d)] : n \in Via}
      /\ NextHopsTo(d)' = Direct' \cup {[hop |-> n, cost |-> DistanceFrom(n, d)'] : n \in Via'}
  BY DEF NextHopsTo
<1> HIDE DEF Direct, Via
<1> QED BY <1>6, <1>7, <1>8, <1>9

LEMMA HypNextCurrent ==
    HypTypeOK /\ HyperbolicRoutesAreCurrent /\ [HypNext]_hypVars => HyperbolicRoutesAreCurrent'
<1> SUFFICES ASSUME HypTypeOK, HyperbolicRoutesAreCurrent, [HypNext]_hypVars
             PROVE  HyperbolicRoutesAreCurrent'
  OBVIOUS
<1>1. ASSUME NEW r \in Others, NEW c \in Coordinates, InstallCoordinateLsa(r, c)
      PROVE  HyperbolicRoutesAreCurrent'
  BY <1>1 DEF InstallCoordinateLsa, HyperbolicRoutesAreCurrent, NoRoutes
<1>2. ASSUME NEW r \in Others, RemoveCoordinateLsa(r) PROVE HyperbolicRoutesAreCurrent'
  <2>1. UNCHANGED <<dryRun, active, scheduled, hypTable>> /\ removed' = removed \cup {r}
    BY <1>2 DEF RemoveCoordinateLsa
  <2>2. ASSUME ~dryRun, ~scheduled, NEW d \in Others
        PROVE  /\ NextHopsTo(d)' \subseteq hypTable[d]
               /\ \A h \in hypTable[d] \ NextHopsTo(d)' :
                     h.hop \in active /\ {h.hop, d} \cap (removed \cup {r}) # {}
    <3>1. /\ NextHopsTo(d) \subseteq hypTable[d]
          /\ \A h \in hypTable[d] \ NextHopsTo(d) : h.hop \in active /\ {h.hop, d} \cap removed # {}
      BY <2>2 DEF HyperbolicRoutesAreCurrent
    <3>2. /\ NextHopsTo(d)' \subseteq NextHopsTo(d)
          /\ \A h \in NextHopsTo(d) \ NextHopsTo(d)' : h.hop \in active /\ r \in {h.hop, d}
      BY <1>2, RemovalIsLocal
    <3> QED BY <3>1, <3>2
  <2>3. dryRun => hypTable = NoRoutes
    BY DEF HyperbolicRoutesAreCurrent
  <2> QED BY <2>1, <2>2, <2>3 DEF HyperbolicRoutesAreCurrent, NoRoutes
<1>3. ASSUME NEW n \in Nbrs, StatusChange(n) PROVE HyperbolicRoutesAreCurrent'
  BY <1>3 DEF StatusChange, AsksForCalculation, HyperbolicRoutesAreCurrent, NoRoutes
<1>4. CASE BuildOwnAdjLsa
  BY <1>4 DEF BuildOwnAdjLsa, HyperbolicRoutesAreCurrent, NoRoutes
<1>5. CASE Calculate
  <2>1. \A d : NextHopsTo(d)' = NextHopsTo(d)
    BY <1>5 DEF Calculate, NextHopsTo, UsableNeighbors, DistanceFrom, GetHyperbolicDistance,
                CalculateAngularDistance, LastAngle
  <2>2. /\ dryRun' = dryRun
        /\ hypTable' = IF dryRun THEN hypTable ELSE [d \in Others |-> NextHopsTo(d)]
    BY <1>5 DEF Calculate, CalculatePath
  <2> QED BY <2>1, <2>2 DEF HyperbolicRoutesAreCurrent, NoRoutes
<1>6. CASE UNCHANGED hypVars
  <2>1. \A d : NextHopsTo(d)' = NextHopsTo(d)
    BY <1>6 DEF hypVars, NextHopsTo, UsableNeighbors, DistanceFrom, GetHyperbolicDistance,
                CalculateAngularDistance, LastAngle
  <2> QED BY <1>6, <2>1 DEF hypVars, HyperbolicRoutesAreCurrent, NoRoutes
<1> QED BY <1>1, <1>2, <1>3, <1>4, <1>5, <1>6 DEF HypNext

(* With no calculation scheduled the hyperbolic next hops are those the    *)
(* LSDB and the neighbours' status give, but for LSAs removed since; the   *)
(* property is inductive once types are known (RoutingTable's handler,     *)
(* HelloProtocol's requests, calculatePath).                               *)
THEOREM HyperbolicRoutes == HypSpec => []HyperbolicRoutesAreCurrent
<1>1. HypSpec => []HypTypeOK
  BY HypInitInv, HypNextType, PTL DEF HypSpec
<1> QED BY <1>1, HypInitInv, HypNextCurrent, PTL DEF HypSpec
=============================================================================
