------------------------------ MODULE LinkState ------------------------------
(***************************************************************************)
(* The link-state calculation of one router: the matrix of corrected link  *)
(* costs, Dijkstra's algorithm over it, once per neighbour when several    *)
(* next hops per destination are wanted, and the routing table they fill   *)
(* (routing-calculator-link-state.cpp).                                    *)
(*                                                                         *)
(* NameMap numbers the routers in the order of a hashed container; routers *)
(* stand here for their numbers, and the order matters only where the code *)
(* visits them by number.  There it is left open: among unexplored routers *)
(* at the same distance any may come first, and so may any neighbour.  A   *)
(* router no LSA names is one without links.                               *)
(*                                                                         *)
(* Costs are the integers that reach NFD.                                  *)
(***************************************************************************)
EXTENDS Integers, FiniteSets

CONSTANTS
    Routers,
    Source,                 \* this router
    NoParent,               \* EMPTY_PARENT, and NO_NEXT_HOP
    InfDistance,            \* INF_DISTANCE: 2147483647 in the code
    Lsdbs                   \* the LSDBs considered, for each max-faces-per-prefix

(* Any negative number; the code's is -12345.                              *)
NonAdjacentCost == -1

LinkCosts == Nat \cup {NonAdjacentCost}

ASSUME ConstantsAssumption ==
    /\ Source \in Routers /\ NoParent \notin Routers
    /\ IsFiniteSet(Routers)
    /\ InfDistance \in Nat \ {0}
    /\ \A m \in DOMAIN Lsdbs : Lsdbs[m] \subseteq [Routers -> [Routers -> LinkCosts]]

VARIABLES
    maxFaces,       \* max-faces-per-prefix; 1: a single path per destination
    lsdb,           \* lsdb[r][n]: the cost r's LSA gives its link to n
    pc,             \* "start", "link", "explore" or "done"
    matrix,         \* the adjacency matrix
    links,          \* neighbours the multipath loop has still to simulate
    unexplored,     \* q from head on
    distance,
    parent,
    table           \* m_rTable: next hops by destination

vars == <<maxFaces, lsdb, pc, matrix, links, unexplored, distance, parent, table>>

(***************************************************************************)
(* makeAdjMatrix: a link is up when both ends declare it, and costs what   *)
(* the dearer end says.                                                    *)
(***************************************************************************)
EitherEnd(to, from) == IF to > from THEN to ELSE from
CorrectedCost(to, from) ==
    IF to >= 0 /\ from >= 0 THEN (IF to > from THEN to ELSE from) ELSE NonAdjacentCost

MakeAdjMatrix(db) ==
    [r \in Routers |-> [c \in Routers |-> CorrectedCost(db[r][c], db[c][r])]]

GatherLinks(mx) == {n \in Routers \ {Source} : mx[Source][n] >= 0}

(* simulateOneNeighbor, from the costs the links had at first.             *)
LeaveOtherNeighbors(mx, n, cost) == [mx EXCEPT ![Source][n] = cost]
SimulateOneNeighbor(mx, n, cost) ==
    [mx EXCEPT ![Source] = [i \in Routers |-> IF i = n THEN cost ELSE NonAdjacentCost]]

(***************************************************************************)
(* calculateDijkstraPath.                                                  *)
(***************************************************************************)
BeginDijkstra ==
    /\ unexplored' = Routers
    /\ distance' = [r \in Routers |-> IF r = Source THEN 0 ELSE InfDistance]
    /\ parent' = [r \in Routers |-> NoParent]
    /\ pc' = "explore"

(* q[head] after sortQueueByDistance.                                      *)
AnyUnexplored(u) == u \in unexplored
IsNearest(u) == u \in unexplored /\ \A v \in unexplored : distance[u] <= distance[v]

ImprovesAnyway(u, v) ==
    v \in unexplored \ {u} /\ distance[u] + matrix[u][v] < distance[v]
Improves(u, v) ==
    /\ v \in unexplored \ {u}
    /\ matrix[u][v] >= 0
    /\ distance[u] + matrix[u][v] < distance[v]

(* One pass of the loop over the head of the queue.                        *)
Explore(u) ==
    /\ pc = "explore"
    /\ IsNearest(u)
    /\ distance[u] # InfDistance
    /\ unexplored' = unexplored \ {u}
    /\ distance' = [v \in Routers |->
                      IF Improves(u, v) THEN distance[u] + matrix[u][v] ELSE distance[v]]
    /\ parent' = [v \in Routers |-> IF Improves(u, v) THEN u ELSE parent[v]]
    /\ UNCHANGED <<maxFaces, lsdb, pc, matrix, links, table>>

(***************************************************************************)
(* getNextHop walks from the destination up to a router without parent;    *)
(* the next hop is the last router before it, if that router is the source.*)
(***************************************************************************)
Ancestor(d) ==
    LET up[k \in 0..Cardinality(Routers)] ==
            IF k = 0 THEN d
            ELSE IF parent[up[k - 1]] = NoParent THEN up[k - 1] ELSE parent[up[k - 1]]
    IN  up

GetNextHop(d) ==
    LET up == Ancestor(d)
        steps == 0..Cardinality(Routers)
    IN  IF up[Cardinality(Routers)] # Source \/ d = Source THEN NoParent
        ELSE CHOOSE h \in {up[k] : k \in steps} : parent[h] = Source

(* RoutingTable::addNextHop and NexthopList::addNextHop: the cheaper cost  *)
(* of a next hop is kept.                                                  *)
AddNextHop(hops, new) ==
    LET old == {h \in hops : h.hop = new.hop}
    IN  IF \E h \in old : h.cost <= new.cost THEN hops ELSE (hops \ old) \cup {new}

(* addNextHopsToRoutingTable.                                              *)
AddNextHops ==
    [d \in Routers |->
       IF d = Source \/ GetNextHop(d) = NoParent THEN table[d]
       ELSE AddNextHop(table[d], [hop |-> GetNextHop(d), cost |-> distance[d]])]

DijkstraEnds == unexplored = {} \/ \E u \in unexplored : IsNearest(u) /\ distance[u] = InfDistance

FinishDijkstra ==
    /\ pc = "explore"
    /\ DijkstraEnds
    /\ table' = AddNextHops
    /\ pc' = IF links = {} THEN "done" ELSE "link"
    /\ UNCHANGED <<maxFaces, lsdb, matrix, links, unexplored, distance, parent>>

(***************************************************************************)
(* calculateLinkStateRoutingPath, called on an emptied routing table.      *)
(***************************************************************************)
CalculateSinglePath ==
    /\ pc = "start" /\ maxFaces = 1
    /\ matrix' = MakeAdjMatrix(lsdb)
    /\ BeginDijkstra
    /\ UNCHANGED <<maxFaces, lsdb, links, table>>

CalculateMultiPath ==
    /\ pc = "start" /\ maxFaces # 1
    /\ matrix' = MakeAdjMatrix(lsdb)
    /\ links' = GatherLinks(MakeAdjMatrix(lsdb))
    /\ pc' = IF links' = {} THEN "done" ELSE "link"
    /\ UNCHANGED <<maxFaces, lsdb, unexplored, distance, parent, table>>

SimulateNeighbor(n) ==
    /\ pc = "link"
    /\ n \in links
    /\ links' = links \ {n}
    /\ matrix' = SimulateOneNeighbor(matrix, n, MakeAdjMatrix(lsdb)[Source][n])
    /\ BeginDijkstra
    /\ UNCHANGED <<maxFaces, lsdb, table>>

Init ==
    /\ maxFaces \in DOMAIN Lsdbs
    /\ lsdb \in Lsdbs[maxFaces]
    /\ pc = "start"
    /\ matrix = [r \in Routers |-> [c \in Routers |-> NonAdjacentCost]]
    /\ links = {}
    /\ unexplored = Routers
    /\ distance = [r \in Routers |-> InfDistance]
    /\ parent = [r \in Routers |-> NoParent]
    /\ table = [r \in Routers |-> {}]

Next ==
    \/ CalculateSinglePath
    \/ CalculateMultiPath
    \/ \E n \in Routers : SimulateNeighbor(n)
    \/ \E u \in Routers : Explore(u)
    \/ FinishDijkstra

Spec == Init /\ [][Next]_vars

-----------------------------------------------------------------------------
(* Reference: the least cost of a path of at most k links from s over the  *)
(* links that both ends declare, without passing through avoid.            *)
LinkCost(m, n) ==
    LET ends == {lsdb[m][n], lsdb[n][m]}
    IN  IF NonAdjacentCost \in ends THEN NonAdjacentCost
        ELSE CHOOSE x \in ends : \A y \in ends : y <= x

Least(S) == CHOOSE x \in S : \A y \in S : x <= y

Shortened(cost, avoid) ==
    [r \in Routers |->
       Least({cost[r]} \cup {cost[m] + LinkCost(m, r) :
                              m \in {m \in Routers \ avoid : LinkCost(m, r) >= 0 /\ cost[m] < InfDistance}})]

PathCosts(s, avoid) ==
    LET upTo[k \in 0..Cardinality(Routers)] ==
            IF k = 0 THEN [r \in Routers |-> IF r = s THEN 0 ELSE InfDistance]
            ELSE Shortened(upTo[k - 1], avoid)
    IN  upTo[Cardinality(Routers)]

(* Type invariant: distances are naturals up to INF_DISTANCE, and a next   *)
(* hop is a router other than the source.                                  *)
TypeOK ==
    /\ maxFaces \in DOMAIN Lsdbs
    /\ lsdb \in [Routers -> [Routers -> LinkCosts]]
    /\ pc \in {"start", "link", "explore", "done"}
    /\ matrix \in [Routers -> [Routers -> LinkCosts]]
    /\ links \subseteq Routers \ {Source}
    /\ unexplored \subseteq Routers
    /\ distance \in [Routers -> 0..InfDistance]
    /\ parent \in [Routers -> Routers \cup {NoParent}]
    /\ DOMAIN table = Routers

(* What makes the distances of a finished pass the least ones: no link     *)
(* shortens any of them, and each is reached over the link from its parent *)
(* (calculateDijkstraPath).                                                *)
NoShortcut ==
    \A u, v \in Routers :
       matrix[u][v] >= 0 /\ distance[u] < InfDistance
          => distance[v] <= distance[u] + matrix[u][v]

ReachedOverParent ==
    \A v \in Routers \ {Source} :
       IF parent[v] = NoParent THEN distance[v] = InfDistance
       ELSE /\ matrix[parent[v]][v] >= 0
            /\ distance[v] = distance[parent[v]] + matrix[parent[v]][v]

Certified ==
    pc = "explore" /\ DijkstraEnds =>
       distance[Source] = 0 /\ NoShortcut /\ ReachedOverParent

(* The single-path table has one next hop for every router that can be     *)
(* reached over links both ends declare, with the least cost, and the next *)
(* hop starts a path of that cost.                                         *)
SinglePathTable ==
    \A d \in Routers \ {Source} :
       LET least == PathCosts(Source, {})[d]
       IN  IF least = InfDistance THEN table[d] = {}
           ELSE \E h \in Routers :
                  /\ table[d] = {[hop |-> h, cost |-> least]}
                  /\ LinkCost(Source, h) >= 0
                  /\ LinkCost(Source, h) + PathCosts(h, {})[d] = least

(* The cost of the best path that starts over the link to h and does not   *)
(* come back.                                                              *)
CostThrough(h, d) == LinkCost(Source, h) + PathCosts(h, {Source})[d]

(* The multipath table has a next hop through every neighbour from which   *)
(* the destination can be reached without coming back to the source, with  *)
(* the cost of the best such path.                                         *)
MultiPathTable ==
    \A d \in Routers \ {Source} :
       table[d] = {[hop |-> h, cost |-> CostThrough(h, d)] :
                     h \in {h \in Routers \ {Source} :
                              LinkCost(Source, h) >= 0 /\ CostThrough(h, d) < InfDistance}}

(* A finished calculation leaves in the routing table what the reference   *)
(* over all paths gives: with one face per prefix the least cost and a     *)
(* next hop that starts a path of that cost; with several, every neighbour *)
(* from which the destination is reached without coming back to the source *)
(* (calculateLinkStateRoutingPath, simulateOneNeighbor).                   *)
TablesAreShortest ==
    pc = "done" => IF maxFaces = 1 THEN SinglePathTable ELSE MultiPathTable

(* Over links of positive cost the cheapest next hop is nearer to the      *)
(* destination than the source is, so that routers with the same LSDB do   *)
(* not send packets in a circle.                                           *)
BestHopIsNearer ==
    pc = "done" =>
       \A d \in Routers \ {Source} : \A e \in table[d] :
          (\A f \in table[d] : e.cost <= f.cost) /\ (\A m, n \in Routers : LinkCost(m, n) # 0)
             => PathCosts(e.hop, {})[d] < PathCosts(Source, {})[d]
=============================================================================
