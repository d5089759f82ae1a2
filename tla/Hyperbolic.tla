------------------------------ MODULE Hyperbolic ------------------------------
(***************************************************************************)
(* Hyperbolic routing of one router: Coordinate LSAs and the status of its *)
(* neighbours come and go, RoutingTable schedules calculations             *)
(* (routing-table.cpp), and each fills the table, or in a dry run the dry  *)
(* table, with the distances from neighbours to destinations               *)
(* (routing-calculator-hyperbolic.cpp).                                    *)
(*                                                                         *)
(* The trigonometry is external: Arc gives the angle between two vectors   *)
(* of the same length and Length the hyperbolic distance for two radii and *)
(* an angle.  Rounding can carry the inner product of equal vectors past   *)
(* 1, where arccos is NotANumber, and so is then the distance.  No vector  *)
(* of Coordinates is empty, as calculateAngularDistance presupposes.       *)
(*                                                                         *)
(* The own Adjacency LSA, which exists in a dry run only, is known here by *)
(* the neighbours it lists; AdjLsaBuild has its build.                     *)
(***************************************************************************)
EXTENDS Integers, Sequences

CONSTANTS
    Self,
    Others,             \* the other routers
    Nbrs,               \* the routers in the adjacency list
    Coordinates,        \* [radius, theta] that an LSA may carry
    TwoPi,              \* in the unit of the angles
    Arc,                \* the angle between two vectors
    Length,             \* the distance, given two radii and an angle
    NotANumber,
    None,               \* no LSA, and UNKNOWN_DISTANCE
    MaxChanges          \* bound: changes of LSAs and of neighbours' status

ASSUME HyperbolicAssumption == Self \notin Others /\ MaxChanges \in Nat

AllRouters == Others \cup {Self}

VARIABLES
    dryRun,             \* hyperbolic state dry-run, else on
    coordinate,         \* Coordinate LSAs by origin
    active,             \* the neighbours with STATUS_ACTIVE
    ownLsa,             \* the neighbours in the own Adjacency LSA; {}: there is none
    scheduled,          \* m_isRouteCalculationScheduled
    hypTable,           \* the hyperbolic next hops of m_rTable
    dryTable,           \* m_dryTable
    removed,            \* history: LSAs removed since the last calculation
    changes

hypVars == <<dryRun, coordinate, active, ownLsa, scheduled, hypTable, dryTable, removed, changes>>

(***************************************************************************)
(* The distance.                                                           *)
(***************************************************************************)
LastAngle(c) == c.theta[Len(c.theta)]

(* calculateAngularDistance looks at the last angle of the first vector    *)
(* twice and never at the second's; its test of the other angles is never  *)
(* true.                                                                   *)
CalculateAngularDistance(src, dest) ==
    IF Len(src.theta) # Len(dest.theta) \/ LastAngle(src) \notin 0..TwoPi THEN None
    ELSE Arc[src.theta, dest.theta]

(* With calculateHyperbolicDistance.                                       *)
GetHyperbolicDistance(src, dest) ==
    LET arc == CalculateAngularDistance(src, dest)
    IN  IF arc = None THEN None
        ELSE IF arc = 0 \/ src.radius <= 0 \/ dest.radius <= 0 THEN None
        ELSE IF arc = NotANumber THEN NotANumber
        ELSE Length[src.radius, dest.radius, arc]

(***************************************************************************)
(* calculatePath.                                                          *)
(***************************************************************************)
DistanceFrom(n, d) ==
    IF coordinate[n] = None \/ coordinate[d] = None THEN None
    ELSE GetHyperbolicDistance(coordinate[n], coordinate[d])

UsableNeighbors == active \ {Self}

(* A neighbour is reached directly at no cost, with or without an LSA; the *)
(* others by way of it only if this router is on the map.                  *)
NextHopsTo(d) ==
    {[hop |-> d, cost |-> 0] : x \in {d} \cap UsableNeighbors}
    \cup {[hop |-> n, cost |-> DistanceFrom(n, d)] :
            n \in {n \in UsableNeighbors \ {d} :
                     coordinate[Self] # None /\ DistanceFrom(n, d) # None}}

CalculatePath == [d \in Others |-> NextHopsTo(d)]

NoRoutes == [d \in Others |-> {}]

-----------------------------------------------------------------------------
Change ==
    /\ changes < MaxChanges
    /\ changes' = changes + 1

(* RoutingTable's handler of onLsdbModified: INSTALLED, or UPDATED by      *)
(* other coordinates.                                                      *)
InstallCoordinateLsa(r, c) ==
    /\ Change
    /\ coordinate[r] # c
    /\ coordinate' = [coordinate EXCEPT ![r] = c]
    /\ scheduled' = TRUE
    /\ UNCHANGED <<dryRun, active, ownLsa, hypTable, dryTable, removed>>

(* Another router's LSA expires: "Don't do anything on removal".           *)
RemoveCoordinateLsa(r) ==
    /\ Change
    /\ coordinate[r] # None
    /\ coordinate' = [coordinate EXCEPT ![r] = None]
    /\ removed' = removed \cup {r}
    /\ UNCHANGED <<dryRun, active, ownLsa, scheduled, hypTable, dryTable>>

AsksWhenUp(up) == up /\ ~dryRun

(* HelloProtocol asks for a calculation, or in a dry run for a build.      *)
AsksForCalculation(up) == ~dryRun

StatusChange(n) ==
    /\ Change
    /\ active' = IF n \in active THEN active \ {n} ELSE active \cup {n}
    /\ scheduled' = (scheduled \/ AsksForCalculation(n \in active'))
    /\ UNCHANGED <<dryRun, coordinate, ownLsa, hypTable, dryTable, removed>>

(* The build in a dry run: the LSA is installed, updated or removed, and a *)
(* removal clears both tables.                                             *)
BuildOwnAdjLsa ==
    /\ dryRun
    /\ ownLsa # active
    /\ ownLsa' = active
    /\ scheduled' = (scheduled \/ active # {})
    /\ hypTable' = IF active = {} THEN NoRoutes ELSE hypTable
    /\ dryTable' = IF active = {} THEN NoRoutes ELSE dryTable
    /\ UNCHANGED <<dryRun, coordinate, active, removed, changes>>

(* calculate and calculateHypRoutingTable.                                 *)
Calculate ==
    /\ scheduled
    /\ scheduled' = FALSE
    /\ hypTable' = IF dryRun THEN hypTable ELSE CalculatePath
    /\ dryTable' = IF dryRun THEN CalculatePath ELSE dryTable
    /\ removed' = {}
    /\ UNCHANGED <<dryRun, coordinate, active, ownLsa, changes>>

(* buildAndInstallOwnCoordinateLsa is called before RoutingTable listens.  *)
HypInit ==
    /\ dryRun \in BOOLEAN
    /\ coordinate \in {[r \in AllRouters |-> IF r = Self THEN c ELSE None] : c \in Coordinates}
    /\ active = {}
    /\ ownLsa = {}
    /\ scheduled = FALSE
    /\ hypTable = NoRoutes
    /\ dryTable = NoRoutes
    /\ removed = {}
    /\ changes = 0

HypNext ==
    \/ \E r \in Others : RemoveCoordinateLsa(r) \/ \E c \in Coordinates : InstallCoordinateLsa(r, c)
    \/ \E n \in Nbrs : StatusChange(n)
    \/ BuildOwnAdjLsa
    \/ Calculate

HypSpec == HypInit /\ [][HypNext]_hypVars

-----------------------------------------------------------------------------
(* Type invariant.                                                         *)
HypTypeOK ==
    /\ dryRun \in BOOLEAN
    /\ coordinate \in [AllRouters -> Coordinates \cup {None}]
    /\ active \subseteq Nbrs /\ ownLsa \subseteq Nbrs
    /\ scheduled \in BOOLEAN
    /\ DOMAIN hypTable = Others /\ DOMAIN dryTable = Others
    /\ removed \subseteq Others
    /\ changes \in 0..MaxChanges

(* With no calculation scheduled the table has every next hop that the     *)
(* LSDB and the neighbours' status give, and another one only through a    *)
(* neighbour that is ACTIVE and because an LSA was removed since           *)
(* (RoutingTable's handler, HelloProtocol's requests and calculatePath).   *)
(* A dry run leaves the table alone.                                       *)
HyperbolicRoutesAreCurrent ==
    /\ ~dryRun /\ ~scheduled =>
          \A d \in Others :
             /\ NextHopsTo(d) \subseteq hypTable[d]
             /\ \A h \in hypTable[d] \ NextHopsTo(d) :
                   h.hop \in active /\ {h.hop, d} \cap removed # {}
    /\ dryRun => hypTable = NoRoutes
=============================================================================
