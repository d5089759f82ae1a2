---------------------------- MODULE RoutingUpdate ----------------------------
(***************************************************************************)
(* What one router does when an Adjacency LSA enters, changes in or leaves *)
(* its LSDB, in link-state mode: RoutingTable schedules a calculation      *)
(* (routing-table.cpp), TopologyChangeObserver waits until the adjacencies *)
(* a router has gained are declared by both ends, and Nlsr then asks for a *)
(* calculation at once and announces the new path after it (nlsr.cpp).     *)
(*                                                                         *)
(* The three are called in that order by Lsdb::onLsdbModified, all in one  *)
(* step of the event loop; so no calculation is ever running when another  *)
(* is asked for, and a step here is one such chain of calls.  The barrier  *)
(* of awaitNewPathCalculation is therefore always the serial of the last   *)
(* calculation, which every later one exceeds: a set of origins stands for *)
(* m_awaitingNewPathCalc.                                                  *)
(*                                                                         *)
(* The routing table is represented by the LSDB it was calculated from.    *)
(* Events that find the LSA unchanged (refreshes) are no step: installLsa  *)
(* emits nothing for them.                                                 *)
(***************************************************************************)
EXTENDS Integers

CONSTANTS
    Self,              \* this router
    Others,            \* the other routers
    Costs,             \* link costs an LSA may list
    None,              \* no LSA, no table, not recorded, not pending
    MaxChanges         \* bound: changes of the LSDB and of the build

Routers == Others \cup {Self}

Lsas == [nbrs : SUBSET Routers, cost : Costs]

Lsdbs == [Routers -> Lsas \cup {None}]

ASSUME ConstantsAssumption ==
    /\ Self \notin Others
    /\ MaxChanges \in Nat

ASSUME NoneAssumption ==
    /\ \A x \in Lsas : x # None /\ x.nbrs # None
    /\ \A db \in Lsdbs : db # None

VARIABLES
    lsdb,              \* Adjacency LSAs by origin
    build,             \* own build: "none", "scheduled" or "held" by a sweep
    calcTimer,         \* m_isRouteCalculationScheduled and its event
    ownAdjLsaExist,    \* m_ownAdjLsaExist
    table,             \* the LSDB m_rTable was calculated from, if any
    adjacencies,       \* TopologyChangeObserver::m_adjacencies
    pending,           \* m_pending: what the unconfirmed change has added
    awaiting,          \* m_awaitingNewPathCalc
    announced,         \* origins the last step announced a new path for
    refused,           \* history: the last calculation, if refused for a build
    changes            \* changes so far

vars == <<lsdb, build, calcTimer, ownAdjLsaExist, table, adjacencies, pending,
          awaiting, announced, refused, changes>>

(***************************************************************************)
(* TopologyChangeObserver, over an LSDB db.                                *)
(***************************************************************************)
DeclaresBack(db, neighbour, router) ==
    db[neighbour] # None /\ router \in db[neighbour].nbrs

AreAllReciprocal(db, router, added) ==
    \A n \in added : DeclaresBack(db, n, router)

HasReciprocalAdjacency(db, router) ==
    /\ db[router] # None
    /\ \E n \in db[router].nbrs : DeclaresBack(db, n, router)

(* onLsdbModified with recordAdjacencies: a first sighting is no change, a *)
(* later change supersedes an earlier one.                                 *)
RecordChange(o, current) ==
    IF adjacencies[o] \in {None, current} THEN pending
    ELSE [pending EXCEPT ![o] = current \ adjacencies[o]]

(* evaluatePending: the routers whose change is confirmed.                 *)
SettledOf(db, pend, candidates) ==
    {r \in candidates : pend[r] # None /\ AreAllReciprocal(db, r, pend[r])}

SettleOrigin(db, pend, o) == SettledOf(db, pend, {o})
Settled(db, pend, o) == SettledOf(db, pend, Routers)

(***************************************************************************)
(* RoutingTable.  A calculation is skipped while the own LSA is about to   *)
(* be rebuilt, and without an own LSA; calculate() forgets the scheduled   *)
(* one in any case.                                                        *)
(*                                                                         *)
(* "refused" is history, no variable of the program: "awaitsBuild" since a *)
(* calculation was skipped for a build, "forgotten" once a build found the *)
(* own LSA unchanged, "none" when one is scheduled again or has been done. *)
(***************************************************************************)
CanCalculate(b, own) == b # "scheduled" /\ own

(* afterRoutingChange after a calculation: onRoutingCalculationCompleted   *)
(* announces every origin that waits for one.                              *)
CalculateDropsAwaiting(db, b, own, await) ==
    /\ calcTimer' = FALSE
    /\ awaiting' = {}
    /\ IF CanCalculate(b, own)
       THEN table' = db /\ announced' = await /\ refused' = "none"
       ELSE /\ table' = table /\ announced' = {}
            /\ refused' = IF b = "scheduled" THEN "awaitsBuild" ELSE refused
Calculate(db, b, own, await) ==
    /\ calcTimer' = FALSE
    /\ IF CanCalculate(b, own)
       THEN table' = db /\ announced' = await /\ awaiting' = {} /\ refused' = "none"
       ELSE /\ table' = table /\ announced' = {} /\ awaiting' = await
            /\ refused' = IF b = "scheduled" THEN "awaitsBuild" ELSE refused

(* scheduleRoutingTableCalculation.                                        *)
Schedule(await) ==
    /\ calcTimer' = TRUE
    /\ table' = table
    /\ announced' = {}
    /\ awaiting' = await
    /\ refused' = "none"

(* A change schedules a calculation; calculateNow, called for a settled    *)
(* origin, withdraws it and calculates at once unless a build is coming.   *)
CalculateOnlySettled(db, b, own, settled, await) ==
    IF settled # {} /\ b # "scheduled" THEN Calculate(db, b, own, await)
    ELSE UNCHANGED <<calcTimer, table, refused>> /\ announced' = {} /\ awaiting' = await
CalculateNow(db, b, own, settled, await) ==
    IF settled # {} /\ b # "scheduled" THEN Calculate(db, b, own, await)
    ELSE Schedule(await)

(* onLsdbModified(INSTALLED or UPDATED) with the handlers in order: the    *)
(* routing table, the observer, and Nlsr for every settled origin.         *)
OnInstalled(o, lsa, b) ==
    LET db == [lsdb EXCEPT ![o] = lsa]
        own == ownAdjLsaExist \/ o = Self
        pend == RecordChange(o, lsa.nbrs)
        settled == Settled(db, pend, o)
        gained == {r \in settled : pend[r] # {}}
    IN  /\ lsdb' = db
        /\ ownAdjLsaExist' = own
        /\ adjacencies' = [adjacencies EXCEPT ![o] = lsa.nbrs]
        /\ pending' = [r \in Routers |-> IF r \in settled THEN None ELSE pend[r]]
        /\ CalculateNow(db, b, own, settled, awaiting \cup gained)

(* onLsdbModified(REMOVED): the observer forgets the pending change.       *)
OnRemoved(o) ==
    /\ lsdb' = [lsdb EXCEPT ![o] = None]
    /\ adjacencies' = [adjacencies EXCEPT ![o] = {}]
    /\ pending' = [pending EXCEPT ![o] = None]

Change ==
    /\ changes < MaxChanges
    /\ changes' = changes + 1

(***************************************************************************)
(* LSAs of other routers.                                                  *)
(***************************************************************************)
InstallLsa(o, lsa) ==
    /\ Change
    /\ lsdb[o] # lsa
    /\ OnInstalled(o, lsa, build)
    /\ UNCHANGED build

(* "Don't do anything on removal": the routes stay until the next change.  *)
RemoveLsa(o) ==
    /\ Change
    /\ lsdb[o] # None
    /\ OnRemoved(o)
    /\ announced' = {}
    /\ UNCHANGED <<build, calcTimer, ownAdjLsaExist, table, awaiting, refused>>

(***************************************************************************)
(* The own LSA: AdjLsaBuild seen from here.  buildAdjLsa clears the flag   *)
(* before it installs.                                                     *)
(***************************************************************************)
SetBuild(b) ==
    /\ build' = b
    /\ announced' = {}
    /\ UNCHANGED <<lsdb, calcTimer, ownAdjLsaExist, table, adjacencies, pending, awaiting,
                   refused>>

ScheduleAdjLsaBuild == Change /\ build = "none" /\ SetBuild("scheduled")

HoldAdjLsaBuild == build = "scheduled" /\ SetBuild("held") /\ UNCHANGED changes

ReleaseAdjLsaBuildHold == build = "held" /\ SetBuild("scheduled") /\ UNCHANGED changes

(* buildAndInstallOwnAdjLsa: an LSA equal to the old one changes nothing.  *)
BuildOwnLsa(lsa) ==
    /\ build # "none"
    /\ build' = "none"
    /\ IF lsdb[Self] # lsa
       THEN OnInstalled(Self, lsa, "none")
       ELSE /\ announced' = {}
            /\ refused' = IF refused = "awaitsBuild" THEN "forgotten" ELSE refused
            /\ UNCHANGED <<lsdb, calcTimer, ownAdjLsaExist, table, adjacencies, pending, awaiting>>
    /\ UNCHANGED changes

(* removeLsa without active neighbours: the table is cleared, and the      *)
(* afterRoutingChange this emits is not taken for a calculation.           *)
ClearTakenForCalculation ==
    table' = None /\ ownAdjLsaExist' = FALSE /\ announced' = awaiting /\ awaiting' = {}
ClearKeepsOwnFlag ==
    table' = None /\ announced' = {} /\ UNCHANGED <<ownAdjLsaExist, awaiting>>
ClearRoutingTable ==
    table' = None /\ ownAdjLsaExist' = FALSE /\ announced' = {} /\ UNCHANGED awaiting

RemoveOwnLsa ==
    /\ build # "none"
    /\ lsdb[Self] # None
    /\ build' = "none"
    /\ OnRemoved(Self)
    /\ ClearRoutingTable
    /\ UNCHANGED <<calcTimer, refused, changes>>

(* There was no own LSA to remove.                                         *)
RemoveNothing ==
    build # "none" /\ lsdb[Self] = None /\ SetBuild("none") /\ UNCHANGED changes

(* The scheduled calculation.                                              *)
CalculationTimer ==
    /\ calcTimer
    /\ Calculate(lsdb, build, ownAdjLsaExist, awaiting)
    /\ UNCHANGED <<lsdb, build, ownAdjLsaExist, adjacencies, pending, changes>>

Init ==
    /\ lsdb = [r \in Routers |-> None]
    /\ build = "none"
    /\ calcTimer = FALSE
    /\ ownAdjLsaExist = FALSE
    /\ table = None
    /\ adjacencies = [r \in Routers |-> None]
    /\ pending = [r \in Routers |-> None]
    /\ awaiting = {}
    /\ announced = {}
    /\ refused = "none"
    /\ changes = 0

(* A router without active neighbours publishes no LSA.                    *)
LsasOf(o) == {lsa \in Lsas : lsa.nbrs # {} /\ o \notin lsa.nbrs}

BuildStep == RemoveOwnLsa \/ RemoveNothing \/ \E lsa \in LsasOf(Self) : BuildOwnLsa(lsa)

Next ==
    \/ \E o \in Others : RemoveLsa(o) \/ \E lsa \in LsasOf(o) : InstallLsa(o, lsa)
    \/ ScheduleAdjLsaBuild
    \/ HoldAdjLsaBuild
    \/ ReleaseAdjLsaBuildHold
    \/ BuildStep
    \/ CalculationTimer

Spec == Init /\ [][Next]_vars

(* Both timers fire; a sweep that holds a build ends (SweepEnds of         *)
(* HelloProtocol).                                                         *)
Fairness == WF_vars(CalculationTimer) /\ SF_vars(BuildStep)

FairSpec == Spec /\ Fairness

-----------------------------------------------------------------------------
(* Type invariant of the chain from the LSDB to the announcements; the     *)
(* flag m_ownAdjLsaExist of RoutingTable and the LSDB agree on the own LSA. *)
TypeOK ==
    /\ lsdb \in Lsdbs
    /\ build \in {"none", "scheduled", "held"}
    /\ calcTimer \in BOOLEAN
    /\ ownAdjLsaExist = (lsdb[Self] # None)
    /\ table \in Lsdbs \cup {None}
    /\ adjacencies \in [Routers -> (SUBSET Routers) \cup {None}]
    /\ pending \in [Routers -> (SUBSET Routers) \cup {None}]
    /\ awaiting \subseteq Routers
    /\ announced \subseteq Routers
    /\ refused \in {"none", "awaitsBuild", "forgotten"}
    /\ changes \in Nat

(* The routes do not reflect the LSA of r.                                 *)
Unrouted(r) == lsdb[r] # None /\ (table = None \/ table[r] # lsdb[r])

(* What routing-table.cpp:135 says of a calculation skipped for a build:   *)
(* "installing the built LSA prompts a fresh request anyway", so an LSA    *)
(* the routes do not reflect has a calculation or a build ahead of it.     *)
NewLsaWillBeRouted ==
    ownAdjLsaExist /\ (\E r \in Routers : Unrouted(r)) => calcTimer \/ build # "none"

(* What the code does keep: an LSA the routes do not reflect has a         *)
(* calculation scheduled for it, or one skipped for a build that is still  *)
(* to come.  It is overlooked in one case only: the build the calculation  *)
(* was skipped for has found the own LSA unchanged, and nothing has asked  *)
(* for a calculation since.                                                *)
NewLsaIsRoutedOrForgotten ==
    ownAdjLsaExist /\ (\E r \in Routers : Unrouted(r))
        => \/ calcTimer
           \/ refused = "awaitsBuild" /\ build # "none"
           \/ refused = "forgotten"

(* A change is pending only while one of the adjacencies it added is not   *)
(* declared back: no order in which the two LSAs arrive leaves a confirmed *)
(* change unsettled (evaluatePending runs over every pending change).      *)
PendingIsOpen ==
    \A r \in Routers :
        pending[r] # None => ~AreAllReciprocal(lsdb, r, pending[r])

(* A new path is announced only by a calculation over the LSDB as it is,   *)
(* not by the clearing of the table (m_afterRoutingChangeFromCalculation). *)
AnnouncedIsCalculated == announced # {} => table = lsdb /\ ownAdjLsaExist

(* An origin that waits for its calculation has its new path announced,    *)
(* through refused calculations, holds and builds, with two exceptions:    *)
(* this router loses its own LSA, or the calculation was skipped for a     *)
(* build that found nothing new (the case NewLsaWillBeRouted fails in).    *)
(* The next request for a calculation ends the second, and the origin is   *)
(* owed its announcement again.                                            *)
AwaitedIsAnnounced ==
    \A o \in Routers :
        o \in awaiting ~> o \in announced \/ ~ownAdjLsaExist \/ refused = "forgotten"
=============================================================================
