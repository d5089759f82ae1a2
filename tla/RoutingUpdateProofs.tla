------------------------- MODULE RoutingUpdateProofs -------------------------
(***************************************************************************)
(* Proofs about RoutingUpdate for every set of routers.  The three facts   *)
(* about a step are proved apart, since OnInstalled is shared by the LSAs  *)
(* of other routers and by the own one.                                    *)
(***************************************************************************)
EXTENDS RoutingUpdate, TLAPS

(* Calculate takes the given LSDB for the table or leaves the table alone; *)
(* refused for a build that is scheduled, it is recorded as waiting.       *)
LEMMA CalculateEffect ==
    ASSUME NEW db \in Lsdbs, NEW b \in {"none", "scheduled", "held"},
           NEW own \in BOOLEAN, NEW await \in SUBSET Routers,
           TypeOK, Calculate(db, b, own, await)
    PROVE  /\ calcTimer' = FALSE
           /\ refused' \in {"none", "awaitsBuild", "forgotten"}
           /\ \/ table' = db
              \/ table' = table /\ ~own
              \/ table' = table /\ b = "scheduled" /\ refused' = "awaitsBuild"
           /\ announced' \subseteq await /\ awaiting' \subseteq await
           /\ announced' # {} => table' = db /\ own
BY DEF Calculate, CanCalculate, TypeOK

(* A change of the LSDB leads to a calculation over it, or schedules one,  *)
(* unless there is no own LSA.                                             *)
LEMMA CalculateNowEffect ==
    ASSUME NEW db \in Lsdbs, NEW b \in {"none", "scheduled", "held"},
           NEW own \in BOOLEAN, NEW settled, NEW await \in SUBSET Routers,
           TypeOK, CalculateNow(db, b, own, settled, await)
    PROVE  /\ calcTimer' \in BOOLEAN
           /\ refused' \in {"none", "awaitsBuild", "forgotten"}
           /\ table' = db \/ table' = table
           /\ announced' \subseteq await /\ awaiting' \subseteq await
           /\ announced' # {} => table' = db /\ own
           /\ calcTimer' \/ table' = db \/ ~own
<1>1. CASE settled # {} /\ b # "scheduled"
  BY <1>1, CalculateEffect DEF CalculateNow
<1>2. CASE ~(settled # {} /\ b # "scheduled")
  BY <1>2 DEF CalculateNow, Schedule
<1> QED BY <1>1, <1>2

-----------------------------------------------------------------------------
(* Both ways to install an LSA, stated over OnInstalled.                   *)
LEMMA InstalledType ==
    ASSUME TypeOK, NEW o \in Routers, NEW lsa \in LsasOf(o),
           NEW b \in {"none", "scheduled", "held"}, OnInstalled(o, lsa, b)
    PROVE  /\ lsdb' = [lsdb EXCEPT ![o] = lsa]
           /\ lsdb' \in Lsdbs
           /\ calcTimer' \in BOOLEAN
           /\ ownAdjLsaExist' = (lsdb'[Self] # None)
           /\ table' \in Lsdbs \cup {None}
           /\ adjacencies' \in [Routers -> (SUBSET Routers) \cup {None}]
           /\ pending' \in [Routers -> (SUBSET Routers) \cup {None}]
           /\ awaiting' \subseteq Routers
           /\ announced' \subseteq Routers
           /\ refused' \in {"none", "awaitsBuild", "forgotten"}
           /\ announced' # {} => table' = lsdb' /\ ownAdjLsaExist'
           /\ calcTimer' \/ table' = lsdb' \/ ~ownAdjLsaExist'
<1> DEFINE db == [lsdb EXCEPT ![o] = lsa]
           own == ownAdjLsaExist \/ o = Self
           pend == RecordChange(o, lsa.nbrs)
           settled == Settled(db, pend, o)
           gained == {r \in settled : pend[r] # {}}
<1>1. /\ lsa \in Lsas /\ lsa # None /\ lsa.nbrs \in SUBSET Routers
  BY NoneAssumption DEF LsasOf, Lsas
<1>2. db \in Lsdbs
  BY <1>1 DEF TypeOK, Lsdbs
<1>3. own \in BOOLEAN /\ own = (db[Self] # None)
  BY <1>1, ConstantsAssumption DEF TypeOK, Lsdbs, Routers
<1>4. pend \in [Routers -> (SUBSET Routers) \cup {None}]
  <2>1. CASE adjacencies[o] \in {None, lsa.nbrs}
    BY <2>1 DEF RecordChange, TypeOK
  <2>2. CASE adjacencies[o] \notin {None, lsa.nbrs}
    <3>1. lsa.nbrs \ adjacencies[o] \in SUBSET Routers
      BY <1>1
    <3> QED BY <2>2, <3>1 DEF RecordChange, TypeOK
  <2> QED BY <2>1, <2>2
<1>5. settled \subseteq Routers /\ awaiting \cup gained \in SUBSET Routers
  BY DEF TypeOK, Settled, SettledOf
<1>6. /\ lsdb' = db
      /\ ownAdjLsaExist' = own
      /\ adjacencies' = [adjacencies EXCEPT ![o] = lsa.nbrs]
      /\ pending' = [r \in Routers |-> IF r \in settled THEN None ELSE pend[r]]
      /\ CalculateNow(db, b, own, settled, awaiting \cup gained)
  BY Zenon DEF OnInstalled
<1>7. adjacencies' \in [Routers -> (SUBSET Routers) \cup {None}]
  BY <1>1, <1>6 DEF TypeOK
<1>8. pending' \in [Routers -> (SUBSET Routers) \cup {None}]
  BY <1>4, <1>6
<1> HIDE DEF db, own, pend, settled, gained
<1>9. /\ calcTimer' \in BOOLEAN
      /\ refused' \in {"none", "awaitsBuild", "forgotten"}
      /\ table' = db \/ table' = table
      /\ announced' \subseteq awaiting \cup gained
      /\ awaiting' \subseteq awaiting \cup gained
      /\ announced' # {} => table' = db /\ own
      /\ calcTimer' \/ table' = db \/ ~own
  BY <1>2, <1>3, <1>5, <1>6, CalculateNowEffect
<1>10. lsdb' = [lsdb EXCEPT ![o] = lsa]
  BY <1>6 DEF db
<1> QED BY <1>2, <1>3, <1>5, <1>6, <1>7, <1>8, <1>9, <1>10 DEF TypeOK

(* After an installation no pending change is confirmed: all of those were *)
(* settled.                                                                *)
LEMMA InstalledPending ==
    ASSUME TypeOK, NEW o \in Routers, NEW lsa \in LsasOf(o),
           NEW b \in {"none", "scheduled", "held"}, OnInstalled(o, lsa, b)
    PROVE  PendingIsOpen'
<1> DEFINE db == [lsdb EXCEPT ![o] = lsa]
           pend == RecordChange(o, lsa.nbrs)
<1>1. /\ lsdb' = db
      /\ pending' = [r \in Routers |-> IF r \in Settled(db, pend, o) THEN None ELSE pend[r]]
  BY Zenon DEF OnInstalled
<1> HIDE DEF db, pend
<1> SUFFICES ASSUME NEW r \in Routers, pending'[r] # None
             PROVE  ~AreAllReciprocal(lsdb', r, pending'[r])
  BY DEF PendingIsOpen, AreAllReciprocal, DeclaresBack
<1>2. r \notin Settled(db, pend, o) /\ pending'[r] = pend[r] /\ pend[r] # None
  BY <1>1
<1>3. ~AreAllReciprocal(db, r, pend[r])
  BY <1>2 DEF Settled, SettledOf
<1> QED BY <1>1, <1>2, <1>3

-----------------------------------------------------------------------------
(* Removing an LSA.                                                        *)
LEMMA RemovedEffect ==
    ASSUME TypeOK, NEW o \in Routers, OnRemoved(o)
    PROVE  /\ lsdb' = [lsdb EXCEPT ![o] = None]
           /\ lsdb' \in Lsdbs
           /\ adjacencies' \in [Routers -> (SUBSET Routers) \cup {None}]
           /\ pending' \in [Routers -> (SUBSET Routers) \cup {None}]
           /\ PendingIsOpen => PendingIsOpen'
<1>1. /\ lsdb' = [lsdb EXCEPT ![o] = None]
      /\ lsdb' \in Lsdbs
      /\ adjacencies' \in [Routers -> (SUBSET Routers) \cup {None}]
      /\ pending' \in [Routers -> (SUBSET Routers) \cup {None}]
  BY DEF TypeOK, OnRemoved, Lsdbs
<1>2. ASSUME PendingIsOpen PROVE PendingIsOpen'
  <2> SUFFICES ASSUME NEW r \in Routers, pending'[r] # None
               PROVE  ~AreAllReciprocal(lsdb', r, pending'[r])
    BY DEF PendingIsOpen, AreAllReciprocal, DeclaresBack
  <2>1. r # o /\ pending'[r] = pending[r]
    BY DEF TypeOK, OnRemoved
  <2>2. PICK n \in pending[r] : ~DeclaresBack(lsdb, n, r)
    BY <1>2, <2>1 DEF PendingIsOpen, AreAllReciprocal
  <2>3. n \in Routers
    BY <2>1, <2>2 DEF TypeOK
  <2>4. ~DeclaresBack(lsdb', n, r)
    BY <1>1, <2>2, <2>3 DEF DeclaresBack, TypeOK, Lsdbs
  <2> QED BY <2>1, <2>2, <2>4 DEF AreAllReciprocal
<1> QED BY <1>1, <1>2

-----------------------------------------------------------------------------
(* The type invariant is kept by every step.                               *)
LEMMA TypeStep ==
    ASSUME TypeOK, [Next]_vars
    PROVE  TypeOK'
<1>1. ASSUME NEW o \in Others, NEW lsa \in LsasOf(o), InstallLsa(o, lsa)
      PROVE  TypeOK'
  <2>1. o \in Routers /\ build \in {"none", "scheduled", "held"} /\ OnInstalled(o, lsa, build)
    BY <1>1 DEF InstallLsa, Routers, TypeOK
  <2>2. build' \in {"none", "scheduled", "held"} /\ changes' \in Nat
    BY <1>1 DEF InstallLsa, Change, TypeOK
  <2> QED BY <2>1, <2>2, InstalledType DEF TypeOK
<1>2. ASSUME NEW o \in Others, RemoveLsa(o)
      PROVE  TypeOK'
  <2>1. o \in Routers /\ Self \in Routers /\ o # Self /\ OnRemoved(o)
    BY <1>2, ConstantsAssumption DEF RemoveLsa, Routers
  <2>2. lsdb'[Self] = lsdb[Self]
    BY <2>1, RemovedEffect DEF TypeOK, Lsdbs
  <2>3. /\ UNCHANGED <<build, calcTimer, ownAdjLsaExist, table, awaiting, refused>>
        /\ announced' = {} /\ changes' \in Nat
    BY <1>2 DEF RemoveLsa, Change, TypeOK
  <2> QED BY <2>1, <2>2, <2>3, RemovedEffect DEF TypeOK
<1>3. CASE ScheduleAdjLsaBuild \/ HoldAdjLsaBuild \/ ReleaseAdjLsaBuildHold \/ RemoveNothing
  BY <1>3 DEF TypeOK, ScheduleAdjLsaBuild, HoldAdjLsaBuild, ReleaseAdjLsaBuildHold,
              RemoveNothing, SetBuild, Change
<1>4. ASSUME NEW lsa \in LsasOf(Self), BuildOwnLsa(lsa)
      PROVE  TypeOK'
  <2>1. CASE lsdb[Self] # lsa
    <3>1. Self \in Routers /\ OnInstalled(Self, lsa, "none")
      BY <1>4, <2>1 DEF BuildOwnLsa, Routers
    <3>2. build' = "none" /\ changes' = changes
      BY <1>4 DEF BuildOwnLsa
    <3> QED BY <3>1, <3>2, InstalledType DEF TypeOK
  <2>2. CASE lsdb[Self] = lsa
    BY <1>4, <2>2 DEF BuildOwnLsa, TypeOK
  <2> QED BY <2>1, <2>2
<1>5. CASE RemoveOwnLsa
  <2>1. Self \in Routers /\ OnRemoved(Self)
    BY <1>5 DEF RemoveOwnLsa, Routers
  <2>2. lsdb'[Self] = None
    BY <2>1, RemovedEffect DEF TypeOK, Lsdbs
  <2>3. /\ build' = "none" /\ table' = None /\ ownAdjLsaExist' = FALSE
        /\ announced' = {} /\ UNCHANGED <<awaiting, calcTimer, refused, changes>>
    BY <1>5 DEF RemoveOwnLsa, ClearRoutingTable
  <2> QED BY <2>1, <2>2, <2>3, RemovedEffect DEF TypeOK
<1>6. CASE CalculationTimer
  <2>1. Calculate(lsdb, build, ownAdjLsaExist, awaiting)
    BY <1>6 DEF CalculationTimer
  <2>a. /\ lsdb \in Lsdbs /\ build \in {"none", "scheduled", "held"}
        /\ ownAdjLsaExist \in BOOLEAN /\ awaiting \in SUBSET Routers
    BY DEF TypeOK
  <2>2. /\ calcTimer' = FALSE /\ (table' = lsdb \/ table' = table)
        /\ announced' \subseteq awaiting /\ awaiting' \subseteq awaiting
        /\ refused' \in {"none", "awaitsBuild", "forgotten"}
    BY <2>1, <2>a, CalculateEffect
  <2> QED BY <1>6, <2>2 DEF CalculationTimer, TypeOK
<1>7. CASE UNCHANGED vars
  BY <1>7 DEF vars, TypeOK
<1> QED BY <1>1, <1>2, <1>3, <1>4, <1>5, <1>6, <1>7 DEF Next, BuildStep

(* No step leaves a confirmed change pending.                              *)
LEMMA PendingStep ==
    ASSUME TypeOK, PendingIsOpen, [Next]_vars
    PROVE  PendingIsOpen'
<1>1. ASSUME UNCHANGED <<lsdb, pending>> PROVE PendingIsOpen'
  BY <1>1 DEF PendingIsOpen, AreAllReciprocal, DeclaresBack
<1>2. ASSUME NEW o \in Others, NEW lsa \in LsasOf(o), InstallLsa(o, lsa)
      PROVE  PendingIsOpen'
  BY <1>2, InstalledPending DEF InstallLsa, Routers, TypeOK
<1>3. ASSUME NEW o \in Others, RemoveLsa(o) PROVE PendingIsOpen'
  BY <1>3, RemovedEffect DEF RemoveLsa, Routers
<1>4. ASSUME NEW lsa \in LsasOf(Self), BuildOwnLsa(lsa) PROVE PendingIsOpen'
  <2>1. CASE lsdb[Self] # lsa
    BY <1>4, <2>1, InstalledPending DEF BuildOwnLsa, Routers
  <2>2. CASE lsdb[Self] = lsa
    BY <1>1, <1>4, <2>2 DEF BuildOwnLsa
  <2> QED BY <2>1, <2>2
<1>5. CASE RemoveOwnLsa
  BY <1>5, RemovedEffect DEF RemoveOwnLsa, Routers
<1>6. CASE ScheduleAdjLsaBuild \/ HoldAdjLsaBuild \/ ReleaseAdjLsaBuildHold \/ RemoveNothing
  BY <1>1, <1>6 DEF ScheduleAdjLsaBuild, HoldAdjLsaBuild, ReleaseAdjLsaBuildHold,
                    RemoveNothing, SetBuild
<1>7. CASE CalculationTimer
  BY <1>1, <1>7 DEF CalculationTimer
<1>8. CASE UNCHANGED vars
  BY <1>1, <1>8 DEF vars
<1> QED BY <1>2, <1>3, <1>4, <1>5, <1>6, <1>7, <1>8 DEF Next, BuildStep

(* Every announcement comes out of a calculation over the LSDB as it is.   *)
LEMMA AnnouncedStep ==
    ASSUME TypeOK, AnnouncedIsCalculated, [Next]_vars
    PROVE  AnnouncedIsCalculated'
<1>1. ASSUME announced' = {} PROVE AnnouncedIsCalculated'
  BY <1>1 DEF AnnouncedIsCalculated
<1>2. ASSUME NEW o \in Others, NEW lsa \in LsasOf(o), InstallLsa(o, lsa)
      PROVE  AnnouncedIsCalculated'
  BY <1>2, InstalledType DEF InstallLsa, Routers, TypeOK, AnnouncedIsCalculated
<1>3. ASSUME NEW lsa \in LsasOf(Self), BuildOwnLsa(lsa)
      PROVE  AnnouncedIsCalculated'
  <2>1. CASE lsdb[Self] # lsa
    BY <1>3, <2>1, InstalledType DEF BuildOwnLsa, Routers, AnnouncedIsCalculated
  <2>2. CASE lsdb[Self] = lsa
    BY <1>1, <1>3, <2>2 DEF BuildOwnLsa
  <2> QED BY <2>1, <2>2
<1>4. CASE CalculationTimer
  <2>1. announced' # {} => table' = lsdb /\ ownAdjLsaExist
    BY <1>4, CalculateEffect DEF CalculationTimer, TypeOK
  <2> QED BY <1>4, <2>1 DEF CalculationTimer, AnnouncedIsCalculated
<1>5. CASE (\E o \in Others : RemoveLsa(o)) \/ RemoveOwnLsa
  BY <1>1, <1>5 DEF RemoveLsa, RemoveOwnLsa, ClearRoutingTable
<1>6. CASE ScheduleAdjLsaBuild \/ HoldAdjLsaBuild \/ ReleaseAdjLsaBuildHold \/ RemoveNothing
  BY <1>1, <1>6 DEF ScheduleAdjLsaBuild, HoldAdjLsaBuild, ReleaseAdjLsaBuildHold,
                    RemoveNothing, SetBuild
<1>7. CASE UNCHANGED vars
  BY <1>7 DEF vars, AnnouncedIsCalculated
<1> QED BY <1>2, <1>3, <1>4, <1>5, <1>6, <1>7 DEF Next, BuildStep

(* No step overlooks an LSA the routes do not reflect, except the build    *)
(* that finds nothing new while a refused calculation waits for it.        *)
LEMMA RoutedStep ==
    ASSUME TypeOK, NewLsaIsRoutedOrForgotten, [Next]_vars
    PROVE  NewLsaIsRoutedOrForgotten'
<1>1. ASSUME \/ calcTimer' \/ table' = lsdb' \/ ~ownAdjLsaExist'
             \/ refused' = "awaitsBuild" /\ build' # "none",
             lsdb' \in Lsdbs
      PROVE  NewLsaIsRoutedOrForgotten'
  <2>1. CASE table' = lsdb'
    BY <1>1, <2>1, NoneAssumption DEF NewLsaIsRoutedOrForgotten, Unrouted
  <2> QED BY <1>1, <2>1 DEF NewLsaIsRoutedOrForgotten
<1>2. ASSUME UNCHANGED <<lsdb, calcTimer, ownAdjLsaExist, table, refused>>,
             build' = build \/ build' # "none"
      PROVE  NewLsaIsRoutedOrForgotten'
  BY <1>2 DEF NewLsaIsRoutedOrForgotten, Unrouted
<1>3. ASSUME NEW o \in Others, NEW lsa \in LsasOf(o), InstallLsa(o, lsa)
      PROVE  NewLsaIsRoutedOrForgotten'
  BY <1>1, <1>3, InstalledType DEF InstallLsa, Routers, TypeOK
<1>4. ASSUME NEW o \in Others, RemoveLsa(o)
      PROVE  NewLsaIsRoutedOrForgotten'
  <2>1. lsdb' = [lsdb EXCEPT ![o] = None] /\ lsdb \in Lsdbs
    BY <1>4, RemovedEffect DEF RemoveLsa, Routers, TypeOK
  <2>2. UNCHANGED <<build, calcTimer, ownAdjLsaExist, table, refused>>
    BY <1>4 DEF RemoveLsa
  <2>3. ASSUME NEW r \in Routers, Unrouted(r)' PROVE Unrouted(r)
    BY <2>1, <2>2, <2>3 DEF Unrouted, Lsdbs
  <2> QED BY <2>2, <2>3 DEF NewLsaIsRoutedOrForgotten
<1>5. ASSUME NEW lsa \in LsasOf(Self), BuildOwnLsa(lsa)
      PROVE  NewLsaIsRoutedOrForgotten'
  <2>1. CASE lsdb[Self] # lsa
    BY <1>1, <1>5, <2>1, InstalledType DEF BuildOwnLsa, Routers
  <2>2. CASE lsdb[Self] = lsa
    <3>1. /\ UNCHANGED <<lsdb, calcTimer, ownAdjLsaExist, table>>
          /\ refused' = IF refused = "awaitsBuild" THEN "forgotten" ELSE refused
      BY <1>5, <2>2 DEF BuildOwnLsa
    <3> QED BY <3>1 DEF NewLsaIsRoutedOrForgotten, Unrouted
  <2> QED BY <2>1, <2>2
<1>6. CASE RemoveOwnLsa \/ RemoveNothing
  <2>1. ~ownAdjLsaExist'
    BY <1>6 DEF RemoveOwnLsa, RemoveNothing, ClearRoutingTable, SetBuild, TypeOK
  <2> QED BY <2>1 DEF NewLsaIsRoutedOrForgotten
<1>7. CASE CalculationTimer
  <2>1. /\ lsdb \in Lsdbs /\ build \in {"none", "scheduled", "held"}
        /\ ownAdjLsaExist \in BOOLEAN /\ awaiting \in SUBSET Routers
    BY DEF TypeOK
  <2>2. \/ table' = lsdb \/ ~ownAdjLsaExist
        \/ build = "scheduled" /\ refused' = "awaitsBuild"
    BY <1>7, <2>1, CalculateEffect DEF CalculationTimer
  <2> QED BY <1>1, <1>7, <2>1, <2>2 DEF CalculationTimer
<1>8. CASE ScheduleAdjLsaBuild \/ HoldAdjLsaBuild \/ ReleaseAdjLsaBuildHold
  BY <1>2, <1>8 DEF ScheduleAdjLsaBuild, HoldAdjLsaBuild, ReleaseAdjLsaBuildHold, SetBuild
<1>9. CASE UNCHANGED vars
  BY <1>2, <1>9 DEF vars
<1> QED BY <1>3, <1>4, <1>5, <1>6, <1>7, <1>8, <1>9 DEF Next, BuildStep

-----------------------------------------------------------------------------
(* The variables keep their types and m_ownAdjLsaExist says whether the    *)
(* LSDB holds the own LSA, in every reachable state.                       *)
THEOREM TypeCorrectness == Spec => []TypeOK
<1>1. Init => TypeOK
  <2> SUFFICES ASSUME Init PROVE TypeOK
    OBVIOUS
  <2>1. Self \in Routers /\ lsdb \in Lsdbs /\ lsdb[Self] = None
    BY DEF Init, Lsdbs, Routers
  <2>2. ownAdjLsaExist = (lsdb[Self] # None)
    BY <2>1 DEF Init
  <2> QED BY <2>1, <2>2 DEF Init, TypeOK
<1>2. TypeOK /\ [Next]_vars => TypeOK'
  BY TypeStep
<1> QED BY <1>1, <1>2, PTL DEF Spec

(* evaluatePending leaves no confirmed change behind, in whatever order    *)
(* the LSAs of the two ends of a new link come and go.                     *)
THEOREM OpenPending == Spec => []PendingIsOpen
<1>1. Init => PendingIsOpen
  BY DEF Init, PendingIsOpen
<1>2. TypeOK /\ PendingIsOpen /\ [Next]_vars => PendingIsOpen'
  BY PendingStep
<1> QED BY <1>1, <1>2, TypeCorrectness, PTL DEF Spec

(* A new path is announced only by a calculation over the current LSDB.    *)
THEOREM CalculatedAnnouncements == Spec => []AnnouncedIsCalculated
<1>1. Init => AnnouncedIsCalculated
  BY DEF Init, AnnouncedIsCalculated
<1>2. TypeOK /\ AnnouncedIsCalculated /\ [Next]_vars => AnnouncedIsCalculated'
  BY AnnouncedStep
<1> QED BY <1>1, <1>2, TypeCorrectness, PTL DEF Spec

(* Skipping a calculation while a build is scheduled loses an LSA in one  *)
(* case only: the build the calculation was skipped for finds nothing new. *)
(* The proof is by induction: NewLsaIsRoutedOrForgotten is inductive given *)
(* TypeOK, because it ties the build to a calculation refused for it.      *)
THEOREM RoutedLsas == Spec => []NewLsaIsRoutedOrForgotten
<1>1. Init => NewLsaIsRoutedOrForgotten
  BY DEF Init, NewLsaIsRoutedOrForgotten
<1>2. TypeOK /\ NewLsaIsRoutedOrForgotten /\ [Next]_vars => NewLsaIsRoutedOrForgotten'
  BY RoutedStep
<1> QED BY <1>1, <1>2, TypeCorrectness, PTL DEF Spec
=============================================================================
