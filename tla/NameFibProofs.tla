---------------------------- MODULE NameFibProofs ----------------------------
(***************************************************************************)
(* Proofs about NameFib for any routers, names and next hops.  The table   *)
(* follows the LSDB only by way of m_prefixSources, and the FIB follows    *)
(* the routes only by way of the pool: both detours are parts of the       *)
(* inductive invariant.                                                    *)
(***************************************************************************)
EXTENDS NameFib, FiniteSetTheorems, TLAPS

SourcesMirrorLsdb ==
    \A p \in Prefixes : \A d \in Dests :
       /\ Entry(p, d, "adjacency") \in sources <=> p = d /\ d \in adjLsa
       /\ Entry(p, d, "name") \in sources <=>
             nameLsa[d] # None /\ (p = d \/ p \in Advertised(nameLsa[d]))

TableMirrorsSources ==
    \A p \in Prefixes : \A d \in Dests : d \in rtes[p] <=> Sourced(sources, p, d)

PoolIsCurrent == \A d \in Dests : pool[d] # None => pool[d] = routes[d]

IInv ==
    /\ TypeOK
    /\ SourcesMirrorLsdb
    /\ TableMirrorsSources
    /\ PoolMirrorsTable
    /\ PoolIsCurrent
    /\ FibIsCurrent

(* Next hop lists that agree on the routers of a prefix give it the same   *)
(* next hops.                                                              *)
LEMMA SameNhl ==
    ASSUME NEW ds, NEW pl, NEW rt, \A d \in ds : pl[d] = rt[d]
    PROVE  GenerateNhl(ds, pl) = GenerateNhl(ds, rt)
<1>1. UNION {pl[d] : d \in ds} = UNION {rt[d] : d \in ds}
  OBVIOUS
<1> QED BY <1>1 DEF GenerateNhl

(* For a prefix that is no neighbour's, update and remove are one.         *)
LEMMA FibFacesNotNeighbor ==
    ASSUME NEW p, p \notin Neighbors, NEW hops
    PROVE  FibFaces(p, hops) = FacesOf(First(hops, MaxFacesPerPrefix))
<1>1. CASE hops = {}
  <2>1. First(hops, MaxFacesPerPrefix) = {}
    BY <1>1 DEF First
  <2> QED BY <1>1, <2>1 DEF FibFaces, FacesOf
<1>2. CASE hops # {}
  BY <1>2 DEF FibFaces
<1> QED BY <1>1, <1>2

(* Configured routers and advertised names are finitely many.              *)
LEMMA PrefixesFinite == IsFiniteSet(Prefixes)
<1>1. IsFiniteSet(Names \ {OwnName})
  BY ConstantsAssumption, FS_Difference
<1> QED BY <1>1, ConstantsAssumption, FS_Union DEF Prefixes

(* What a list of additions and removals does to a use count.              *)
LEMMA CountUses ==
    ASSUME NEW before \in SUBSET Prefixes, NEW A \in SUBSET Prefixes, NEW R \in SUBSET Prefixes,
           A \cap R = {}
    PROVE  /\ Cardinality((before \cup A) \ R)
                 = Cardinality(before) + Cardinality(A \ before) - Cardinality(R \cap before)
           /\ Cardinality((before \cup A) \ R) \in Nat
<1>1. IsFiniteSet(before) /\ IsFiniteSet(A \ before) /\ IsFiniteSet(before \cup A)
  BY PrefixesFinite, FS_Subset
<1>2. before \cup A = before \cup (A \ before) /\ before \cap (A \ before) = {}
  OBVIOUS
<1>3. Cardinality(before \cup A) = Cardinality(before) + Cardinality(A \ before)
  <2>1. Cardinality(before \cup (A \ before))
           = Cardinality(before) + Cardinality(A \ before) - Cardinality(before \cap (A \ before))
    BY <1>1, FS_Union
  <2>2. Cardinality(before \cap (A \ before)) = 0
    BY <1>2, FS_EmptySet
  <2>3. Cardinality(before) \in Nat /\ Cardinality(A \ before) \in Nat
    BY <1>1, FS_CardinalityType
  <2> DEFINE b == Cardinality(before)
             a == Cardinality(A \ before)
             c == Cardinality(before \cap (A \ before))
             u == Cardinality(before \cup A)
  <2>4. b \in Nat /\ a \in Nat /\ c = 0 /\ u = b + a - c
    BY <1>2, <2>1, <2>2, <2>3
  <2> HIDE DEF a, b, c, u
  <2>5. u = b + a
    BY <2>4
  <2> QED BY <2>5 DEF u, a, b
<1>4. Cardinality((before \cup A) \ R)
         = Cardinality(before \cup A) - Cardinality((before \cup A) \cap R)
  BY <1>1, FS_Difference
<1>5. (before \cup A) \cap R = R \cap before
  OBVIOUS
<1>6. IsFiniteSet((before \cup A) \ R)
  BY PrefixesFinite, FS_Subset
<1>7. Cardinality((before \cup A) \ R) \in Nat
  BY <1>6, FS_CardinalityType
<1>8. Cardinality((before \cup A) \ R)
         = Cardinality(before) + Cardinality(A \ before) - Cardinality(R \cap before)
  <2>1. Cardinality((before \cup A) \cap R) = Cardinality(R \cap before)
    BY <1>5
  <2> DEFINE b == Cardinality(before)
             a == Cardinality(A \ before)
             r == Cardinality(R \cap before)
             u == Cardinality(before \cup A)
             n == Cardinality((before \cup A) \ R)
  <2>2. u = b + a /\ n = u - r
    BY <1>3, <1>4, <2>1
  <2>3. b \in Nat /\ a \in Nat /\ r \in Nat
    BY <1>1, PrefixesFinite, FS_Subset, FS_CardinalityType
  <2> HIDE DEF a, b, r, u, n
  <2>4. n = b + a - r
    BY <2>2, <2>3
  <2> QED BY <2>4 DEF a, b, r, n
<1> QED BY <1>7, <1>8

-----------------------------------------------------------------------------
(* SetEntries under what UpdateEntries guarantees: additions are new,      *)
(* removals are there.                                                     *)
LEMMA SetEntriesKeeps ==
    ASSUME TypeOK, PoolMirrorsTable, PoolIsCurrent, FibIsCurrent,
           NEW d \in Dests, NEW A \in SUBSET Prefixes, NEW R \in SUBSET Prefixes,
           A \cap R = {}, SetEntries(d, A, R), routes' = routes
    PROVE  /\ rtes' = [p \in Prefixes |-> IF p \in A THEN rtes[p] \cup {d}
                                          ELSE IF p \in R THEN rtes[p] \ {d} ELSE rtes[p]]
           /\ rtes' \in [Prefixes -> SUBSET Dests]
           /\ pool' \in [Dests -> HopLists \cup {None}]
           /\ uses' \in [Dests -> Nat]
           /\ refs' \in [Dests -> SUBSET Prefixes]
           /\ DOMAIN fib' = Prefixes
           /\ PoolMirrorsTable' /\ PoolIsCurrent' /\ FibIsCurrent'
<1> DEFINE rt == [p \in Prefixes |->
                    IF p \in A THEN rtes[p] \cup {d}
                    ELSE IF p \in R THEN rtes[p] \ {d} ELSE rtes[p]]
           before == {p \in Prefixes : d \in rtes[p]}
           used == {p \in Prefixes : d \in rt[p]}
           hops == IF pool[d] # None THEN pool[d] ELSE routes[d]
           pl == [pool EXCEPT ![d] = IF InPool(d, used) THEN hops ELSE None]
<1>1. /\ rtes' = rt /\ pool' = pl
      /\ uses' = [uses EXCEPT ![d] = @ + Cardinality(A \ before) - Cardinality(R \cap before)]
      /\ refs' = [refs EXCEPT ![d] = (@ \cup A) \ R]
      /\ RefreshFib(A \cup R, rt, pl)
  BY Zenon DEF SetEntries
<1>2. rt \in [Prefixes -> SUBSET Dests]
  BY DEF TypeOK
<1>3. used = (before \cup A) \ R /\ before \in SUBSET Prefixes
  OBVIOUS
<1>4. refs[d] = before /\ uses[d] = Cardinality(before)
  BY DEF PoolMirrorsTable
<1>5. \A e \in Dests : refs'[e] = IF e = d THEN used ELSE refs[e]
  BY <1>1, <1>3, <1>4 DEF TypeOK
<1>6. \A e \in Dests : uses'[e] = IF e = d THEN Cardinality(used) ELSE uses[e]
  <2> HIDE DEF before, used
  <2>1. Cardinality(used) = Cardinality(before) + Cardinality(A \ before) - Cardinality(R \cap before)
    <3>1. Cardinality((before \cup A) \ R)
             = Cardinality(before) + Cardinality(A \ before) - Cardinality(R \cap before)
      BY <1>3, CountUses
    <3> QED BY <1>3, <3>1
  <2> HIDE DEF before, used
  <2> QED BY <1>1, <1>4, <2>1 DEF TypeOK
<1>7. Cardinality(used) \in Nat
  BY <1>3, CountUses
<1>8. \A e \in Dests : pool'[e] = IF e = d THEN (IF used # {} THEN routes[d] ELSE None) ELSE pool[e]
  <2>1. hops = routes[d]
    BY DEF PoolIsCurrent
  <2> HIDE DEF used, hops
  <2> QED BY <1>1, <2>1 DEF TypeOK, InPool
<1>9. \A e \in Dests : {p \in Prefixes : e \in rt[p]} =
                          IF e = d THEN used ELSE {p \in Prefixes : e \in rtes[p]}
  OBVIOUS
<1>10. routes[d] \in HopLists /\ routes[d] # None
  BY ConstantsAssumption DEF TypeOK
<1>11. pool' \in [Dests -> HopLists \cup {None}] /\ refs' \in [Dests -> SUBSET Prefixes]
  <2>1. pool' \in [Dests -> HopLists \cup {None}]
    <3> HIDE DEF used
    <3>1. hops \in HopLists \cup {None}
      BY <1>10 DEF TypeOK
    <3> QED BY <1>1, <3>1 DEF TypeOK
  <2>2. (refs[d] \cup A) \ R \in SUBSET Prefixes
    BY <1>4
  <2> QED BY <1>1, <2>1, <2>2 DEF TypeOK
<1>12. uses' \in [Dests -> Nat]
  <2>1. DOMAIN uses' = Dests /\ uses' = [e \in Dests |-> uses'[e]]
    BY <1>1 DEF TypeOK
  <2>2. \A e \in Dests : uses'[e] \in Nat
    BY <1>6, <1>7 DEF TypeOK
  <2> QED BY <2>1, <2>2
<1>13. PoolMirrorsTable'
  <2> SUFFICES ASSUME NEW e \in Dests
               PROVE  /\ refs'[e] = {p \in Prefixes : e \in rtes'[p]}
                      /\ uses'[e] = Cardinality(refs'[e])
                      /\ pool'[e] = None <=> refs'[e] = {}
    BY DEF PoolMirrorsTable
  <2>1. CASE e = d
    <3> HIDE DEF used, rt
    <3> QED BY <1>1, <1>5, <1>6, <1>8, <1>9, <1>10, <2>1
  <2>2. CASE e # d
    <3>1. /\ refs[e] = {p \in Prefixes : e \in rtes[p]}
          /\ uses[e] = Cardinality(refs[e])
          /\ pool[e] = None <=> refs[e] = {}
      BY DEF PoolMirrorsTable
    <3> HIDE DEF used, rt
    <3> QED BY <1>1, <1>5, <1>6, <1>8, <1>9, <2>2, <3>1
  <2> QED BY <2>1, <2>2
<1>14. PoolIsCurrent'
  <2> HIDE DEF used
  <2> QED BY <1>8 DEF PoolIsCurrent
<1>15. FibIsCurrent'
  <2> SUFFICES ASSUME NEW p \in Prefixes \ Neighbors
               PROVE  fib'[p] = FacesOf(First(GenerateNhl(rtes'[p], routes), MaxFacesPerPrefix))
    BY Zenon DEF FibIsCurrent
  <2>1. CASE p \in A \cup R
    <3>1. fib'[p] = FibFaces(p, GenerateNhl(rt[p], pl))
      <4> HIDE DEF rt, pl
      <4> QED BY <1>1, <2>1 DEF RefreshFib
    <3>2. \A e \in rt[p] : pl[e] = routes[e]
      <4> SUFFICES ASSUME NEW e \in rt[p] PROVE pool'[e] = routes[e]
        BY <1>1
      <4>1. e \in Dests
        BY <1>2
      <4>2. CASE e = d
        <5>1. p \in used
          BY <4>2
        <5> QED BY <1>8, <4>2, <5>1
      <4>3. CASE e # d
        <5>1. p \in refs[e]
          BY <4>1, <4>3 DEF PoolMirrorsTable
        <5>2. pool[e] # None
          BY <4>1, <5>1 DEF PoolMirrorsTable
        <5> QED BY <1>8, <4>1, <4>3, <5>2 DEF PoolIsCurrent
      <4> QED BY <4>2, <4>3
    <3> HIDE DEF rt, pl
    <3>3. GenerateNhl(rt[p], pl) = GenerateNhl(rt[p], routes)
      BY <3>2, SameNhl
    <3> QED BY <1>1, <3>1, <3>3, FibFacesNotNeighbor
  <2>2. CASE p \notin A \cup R
    <3>1. fib'[p] = fib[p]
      <4> HIDE DEF rt, pl
      <4> QED BY <1>1, <2>2 DEF RefreshFib
    <3>2. rtes'[p] = rtes[p]
      BY <1>1, <2>2
    <3> QED BY <3>1, <3>2 DEF FibIsCurrent
  <2> QED BY <2>1, <2>2
<1>16. DOMAIN fib' = Prefixes
  <2> HIDE DEF rt, pl
  <2> QED BY <1>1 DEF RefreshFib
<1> QED BY <1>1, <1>2, <1>11, <1>12, <1>13, <1>14, <1>15, <1>16

-----------------------------------------------------------------------------
SourcesAfter(d, s, add, remove) ==
    \A p \in Prefixes, e \in Dests, t \in Sources :
       Entry(p, e, t) \in sources' <=>
          IF e = d /\ t = s THEN (p \in add \/ Entry(p, e, t) \in sources) /\ p \notin remove
          ELSE Entry(p, e, t) \in sources

(* The part of the invariant that does not mention the LSDB.               *)
TableInv ==
    /\ sources \subseteq [prefix : Prefixes, dest : Dests, source : Sources]
    /\ rtes \in [Prefixes -> SUBSET Dests]
    /\ pool \in [Dests -> HopLists \cup {None}]
    /\ uses \in [Dests -> Nat]
    /\ refs \in [Dests -> SUBSET Prefixes]
    /\ DOMAIN fib = Prefixes
    /\ TableMirrorsSources /\ PoolMirrorsTable /\ PoolIsCurrent /\ FibIsCurrent

(* UpdateEntries keeps the table in step with the sources, and all that    *)
(* SetEntries keeps.                                                       *)
LEMMA UpdateEntriesKeeps ==
    ASSUME IInv, NEW d \in Dests, NEW s \in Sources,
           NEW add \in SUBSET Prefixes, NEW remove \in SUBSET Prefixes,
           add \cap remove = {}, UpdateEntries(d, s, add, remove), routes' = routes
    PROVE  SourcesAfter(d, s, add, remove) /\ TableInv'
<1> DEFINE gone == {Entry(p, d, s) : p \in remove}
           srcs == (sources \cup {Entry(p, d, s) : p \in add}) \ gone
           A == {p \in add : ~Sourced(sources, p, d)}
           R == {p \in remove : Entry(p, d, s) \in sources /\ RemoveLastSource(srcs, p, d)}
<1>1. sources' = srcs /\ SetEntries(d, A, R)
  BY Zenon DEF UpdateEntries
<1>2. A \in SUBSET Prefixes /\ R \in SUBSET Prefixes /\ A \cap R = {}
  OBVIOUS
<1>3. /\ rtes' = [p \in Prefixes |-> IF p \in A THEN rtes[p] \cup {d}
                                     ELSE IF p \in R THEN rtes[p] \ {d} ELSE rtes[p]]
      /\ rtes' \in [Prefixes -> SUBSET Dests]
      /\ pool' \in [Dests -> HopLists \cup {None}]
      /\ uses' \in [Dests -> Nat]
      /\ refs' \in [Dests -> SUBSET Prefixes]
      /\ DOMAIN fib' = Prefixes
      /\ PoolMirrorsTable' /\ PoolIsCurrent' /\ FibIsCurrent'
  <2> HIDE DEF A, R
  <2> QED BY <1>1, <1>2, SetEntriesKeeps DEF IInv
<1>4. sources' \subseteq [prefix : Prefixes, dest : Dests, source : Sources]
  BY <1>1 DEF IInv, TypeOK, Entry
<1>5. \A p \in Prefixes, e \in Dests, t \in Sources :
         Entry(p, e, t) \in sources' <=>
            IF e = d /\ t = s THEN (p \in add \/ Entry(p, e, t) \in sources) /\ p \notin remove
            ELSE Entry(p, e, t) \in sources
  BY <1>1 DEF Entry
<1>6. TableMirrorsSources'
  <2> SUFFICES ASSUME NEW p \in Prefixes, NEW e \in Dests
               PROVE  e \in rtes'[p] <=> Sourced(sources', p, e)
    BY Zenon DEF TableMirrorsSources
  <2>1. e \in rtes[p] <=> Sourced(sources, p, e)
    BY DEF IInv, TableMirrorsSources
  <2>2. CASE e # d
    <3>1. e \in rtes'[p] <=> e \in rtes[p]
      <4> HIDE DEF A, R
      <4> QED BY <1>3, <2>2
    <3>2. Sourced(sources', p, e) <=> Sourced(sources, p, e)
      BY <1>5, <2>2 DEF Sourced
    <3> QED BY <2>1, <3>1, <3>2
  <2>3. CASE e = d /\ p \in add
    <3>1. Sourced(sources', p, e)
      BY <1>5, <2>3 DEF Sourced
    <3>2. p \in A <=> ~Sourced(sources, p, e)
      BY <2>3
    <3>3. p \notin R
      BY <2>3
    <3> HIDE DEF A, R
    <3> QED BY <1>3, <2>1, <2>3, <3>1, <3>2, <3>3
  <2>4. CASE e = d /\ p \in remove
    <3>1. p \notin A
      BY <2>4
    <3>2. p \in R <=> Entry(p, e, s) \in sources /\ ~Sourced(sources', p, e)
      BY <1>1, <2>4 DEF RemoveLastSource
    <3>3. Entry(p, e, s) \in sources => Sourced(sources, p, e)
      BY DEF Sourced
    <3>4. Sourced(sources', p, e) => Sourced(sources, p, e)
      BY <1>5, <2>4 DEF Sourced
    <3>5. Entry(p, e, s) \notin sources => (Sourced(sources', p, e) <=> Sourced(sources, p, e))
      BY <1>5, <2>4 DEF Sourced
    <3>6. e \in rtes'[p] <=> e \in rtes[p] /\ p \notin R
      <4> HIDE DEF A, R
      <4> QED BY <1>3, <2>4, <3>1
    <3> HIDE DEF A, R
    <3> QED BY <2>1, <3>2, <3>3, <3>4, <3>5, <3>6
  <2>5. CASE e = d /\ p \notin add /\ p \notin remove
    <3>1. Sourced(sources', p, e) <=> Sourced(sources, p, e)
      BY <1>5, <2>5 DEF Sourced
    <3>2. p \notin A /\ p \notin R
      BY <2>5
    <3> HIDE DEF A, R
    <3> QED BY <1>3, <2>1, <3>1, <3>2
  <2> QED BY <2>2, <2>3, <2>4, <2>5
<1> HIDE DEF A, R
<1> QED BY <1>3, <1>4, <1>5, <1>6 DEF SourcesAfter, TableInv

-----------------------------------------------------------------------------
(* The tables are empty before the first signal of Lsdb.                   *)
LEMMA InitInv == Init => IInv
<1> SUFFICES ASSUME Init PROVE IInv
  OBVIOUS
<1> USE DEF Init
<1>1. TypeOK
  BY DEF TypeOK, HopLists
<1>2. SourcesMirrorLsdb /\ TableMirrorsSources
  BY DEF SourcesMirrorLsdb, TableMirrorsSources, Sourced
<1>3. PoolMirrorsTable
  BY FS_EmptySet DEF PoolMirrorsTable
<1>4. PoolIsCurrent
  BY DEF PoolIsCurrent
<1>5. FibIsCurrent
  <2> SUFFICES ASSUME NEW p \in Prefixes \ Neighbors
               PROVE  {} = FacesOf(First(GenerateNhl({}, routes), MaxFacesPerPrefix))
    BY DEF FibIsCurrent
  <2>1. GenerateNhl({}, routes) = {}
    BY DEF GenerateNhl, Cheapest
  <2>2. First({}, MaxFacesPerPrefix) = {}
    BY DEF First
  <2> QED BY <2>1, <2>2 DEF FacesOf
<1> QED BY <1>1, <1>2, <1>3, <1>4, <1>5 DEF IInv

(* A calculation touches no entry of the table; every prefix that uses a   *)
(* pool entry with other next hops than before is brought to the FIB.      *)
LEMMA NewRouteKeeps ==
    ASSUME IInv, NEW new \in [Dests -> HopLists], UpdateWithNewRoute(new)
    PROVE  IInv'
<1> DEFINE changed == {d \in Dests : IsRerouted(d, new)}
           pl == [d \in Dests |-> IF d \in changed THEN new[d] ELSE pool[d]]
           touched == UNION {refs[d] : d \in changed}
<1>1. /\ routes' = new /\ pool' = pl /\ RefreshFib(touched, rtes, pl)
      /\ UNCHANGED <<nameLsa, adjLsa, sources, rtes, uses, refs>>
  BY Zenon DEF UpdateWithNewRoute
<1>2. \A d \in Dests : pool[d] # None => d \in changed \/ pool[d] = new[d]
  BY DEF IsRerouted
<1>3. \A d \in Dests : pool[d] = None => d \notin changed
  BY DEF IsRerouted
<1>4. \A d \in Dests : new[d] \in HopLists /\ new[d] # None
  BY ConstantsAssumption
<1>5. \A d \in Dests : /\ pool'[d] = None <=> pool[d] = None
                       /\ pool'[d] # None => pool'[d] = new[d]
  <2> HIDE DEF changed
  <2> QED BY <1>1, <1>2, <1>3, <1>4
<1>6. TypeOK'
  <2>1. pl \in [Dests -> HopLists \cup {None}]
    <3> HIDE DEF changed
    <3> QED BY <1>4 DEF IInv, TypeOK
  <2>2. DOMAIN fib' = Prefixes
    <3> HIDE DEF touched, pl
    <3> QED BY <1>1 DEF RefreshFib
  <2> HIDE DEF pl
  <2> QED BY <1>1, <2>1, <2>2 DEF IInv, TypeOK
<1>7. SourcesMirrorLsdb' /\ TableMirrorsSources'
  BY <1>1 DEF IInv, SourcesMirrorLsdb, TableMirrorsSources, Sourced, Advertised
<1>8. PoolMirrorsTable' /\ PoolIsCurrent'
  <2> HIDE DEF changed, pl
  <2> QED BY <1>1, <1>5 DEF IInv, PoolMirrorsTable, PoolIsCurrent
<1>9. FibIsCurrent'
  <2> SUFFICES ASSUME NEW p \in Prefixes \ Neighbors
               PROVE  fib'[p] = FacesOf(First(GenerateNhl(rtes[p], new), MaxFacesPerPrefix))
    <3> HIDE DEF touched, pl
    <3> QED BY Zenon, <1>1 DEF FibIsCurrent
  <2>1. \A d \in rtes[p] : d \in Dests /\ p \in refs[d] /\ pool[d] # None
    BY DEF IInv, TypeOK, PoolMirrorsTable
  <2>2. CASE p \in touched
    <3>1. fib'[p] = FibFaces(p, GenerateNhl(rtes[p], pl))
      <4> HIDE DEF touched, pl
      <4> QED BY <1>1, <2>2 DEF RefreshFib
    <3>2. \A d \in rtes[p] : pl[d] = new[d]
      <4> HIDE DEF pl, changed
      <4> QED BY <1>1, <1>5, <2>1
    <3> HIDE DEF pl
    <3>3. GenerateNhl(rtes[p], pl) = GenerateNhl(rtes[p], new)
      BY <3>2, SameNhl
    <3> QED BY <3>1, <3>3, FibFacesNotNeighbor
  <2>3. CASE p \notin touched
    <3>1. fib'[p] = fib[p]
      <4> HIDE DEF touched, pl
      <4> QED BY <1>1, <2>3 DEF RefreshFib
    <3>2. \A d \in rtes[p] : d \notin changed
      BY <2>1, <2>3
    <3>3. \A d \in rtes[p] : routes[d] = new[d]
      <4> HIDE DEF changed
      <4> QED BY <1>2, <2>1, <3>2 DEF IInv, PoolIsCurrent
    <3>4. GenerateNhl(rtes[p], routes) = GenerateNhl(rtes[p], new)
      BY <3>3, SameNhl
    <3> QED BY <3>1, <3>4 DEF IInv, FibIsCurrent
  <2> QED BY <2>2, <2>3
<1> QED BY <1>6, <1>7, <1>8, <1>9 DEF IInv
(* One step per LSA signal: UpdateEntriesKeeps leaves SourcesMirrorLsdb.   *)
LEMMA NextInv == IInv /\ [Next]_vars => IInv'
<1> SUFFICES ASSUME IInv, [Next]_vars PROVE IInv'
  OBVIOUS
<1>0. /\ Names \cap Dests = {} /\ \A ns \in SUBSET Names : ns # None
      /\ \A ns \in SUBSET Names : Advertised(ns) \in SUBSET Prefixes /\ Advertised(ns) \cap Dests = {}
      /\ Dests \subseteq Prefixes
  BY ConstantsAssumption DEF Advertised, Prefixes
<1>1. ASSUME NEW d \in Dests, NEW ns \in SUBSET Names, InstallNameLsa(d, ns)
      PROVE  IInv'
  <2>1. /\ nameLsa[d] = None /\ nameLsa' = [nameLsa EXCEPT ![d] = ns]
        /\ UpdateEntries(d, "name", {d} \cup Advertised(ns), {})
        /\ adjLsa' = adjLsa /\ routes' = routes
    BY <1>1 DEF InstallNameLsa
  <2>2. {d} \cup Advertised(ns) \in SUBSET Prefixes /\ "name" \in Sources
    BY <1>0 DEF Sources
  <2> DEFINE add == {d} \cup Advertised(ns)
             remove == {}
  <2>3. SourcesAfter(d, "name", add, remove) /\ TableInv'
    <3>1. {} \in SUBSET Prefixes
      OBVIOUS
    <3> QED BY Zenon, <2>1, <2>2, <3>1, UpdateEntriesKeeps
  <2>4. TypeOK'
    BY <2>1, <2>3 DEF IInv, TypeOK, TableInv
  <2>5. SourcesMirrorLsdb'
    BY <1>0, <2>1, <2>3 DEF IInv, TypeOK, SourcesMirrorLsdb, Sources, Advertised, SourcesAfter
  <2> QED BY <2>3, <2>4, <2>5 DEF IInv, TableInv
<1>2. ASSUME NEW d \in Dests, NEW ns \in SUBSET Names, UpdateNameLsa(d, ns)
      PROVE  IInv'
  <2>1. /\ nameLsa[d] # None /\ nameLsa' = [nameLsa EXCEPT ![d] = ns]
        /\ UpdateEntries(d, "name", Advertised(ns \ nameLsa[d]), Advertised(nameLsa[d] \ ns))
        /\ adjLsa' = adjLsa /\ routes' = routes
    BY <1>2 DEF UpdateNameLsa
  <2> DEFINE add == Advertised(ns \ nameLsa[d])
             remove == Advertised(nameLsa[d] \ ns)
  <2>2. /\ nameLsa[d] \in SUBSET Names /\ "name" \in Sources
        /\ add \in SUBSET Prefixes /\ remove \in SUBSET Prefixes /\ add \cap remove = {}
    BY <1>0, <2>1 DEF IInv, TypeOK, Sources, Advertised
  <2>3. SourcesAfter(d, "name", add, remove) /\ TableInv'
    <3>1. {} \in SUBSET Prefixes
      OBVIOUS
    <3> QED BY Zenon, <2>1, <2>2, <3>1, UpdateEntriesKeeps
  <2>4. TypeOK'
    BY <2>1, <2>3 DEF IInv, TypeOK, TableInv
  <2>5. SourcesMirrorLsdb'
    BY <1>0, <2>1, <2>2, <2>3 DEF IInv, TypeOK, SourcesMirrorLsdb, Sources, Advertised, SourcesAfter
  <2> QED BY <2>3, <2>4, <2>5 DEF IInv, TableInv
<1>3. ASSUME NEW d \in Dests, RemoveNameLsa(d)
      PROVE  IInv'
  <2>1. /\ nameLsa[d] # None /\ nameLsa' = [nameLsa EXCEPT ![d] = None]
        /\ UpdateEntries(d, "name", {}, {d} \cup Advertised(nameLsa[d]))
        /\ adjLsa' = adjLsa /\ routes' = routes
    BY <1>3 DEF RemoveNameLsa
  <2> DEFINE add == {}
             remove == {d} \cup Advertised(nameLsa[d])
  <2>2. /\ nameLsa[d] \in SUBSET Names /\ "name" \in Sources /\ remove \in SUBSET Prefixes
    BY <1>0, <2>1 DEF IInv, TypeOK, Sources
  <2>3. SourcesAfter(d, "name", add, remove) /\ TableInv'
    <3>1. {} \in SUBSET Prefixes
      OBVIOUS
    <3> QED BY Zenon, <2>1, <2>2, <3>1, UpdateEntriesKeeps
  <2>4. TypeOK'
    BY <2>1, <2>3 DEF IInv, TypeOK, TableInv
  <2>5. SourcesMirrorLsdb'
    BY <1>0, <2>1, <2>2, <2>3 DEF IInv, TypeOK, SourcesMirrorLsdb, Sources, Advertised, SourcesAfter
  <2> QED BY <2>3, <2>4, <2>5 DEF IInv, TableInv
<1>4. ASSUME NEW d \in Dests, InstallAdjLsa(d)
      PROVE  IInv'
  <2>1. /\ d \notin adjLsa /\ adjLsa' = adjLsa \cup {d}
        /\ UpdateEntries(d, "adjacency", {d}, {})
        /\ nameLsa' = nameLsa /\ routes' = routes
    BY <1>4 DEF InstallAdjLsa
  <2>2. {d} \in SUBSET Prefixes /\ "adjacency" \in Sources
    BY <1>0 DEF Sources
  <2>3. SourcesAfter(d, "adjacency", {d}, {}) /\ TableInv'
    <3>1. {} \in SUBSET Prefixes
      OBVIOUS
    <3> QED BY Zenon, <2>1, <2>2, <3>1, UpdateEntriesKeeps
  <2>4. TypeOK'
    BY <2>1, <2>3 DEF IInv, TypeOK, TableInv
  <2>5. SourcesMirrorLsdb'
    BY <1>0, <2>1, <2>3 DEF IInv, SourcesMirrorLsdb, Sources, Advertised, SourcesAfter
  <2> QED BY <2>3, <2>4, <2>5 DEF IInv, TableInv
<1>5. ASSUME NEW d \in Dests, RemoveAdjLsa(d)
      PROVE  IInv'
  <2>1. /\ d \in adjLsa /\ adjLsa' = adjLsa \ {d}
        /\ UpdateEntries(d, "adjacency", {}, {d})
        /\ nameLsa' = nameLsa /\ routes' = routes
    BY <1>5 DEF RemoveAdjLsa
  <2>2. {d} \in SUBSET Prefixes /\ "adjacency" \in Sources
    BY <1>0 DEF Sources
  <2>3. SourcesAfter(d, "adjacency", {}, {d}) /\ TableInv'
    <3>1. {} \in SUBSET Prefixes
      OBVIOUS
    <3> QED BY Zenon, <2>1, <2>2, <3>1, UpdateEntriesKeeps
  <2>4. TypeOK'
    BY <2>1, <2>3 DEF IInv, TypeOK, TableInv
  <2>5. SourcesMirrorLsdb'
    BY <1>0, <2>1, <2>3 DEF IInv, SourcesMirrorLsdb, Sources, Advertised, SourcesAfter
  <2> QED BY <2>3, <2>4, <2>5 DEF IInv, TableInv
<1>6. ASSUME NEW new \in [Dests -> HopLists], UpdateWithNewRoute(new)
      PROVE  IInv'
  BY <1>6, NewRouteKeeps
<1>7. CASE UNCHANGED vars
  BY <1>7 DEF vars, IInv, TypeOK, SourcesMirrorLsdb, TableMirrorsSources, PoolMirrorsTable,
              PoolIsCurrent, FibIsCurrent, Sourced, Advertised, GenerateNhl
<1> QED BY <1>1, <1>2, <1>3, <1>4, <1>5, <1>6, <1>7 DEF Next

(* The invariant of Lsdb's and RoutingTable's signals.                     *)
THEOREM Invariance == Spec => []IInv
BY InitInv, NextInv, PTL DEF Spec

(* The name prefix table, its pool and the FIB stay well typed.            *)
THEOREM TypeCorrectness == Spec => []TypeOK
<1>1. IInv => TypeOK
  BY DEF IInv
<1> QED BY Invariance, <1>1, PTL

(* updateFromLsdb keeps a router for a prefix exactly while an LSA of the  *)
(* router declares it.                                                     *)
THEOREM TableFollowsLsdb == Spec => []TableMirrorsLsdb
<1>1. IInv => TableMirrorsLsdb
  <2> SUFFICES ASSUME IInv, NEW p \in Prefixes, NEW d \in Dests
               PROVE  d \in rtes[p] <=> Declared(p, d)
    BY DEF TableMirrorsLsdb
  <2> QED BY DEF IInv, TableMirrorsSources, SourcesMirrorLsdb, Sourced, Sources, Declared
<1> QED BY Invariance, <1>1, PTL

(* The pool's entries, use counts and references match the table.          *)
THEOREM PoolFollowsTable == Spec => []PoolMirrorsTable
<1>1. IInv => PoolMirrorsTable
  BY DEF IInv
<1> QED BY Invariance, <1>1, PTL

(* The FIB holds the best faces of the current routes to the routers of    *)
(* each prefix that is no neighbour's.                                     *)
THEOREM FibFollowsRoutes == Spec => []FibIsCurrent
<1>1. IInv => FibIsCurrent
  BY DEF IInv
<1> QED BY Invariance, <1>1, PTL
=============================================================================
