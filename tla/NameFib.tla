------------------------------- MODULE NameFib -------------------------------
(***************************************************************************)
(* From LSAs and routes to the FIB (name-prefix-table.cpp with its entries *)
(* and its pool, and the calls it makes to fib.cpp).  An LSA makes its     *)
(* origin router a destination for its own prefix and for the names it     *)
(* advertises; a calculation gives every destination its next hops; each   *)
(* change is carried to the FIB entries it touches.                        *)
(*                                                                         *)
(* Lsdb and RoutingTable call in from one event loop: a step is one signal *)
(* of theirs, with all the entries it adds or removes.  These concern      *)
(* different names, so that their order within the step does not matter.   *)
(* What FIB entries record of costs, and what NFD makes of them, is the    *)
(* subject of FibRegistration; here an entry is the set of its faces.      *)
(***************************************************************************)
EXTENDS NextHops

CONSTANTS
    Dests,              \* the other routers; also their router prefixes
    Names,              \* names LSAs may advertise
    OwnName,            \* this router's prefix
    Neighbors,          \* routers that are configured neighbours
    Hops,               \* the next hops of calculations
    MaxFacesPerPrefix,
    None                \* no LSA, no pool entry

Prefixes == Dests \cup (Names \ {OwnName})

HopLists == {hops \in SUBSET Hops : \A g, h \in hops : g.face = h.face => g = h}

Sources == {"name", "adjacency"}

ASSUME ConstantsAssumption ==
    /\ Names \cap Dests = {} /\ OwnName \notin Dests
    /\ Neighbors \subseteq Dests
    /\ IsFiniteSet(Dests) /\ IsFiniteSet(Names)
    /\ Hops \subseteq [face : Nat, cost : Nat]
    /\ MaxFacesPerPrefix \in Nat
    /\ \A x \in (SUBSET Names) \cup HopLists : x # None

VARIABLES
    nameLsa,        \* names of the installed Name LSA of each router, or None
    adjLsa,         \* routers with an installed Adjacency LSA
    routes,         \* m_rTable: next hops by destination, {} for no entry
    sources,        \* m_prefixSources: the LSAs behind each prefix and router
    rtes,           \* m_table: destinations of each prefix, {} for no entry
    pool,           \* m_rtpool: next hops of each pool entry, or None
    uses,           \* use count of each pool entry
    refs,           \* namePrefixTableEntries of each pool entry
    fib             \* Fib::m_table: faces of each entry, {} for no entry

vars == <<nameLsa, adjLsa, routes, sources, rtes, pool, uses, refs, fib>>

(***************************************************************************)
(* Fib::update and Fib::remove: the first faces of the list; without any,  *)
(* the entry goes, unless the prefix is a neighbour's.                     *)
(***************************************************************************)
FibFaces(p, hops) ==
    IF hops = {} THEN (IF p \in Neighbors THEN fib[p] ELSE {})
    ELSE FacesOf(First(hops, MaxFacesPerPrefix))

(* generateNhlfromRteList over the pool.                                   *)
GenerateNhl(ds, pl) == Cheapest(UNION {pl[d] : d \in ds})

RefreshFib(touched, rt, pl) ==
    fib' = [p \in Prefixes |->
              IF p \in touched THEN FibFaces(p, GenerateNhl(rt[p], pl)) ELSE fib[p]]

(***************************************************************************)
(* addEntry and removeEntry of router d for several prefixes: rt is the    *)
(* new m_table.  A pool entry is made from the routing table and goes with *)
(* its last use.                                                           *)
(***************************************************************************)
KeepUnused(d, used) == pool[d] # None \/ used # {}
InPool(d, used) == used # {}

SetEntries(d, add, remove) ==
    LET rt == [p \in Prefixes |->
                 IF p \in add THEN rtes[p] \cup {d}
                 ELSE IF p \in remove THEN rtes[p] \ {d} ELSE rtes[p]]
        before == {p \in Prefixes : d \in rtes[p]}
        used == {p \in Prefixes : d \in rt[p]}
        hops == IF pool[d] # None THEN pool[d] ELSE routes[d]
        pl == [pool EXCEPT ![d] = IF InPool(d, used) THEN hops ELSE None]
    IN  /\ rtes' = rt
        /\ pool' = pl
        /\ uses' = [uses EXCEPT ![d] = @ + Cardinality(add \ before)
                                         - Cardinality(remove \cap before)]
        /\ refs' = [refs EXCEPT ![d] = (@ \cup add) \ remove]
        /\ RefreshFib(add \cup remove, rt, pl)

(* addEntryWithSource and removeEntryWithSource: only the first LSA behind *)
(* a prefix adds it, and only the last one removes it.                     *)
Entry(p, d, s) == [prefix |-> p, dest |-> d, source |-> s]

Sourced(srcs, p, d) == \E s \in Sources : Entry(p, d, s) \in srcs

RemoveAnySource(srcs, p, d) == TRUE
RemoveLastSource(srcs, p, d) == ~Sourced(srcs, p, d)

UpdateEntries(d, s, add, remove) ==
    LET gone == {Entry(p, d, s) : p \in remove}
        srcs == (sources \cup {Entry(p, d, s) : p \in add}) \ gone
    IN  /\ sources' = srcs
        /\ SetEntries(d, {p \in add : ~Sourced(sources, p, d)},
                         {p \in remove : /\ Entry(p, d, s) \in sources
                                         /\ RemoveLastSource(srcs, p, d)})

(***************************************************************************)
(* updateFromLsdb, one action per LSA type and update type.  Names equal   *)
(* to the own router's are skipped; an update of an Adjacency LSA does     *)
(* nothing here.                                                           *)
(***************************************************************************)
AdvertisedAll(ns) == ns
Advertised(ns) == ns \ {OwnName}

InstallNameLsa(d, ns) ==
    /\ nameLsa[d] = None
    /\ nameLsa' = [nameLsa EXCEPT ![d] = ns]
    /\ UpdateEntries(d, "name", {d} \cup Advertised(ns), {})
    /\ UNCHANGED <<adjLsa, routes>>

UpdateNameLsa(d, ns) ==
    /\ nameLsa[d] \notin {None, ns}
    /\ nameLsa' = [nameLsa EXCEPT ![d] = ns]
    /\ UpdateEntries(d, "name", Advertised(ns \ nameLsa[d]), Advertised(nameLsa[d] \ ns))
    /\ UNCHANGED <<adjLsa, routes>>

RemoveNameLsa(d) ==
    /\ nameLsa[d] # None
    /\ nameLsa' = [nameLsa EXCEPT ![d] = None]
    /\ UpdateEntries(d, "name", {}, {d} \cup Advertised(nameLsa[d]))
    /\ UNCHANGED <<adjLsa, routes>>

InstallAdjLsa(d) ==
    /\ d \notin adjLsa
    /\ adjLsa' = adjLsa \cup {d}
    /\ UpdateEntries(d, "adjacency", {d}, {})
    /\ UNCHANGED <<nameLsa, routes>>

RemoveAdjLsa(d) ==
    /\ d \in adjLsa
    /\ adjLsa' = adjLsa \ {d}
    /\ UpdateEntries(d, "adjacency", {}, {d})
    /\ UNCHANGED <<nameLsa, routes>>

(* updateWithNewRoute: pool entries whose next hops differ get the new     *)
(* ones, those without a route lose theirs, and their prefixes are         *)
(* brought to the FIB again.                                               *)
OnlyRouted(d, new) == pool[d] # None /\ new[d] # {} /\ new[d] # pool[d]
IsRerouted(d, new) == pool[d] # None /\ (new[d] = {} \/ new[d] # pool[d])

UpdateWithNewRoute(new) ==
    LET changed == {d \in Dests : IsRerouted(d, new)}
        pl == [d \in Dests |-> IF d \in changed THEN new[d] ELSE pool[d]]
    IN  /\ routes' = new
        /\ pool' = pl
        /\ RefreshFib(UNION {refs[d] : d \in changed}, rtes, pl)
        /\ UNCHANGED <<nameLsa, adjLsa, sources, rtes, uses, refs>>

Init ==
    /\ nameLsa = [d \in Dests |-> None]
    /\ adjLsa = {}
    /\ routes = [d \in Dests |-> {}]
    /\ sources = {}
    /\ rtes = [p \in Prefixes |-> {}]
    /\ pool = [d \in Dests |-> None]
    /\ uses = [d \in Dests |-> 0]
    /\ refs = [d \in Dests |-> {}]
    /\ fib = [p \in Prefixes |-> {}]

Next ==
    \/ \E d \in Dests :
         \/ \E ns \in SUBSET Names : InstallNameLsa(d, ns) \/ UpdateNameLsa(d, ns)
         \/ RemoveNameLsa(d)
         \/ InstallAdjLsa(d)
         \/ RemoveAdjLsa(d)
    \/ \E new \in [Dests -> HopLists] : UpdateWithNewRoute(new)

Spec == Init /\ [][Next]_vars

-----------------------------------------------------------------------------
(* Type invariant of the name prefix table and its pool.                   *)
TypeOK ==
    /\ nameLsa \in [Dests -> (SUBSET Names) \cup {None}]
    /\ adjLsa \subseteq Dests
    /\ routes \in [Dests -> HopLists]
    /\ sources \subseteq [prefix : Prefixes, dest : Dests, source : Sources]
    /\ rtes \in [Prefixes -> SUBSET Dests]
    /\ pool \in [Dests -> HopLists \cup {None}]
    /\ uses \in [Dests -> Nat]
    /\ refs \in [Dests -> SUBSET Prefixes]
    /\ DOMAIN fib = Prefixes

(* The table lists a router for a prefix exactly when an LSA of the router *)
(* stands behind it: an update or removal of one LSA takes away nothing    *)
(* another LSA still declares (m_prefixSources).                           *)
Declared(p, d) ==
    \/ p = d /\ (nameLsa[d] # None \/ d \in adjLsa)
    \/ nameLsa[d] # None /\ p \in Advertised(nameLsa[d])

TableMirrorsLsdb ==
    \A p \in Prefixes : \A d \in Dests : d \in rtes[p] <=> Declared(p, d)

(* The pool has an entry for the routers in use and only for them, counts  *)
(* its uses and knows the prefixes that use it, so that no reference it    *)
(* follows after a calculation dangles.                                    *)
PoolMirrorsTable ==
    \A d \in Dests :
       /\ refs[d] = {p \in Prefixes : d \in rtes[p]}
       /\ uses[d] = Cardinality(refs[d])
       /\ pool[d] = None <=> refs[d] = {}

(* The FIB sends a prefix over the best faces of the current routes to any *)
(* of its routers, whatever the order in which LSAs and calculations came. *)
FibIsCurrent ==
    \A p \in Prefixes \ Neighbors :
       fib[p] = FacesOf(First(GenerateNhl(rtes[p], routes), MaxFacesPerPrefix))
=============================================================================
