------------------------------ MODULE NextHops ------------------------------
(***************************************************************************)
(* Lists of next hops (nexthop-list.hpp, nexthop.hpp): sets of records     *)
(* with at most one cost per face.  Faces are numbers in the order of      *)
(* their URIs.                                                             *)
(***************************************************************************)
EXTENDS Naturals, FiniteSets

FacesOf(hops) == {h.face : h \in hops}

(* What adding every hop of a bag of lists one by one leaves: the least    *)
(* cost of each face.                                                      *)
Cheapest(hops) == {h \in hops : \A g \in hops : g.face = h.face => h.cost <= g.cost}

(* The order of a list: by cost, then by face.                             *)
Precedes(g, h) == g.cost < h.cost \/ (g.cost = h.cost /\ g.face < h.face)

(* The first max hops of a list, all of them when max is 0.                *)
First(hops, max) ==
    {h \in hops : max = 0 \/ Cardinality({g \in hops : Precedes(g, h)}) < max}
=============================================================================
