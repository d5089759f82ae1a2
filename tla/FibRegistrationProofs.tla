----------------------- MODULE FibRegistrationProofs -----------------------
(***************************************************************************)
(* Proofs about the routes of a FIB entry and the face ids they need.      *)
(***************************************************************************)
EXTENDS FibRegistration, FiniteSetTheorems, SequenceTheorems, TLAPS

-----------------------------------------------------------------------------
(* Walks over next hops.                                                   *)

(* An injection between finite sets of the same size is onto.              *)
LEMMA InjectionIsOnto ==
    ASSUME NEW S, NEW T, IsFiniteSet(S), IsFiniteSet(T),
           Cardinality(S) = Cardinality(T), NEW m \in [S -> T],
           \A x, y \in S : m[x] = m[y] => x = y, NEW t \in T
    PROVE  \E x \in S : m[x] = t
  <1>1. SUFFICES ASSUME \A x \in S : m[x] # t PROVE FALSE
    OBVIOUS
  <1>2. m \in [S -> T \ {t}]
    BY <1>1
  <1>3. IsFiniteSet(T \ {t}) /\ Cardinality(T \ {t}) = Cardinality(T) - 1
    BY FS_RemoveElement
  <1>4. Cardinality(T \ {t}) < Cardinality(S)
    BY <1>3, FS_CardinalityType
  <1>5. \E x, y \in S : x # y /\ m[x] = m[y]
    BY <1>2, <1>3, <1>4, FS_PigeonHole
  <1> QED BY <1>5

Rank(hs, h) == Cardinality({g \in hs : g.face < h.face})

LEMMA HopsFinite ==
    ASSUME NEW hs \in SUBSET Hops
    PROVE  IsFiniteSet(hs) /\ Cardinality(hs) \in Nat
  BY ConstantsAssumption, FS_Subset, FS_CardinalityType

LEMMA HopFields ==
    ASSUME NEW h \in Hops
    PROVE  h.face \in Nat /\ h.cost \in Nat /\ h.face \in Faces
  BY ConstantsAssumption DEF Faces, FacesOf

LEMMA RankIsPosition ==
    ASSUME NEW hs \in HopLists, NEW g \in hs, NEW h \in hs
    PROVE  /\ Rank(hs, h) \in 0 .. Cardinality(hs) - 1
           /\ g.face < h.face => Rank(hs, g) < Rank(hs, h)
  <1> DEFINE Below(k) == {j \in hs : j.face < k.face}
  <1>0. hs \subseteq Hops
    BY DEF HopLists
  <1>1. \A k \in hs : k.face \in Nat
    BY <1>0, HopFields
  <1>2. IsFiniteSet(hs) /\ Cardinality(hs) \in Nat
    BY <1>0, HopsFinite
  <1>3. /\ IsFiniteSet(Below(h)) /\ Cardinality(Below(h)) \in Nat
        /\ IsFiniteSet(Below(g)) /\ Cardinality(Below(g)) \in Nat
    BY <1>0, HopsFinite
  <1>4. Below(h) \subseteq hs /\ Below(h) # hs
    BY <1>1
  <1>5. Cardinality(Below(h)) < Cardinality(hs)
    BY <1>2, <1>3, <1>4, FS_Subset
  <1>6. ASSUME g.face < h.face
        PROVE  Cardinality(Below(g)) < Cardinality(Below(h))
    <2>1. Below(g) \subseteq Below(h) /\ g \in Below(h) /\ g \notin Below(g)
      BY <1>1, <1>6
    <2> QED BY <1>3, <2>1, FS_Subset
  <1> QED BY <1>2, <1>3, <1>5, <1>6 DEF Rank

(* A list of next hops has a walk in the order of the faces, and the walk  *)
(* meets every next hop.                                                   *)
LEMMA ByFaceWalks ==
    ASSUME NEW hs \in HopLists
    PROVE  /\ Cardinality(hs) \in Nat
           /\ ByFace(hs) \in [1 .. Cardinality(hs) -> hs]
           /\ \A i, j \in 1 .. Cardinality(hs) : i < j => ByFace(hs)[i].face < ByFace(hs)[j].face
           /\ \A h \in hs : \E i \in 1 .. Cardinality(hs) : ByFace(hs)[i] = h
  <1> DEFINE n == Cardinality(hs)
             Sorted(s) == \A i, j \in 1 .. n : i < j => s[i].face < s[j].face
             m == [h \in hs |-> Rank(hs, h) + 1]
             w == [i \in 1 .. n |-> CHOOSE h \in hs : m[h] = i]
  <1>0. hs \subseteq Hops
    BY DEF HopLists
  <1>1. \A h \in hs : h.face \in Nat
    BY <1>0, HopFields
  <1>2. IsFiniteSet(hs) /\ n \in Nat
    BY <1>0, HopsFinite
  <1>3. IsFiniteSet(1 .. n) /\ Cardinality(1 .. n) = n
    BY <1>2, FS_Interval
  <1>4. m \in [hs -> 1 .. n]
    BY <1>2, RankIsPosition
  <1>5. \A g, h \in hs : m[g] = m[h] => g = h
    <2> SUFFICES ASSUME NEW g \in hs, NEW h \in hs, m[g] = m[h], g # h PROVE FALSE
      OBVIOUS
    <2>1. g.face < h.face \/ h.face < g.face
      BY <1>1 DEF HopLists
    <2>2. Rank(hs, g) = Rank(hs, h)
      BY RankIsPosition
    <2> QED BY <2>1, <2>2, RankIsPosition
  <1>6. \A i \in 1 .. n : \E h \in hs : m[h] = i
    <2> DEFINE I == 1 .. n
    <2> SUFFICES ASSUME NEW i \in I PROVE \E h \in hs : m[h] = i
      OBVIOUS
    <2>1. /\ IsFiniteSet(hs) /\ IsFiniteSet(I) /\ Cardinality(hs) = Cardinality(I)
          /\ m \in [hs -> I]
      BY <1>2, <1>3, <1>4
    <2> HIDE DEF m, n, I
    <2> QED BY <1>5, <2>1, InjectionIsOnto
  <1>7. w \in [1 .. n -> hs] /\ \A i \in 1 .. n : m[w[i]] = i
    <2> HIDE DEF m, n
    <2> QED BY <1>6
  <1>8. Sorted(w)
    <2> SUFFICES ASSUME NEW i \in 1 .. n, NEW j \in 1 .. n, i < j
                 PROVE  w[i].face < w[j].face
      BY DEF Sorted
    <2> HIDE DEF w
    <2>1. Rank(hs, w[i]) + 1 = i /\ Rank(hs, w[j]) + 1 = j /\ w[i] \in hs /\ w[j] \in hs
      BY <1>7
    <2>2. w[i].face < w[j].face \/ w[i].face = w[j].face \/ w[j].face < w[i].face
      BY <1>1, <2>1
    <2>3. w[i].face # w[j].face
      BY <2>1, <1>2 DEF HopLists
    <2>4. ~(w[j].face < w[i].face)
      <3>1. Rank(hs, w[i]) \in 0 .. n - 1 /\ Rank(hs, w[j]) \in 0 .. n - 1
        BY <2>1, RankIsPosition
      <3> QED BY <2>1, <3>1, <1>2, RankIsPosition
    <2> QED BY <2>2, <2>3, <2>4
  <1>9. ByFace(hs) \in [1 .. n -> hs] /\ Sorted(ByFace(hs))
    <2> HIDE DEF w
    <2> QED BY <1>7, <1>8 DEF ByFace
  <1>10. \A i, j \in 1 .. n : ByFace(hs)[i] = ByFace(hs)[j] => i = j
    <2> SUFFICES ASSUME NEW i \in 1 .. n, NEW j \in 1 .. n, ByFace(hs)[i] = ByFace(hs)[j], i # j
                 PROVE  FALSE
      OBVIOUS
    <2>1. ByFace(hs)[i].face \in Nat
      BY <1>9, <1>1
    <2> QED BY <2>1, <1>9, <1>2
  <1>11. \A h \in hs : \E i \in 1 .. n : ByFace(hs)[i] = h
    <2> SUFFICES ASSUME NEW h \in hs PROVE \E i \in 1 .. n : ByFace(hs)[i] = h
      OBVIOUS
    <2>1. Cardinality(1 .. n) = Cardinality(hs)
      BY <1>3
    <2>2. ByFace(hs) \in [1 .. n -> hs]
      BY <1>9
    <2> HIDE DEF n
    <2> QED BY <1>2, <1>3, <2>1, <2>2, <1>10, InjectionIsOnto
  <1> QED BY <1>2, <1>9, <1>11

LEMMA CommandTyped ==
    ASSUME NEW op \in {"register", "unregister"}, NEW h \in Hops, NEW times \in 0 .. RegTries,
           faceId \in [Faces -> Nat]
    PROVE  Command(op, h, times) \in Commands
  BY HopFields DEF Command, Commands

(* The commands of a walk are one for each next hop with a face id.        *)
LEMMA WalkCommands ==
    ASSUME NEW op \in {"register", "unregister"}, NEW hs \in HopLists,
           faceId \in [Faces -> Nat]
    PROVE  /\ Walk(op, hs) \in Seq(Commands)
           /\ \A i \in DOMAIN Walk(op, hs) :
                 /\ Walk(op, hs)[i].op = op
                 /\ Walk(op, hs)[i].hop \in hs
                 /\ Walk(op, hs)[i].id = faceId[Walk(op, hs)[i].hop.face]
           /\ \A i, j \in DOMAIN Walk(op, hs) :
                 Walk(op, hs)[i].hop.face = Walk(op, hs)[j].hop.face => i = j
           /\ \A h \in hs : faceId[h.face] > 0 => \E i \in DOMAIN Walk(op, hs) : Walk(op, hs)[i].hop = h
  <1> DEFINE ks == {h \in hs : HasFaceId(h)}
             n == Cardinality(ks)
             s == ByFace(ks)
             c == Walk(op, hs)
  <1>1. ks \in HopLists /\ ks \subseteq Hops
    BY DEF HopLists
  <1>2. /\ n \in Nat
        /\ s \in [1 .. n -> ks]
        /\ \A i, j \in 1 .. n : i < j => s[i].face < s[j].face
        /\ \A h \in ks : \E i \in 1 .. n : s[i] = h
    BY <1>1, ByFaceWalks
  <1> HIDE DEF n, s
  <1>3. c = [i \in 1 .. n |-> Command(op, s[i], 0)]
    BY <1>2 DEF Walk, s
  <1> HIDE DEF c
  <1>4. \A i \in 1 .. n : s[i] \in ks /\ s[i] \in Hops /\ s[i].face \in Nat
    BY <1>1, <1>2, HopFields
  <1>5. \A i \in 1 .. n : c[i] \in Commands
    BY <1>3, <1>4, CommandTyped, ConstantsAssumption
  <1>6. \A i \in 1 .. n : c[i].op = op /\ c[i].hop = s[i] /\ c[i].id = faceId[s[i].face]
    BY <1>3 DEF Command
  <1>7. c \in Seq(Commands) /\ DOMAIN c = 1 .. n
    BY <1>2, <1>3, <1>5
  <1>8. \A i, j \in 1 .. n : s[i].face = s[j].face => i = j
    BY <1>2, <1>4
  <1>9. \A h \in hs : faceId[h.face] > 0 => \E i \in 1 .. n : c[i].hop = h
    <2> SUFFICES ASSUME NEW h \in hs, faceId[h.face] > 0 PROVE \E i \in 1 .. n : c[i].hop = h
      OBVIOUS
    <2>1. h \in ks
      BY DEF HasFaceId
    <2> QED BY <1>2, <1>6, <2>1
  <1> QED BY <1>4, <1>6, <1>7, <1>8, <1>9 DEF c

(* What update leaves of two lists: a list with the faces of the new one.  *)
LEMMA FirstIsList ==
    ASSUME NEW hs \in HopLists
    PROVE  First(hs, MaxFacesPerPrefix) \in HopLists
  BY DEF First, HopLists

LEMMA HopsAreRecords ==
    ASSUME NEW g \in Hops, NEW h \in Hops, g.face = h.face, g.cost = h.cost
    PROVE  g = h
  BY ConstantsAssumption

LEMMA NewNextHopsIsList ==
    ASSUME NEW old \in HopLists, NEW new \in HopLists
    PROVE  /\ NewNextHops(old, new) \in HopLists
           /\ FacesOf(NewNextHops(old, new)) = FacesOf(new)
  <1>1. old \subseteq Hops /\ new \subseteq Hops
    BY DEF HopLists
  <1>2. NewNextHops(old, new) \subseteq Hops
    BY <1>1 DEF NewNextHops, Cheapest
  <1>3. ASSUME NEW g \in NewNextHops(old, new), NEW h \in NewNextHops(old, new), g.face = h.face
        PROVE  g = h
    <2>1. g.cost <= h.cost /\ h.cost <= g.cost
      BY <1>3 DEF NewNextHops, Cheapest
    <2>2. g \in Hops /\ h \in Hops
      BY <1>2
    <2>3. g.cost = h.cost
      BY <2>1, <2>2, HopFields
    <2> QED BY <1>3, <2>2, <2>3, HopsAreRecords
  <1>4. ASSUME NEW h \in new
        PROVE  \E g \in NewNextHops(old, new) : g.face = h.face
    <2>1. h \in Hops /\ h.cost \in Nat
      BY <1>1, HopFields
    <2>2. h.face \in FacesOf(new)
      BY DEF FacesOf
    <2>3. \A g \in new : g.face = h.face => g = h
      BY DEF HopLists
    <2>4. CASE \A g \in old : g.face = h.face => h.cost <= g.cost
      <3>1. h \in Cheapest(old \cup new)
        BY <2>1, <2>3, <2>4 DEF Cheapest
      <3> QED BY <2>2, <3>1 DEF NewNextHops
    <2>5. CASE \E g \in old : g.face = h.face /\ ~(h.cost <= g.cost)
      <3>1. PICK g \in old : g.face = h.face /\ ~(h.cost <= g.cost)
        BY <2>5
      <3>2. g.cost \in Nat
        BY <1>1, HopFields
      <3>3. \A k \in old : k.face = h.face => k = g
        BY <3>1 DEF HopLists
      <3>4. g \in Cheapest(old \cup new)
        BY <2>1, <2>3, <3>1, <3>2, <3>3 DEF Cheapest
      <3> QED BY <2>2, <3>1, <3>4 DEF NewNextHops
    <2> QED BY <2>4, <2>5
  <1>5. NewNextHops(old, new) \in HopLists
    BY <1>2, <1>3 DEF HopLists
  <1>6. FacesOf(NewNextHops(old, new)) \subseteq FacesOf(new)
    BY DEF NewNextHops, FacesOf
  <1>7. FacesOf(new) \subseteq FacesOf(NewNextHops(old, new))
    BY <1>4 DEF FacesOf
  <1> QED BY <1>5, <1>6, <1>7

-----------------------------------------------------------------------------
(* Sequences of commands and messages.                                     *)

LEMMA RemoveAtElements ==
    ASSUME NEW S, NEW q \in Seq(S), NEW i \in DOMAIN q
    PROVE  /\ RemoveAt(q, i) \in Seq(S)
           /\ Len(RemoveAt(q, i)) = Len(q) - 1
           /\ \A k \in 1 .. Len(q) - 1 : RemoveAt(q, i)[k] = IF k < i THEN q[k] ELSE q[k + 1]
  <1> DEFINE a == SubSeq(q, 1, i - 1)
             b == SubSeq(q, i + 1, Len(q))
  <1>1. Len(q) \in Nat /\ i \in 1 .. Len(q)
    OBVIOUS
  <1>2. a \in Seq(S) /\ Len(a) = i - 1 /\ \A k \in 1 .. i - 1 : a[k] = q[k]
    BY <1>1
  <1>3. b \in Seq(S) /\ Len(b) = Len(q) - i /\ \A k \in 1 .. Len(q) - i : b[k] = q[i + k]
    BY <1>1
  <1> HIDE DEF a, b
  <1>4. /\ a \o b \in Seq(S) /\ Len(a \o b) = Len(a) + Len(b)
        /\ \A k \in 1 .. Len(a) + Len(b) : (a \o b)[k] = IF k <= Len(a) THEN a[k] ELSE b[k - Len(a)]
    BY <1>2, <1>3, ConcatProperties
  <1>5. RemoveAt(q, i) = a \o b
    BY DEF RemoveAt, a, b
  <1>6. \A k \in 1 .. Len(q) - 1 : (a \o b)[k] = IF k < i THEN q[k] ELSE q[k + 1]
    <2> SUFFICES ASSUME NEW k \in 1 .. Len(q) - 1
                 PROVE  (a \o b)[k] = IF k < i THEN q[k] ELSE q[k + 1]
      OBVIOUS
    <2>1. CASE k < i
      BY <1>1, <1>2, <1>3, <1>4, <2>1
    <2>2. CASE ~(k < i)
      <3>1. k - (i - 1) \in 1 .. Len(q) - i /\ i + (k - (i - 1)) = k + 1
        BY <1>1, <2>2
      <3>2. b[k - (i - 1)] = q[k + 1]
        BY <1>3, <3>1
      <3>3. (a \o b)[k] = b[k - (i - 1)]
        <4>1. k \in 1 .. Len(a) + Len(b) /\ ~(k <= Len(a)) /\ Len(a) = i - 1
          BY <1>1, <1>2, <1>3, <2>2
        <4> QED BY <1>4, <4>1
      <3> QED BY <2>2, <3>2, <3>3
    <2> QED BY <2>1, <2>2
  <1>7. Len(a \o b) = Len(q) - 1
    BY <1>1, <1>2, <1>3, <1>4
  <1> QED BY <1>4, <1>5, <1>6, <1>7

LEMMA MessageFields ==
    ASSUME NEW m \in Messages
    PROVE  /\ m.kind \in {"success", "failure", "timeout"} =>
                 /\ m.cmd \in Commands /\ m.cmd.hop \in Hops
                 /\ m.cmd.id \in Nat /\ m.cmd.hop.face \in Faces
           /\ m.kind \in {"destroyed", "created"} => m.face \in Faces /\ m.id \in Nat
  BY HopFields DEF Messages, Commands

LEMMA CommandFields ==
    ASSUME NEW c \in Commands
    PROVE  /\ c.op \in {"register", "unregister"}
           /\ c.hop \in Hops /\ c.hop.face \in Faces /\ c.hop.cost \in Nat
           /\ c.id \in Nat /\ c.times \in 0 .. RegTries
  BY HopFields DEF Commands

-----------------------------------------------------------------------------
(* Type correctness.                                                       *)

RibTyped ==
    /\ rib \subseteq [face : Faces, cost : Nat, aged : BOOLEAN]
    /\ \A r, q \in rib : r.face = q.face => r = q

Counts == [updates : Nat, regFaults : Nat, unregFaults : Nat, faceEvents : Nat]

LEMMA ExecuteTyped ==
    ASSUME TypeOK, NEW c \in Commands, Execute(c)
    PROVE  RibTyped'
  <1> DEFINE keep == {r \in rib : r.face # c.hop.face}
             new == [face |-> c.hop.face, cost |-> c.hop.cost, aged |-> FALSE]
  <1>1. rib' = keep \cup (IF c.op = "register" THEN {new} ELSE {})
    BY DEF Execute
  <1>2. new \in [face : Faces, cost : Nat, aged : BOOLEAN] /\ new.face = c.hop.face
    BY CommandFields
  <1>3. keep \subseteq [face : Faces, cost : Nat, aged : BOOLEAN]
    BY DEF TypeOK
  <1>4. \A r, q \in keep : r.face = q.face => r = q
    BY DEF TypeOK
  <1> HIDE DEF new
  <1> QED BY <1>1, <1>2, <1>3, <1>4 DEF RibTyped

LEMMA AnswerTyped ==
    ASSUME TypeOK, NEW c \in Commands, NEW kind \in {"success", "failure", "timeout"},
           Answer(c, kind)
    PROVE  inbox' \in Seq(Messages)
  <1>1. [kind |-> kind, cmd |-> c] \in Messages
    BY DEF Messages
  <1> QED BY <1>1 DEF Answer, TypeOK

LEMMA TypeOKInitially == Init => TypeOK
  <1> SUFFICES ASSUME Init PROVE TypeOK
    OBVIOUS
  <1>1. {} \in HopLists
    BY DEF HopLists
  <1>2. faceId \in [Faces -> Nat] /\ nfd \in [Faces -> [up : BOOLEAN, id : Nat \ {0}]]
    BY DEF Init
  <1>3. env \in [updates : Nat, regFaults : Nat, unregFaults : Nat, faceEvents : Nat]
    BY DEF Init
  <1>4. cmds \in Seq(Commands) /\ inbox \in Seq(Messages)
    BY DEF Init
  <1>5. running \in BOOLEAN /\ refresh \in BOOLEAN /\ hops = {} /\ listed = {} /\ rib = {}
    BY DEF Init
  <1> QED BY <1>1, <1>2, <1>3, <1>4, <1>5 DEF TypeOK

LEMMA WalksTyped ==
    ASSUME TypeOK, NEW hs \in HopLists
    PROVE  RegisterAll(hs) \in Seq(Commands) /\ UnregisterAll(hs) \in Seq(Commands)
  BY WalkCommands DEF TypeOK, RegisterAll, UnregisterAll

LEMMA OldNextHopsIsList ==
    ASSUME NEW old \in HopLists, NEW new
    PROVE  OldNextHops(old, new) \in HopLists
  BY DEF OldNextHops, HopLists

LEMMA TypeOKUpdate ==
    ASSUME TypeOK, NEW allHops \in HopLists, Update(allHops)
    PROVE  TypeOK'
  <1> DEFINE hs == First(allHops, MaxFacesPerPrefix)
  <1>1. hs \in HopLists /\ {} \in HopLists
    BY FirstIsList DEF HopLists
  <1>2. listed' = hs /\ (RemoveEntry \/ UpdateEntry(hs))
    BY DEF Update
  <1> HIDE DEF hs
  <1>3. hops' \in HopLists
    <2>1. CASE RemoveEntry
      BY <1>1, <2>1 DEF RemoveEntry
    <2>2. CASE UpdateEntry(hs)
      BY <1>1, <2>2, NewNextHopsIsList DEF UpdateEntry, TypeOK
    <2> QED BY <1>2, <2>1, <2>2
  <1>4. OldNextHops(hops, hs) \in HopLists
    BY OldNextHopsIsList DEF TypeOK
  <1>5. cmds' \in Seq(Commands)
    <2>1. CASE RemoveEntry
      BY <2>1, WalksTyped DEF RemoveEntry, TypeOK
    <2>2. CASE UpdateEntry(hs)
      <3>1. /\ RegisterAll(hs) \in Seq(Commands)
            /\ UnregisterAll(OldNextHops(hops, hs)) \in Seq(Commands)
            /\ cmds \in Seq(Commands)
        BY <1>1, <1>4, WalksTyped DEF TypeOK
      <3> QED BY <2>2, <3>1 DEF UpdateEntry
    <2> QED BY <1>2, <2>1, <2>2
  <1>6. refresh' \in BOOLEAN
    BY <1>2 DEF RemoveEntry, UpdateEntry
  <1>7. env' \in Counts
    <2>1. env \in Counts /\ env' = [env EXCEPT !.updates = env.updates + 1]
      BY DEF Update, TypeOK, Counts
    <2> QED BY <2>1 DEF Counts
  <1> QED BY <1>1, <1>2, <1>3, <1>5, <1>6, <1>7 DEF Update, TypeOK, Counts

LEMMA TypeOKRefresh ==
    ASSUME TypeOK, Refresh
    PROVE  TypeOK'
  <1>1. cmds' \in Seq(Commands) /\ refresh' \in BOOLEAN
    BY WalksTyped DEF Refresh, RefreshEntry, TypeOK
  <1>2. \A r \in rib : /\ [r EXCEPT !.aged = TRUE] \in [face : Faces, cost : Nat, aged : BOOLEAN]
                       /\ [r EXCEPT !.aged = TRUE].face = r.face
    BY DEF TypeOK
  <1>3. rib' \subseteq [face : Faces, cost : Nat, aged : BOOLEAN]
    BY <1>2 DEF Refresh
  <1>4. \A r, q \in rib' : r.face = q.face => r = q
    <2> SUFFICES ASSUME NEW r \in rib, NEW q \in rib,
                        [r EXCEPT !.aged = TRUE].face = [q EXCEPT !.aged = TRUE].face
                 PROVE  [r EXCEPT !.aged = TRUE] = [q EXCEPT !.aged = TRUE]
      BY DEF Refresh
    <2>1. r.face = q.face
      BY <1>2
    <2>2. r = q
      BY <2>1 DEF TypeOK
    <2> QED BY <2>2
  <1> QED BY <1>1, <1>3, <1>4 DEF Refresh, TypeOK

LEMMA TypeOKDeliver ==
    ASSUME TypeOK, Deliver
    PROVE  TypeOK'
  <1>1. PICK i \in DOMAIN inbox :
          OnRegistrationSuccess(i) \/ OnRegistrationFailure(i) \/ FaceDestroyed(i) \/ FaceCreated(i)
    BY DEF Deliver
  <1>2. inbox[i] \in Messages /\ inbox \in Seq(Messages)
    BY DEF TypeOK
  <1>3. Take(i)
    BY <1>1 DEF OnRegistrationSuccess, OnRegistrationFailure, FaceDestroyed, FaceCreated
  <1>4. inbox' \in Seq(Messages)
    BY <1>2, <1>3, RemoveAtElements DEF Take
  <1>5. faceId' \in [Faces -> Nat]
    <2>1. CASE OnRegistrationSuccess(i)
      BY <1>2, <2>1, MessageFields DEF OnRegistrationSuccess, TypeOK
    <2>2. CASE OnRegistrationFailure(i)
      BY <2>2 DEF OnRegistrationFailure, TypeOK
    <2>3. CASE FaceDestroyed(i)
      BY <2>3 DEF FaceDestroyed, TypeOK
    <2>4. CASE FaceCreated(i)
      BY <1>2, <2>4, MessageFields DEF FaceCreated, TypeOK
    <2> QED BY <1>1, <2>1, <2>2, <2>3, <2>4
  <1>6. cmds' \in Seq(Commands)
    <2>1. CASE OnRegistrationFailure(i)
      <3> DEFINE c == inbox[i].cmd
                 retry == IF c.times < RegTries THEN RegisterPrefix(c.hop, c.times + 1) ELSE <<>>
      <3>1. cmds' = cmds \o retry
        BY <2>1 DEF OnRegistrationFailure
      <3>2. c \in Commands
        BY <1>2, <2>1, MessageFields DEF OnRegistrationFailure
      <3>3. c.times < RegTries => Command("register", c.hop, c.times + 1) \in Commands
        <4>1. c.hop \in Hops /\ c.times \in 0 .. RegTries /\ RegTries \in Nat
          BY <3>2, CommandFields, ConstantsAssumption
        <4>2. c.times < RegTries => c.times + 1 \in 0 .. RegTries
          BY <4>1
        <4> HIDE DEF c
        <4> QED BY <4>1, <4>2, CommandTyped DEF TypeOK
      <3>4. retry \in Seq(Commands)
        BY <3>3 DEF RegisterPrefix
      <3> HIDE DEF retry
      <3> QED BY <3>1, <3>4 DEF TypeOK
    <2>2. CASE ~OnRegistrationFailure(i)
      BY <1>1, <2>2 DEF OnRegistrationSuccess, FaceDestroyed, FaceCreated, TypeOK
    <2> QED BY <2>1, <2>2
  <1> QED BY <1>3, <1>4, <1>5, <1>6 DEF Take, TypeOK

LEMMA TypeOKTakeCommand ==
    ASSUME TypeOK, TakeCommand
    PROVE  Head(cmds) \in Commands /\ cmds' \in Seq(Commands)
  BY DEF TakeCommand, TypeOK

LEMMA TypeOKNfdAnswers ==
    ASSUME TypeOK, NfdAnswers
    PROVE  TypeOK'
  <1> DEFINE c == Head(cmds)
  <1>1. TakeCommand /\ (Accept(c) \/ Refuse(c))
    BY DEF NfdAnswers
  <1>2. c \in Commands /\ cmds' \in Seq(Commands)
    BY <1>1, TypeOKTakeCommand
  <1>3. RibTyped' /\ env' = env
    BY <1>1, <1>2, ExecuteTyped DEF Accept, Refuse, RibTyped, TypeOK
  <1>4. inbox' \in Seq(Messages)
    BY <1>1, <1>2, AnswerTyped DEF Accept, Refuse
  <1> HIDE DEF c
  <1> QED BY <1>1, <1>2, <1>3, <1>4 DEF TakeCommand, TypeOK, RibTyped

LEMMA TypeOKNfdFails ==
    ASSUME TypeOK, NfdFails
    PROVE  TypeOK'
  <1> DEFINE c == Head(cmds)
  <1>1. TakeCommand /\ Fault(c)
    BY DEF NfdFails
  <1>2. c \in Commands /\ cmds' \in Seq(Commands)
    BY <1>1, TypeOKTakeCommand
  <1> HIDE DEF c
  <1>3. RibTyped'
    BY <1>1, <1>2, ExecuteTyped DEF Fault, RibTyped, TypeOK
  <1>4. inbox' \in Seq(Messages)
    BY <1>1, <1>2, AnswerTyped DEF Fault
  <1>5. env' \in Counts
    <2>1. env \in Counts
      BY DEF TypeOK, Counts
    <2>2. \/ env' = [env EXCEPT !.regFaults = env.regFaults + 1]
          \/ env' = [env EXCEPT !.unregFaults = env.unregFaults + 1]
      BY <1>1 DEF Fault
    <2> QED BY <2>1, <2>2 DEF Counts
  <1> QED BY <1>1, <1>2, <1>3, <1>4, <1>5 DEF TakeCommand, TypeOK, RibTyped, Counts

LEMMA TypeOKFaceEvent ==
    ASSUME TypeOK, NEW f \in Faces, FaceEvent(f)
    PROVE  TypeOK'
  <1>1. env' \in Counts
    <2>1. env \in Counts /\ env' = [env EXCEPT !.faceEvents = env.faceEvents + 1]
      BY DEF FaceEvent, TypeOK, Counts
    <2> QED BY <2>1 DEF Counts
  <1>2. nfd[f] \in [up : BOOLEAN, id : Nat \ {0}]
    BY DEF TypeOK
  <1>3. nfd' \in [Faces -> [up : BOOLEAN, id : Nat \ {0}]]
    <2>1. /\ [nfd[f] EXCEPT !.up = FALSE] \in [up : BOOLEAN, id : Nat \ {0}]
          /\ [up |-> TRUE, id |-> nfd[f].id + 1] \in [up : BOOLEAN, id : Nat \ {0}]
      <3>1. nfd[f].id \in Nat \ {0} /\ nfd[f].id + 1 \in Nat \ {0}
        BY <1>2
      <3>2. [nfd[f] EXCEPT !.up = FALSE] \in [up : BOOLEAN, id : Nat \ {0}]
        BY <1>2
      <3>3. [up |-> TRUE, id |-> nfd[f].id + 1] \in [up : BOOLEAN, id : Nat \ {0}]
        BY <3>1, Zenon
      <3> QED BY <3>2, <3>3
    <2>2. \/ nfd' = [nfd EXCEPT ![f] = [nfd[f] EXCEPT !.up = FALSE]]
          \/ nfd' = [nfd EXCEPT ![f] = [up |-> TRUE, id |-> nfd[f].id + 1]]
      BY DEF FaceEvent
    <2>3. nfd \in [Faces -> [up : BOOLEAN, id : Nat \ {0}]]
      BY DEF TypeOK
    <2> QED BY <2>1, <2>2, <2>3
  <1>4. RibTyped'
    BY DEF FaceEvent, TypeOK, RibTyped
  <1>5. inbox' \in Seq(Messages)
    <2>1. /\ [kind |-> "destroyed", face |-> f, id |-> nfd[f].id] \in Messages
          /\ [kind |-> "created", face |-> f, id |-> nfd[f].id + 1] \in Messages
      BY <1>2 DEF Messages
    <2>2. inbox \in Seq(Messages)
      BY DEF TypeOK
    <2>3. \/ inbox' = Append(inbox, [kind |-> "destroyed", face |-> f, id |-> nfd[f].id])
          \/ inbox' = Append(inbox, [kind |-> "created", face |-> f, id |-> nfd[f].id + 1])
      BY DEF FaceEvent
    <2> QED BY <2>1, <2>2, <2>3, AppendProperties
  <1> QED BY <1>1, <1>3, <1>4, <1>5 DEF FaceEvent, TypeOK, RibTyped, Counts

LEMMA TypeOKStep == TypeOK /\ [Next]_vars => TypeOK'
  <1> SUFFICES ASSUME TypeOK, [Next]_vars PROVE TypeOK'
    OBVIOUS
  <1>1. CASE \E allHops \in HopLists : Update(allHops)
    BY <1>1, TypeOKUpdate
  <1>2. CASE Refresh
    BY <1>2, TypeOKRefresh
  <1>3. CASE Terminate
    <2>1. cmds' \in Seq(Commands)
      <3>1. PICK sent \in {<<>>, UnregisterAll(hops)} : cmds' = cmds \o sent
        BY <1>3 DEF Terminate
      <3>2. sent \in Seq(Commands) /\ cmds \in Seq(Commands)
        <4>1. UnregisterAll(hops) \in Seq(Commands) /\ cmds \in Seq(Commands)
          BY WalksTyped DEF TypeOK
        <4>2. <<>> \in Seq(Commands)
          OBVIOUS
        <4> QED BY <4>1, <4>2, Zenon
      <3> QED BY <3>1, <3>2
    <2> QED BY <1>3, <2>1 DEF Terminate, TypeOK
  <1>4. CASE Deliver
    BY <1>4, TypeOKDeliver
  <1>5. CASE NfdAnswers
    BY <1>5, TypeOKNfdAnswers
  <1>6. CASE NfdFails
    BY <1>6, TypeOKNfdFails
  <1>7. CASE \E r \in rib : Expire(r)
    BY <1>7 DEF Expire, TypeOK
  <1>8. CASE \E f \in Faces : FaceEvent(f)
    BY <1>8, TypeOKFaceEvent
  <1>9. CASE UNCHANGED vars
    BY <1>9 DEF vars, TypeOK
  <1> QED BY <1>1, <1>2, <1>3, <1>4, <1>5, <1>6, <1>7, <1>8, <1>9 DEF Next

(* The entry keeps one cost for a face, every command and answer on its    *)
(* way is well formed, and NFD holds one route for a face.                 *)
THEOREM TypeCorrect == Spec => []TypeOK
  BY TypeOKInitially, TypeOKStep, PTL DEF Spec

-----------------------------------------------------------------------------
(* Face ids.  A notification changes the id NLSR should hold for its face, *)
(* and tells what the id was before and what it is after; the answer to a  *)
(* successful registration repeats an id.                                  *)

Note(m, f) == m.kind \in {"destroyed", "created"} /\ m.face = f

Tells(m, f) == Note(m, f) \/ (m.kind = "success" /\ m.cmd.hop.face = f)

IdBefore(m) == IF m.kind = "created" THEN 0 ELSE m.id

IdAfter(m) == IF m.kind = "success" THEN m.cmd.id ELSE IF m.kind = "created" THEN m.id ELSE 0

(* The messages after position i take the id up at v: the first            *)
(* notification among them starts from v, and without one v is current.    *)
Expects(q, i, f, current, v) ==
    /\ \A j \in DOMAIN q :
          /\ i < j /\ Note(q[j], f)
          /\ \A k \in DOMAIN q : i < k /\ k < j => ~Note(q[k], f)
          => IdBefore(q[j]) = v
    /\ (\A j \in DOMAIN q : i < j => ~Note(q[j], f)) => v = current

Chain(q, f, known, current) ==
    /\ Expects(q, 0, f, current, known)
    /\ \A i \in DOMAIN q : Tells(q[i], f) => Expects(q, i, f, current, IdAfter(q[i]))

Current(f) == IF nfd[f].up THEN nfd[f].id ELSE 0

(* Each id NLSR holds or is about to be told leads on to the next          *)
(* notification, and from the last one to the id NFD has.                  *)
IdChain == \A f \in Faces : Chain(inbox, f, faceId[f], Current(f))

LEMMA ExpectsAppend ==
    ASSUME NEW q \in Seq(Messages), NEW m \in Messages, NEW f, NEW i \in 0 .. Len(q),
           NEW current, NEW next, NEW v, Expects(q, i, f, current, v),
           IF Note(m, f) THEN IdBefore(m) = current ELSE next = current
    PROVE  Expects(Append(q, m), i, f, next, v)
  <1> DEFINE w == Append(q, m)
  <1>1. /\ Len(q) \in Nat /\ DOMAIN q = 1 .. Len(q) /\ DOMAIN w = 1 .. Len(q) + 1
        /\ w[Len(q) + 1] = m /\ \A k \in 1 .. Len(q) : w[k] = q[k]
    OBVIOUS
  <1> HIDE DEF w
  <1>2. ASSUME NEW j \in DOMAIN w, i < j, Note(w[j], f),
               \A k \in DOMAIN w : i < k /\ k < j => ~Note(w[k], f)
        PROVE  IdBefore(w[j]) = v
    <2>1. CASE j \in DOMAIN q
      BY <1>1, <1>2, <2>1 DEF Expects
    <2>2. CASE j = Len(q) + 1
      <3>1. \A k \in DOMAIN q : i < k => ~Note(q[k], f)
        BY <1>1, <1>2, <2>2
      <3> QED BY <1>1, <1>2, <2>2, <3>1 DEF Expects
    <2> QED BY <1>1, <2>1, <2>2
  <1>3. ASSUME \A j \in DOMAIN w : i < j => ~Note(w[j], f)
        PROVE  v = next
    <2>1. ~Note(m, f)
      BY <1>1, <1>3
    <2>2. \A j \in DOMAIN q : i < j => ~Note(q[j], f)
      BY <1>1, <1>3
    <2> QED BY <2>1, <2>2 DEF Expects
  <1> QED BY <1>2, <1>3 DEF Expects, w

LEMMA ExpectsLast ==
    ASSUME NEW q \in Seq(Messages), NEW f, NEW v, NEW i \in Nat, i >= Len(q)
    PROVE  Expects(q, i, f, v, v)
  BY DEF Expects

LEMMA ExpectsRemove ==
    ASSUME NEW q \in Seq(Messages), NEW f, NEW d \in DOMAIN q, NEW i \in 0 .. Len(q),
           NEW current, NEW v, Expects(q, i, f, current, v), d <= i \/ ~Note(q[d], f)
    PROVE  Expects(RemoveAt(q, d), IF d <= i THEN i - 1 ELSE i, f, current, v)
  <1> DEFINE w == RemoveAt(q, d)
             p == IF d <= i THEN i - 1 ELSE i
             Old(k) == IF k < d THEN k ELSE k + 1
  <1>1. /\ Len(q) \in Nat /\ DOMAIN q = 1 .. Len(q) /\ d \in 1 .. Len(q)
        /\ DOMAIN w = 1 .. Len(q) - 1
        /\ \A k \in DOMAIN w : w[k] = q[Old(k)]
    <2>1. /\ w \in Seq(Messages) /\ Len(w) = Len(q) - 1
          /\ \A k \in 1 .. Len(q) - 1 : w[k] = IF k < d THEN q[k] ELSE q[k + 1]
      BY RemoveAtElements
    <2> HIDE DEF w
    <2> QED BY <2>1
  <1> HIDE DEF w
  <1>2. \A k \in DOMAIN w : Old(k) \in DOMAIN q /\ (p < k <=> i < Old(k))
    BY <1>1
  <1>3. \A k \in DOMAIN q : k # d => \E l \in DOMAIN w : Old(l) = k
    <2> SUFFICES ASSUME NEW k \in DOMAIN q, k # d PROVE \E l \in DOMAIN w : Old(l) = k
      OBVIOUS
    <2>1. CASE k < d
      BY <1>1, <2>1
    <2>2. CASE k > d
      <3>1. k - 1 \in DOMAIN w /\ Old(k - 1) = k
        BY <1>1, <2>2
      <3> QED BY <3>1
    <2> QED BY <1>1, <2>1, <2>2
  <1>4. \A k, l \in DOMAIN w : k < l <=> Old(k) < Old(l)
    BY <1>1
  <1>5. i < d => ~Note(q[d], f)
    BY <1>1
  <1> HIDE DEF Old
  <1>6. ASSUME NEW j \in DOMAIN w, p < j, Note(w[j], f),
               \A k \in DOMAIN w : p < k /\ k < j => ~Note(w[k], f)
        PROVE  IdBefore(w[j]) = v
    <2>1. Old(j) \in DOMAIN q /\ i < Old(j) /\ Note(q[Old(j)], f)
      BY <1>1, <1>2, <1>6
    <2>2. \A k \in DOMAIN q : i < k /\ k < Old(j) => ~Note(q[k], f)
      <3> SUFFICES ASSUME NEW k \in DOMAIN q, i < k, k < Old(j) PROVE ~Note(q[k], f)
        OBVIOUS
      <3>1. CASE k = d
        BY <1>5, <3>1
      <3>2. CASE k # d
        <4>1. PICK l \in DOMAIN w : Old(l) = k
          BY <1>3, <3>2
        <4>2. p < l /\ l < j
          BY <1>2, <1>4, <4>1
        <4> QED BY <1>1, <1>6, <4>1, <4>2
      <3> QED BY <3>1, <3>2
    <2>3. IdBefore(q[Old(j)]) = v
      BY <2>1, <2>2 DEF Expects
    <2> QED BY <1>1, <2>3
  <1>7. ASSUME \A j \in DOMAIN w : p < j => ~Note(w[j], f)
        PROVE  v = current
    <2>1. \A k \in DOMAIN q : i < k => ~Note(q[k], f)
      <3> SUFFICES ASSUME NEW k \in DOMAIN q, i < k PROVE ~Note(q[k], f)
        OBVIOUS
      <3>1. CASE k = d
        BY <1>5, <3>1
      <3>2. CASE k # d
        <4>1. PICK l \in DOMAIN w : Old(l) = k
          BY <1>3, <3>2
        <4> QED BY <1>1, <1>2, <1>7, <4>1
      <3> QED BY <3>1, <3>2
    <2> QED BY <2>1 DEF Expects
  <1> HIDE DEF p
  <1>8. Expects(w, p, f, current, v)
    BY <1>6, <1>7 DEF Expects
  <1> QED BY <1>8 DEF w, p

(* Messages before the first notification expect what follows them.        *)
LEMMA ExpectsEarlier ==
    ASSUME NEW q \in Seq(Messages), NEW f, NEW i \in 0 .. Len(q),
           NEW current, NEW v, Expects(q, i, f, current, v),
           \A k \in 1 .. i : ~Note(q[k], f)
    PROVE  Expects(q, 0, f, current, v)
  <1>1. DOMAIN q = 1 .. Len(q) /\ Len(q) \in Nat
    OBVIOUS
  <1>2. ASSUME NEW j \in DOMAIN q, Note(q[j], f),
               \A k \in DOMAIN q : 0 < k /\ k < j => ~Note(q[k], f)
        PROVE  IdBefore(q[j]) = v
    <2>1. i < j
      BY <1>1, <1>2
    <2>2. \A k \in DOMAIN q : i < k /\ k < j => ~Note(q[k], f)
      BY <1>1, <1>2
    <2> QED BY <1>2, <2>1, <2>2 DEF Expects
  <1>3. ASSUME \A j \in DOMAIN q : 0 < j => ~Note(q[j], f)
        PROVE  v = current
    <2>1. \A j \in DOMAIN q : i < j => ~Note(q[j], f)
      BY <1>1, <1>3
    <2> QED BY <2>1 DEF Expects
  <1> QED BY <1>2, <1>3 DEF Expects

LEMMA ChainAppend ==
    ASSUME NEW q \in Seq(Messages), NEW m \in Messages, NEW f, NEW known,
           NEW current, NEW next, Chain(q, f, known, current),
           IF Note(m, f) THEN IdBefore(m) = current ELSE next = current,
           Tells(m, f) => IdAfter(m) = next
    PROVE  Chain(Append(q, m), f, known, next)
  <1> DEFINE w == Append(q, m)
  <1>1. /\ Len(q) \in Nat /\ DOMAIN q = 1 .. Len(q) /\ DOMAIN w = 1 .. Len(q) + 1
        /\ w[Len(q) + 1] = m /\ \A k \in 1 .. Len(q) : w[k] = q[k]
        /\ w \in Seq(Messages) /\ Len(w) = Len(q) + 1
    OBVIOUS
  <1>2. Expects(w, 0, f, next, known)
    BY <1>1, ExpectsAppend DEF Chain
  <1>3. ASSUME NEW i \in 1 .. Len(q), Tells(q[i], f)
        PROVE  Expects(w, i, f, next, IdAfter(q[i]))
    BY <1>1, <1>3, ExpectsAppend DEF Chain
  <1>4. Expects(w, Len(q) + 1, f, next, next)
    <2> HIDE DEF w
    <2> QED BY <1>1, ExpectsLast
  <1> HIDE DEF w
  <1>5. ASSUME NEW i \in DOMAIN w, Tells(w[i], f)
        PROVE  Expects(w, i, f, next, IdAfter(w[i]))
    <2>1. CASE i \in 1 .. Len(q)
      BY <1>1, <1>3, <1>5, <2>1
    <2>2. CASE i = Len(q) + 1
      BY <1>1, <1>4, <1>5, <2>2
    <2> QED BY <1>1, <2>1, <2>2
  <1>6. Chain(w, f, known, next)
    BY <1>2, <1>5 DEF Chain
  <1> QED BY <1>6 DEF w

(* Delivering a message: NLSR takes the id it tells, if it is about f.     *)
LEMMA ChainRemove ==
    ASSUME NEW q \in Seq(Messages), NEW f, NEW d \in DOMAIN q, NEW known, NEW next,
           NEW current, Chain(q, f, known, current),
           \A k \in 1 .. d - 1 : Tells(q[d], f) => ~Tells(q[k], f),
           IF Tells(q[d], f) THEN next = IdAfter(q[d]) ELSE next = known
    PROVE  Chain(RemoveAt(q, d), f, next, current)
  <1> DEFINE w == RemoveAt(q, d)
  <1>1. /\ Len(q) \in Nat /\ DOMAIN q = 1 .. Len(q) /\ d \in 1 .. Len(q)
        /\ w \in Seq(Messages) /\ Len(w) = Len(q) - 1 /\ DOMAIN w = 1 .. Len(q) - 1
        /\ \A k \in 1 .. Len(q) - 1 : w[k] = IF k < d THEN q[k] ELSE q[k + 1]
    BY RemoveAtElements
  <1>2. Expects(w, 0, f, current, next)
    <2>1. CASE ~Tells(q[d], f)
      <3>1. ~Note(q[d], f) /\ next = known /\ Expects(q, 0, f, current, known)
        BY <2>1 DEF Tells, Chain
      <3>2. 0 \in 0 .. Len(q) /\ ~(d <= 0)
        BY <1>1
      <3> QED BY <3>1, <3>2, ExpectsRemove
    <2>2. CASE Tells(q[d], f)
      <3>1. next = IdAfter(q[d]) /\ Expects(q, d, f, current, next)
        BY <2>2 DEF Chain
      <3>2. d \in 0 .. Len(q) /\ d <= d
        BY <1>1
      <3>3. Expects(w, d - 1, f, current, next)
        BY <3>1, <3>2, ExpectsRemove
      <3>4. \A k \in 1 .. d - 1 : ~Note(w[k], f)
        BY <1>1, <2>2 DEF Tells
      <3>5. d - 1 \in 0 .. Len(w)
        BY <1>1
      <3> HIDE DEF w
      <3> QED BY <1>1, <3>3, <3>4, <3>5, ExpectsEarlier
    <2> QED BY <2>1, <2>2
  <1>3. ASSUME NEW i \in DOMAIN w, Tells(w[i], f)
        PROVE  Expects(w, i, f, current, IdAfter(w[i]))
    <2> DEFINE o == IF i < d THEN i ELSE i + 1
    <2>1. o \in DOMAIN q /\ o # d /\ w[i] = q[o] /\ o \in 0 .. Len(q)
      BY <1>1
    <2>2. Expects(q, o, f, current, IdAfter(w[i]))
      BY <1>3, <2>1 DEF Chain
    <2>3. d <= o \/ ~Note(q[d], f)
      BY <1>1, <1>3, <2>1 DEF Tells
    <2>4. i = IF d <= o THEN o - 1 ELSE o
      BY <1>1
    <2> HIDE DEF o
    <2> QED BY <2>1, <2>2, <2>3, <2>4, ExpectsRemove
  <1> QED BY <1>2, <1>3 DEF Chain

LEMMA MessageKinds ==
    ASSUME NEW m \in Messages, NEW f
    PROVE  /\ m.kind \in {"success", "failure", "timeout", "destroyed", "created"}
           /\ m.kind \in {"failure", "timeout"} => ~Tells(m, f)
           /\ m.kind = "success" => (Tells(m, f) <=> m.cmd.hop.face = f)
           /\ m.kind \in {"destroyed", "created"} => (Tells(m, f) <=> m.face = f)
  BY DEF Messages, Tells, Note

LEMMA IdChainInitially == Init => IdChain
  <1> SUFFICES ASSUME Init, NEW f \in Faces PROVE Chain(inbox, f, faceId[f], Current(f))
    BY DEF IdChain
  <1>1. inbox = <<>> /\ faceId[f] = 1 /\ nfd[f].up /\ nfd[f].id = 1
    BY DEF Init
  <1>2. Current(f) = 1
    BY <1>1 DEF Current
  <1>3. DOMAIN inbox = {}
    BY <1>1
  <1> QED BY <1>1, <1>2, <1>3 DEF Chain, Expects

LEMMA IdChainDeliver ==
    ASSUME TypeOK, IdChain, Deliver
    PROVE  IdChain'
  <1>1. PICK i \in DOMAIN inbox :
          OnRegistrationSuccess(i) \/ OnRegistrationFailure(i) \/ FaceDestroyed(i) \/ FaceCreated(i)
    BY DEF Deliver
  <1> DEFINE m == inbox[i]
  <1>2. inbox \in Seq(Messages) /\ m \in Messages /\ faceId \in [Faces -> Nat]
    BY DEF TypeOK
  <1>3. Take(i)
    BY <1>1 DEF OnRegistrationSuccess, OnRegistrationFailure, FaceDestroyed, FaceCreated
  <1> SUFFICES ASSUME NEW f \in Faces
               PROVE  Chain(inbox', f, faceId'[f], Current(f)')
    BY DEF IdChain
  <1>4. Chain(inbox, f, faceId[f], Current(f)) /\ Current(f)' = Current(f)
    BY <1>3 DEF IdChain, Take, Current
  <1>5. \A k \in 1 .. i - 1 : Tells(m, f) => ~Tells(inbox[k], f)
    <2> SUFFICES ASSUME NEW k \in 1 .. i - 1, Tells(m, f) PROVE ~Tells(inbox[k], f)
      OBVIOUS
    <2>1. m.kind # "timeout"
      BY <1>2, MessageKinds
    <2>2. inbox[k].kind = "timeout" /\ inbox[k] \in Messages
      BY <1>2, <1>3, <2>1 DEF Take, Deliverable
    <2> QED BY <2>2, MessageKinds
  <1>6. IF Tells(m, f) THEN faceId'[f] = IdAfter(m) ELSE faceId'[f] = faceId[f]
    <2>1. CASE OnRegistrationSuccess(i)
      <3>1. m.kind = "success" /\ faceId' = [faceId EXCEPT ![m.cmd.hop.face] = m.cmd.id]
        BY <2>1 DEF OnRegistrationSuccess
      <3>2. Tells(m, f) <=> m.cmd.hop.face = f
        BY <1>2, <3>1, MessageKinds
      <3> HIDE DEF m
      <3> QED BY <1>2, <3>1, <3>2 DEF IdAfter
    <2>2. CASE OnRegistrationFailure(i)
      <3>1. m.kind \in {"failure", "timeout"} /\ faceId' = faceId
        BY <2>2 DEF OnRegistrationFailure
      <3> QED BY <1>2, <3>1, MessageKinds
    <2>3. CASE FaceDestroyed(i)
      <3>1. /\ m.kind = "destroyed"
            /\ faceId' = [faceId EXCEPT ![m.face] = IF @ = m.id THEN 0 ELSE @]
        BY <2>3 DEF FaceDestroyed
      <3>2. Tells(m, f) <=> m.face = f
        BY <1>2, <3>1, MessageKinds
      <3>3. ASSUME m.face = f PROVE faceId[f] = m.id
        <4>1. Note(m, f) /\ Tells(m, f) /\ IdBefore(m) = m.id
          BY <3>1, <3>3 DEF Note, Tells, IdBefore
        <4>2. \A k \in DOMAIN inbox : 0 < k /\ k < i => ~Note(inbox[k], f)
          BY <1>2, <1>5, <4>1 DEF Tells
        <4>3. Expects(inbox, 0, f, Current(f), faceId[f]) /\ 0 < i
          BY <1>2, <1>4 DEF Chain
        <4> QED BY <4>1, <4>2, <4>3 DEF Expects
      <3> HIDE DEF m
      <3> QED BY <1>2, <3>1, <3>2, <3>3 DEF IdAfter
    <2>4. CASE FaceCreated(i)
      <3>1. m.kind = "created" /\ faceId' = [faceId EXCEPT ![m.face] = m.id]
        BY <2>4 DEF FaceCreated
      <3>2. Tells(m, f) <=> m.face = f
        BY <1>2, <3>1, MessageKinds
      <3> HIDE DEF m
      <3> QED BY <1>2, <3>1, <3>2 DEF IdAfter
    <2> QED BY <1>1, <2>1, <2>2, <2>3, <2>4
  <1>7. Chain(RemoveAt(inbox, i), f, faceId'[f], Current(f))
    BY <1>2, <1>4, <1>5, <1>6, ChainRemove
  <1> QED BY <1>3, <1>4, <1>7 DEF Take

LEMMA IdChainAnswer ==
    ASSUME TypeOK, IdChain, NEW c \in Commands, NEW kind \in {"success", "failure", "timeout"},
           Answer(c, kind), kind = "success" => FaceExists(c), UNCHANGED <<faceId, nfd>>
    PROVE  IdChain'
  <1> SUFFICES ASSUME NEW f \in Faces
               PROVE  Chain(inbox', f, faceId[f], Current(f))
    BY DEF IdChain, Current
  <1>1. Chain(inbox, f, faceId[f], Current(f)) /\ inbox \in Seq(Messages)
    BY DEF IdChain, TypeOK
  <1>2. CASE c.op = "register"
    <2> DEFINE m == [kind |-> kind, cmd |-> c]
    <2>1. m \in Messages /\ m.kind = kind /\ m.cmd = c /\ inbox' = Append(inbox, m)
      BY <1>2 DEF Messages, Answer
    <2> HIDE DEF m
    <2>2. ~Note(m, f)
      BY <2>1 DEF Note
    <2>3. Tells(m, f) => IdAfter(m) = Current(f)
      BY <2>1 DEF Tells, Note, IdAfter, FaceExists, Current
    <2>4. Chain(Append(inbox, m), f, faceId[f], Current(f))
      BY <1>1, <2>1, <2>2, <2>3, ChainAppend
    <2> QED BY <2>1, <2>4
  <1>3. CASE c.op # "register"
    BY <1>1, <1>3 DEF Answer
  <1> QED BY <1>2, <1>3

LEMMA IdChainFaceEvent ==
    ASSUME TypeOK, IdChain, NEW g \in Faces, FaceEvent(g)
    PROVE  IdChain'
  <1> SUFFICES ASSUME NEW f \in Faces
               PROVE  Chain(inbox', f, faceId[f], Current(f)')
    BY DEF IdChain, FaceEvent
  <1>1. Chain(inbox, f, faceId[f], Current(f)) /\ inbox \in Seq(Messages)
    BY DEF IdChain, TypeOK
  <1>2. nfd[g] \in [up : BOOLEAN, id : Nat \ {0}] /\ nfd \in [Faces -> [up : BOOLEAN, id : Nat \ {0}]]
    BY DEF TypeOK
  <1>3. CASE nfd[g].up
    <2> DEFINE m == [kind |-> "destroyed", face |-> g, id |-> nfd[g].id]
    <2>1. m \in Messages /\ m.kind = "destroyed" /\ m.face = g /\ m.id = nfd[g].id
      BY <1>2 DEF Messages
    <2>2. inbox' = Append(inbox, m) /\ nfd' = [nfd EXCEPT ![g].up = FALSE]
      BY <1>3 DEF FaceEvent
    <2> HIDE DEF m
    <2>3. f # g => Current(f)' = Current(f)
      BY <1>2, <2>2 DEF Current
    <2>4. f = g => Current(f) = m.id /\ Current(f)' = 0
      BY <1>2, <1>3, <2>1, <2>2 DEF Current
    <2>5. (Note(m, f) <=> f = g) /\ (Tells(m, f) <=> f = g) /\ IdBefore(m) = m.id /\ IdAfter(m) = 0
      BY <2>1 DEF Note, Tells, IdBefore, IdAfter
    <2>6. Chain(Append(inbox, m), f, faceId[f], Current(f)')
      BY <1>1, <2>1, <2>3, <2>4, <2>5, ChainAppend
    <2> QED BY <2>2, <2>6
  <1>4. CASE ~nfd[g].up
    <2> DEFINE m == [kind |-> "created", face |-> g, id |-> nfd[g].id + 1]
    <2>1. m \in Messages /\ m.kind = "created" /\ m.face = g /\ m.id = nfd[g].id + 1
      BY <1>2 DEF Messages
    <2>2. inbox' = Append(inbox, m) /\ nfd' = [nfd EXCEPT ![g] = [up |-> TRUE, id |-> nfd[g].id + 1]]
      BY <1>4 DEF FaceEvent
    <2> HIDE DEF m
    <2>3. f # g => Current(f)' = Current(f)
      BY <1>2, <2>2 DEF Current
    <2>4. f = g => Current(f) = 0 /\ Current(f)' = m.id
      BY <1>2, <1>4, <2>1, <2>2 DEF Current
    <2>5. (Note(m, f) <=> f = g) /\ (Tells(m, f) <=> f = g) /\ IdBefore(m) = 0 /\ IdAfter(m) = m.id
      BY <2>1 DEF Note, Tells, IdBefore, IdAfter
    <2>6. Chain(Append(inbox, m), f, faceId[f], Current(f)')
      BY <1>1, <2>1, <2>3, <2>4, <2>5, ChainAppend
    <2> QED BY <2>2, <2>6
  <1> QED BY <1>3, <1>4

LEMMA IdChainStep == TypeOK /\ IdChain /\ [Next]_vars => IdChain'
  <1> SUFFICES ASSUME TypeOK, IdChain, [Next]_vars PROVE IdChain'
    OBVIOUS
  <1>1. CASE Deliver
    BY <1>1, IdChainDeliver
  <1>2. CASE NfdAnswers \/ NfdFails
    <2> DEFINE c == Head(cmds)
    <2>1. TakeCommand /\ (Accept(c) \/ Refuse(c) \/ Fault(c))
      BY <1>2 DEF NfdAnswers, NfdFails
    <2>2. c \in Commands /\ UNCHANGED <<faceId, nfd>>
      BY <2>1, TypeOKTakeCommand DEF TakeCommand
    <2> HIDE DEF c
    <2>3. \E kind \in {"success", "failure", "timeout"} :
             Answer(c, kind) /\ (kind = "success" => FaceExists(c))
      BY <2>1 DEF Accept, Refuse, Fault
    <2> QED BY <2>2, <2>3, IdChainAnswer
  <1>3. CASE \E f \in Faces : FaceEvent(f)
    BY <1>3, IdChainFaceEvent
  <1>4. CASE \/ \E allHops \in HopLists : Update(allHops)
             \/ Refresh \/ Terminate
             \/ \E r \in rib : Expire(r)
             \/ UNCHANGED vars
    <2>1. UNCHANGED <<inbox, faceId, nfd>>
      BY <1>4 DEF Update, Refresh, Terminate, Expire, vars
    <2> QED BY <2>1 DEF IdChain, Current
  <1> QED BY <1>1, <1>2, <1>3, <1>4 DEF Next

(* Whatever order registrations, their answers and timeouts, and faces     *)
(* going and coming take, the adjacency list ends up with the id NFD has   *)
(* for a face once the notifications about the face are handled.           *)
THEOREM FaceIdsAlwaysSettle == Spec => []FaceIdsSettle
  <1>1. IdChain => FaceIdsSettle
    BY DEF IdChain, Chain, Expects, Note, Current, FaceIdsSettle
  <1> QED BY <1>1, TypeOKInitially, TypeOKStep, IdChainInitially, IdChainStep, PTL DEF Spec

-----------------------------------------------------------------------------
(* Routes.  The last command on its way about a face decides whether NFD   *)
(* will route the prefix over it.                                          *)

Sends(q, f) == \E i \in DOMAIN q : q[i].hop.face = f

EndsWith(q, f, op) ==
    \E i \in DOMAIN q :
       /\ q[i].hop.face = f /\ q[i].op = op
       /\ \A j \in DOMAIN q : i < j => q[j].hop.face # f

Routed == {r.face : r \in rib}

WillBeRouted(f) == EndsWith(cmds, f, "register") \/ (f \in Routed /\ ~Sends(cmds, f))

SameFaces == FacesOf(hops) = FacesOf(listed)

(* Without faults every id is the first one, and every answer a success.   *)
Undisturbed ==
    NoFaults =>
       /\ \A f \in Faces : nfd[f].up /\ nfd[f].id = 1 /\ faceId[f] = 1
       /\ \A i \in DOMAIN cmds : cmds[i].id = 1
       /\ \A i \in DOMAIN inbox : inbox[i].kind = "success" /\ inbox[i].cmd.id = 1

(* Without faults the commands on their way lead NFD to the faces listed,  *)
(* and a route that may expire is being registered again.                  *)
WillFollowList ==
    running /\ NoFaults =>
       /\ \A f \in Faces : WillBeRouted(f) <=> f \in FacesOf(listed)
       /\ \A r \in rib : r.aged => Sends(cmds, r.face)

RouteInv == SameFaces /\ Undisturbed /\ WillFollowList

LEMMA SendsConcat ==
    ASSUME NEW q \in Seq(Commands), NEW w \in Seq(Commands), NEW f, NEW op
    PROVE  /\ Sends(q \o w, f) <=> Sends(q, f) \/ Sends(w, f)
           /\ EndsWith(q \o w, f, op) <=>
                 EndsWith(w, f, op) \/ (~Sends(w, f) /\ EndsWith(q, f, op))
  <1> DEFINE a == Len(q)
             b == Len(w)
             z == q \o w
  <1>1. /\ a \in Nat /\ b \in Nat /\ DOMAIN q = 1 .. a /\ DOMAIN w = 1 .. b
        /\ DOMAIN z = 1 .. a + b
        /\ \A i \in 1 .. a : z[i] = q[i]
        /\ \A i \in 1 .. b : z[a + i] = w[i]
    OBVIOUS
  <1> HIDE DEF a, b, z
  <1>2. \A i \in 1 .. a + b : i \in 1 .. a \/ \E j \in 1 .. b : i = a + j
    <2> SUFFICES ASSUME NEW i \in 1 .. a + b, i \notin 1 .. a PROVE \E j \in 1 .. b : i = a + j
      OBVIOUS
    <2>1. i - a \in 1 .. b /\ i = a + (i - a)
      BY <1>1
    <2> QED BY <2>1
  <1>3. Sends(z, f) <=> Sends(q, f) \/ Sends(w, f)
    <2>1. ASSUME Sends(z, f) PROVE Sends(q, f) \/ Sends(w, f)
      <3>1. PICK i \in 1 .. a + b : z[i].hop.face = f
        BY <1>1, <2>1 DEF Sends
      <3>2. CASE i \in 1 .. a
        BY <1>1, <3>1, <3>2 DEF Sends
      <3>3. CASE \E j \in 1 .. b : i = a + j
        BY <1>1, <3>1, <3>3 DEF Sends
      <3> QED BY <1>2, <3>2, <3>3
    <2>2. ASSUME Sends(q, f) PROVE Sends(z, f)
      BY <1>1, <2>2 DEF Sends
    <2>3. ASSUME Sends(w, f) PROVE Sends(z, f)
      <3>1. PICK i \in 1 .. b : w[i].hop.face = f
        BY <1>1, <2>3 DEF Sends
      <3>2. a + i \in 1 .. a + b
        BY <1>1
      <3> QED BY <1>1, <3>1, <3>2 DEF Sends
    <2> QED BY <2>1, <2>2, <2>3
  <1>4. ASSUME EndsWith(w, f, op) PROVE EndsWith(z, f, op)
    <2>1. PICK i \in 1 .. b : /\ w[i].hop.face = f /\ w[i].op = op
                              /\ \A j \in 1 .. b : i < j => w[j].hop.face # f
      BY <1>1, <1>4 DEF EndsWith
    <2>2. a + i \in 1 .. a + b /\ z[a + i] = w[i]
      BY <1>1
    <2>3. ASSUME NEW j \in 1 .. a + b, a + i < j PROVE z[j].hop.face # f
      <3>1. PICK k \in 1 .. b : j = a + k
        BY <1>1, <1>2, <2>3
      <3>2. i < k
        BY <1>1, <2>3, <3>1
      <3> QED BY <1>1, <2>1, <3>1, <3>2
    <2> QED BY <1>1, <2>1, <2>2, <2>3 DEF EndsWith
  <1>5. ASSUME ~Sends(w, f), EndsWith(q, f, op) PROVE EndsWith(z, f, op)
    <2>1. PICK i \in 1 .. a : /\ q[i].hop.face = f /\ q[i].op = op
                              /\ \A j \in 1 .. a : i < j => q[j].hop.face # f
      BY <1>1, <1>5 DEF EndsWith
    <2>2. i \in 1 .. a + b /\ z[i] = q[i]
      BY <1>1
    <2>3. ASSUME NEW j \in 1 .. a + b, i < j PROVE z[j].hop.face # f
      <3>1. CASE j \in 1 .. a
        BY <1>1, <2>1, <2>3, <3>1
      <3>2. CASE \E k \in 1 .. b : j = a + k
        BY <1>1, <1>5, <3>2 DEF Sends
      <3> QED BY <1>2, <3>1, <3>2
    <2> QED BY <1>1, <2>1, <2>2, <2>3 DEF EndsWith
  <1>6. ASSUME EndsWith(z, f, op)
        PROVE  EndsWith(w, f, op) \/ (~Sends(w, f) /\ EndsWith(q, f, op))
    <2>1. PICK i \in 1 .. a + b : /\ z[i].hop.face = f /\ z[i].op = op
                                  /\ \A j \in 1 .. a + b : i < j => z[j].hop.face # f
      BY <1>1, <1>6 DEF EndsWith
    <2>2. CASE i \in 1 .. a
      <3>1. ASSUME NEW k \in 1 .. b PROVE w[k].hop.face # f
        <4>1. a + k \in 1 .. a + b /\ i < a + k
          BY <1>1, <2>2
        <4> QED BY <1>1, <2>1, <4>1
      <3>2. ASSUME NEW j \in 1 .. a, i < j PROVE q[j].hop.face # f
        <4>1. j \in 1 .. a + b
          BY <1>1
        <4> QED BY <1>1, <2>1, <3>2, <4>1
      <3> QED BY <1>1, <2>1, <2>2, <3>1, <3>2 DEF EndsWith, Sends
    <2>3. CASE \E k \in 1 .. b : i = a + k
      <3>1. PICK k \in 1 .. b : i = a + k
        BY <2>3
      <3>2. ASSUME NEW j \in 1 .. b, k < j PROVE w[j].hop.face # f
        <4>1. a + j \in 1 .. a + b /\ i < a + j
          BY <1>1, <3>1, <3>2
        <4> QED BY <1>1, <2>1, <4>1
      <3> QED BY <1>1, <2>1, <3>1, <3>2 DEF EndsWith
    <2> QED BY <1>2, <2>2, <2>3
  <1> QED BY <1>3, <1>4, <1>5, <1>6 DEF z

LEMMA SendsTail ==
    ASSUME NEW q \in Seq(Commands), q # <<>>, NEW f, NEW op
    PROVE  /\ Sends(q, f) <=> Head(q).hop.face = f \/ Sends(Tail(q), f)
           /\ EndsWith(q, f, op) <=>
                 \/ EndsWith(Tail(q), f, op)
                 \/ ~Sends(Tail(q), f) /\ Head(q).hop.face = f /\ Head(q).op = op
  <1> DEFINE h == <<Head(q)>>
  <1>1. h \in Seq(Commands) /\ Tail(q) \in Seq(Commands) /\ q = h \o Tail(q)
    OBVIOUS
  <1>2. DOMAIN h = {1} /\ h[1] = Head(q)
    OBVIOUS
  <1> HIDE DEF h
  <1>3. Sends(h, f) <=> Head(q).hop.face = f
    BY <1>2 DEF Sends
  <1>4. EndsWith(h, f, op) <=> Head(q).hop.face = f /\ Head(q).op = op
    BY <1>2 DEF EndsWith
  <1>5. /\ Sends(h \o Tail(q), f) <=> Sends(h, f) \/ Sends(Tail(q), f)
        /\ EndsWith(h \o Tail(q), f, op) <=>
              EndsWith(Tail(q), f, op) \/ (~Sends(Tail(q), f) /\ EndsWith(h, f, op))
    BY <1>1, SendsConcat
  <1>6. q = h \o Tail(q)
    BY <1>1
  <1> QED BY <1>3, <1>4, <1>5, <1>6, Zenon

(* What the walks send when every face has an id.                          *)
LEMMA WalkSends ==
    ASSUME NEW op \in {"register", "unregister"}, NEW hs \in HopLists,
           faceId \in [Faces -> Nat], \A f \in Faces : faceId[f] = 1, NEW f
    PROVE  /\ Walk(op, hs) \in Seq(Commands)
           /\ Sends(Walk(op, hs), f) <=> f \in FacesOf(hs)
           /\ \A p : EndsWith(Walk(op, hs), f, p) <=> f \in FacesOf(hs) /\ p = op
           /\ \A i \in DOMAIN Walk(op, hs) : Walk(op, hs)[i].id = 1
  <1> DEFINE w == Walk(op, hs)
  <1>1. /\ w \in Seq(Commands)
        /\ \A i \in DOMAIN w : w[i].op = op /\ w[i].hop \in hs /\ w[i].id = faceId[w[i].hop.face]
        /\ \A i, j \in DOMAIN w : w[i].hop.face = w[j].hop.face => i = j
        /\ \A h \in hs : faceId[h.face] > 0 => \E i \in DOMAIN w : w[i].hop = h
    BY WalkCommands
  <1> HIDE DEF w
  <1>2. \A h \in hs : h.face \in Faces /\ faceId[h.face] = 1
    BY HopFields DEF HopLists
  <1>3. \A h \in hs : \E i \in DOMAIN w : w[i].hop = h
    BY <1>1, <1>2
  <1>4. Sends(w, f) <=> f \in FacesOf(hs)
    BY <1>1, <1>3 DEF Sends, FacesOf
  <1>5. DOMAIN w = 1 .. Len(w) /\ Len(w) \in Nat
    BY <1>1
  <1>6. ASSUME NEW p PROVE EndsWith(w, f, p) <=> f \in FacesOf(hs) /\ p = op
    <2>1. ASSUME EndsWith(w, f, p) PROVE f \in FacesOf(hs) /\ p = op
      BY <1>1, <2>1 DEF EndsWith, FacesOf
    <2>2. ASSUME f \in FacesOf(hs) PROVE EndsWith(w, f, op)
      <3>1. PICK i \in DOMAIN w : w[i].hop.face = f
        BY <1>4, <2>2 DEF Sends
      <3>2. \A j \in DOMAIN w : i < j => w[j].hop.face # f
        BY <1>1, <1>5, <3>1
      <3> QED BY <1>1, <3>1, <3>2 DEF EndsWith
    <2> QED BY <2>1, <2>2
  <1>7. \A i \in DOMAIN w : w[i].id = 1
    BY <1>1, <1>2
  <1> QED BY <1>1, <1>4, <1>6, <1>7 DEF w

LEMMA RouteInvInitially == Init => RouteInv
  <1> SUFFICES ASSUME Init PROVE RouteInv
    OBVIOUS
  <1>1. /\ hops = {} /\ listed = {} /\ rib = {} /\ DOMAIN cmds = {} /\ DOMAIN inbox = {}
        /\ \A f \in Faces : nfd[f].up /\ nfd[f].id = 1 /\ faceId[f] = 1
    BY DEF Init
  <1>2. SameFaces
    BY <1>1 DEF SameFaces
  <1>3. Undisturbed
    BY <1>1 DEF Undisturbed
  <1>4. WillFollowList
    BY <1>1 DEF WillFollowList, WillBeRouted, EndsWith, Sends, Routed, FacesOf
  <1> QED BY <1>2, <1>3, <1>4 DEF RouteInv

LEMMA UndisturbedIds ==
    ASSUME TypeOK, Undisturbed, NoFaults
    PROVE  /\ faceId \in [Faces -> Nat] /\ \A f \in Faces : faceId[f] = 1
           /\ cmds \in Seq(Commands) /\ inbox \in Seq(Messages)
           /\ hops \in HopLists /\ hops \subseteq Hops
  BY DEF TypeOK, Undisturbed, HopLists

(* Commands with the first id keep the entry undisturbed.                  *)
LEMMA UndisturbedSend ==
    ASSUME TypeOK, Undisturbed, NEW w \in Seq(Commands),
           NoFaults => \A i \in DOMAIN w : w[i].id = 1,
           cmds' = cmds \o w, NoFaults' => NoFaults, UNCHANGED <<faceId, inbox, nfd>>
    PROVE  Undisturbed'
  <1> SUFFICES ASSUME NoFaults, NEW i \in DOMAIN cmds' PROVE cmds'[i].id = 1
    BY DEF Undisturbed
  <1>1. cmds \in Seq(Commands) /\ \A k \in DOMAIN cmds : cmds[k].id = 1
    BY DEF TypeOK, Undisturbed
  <1>2. CASE i \in DOMAIN cmds
    <2>1. cmds'[i] = cmds[i]
      BY <1>1, <1>2
    <2> QED BY <1>1, <1>2, <2>1
  <1>3. CASE i \notin DOMAIN cmds
    <2>1. i - Len(cmds) \in DOMAIN w /\ cmds'[i] = w[i - Len(cmds)]
      BY <1>1, <1>3
    <2> QED BY <2>1
  <1> QED BY <1>2, <1>3

LEMMA RouteInvUpdate ==
    ASSUME TypeOK, RouteInv, NEW allHops \in HopLists, Update(allHops)
    PROVE  RouteInv'
  <1> DEFINE hs == First(allHops, MaxFacesPerPrefix)
             old == OldNextHops(hops, hs)
             reg == RegisterAll(hs)
             unreg == UnregisterAll(old)
             gone == UnregisterAll(hops)
  <1>1. hs \in HopLists /\ hops \in HopLists /\ old \in HopLists
    BY FirstIsList, OldNextHopsIsList DEF TypeOK
  <1>2. /\ listed' = hs /\ UNCHANGED <<running, faceId, inbox, nfd, rib>>
        /\ NoFaults' <=> NoFaults
        /\ \/ RemoveEntry /\ hs = {}
           \/ UpdateEntry(hs)
    <2>1. env' = [env EXCEPT !.updates = @ + 1]
      BY DEF Update
    <2>2. env \in Counts
      BY DEF TypeOK, Counts
    <2>3. NoFaults' <=> NoFaults
      BY <2>1, <2>2 DEF NoFaults, Counts
    <2> QED BY <2>3 DEF Update
  <1>3. reg \in Seq(Commands) /\ unreg \in Seq(Commands) /\ gone \in Seq(Commands) /\ cmds \in Seq(Commands)
    BY <1>1, WalksTyped DEF TypeOK
  <1>4. \A h \in hs : h.face \in FacesOf(hs)
    BY DEF FacesOf
  <1>5. FacesOf(old) = FacesOf(hops) \ FacesOf(hs)
    BY DEF OldNextHops, FacesOf
  <1> HIDE DEF hs, old
  <1>6. SameFaces'
    BY <1>1, <1>2, NewNextHopsIsList DEF SameFaces, RemoveEntry, UpdateEntry
  <1>7. NoFaults => /\ \A i \in DOMAIN reg : reg[i].id = 1
                    /\ \A i \in DOMAIN unreg : unreg[i].id = 1
                    /\ \A i \in DOMAIN gone : gone[i].id = 1
    BY <1>1, UndisturbedIds, WalkSends DEF RegisterAll, UnregisterAll, RouteInv
  <1>8. NoFaults => \A f : /\ Sends(reg, f) <=> f \in FacesOf(hs)
                           /\ EndsWith(reg, f, "register") <=> f \in FacesOf(hs)
                           /\ Sends(unreg, f) <=> f \in FacesOf(old)
                           /\ ~EndsWith(unreg, f, "register")
                           /\ Sends(gone, f) <=> f \in FacesOf(hops)
                           /\ ~EndsWith(gone, f, "register")
    BY <1>1, UndisturbedIds, WalkSends DEF RegisterAll, UnregisterAll, RouteInv
  <1> HIDE DEF reg, unreg, gone
  <1>9. CASE RemoveEntry /\ hs = {}
    <2>1. cmds' = cmds \o gone /\ FacesOf(hs) = {}
      BY <1>9 DEF RemoveEntry, gone, FacesOf
    <2>2. Undisturbed'
      BY <1>2, <1>3, <1>7, <2>1, UndisturbedSend DEF RouteInv
    <2>3. WillFollowList'
      <3> SUFFICES ASSUME running, NoFaults
                   PROVE  /\ \A f \in Faces : ~WillBeRouted(f)'
                          /\ \A r \in rib : r.aged => Sends(cmds', r.face)
        BY <1>2, <2>1 DEF WillFollowList
      <3>1. ASSUME NEW f \in Faces PROVE ~WillBeRouted(f)'
        <4>1. WillBeRouted(f) <=> f \in FacesOf(hops)
          BY DEF RouteInv, WillFollowList, SameFaces
        <4>2. /\ Sends(cmds', f) <=> Sends(cmds, f) \/ f \in FacesOf(hops)
              /\ EndsWith(cmds', f, "register") <=> f \notin FacesOf(hops) /\ EndsWith(cmds, f, "register")
          BY <1>3, <1>8, <2>1, SendsConcat
        <4>3. Routed' = Routed
          BY <1>2 DEF Routed
        <4> QED BY <4>1, <4>2, <4>3 DEF WillBeRouted
      <3>2. ASSUME NEW r \in rib, r.aged PROVE Sends(cmds', r.face)
        BY <1>3, <2>1, <3>2, SendsConcat DEF RouteInv, WillFollowList
      <3> QED BY <3>1, <3>2
    <2> QED BY <1>6, <2>2, <2>3 DEF RouteInv
  <1>10. CASE UpdateEntry(hs)
    <2> DEFINE w == reg \o unreg
    <2>1. w \in Seq(Commands) /\ cmds' = cmds \o w
      BY <1>3, <1>10, ConcatAssociative DEF UpdateEntry, reg, unreg, old
    <2>2. NoFaults => \A i \in DOMAIN w : w[i].id = 1
      <3> SUFFICES ASSUME NoFaults, NEW i \in DOMAIN w PROVE w[i].id = 1
        OBVIOUS
      <3>1. CASE i \in DOMAIN reg
        <4>1. w[i] = reg[i]
          BY <1>3, <3>1
        <4> QED BY <1>7, <3>1, <4>1
      <3>2. CASE i \notin DOMAIN reg
        <4>1. i - Len(reg) \in DOMAIN unreg /\ w[i] = unreg[i - Len(reg)]
          BY <1>3, <3>2
        <4> QED BY <1>7, <4>1
      <3> QED BY <3>1, <3>2
    <2>3. NoFaults => \A f : /\ Sends(w, f) <=> f \in FacesOf(hs) \/ f \in FacesOf(hops)
                             /\ EndsWith(w, f, "register") <=> f \in FacesOf(hs)
      BY <1>3, <1>5, <1>8, SendsConcat
    <2> HIDE DEF w
    <2>4. Undisturbed'
      BY <1>2, <2>1, <2>2, UndisturbedSend DEF RouteInv
    <2>5. WillFollowList'
      <3> SUFFICES ASSUME running, NoFaults
                   PROVE  /\ \A f \in Faces : WillBeRouted(f)' <=> f \in FacesOf(hs)
                          /\ \A r \in rib : r.aged => Sends(cmds', r.face)
        BY <1>2 DEF WillFollowList
      <3>1. ASSUME NEW f \in Faces PROVE WillBeRouted(f)' <=> f \in FacesOf(hs)
        <4>1. WillBeRouted(f) <=> f \in FacesOf(hops)
          BY DEF RouteInv, WillFollowList, SameFaces
        <4>2. /\ Sends(cmds', f) <=> Sends(cmds, f) \/ Sends(w, f)
              /\ EndsWith(cmds', f, "register") <=>
                    EndsWith(w, f, "register") \/ (~Sends(w, f) /\ EndsWith(cmds, f, "register"))
          BY <1>3, <2>1, SendsConcat
        <4>3. Routed' = Routed
          BY <1>2 DEF Routed
        <4> QED BY <2>3, <4>1, <4>2, <4>3 DEF WillBeRouted
      <3>2. ASSUME NEW r \in rib, r.aged PROVE Sends(cmds', r.face)
        BY <1>3, <2>1, <3>2, SendsConcat DEF RouteInv, WillFollowList
      <3> QED BY <3>1, <3>2
    <2> QED BY <1>6, <2>4, <2>5 DEF RouteInv
  <1> QED BY <1>2, <1>9, <1>10

LEMMA RouteInvRefresh ==
    ASSUME TypeOK, RouteInv, Refresh
    PROVE  RouteInv'
  <1> DEFINE reg == RegisterAll(hops)
  <1>1. /\ UNCHANGED <<running, hops, listed, faceId, inbox, nfd, env>>
        /\ cmds = <<>> /\ cmds' = cmds \o reg
        /\ rib' = {[r EXCEPT !.aged = TRUE] : r \in rib}
    BY DEF Refresh, RefreshEntry, Quiet
  <1>2. reg \in Seq(Commands) /\ hops \in HopLists /\ cmds \in Seq(Commands)
    BY WalksTyped DEF TypeOK
  <1>3. NoFaults => /\ \A i \in DOMAIN reg : reg[i].id = 1
                    /\ \A f : /\ Sends(reg, f) <=> f \in FacesOf(hops)
                              /\ EndsWith(reg, f, "register") <=> f \in FacesOf(hops)
    BY <1>2, UndisturbedIds, WalkSends DEF RegisterAll, RouteInv
  <1> HIDE DEF reg
  <1>4. Undisturbed'
    BY <1>1, <1>2, <1>3, UndisturbedSend DEF RouteInv, NoFaults
  <1>5. \A r \in rib : [r EXCEPT !.aged = TRUE].face = r.face
    BY DEF TypeOK
  <1>6. Routed' = Routed
    BY <1>1, <1>5 DEF Routed
  <1>7. WillFollowList'
    <2> SUFFICES ASSUME running, NoFaults
                 PROVE  /\ \A f \in Faces : WillBeRouted(f)' <=> f \in FacesOf(hops)
                        /\ \A r \in rib' : Sends(cmds', r.face)
      BY <1>1 DEF WillFollowList, RouteInv, SameFaces, NoFaults
    <2>1. \A f : ~Sends(cmds, f) /\ ~EndsWith(cmds, f, "register")
      BY <1>1 DEF Sends, EndsWith
    <2>2. \A f : /\ Sends(cmds', f) <=> f \in FacesOf(hops)
                 /\ EndsWith(cmds', f, "register") <=> f \in FacesOf(hops)
      BY <1>1, <1>2, <1>3, <2>1, SendsConcat
    <2>3. \A f \in Faces : f \in Routed <=> f \in FacesOf(hops)
      BY <2>1 DEF RouteInv, WillFollowList, WillBeRouted, SameFaces
    <2>4. \A r \in rib' : r.face \in Routed /\ r.face \in Faces
      <3> SUFFICES ASSUME NEW r \in rib
                   PROVE  [r EXCEPT !.aged = TRUE].face \in Routed /\ [r EXCEPT !.aged = TRUE].face \in Faces
        BY <1>1
      <3>1. r.face \in Routed /\ r.face \in Faces
        BY DEF Routed, TypeOK
      <3> QED BY <1>5, <3>1
    <2> QED BY <1>6, <2>2, <2>3, <2>4 DEF WillBeRouted
  <1> QED BY <1>1, <1>4, <1>7 DEF RouteInv, SameFaces

LEMMA RouteInvTerminate ==
    ASSUME TypeOK, RouteInv, Terminate
    PROVE  RouteInv'
  <1>1. UNCHANGED <<hops, listed, faceId, inbox, nfd, env>> /\ ~running'
    BY DEF Terminate
  <1>2. hops \in HopLists
    BY DEF TypeOK
  <1>3. PICK sent \in {<<>>, UnregisterAll(hops)} : cmds' = cmds \o sent
    BY DEF Terminate
  <1>4. sent \in Seq(Commands)
    <2>1. UnregisterAll(hops) \in Seq(Commands) /\ <<>> \in Seq(Commands)
      BY <1>2, WalksTyped
    <2> QED BY <2>1, Zenon
  <1>5. NoFaults => \A i \in DOMAIN sent : sent[i].id = 1
    <2> SUFFICES ASSUME NoFaults PROVE \A i \in DOMAIN sent : sent[i].id = 1
      OBVIOUS
    <2>1. CASE sent = <<>>
      BY <2>1
    <2>2. CASE sent = UnregisterAll(hops)
      BY <1>2, <2>2, UndisturbedIds, WalkSends DEF UnregisterAll, RouteInv
    <2> QED BY <2>1, <2>2
  <1>6. Undisturbed'
    BY <1>1, <1>3, <1>4, <1>5, UndisturbedSend DEF RouteInv, NoFaults
  <1> QED BY <1>1, <1>6 DEF RouteInv, SameFaces, WillFollowList

LEMMA RouteInvDeliver ==
    ASSUME TypeOK, RouteInv, Deliver
    PROVE  RouteInv'
  <1>1. PICK i \in DOMAIN inbox :
          OnRegistrationSuccess(i) \/ OnRegistrationFailure(i) \/ FaceDestroyed(i) \/ FaceCreated(i)
    BY DEF Deliver
  <1>2. Take(i) /\ UNCHANGED <<running, hops, listed, rib, nfd, env>>
    BY <1>1 DEF OnRegistrationSuccess, OnRegistrationFailure, FaceDestroyed, FaceCreated, Take
  <1>3. SameFaces'
    BY <1>2 DEF SameFaces, RouteInv
  <1>4. CASE ~NoFaults
    BY <1>2, <1>3, <1>4 DEF RouteInv, Undisturbed, WillFollowList, NoFaults
  <1>5. CASE NoFaults
    <2>1. /\ \A f \in Faces : nfd[f].up /\ nfd[f].id = 1 /\ faceId[f] = 1
          /\ \A k \in DOMAIN cmds : cmds[k].id = 1
          /\ \A k \in DOMAIN inbox : inbox[k].kind = "success" /\ inbox[k].cmd.id = 1
      BY <1>5 DEF RouteInv, Undisturbed
    <2>2. OnRegistrationSuccess(i)
      BY <1>1, <2>1 DEF OnRegistrationFailure, FaceDestroyed, FaceCreated
    <2>3. /\ cmds' = cmds
          /\ faceId' = [faceId EXCEPT ![inbox[i].cmd.hop.face] = inbox[i].cmd.id]
      BY <2>2 DEF OnRegistrationSuccess
    <2>4. \A f \in Faces : faceId'[f] = 1
      BY <2>1, <2>3 DEF TypeOK
    <2>5. \A k \in DOMAIN inbox' : inbox'[k].kind = "success" /\ inbox'[k].cmd.id = 1
      <3>1. /\ inbox \in Seq(Messages) /\ inbox' = RemoveAt(inbox, i)
        BY <1>2 DEF TypeOK, Take
      <3>2. /\ inbox' \in Seq(Messages) /\ Len(inbox') = Len(inbox) - 1
            /\ \A k \in 1 .. Len(inbox) - 1 : inbox'[k] = IF k < i THEN inbox[k] ELSE inbox[k + 1]
        BY <3>1, RemoveAtElements
      <3> QED BY <2>1, <3>1, <3>2
    <2>6. Undisturbed'
      BY <1>2, <2>1, <2>3, <2>4, <2>5 DEF Undisturbed
    <2>7. WillFollowList'
      BY <1>2, <2>3 DEF RouteInv, WillFollowList, WillBeRouted, Routed, NoFaults
    <2> QED BY <1>3, <2>6, <2>7 DEF RouteInv
  <1> QED BY <1>4, <1>5

LEMMA RouteInvAccept ==
    ASSUME TypeOK, RouteInv, TakeCommand, Accept(Head(cmds))
    PROVE  RouteInv'
  <1> DEFINE c == Head(cmds)
  <1>1. /\ UNCHANGED <<running, hops, listed, faceId, nfd, env>> /\ cmds' = Tail(cmds)
        /\ cmds # <<>> /\ cmds \in Seq(Commands) /\ Execute(c) /\ Answer(c, "success")
    BY DEF TakeCommand, Accept, TypeOK
  <1>2. c \in Commands
    BY TypeOKTakeCommand
  <1>3. SameFaces'
    BY <1>1 DEF SameFaces, RouteInv
  <1>4. Undisturbed'
    <2> SUFFICES ASSUME NoFaults PROVE Undisturbed'
      BY <1>1 DEF Undisturbed, NoFaults
    <2>1. /\ \A f \in Faces : nfd[f].up /\ nfd[f].id = 1 /\ faceId[f] = 1
          /\ \A k \in DOMAIN cmds : cmds[k].id = 1
          /\ \A k \in DOMAIN inbox : inbox[k].kind = "success" /\ inbox[k].cmd.id = 1
      BY DEF RouteInv, Undisturbed
    <2>2. c.id = 1 /\ \A k \in DOMAIN cmds' : cmds'[k].id = 1
      BY <1>1, <2>1
    <2>3. \A k \in DOMAIN inbox' : inbox'[k].kind = "success" /\ inbox'[k].cmd.id = 1
      <3> DEFINE m == [kind |-> "success", cmd |-> c]
      <3>1. m.kind = "success" /\ m.cmd.id = 1 /\ m \in Messages
        BY <1>2, <2>2 DEF Messages
      <3>2. inbox' = inbox \/ inbox' = Append(inbox, m)
        BY <1>1 DEF Answer
      <3>3. inbox \in Seq(Messages)
        BY DEF TypeOK
      <3> HIDE DEF m
      <3> QED BY <2>1, <3>1, <3>2, <3>3
    <2> QED BY <1>1, <2>1, <2>2, <2>3 DEF Undisturbed
  <1>5. WillFollowList'
    <2> SUFFICES ASSUME running, NoFaults
                 PROVE  /\ \A f \in Faces : WillBeRouted(f)' <=> f \in FacesOf(listed)
                        /\ \A r \in rib' : r.aged => Sends(cmds', r.face)
      BY <1>1 DEF WillFollowList, NoFaults
    <2> DEFINE new == [face |-> c.hop.face, cost |-> c.hop.cost, aged |-> FALSE]
    <2>1. rib' = {r \in rib : r.face # c.hop.face} \cup (IF c.op = "register" THEN {new} ELSE {})
      BY <1>1 DEF Execute
    <2>2. new.face = c.hop.face /\ new.aged = FALSE
      OBVIOUS
    <2> HIDE DEF new
    <2>3. \A f : f \in Routed' <=> IF f = c.hop.face THEN c.op = "register" ELSE f \in Routed
      BY <2>1, <2>2 DEF Routed
    <2>4. \A f : /\ Sends(cmds, f) <=> c.hop.face = f \/ Sends(cmds', f)
                 /\ EndsWith(cmds, f, "register") <=>
                       \/ EndsWith(cmds', f, "register")
                       \/ ~Sends(cmds', f) /\ c.hop.face = f /\ c.op = "register"
      BY <1>1, SendsTail
    <2>5. \A f \in Faces : WillBeRouted(f)' <=> WillBeRouted(f)
      <3> SUFFICES ASSUME NEW f \in Faces PROVE WillBeRouted(f)' <=> WillBeRouted(f)
        OBVIOUS
      <3> HIDE DEF c
      <3>1. f \in Routed' <=> IF f = c.hop.face THEN c.op = "register" ELSE f \in Routed
        BY <2>3
      <3>2. /\ Sends(cmds, f) <=> c.hop.face = f \/ Sends(cmds', f)
            /\ EndsWith(cmds, f, "register") <=>
                  \/ EndsWith(cmds', f, "register")
                  \/ ~Sends(cmds', f) /\ c.hop.face = f /\ c.op = "register"
        BY <2>4
      <3>3. EndsWith(cmds', f, "register") => Sends(cmds', f)
        BY DEF EndsWith, Sends
      <3> QED BY <3>1, <3>2, <3>3 DEF WillBeRouted
    <2>6. ASSUME NEW r \in rib', r.aged PROVE Sends(cmds', r.face)
      <3>1. r \in rib /\ r.face # c.hop.face
        BY <2>1, <2>2, <2>6
      <3>2. Sends(cmds, r.face)
        BY <2>6, <3>1 DEF RouteInv, WillFollowList
      <3> QED BY <2>4, <3>1, <3>2
    <2> QED BY <2>5, <2>6 DEF RouteInv, WillFollowList
  <1> QED BY <1>3, <1>4, <1>5 DEF RouteInv

(* Without faults NFD refuses nothing; with one the lists are out of step. *)
LEMMA RouteInvFaults ==
    ASSUME TypeOK, RouteInv, UNCHANGED <<hops, listed>>,
           \/ TakeCommand /\ Refuse(Head(cmds))
           \/ NfdFails
           \/ \E f \in Faces : FaceEvent(f)
    PROVE  RouteInv'
  <1>1. env \in Counts
    BY DEF TypeOK, Counts
  <1>2. ~NoFaults'
    <2>1. CASE TakeCommand /\ Refuse(Head(cmds))
      <3>1. Head(cmds) \in Commands /\ env' = env /\ ~FaceExists(Head(cmds))
        BY <2>1, TypeOKTakeCommand DEF Refuse
      <3>2. ASSUME NoFaults PROVE FALSE
        <4>1. cmds # <<>> /\ cmds \in Seq(Commands)
          BY <2>1 DEF TakeCommand, TypeOK
        <4>2. Head(cmds).id = 1
          BY <3>2, <4>1 DEF RouteInv, Undisturbed
        <4>3. Head(cmds).hop.face \in Faces
          BY <3>1, CommandFields
        <4> QED BY <3>1, <3>2, <4>2, <4>3 DEF RouteInv, Undisturbed, FaceExists
      <3> QED BY <3>1, <3>2 DEF NoFaults
    <2>2. CASE NfdFails
      <3>1. \/ env' = [env EXCEPT !.regFaults = env.regFaults + 1]
            \/ env' = [env EXCEPT !.unregFaults = env.unregFaults + 1]
        BY <2>2 DEF NfdFails, Fault
      <3> QED BY <1>1, <3>1 DEF NoFaults, Counts
    <2>3. CASE \E f \in Faces : FaceEvent(f)
      <3>1. env' = [env EXCEPT !.faceEvents = env.faceEvents + 1]
        BY <2>3 DEF FaceEvent
      <3> QED BY <1>1, <3>1 DEF NoFaults, Counts
    <2> QED BY <2>1, <2>2, <2>3
  <1> QED BY <1>2 DEF RouteInv, SameFaces, Undisturbed, WillFollowList

(* A route of a listed face is fresh or being registered: it does not      *)
(* expire.                                                                 *)
LEMMA RouteInvExpire ==
    ASSUME TypeOK, RouteInv, NEW r \in rib, Expire(r)
    PROVE  RouteInv'
  <1>1. /\ UNCHANGED <<running, hops, listed, faceId, cmds, inbox, nfd, env>>
        /\ rib' = rib \ {r}
    BY DEF Expire
  <1>2. SameFaces' /\ Undisturbed'
    BY <1>1 DEF RouteInv, SameFaces, Undisturbed, NoFaults
  <1>3. WillFollowList'
    <2> SUFFICES ASSUME running, NoFaults PROVE FALSE
      BY <1>1 DEF WillFollowList, NoFaults
    <2>1. /\ \A f \in Faces : WillBeRouted(f) <=> f \in FacesOf(hops)
          /\ \A q \in rib : q.aged => Sends(cmds, q.face)
      BY DEF RouteInv, WillFollowList, SameFaces
    <2>2. ~Sends(cmds, r.face)
      BY DEF Expire, InFlight, Sends
    <2>3. r.face \in Faces /\ r.face \in Routed
      BY DEF TypeOK, Routed
    <2>4. r.face \in FacesOf(hops)
      BY <2>1, <2>2, <2>3 DEF WillBeRouted
    <2>5. r.aged
      BY <2>4 DEF Expire
    <2> QED BY <2>1, <2>2, <2>5
  <1> QED BY <1>2, <1>3 DEF RouteInv

LEMMA RouteInvStep == TypeOK /\ RouteInv /\ [Next]_vars => RouteInv'
  <1> SUFFICES ASSUME TypeOK, RouteInv, [Next]_vars PROVE RouteInv'
    OBVIOUS
  <1>1. CASE \E allHops \in HopLists : Update(allHops)
    BY <1>1, RouteInvUpdate
  <1>2. CASE Refresh
    BY <1>2, RouteInvRefresh
  <1>3. CASE Terminate
    BY <1>3, RouteInvTerminate
  <1>4. CASE Deliver
    BY <1>4, RouteInvDeliver
  <1>5. CASE NfdAnswers
    <2>1. TakeCommand /\ (Accept(Head(cmds)) \/ Refuse(Head(cmds))) /\ UNCHANGED <<hops, listed>>
      BY <1>5 DEF NfdAnswers, TakeCommand
    <2> QED BY <2>1, RouteInvAccept, RouteInvFaults
  <1>6. CASE NfdFails \/ \E f \in Faces : FaceEvent(f)
    <2>1. UNCHANGED <<hops, listed>>
      BY <1>6 DEF NfdFails, TakeCommand, FaceEvent
    <2> QED BY <1>6, <2>1, RouteInvFaults
  <1>7. CASE \E r \in rib : Expire(r)
    BY <1>7, RouteInvExpire
  <1>8. CASE UNCHANGED vars
    BY <1>8 DEF vars, RouteInv, SameFaces, Undisturbed, WillFollowList, WillBeRouted, Routed, NoFaults
  <1> QED BY <1>1, <1>2, <1>3, <1>4, <1>5, <1>6, <1>7, <1>8 DEF Next

(* While nothing fails, NFD routes the prefix over exactly the faces last  *)
(* listed once it has executed the commands, however updates, refreshes,   *)
(* answers and expirations interleave.                                     *)
THEOREM RibAlwaysFollowsList == Spec => []RibFollowsList
  <1>1. TypeOK /\ RouteInv => RibFollowsList
    <2> SUFFICES ASSUME TypeOK, RouteInv, running, NoFaults, cmds = <<>>
                 PROVE  Routed = FacesOf(listed)
      BY DEF RibFollowsList, Routed
    <2>1. \A f : ~Sends(cmds, f) /\ ~EndsWith(cmds, f, "register")
      BY DEF Sends, EndsWith
    <2>2. \A f \in Faces : f \in Routed <=> f \in FacesOf(listed)
      BY <2>1 DEF RouteInv, WillFollowList, WillBeRouted
    <2>3. Routed \subseteq Faces
      BY DEF Routed, TypeOK
    <2>4. FacesOf(listed) \subseteq Faces
      BY DEF FacesOf, Faces, TypeOK, HopLists
    <2> QED BY <2>2, <2>3, <2>4
  <1> QED BY <1>1, TypeOKInitially, TypeOKStep, RouteInvInitially, RouteInvStep, PTL DEF Spec
=============================================================================
