--------------------------- MODULE CorridorProofs ---------------------------
(***************************************************************************)
(* Proofs about Corridor.  ToldIsInstalled and AttachmentIsAssociated are  *)
(* inductive beside TypeOK.  NoBranchForgotten also needs what is true of  *)
(* NFD: a face whose destruction is announced has no branch any more       *)
(* (NfdInv), or onFaceDestroyed would forget that a living branch was      *)
(* told.                                                                   *)
(***************************************************************************)
EXTENDS Corridor, TLAPS

States == [seq : 0..MaxSeq, faces : SUBSET Faces]

NfdInv ==
    /\ \A p \in Prefixes : nfd.branches[p] \subseteq nfd.faces
    /\ destroyed \cap nfd.faces = {}

-----------------------------------------------------------------------------
(* What recordAssociation does to an entry of m_state. *)
LEMMA RecordLemma ==
    ASSUME NEW st \in States, NEW n \in 0..MaxSeq, st.seq = 0 => st.faces = {}
    PROVE  LET r == RecordAssociation(st, n)
           IN  /\ r \in States
               /\ r.seq = 0 => r.faces = {}
               /\ r.seq >= st.seq /\ r.seq >= n
               /\ r = st \/ (r.seq = n /\ r.faces = {})
<1>1. n \in Int /\ st.seq \in Int /\ st.seq \in 0..MaxSeq
  BY ConstantsAssumption DEF States
<1>2. CASE n > st.seq
  BY <1>1, <1>2 DEF RecordAssociation, States
<1>3. CASE ~(n > st.seq)
  BY <1>1, <1>3 DEF RecordAssociation, States
<1>. QED
  BY <1>2, <1>3

(* What advertise does to an entry of m_state: it never goes back, and the *)
(* faces it is given are on record if its number is the entry's.           *)
LEMMA AdvertiseLemma ==
    ASSUME NEW st \in States, NEW n \in 0..MaxSeq, NEW F \in SUBSET Faces,
           st.seq = 0 => st.faces = {}
    PROVE  LET r == Advertise(st, n, F)
           IN  /\ r \in States
               /\ r.seq = 0 => r.faces = {}
               /\ r.seq >= st.seq /\ r.seq >= n
               /\ r = st \/ r.seq = n
               /\ r.seq = st.seq => st.faces \subseteq r.faces
               /\ r.seq = n /\ n # 0 => F \subseteq r.faces
<1>1. CASE n = 0 \/ n < st.seq
  BY <1>1, ConstantsAssumption DEF Advertise, States
<1>2. CASE ~(n = 0 \/ n < st.seq)
  <2>. DEFINE r == RecordAssociation(st, n)
  <2>1. r \in States /\ r.seq = n /\ (r = st \/ r.faces = {}) /\ (n = st.seq => r = st)
    <3>1. n \in Int /\ st.seq \in Int /\ n >= st.seq
      BY <1>2, ConstantsAssumption DEF States
    <3>. QED
      BY <3>1, ConstantsAssumption DEF RecordAssociation, States
  <2>2. Advertise(st, n, F) = [r EXCEPT !.faces = r.faces \cup F]
    BY <1>2 DEF Advertise
  <2>. HIDE DEF r
  <2>3. Advertise(st, n, F) = [seq |-> n, faces |-> r.faces \cup F]
    BY <2>1, <2>2 DEF States
  <2>. QED
    BY <1>2, <2>1, <2>3, ConstantsAssumption DEF States
<1>. QED
  BY <1>1, <1>2

(* A query takes a free slot and leaves the queries under way alone. *)
LEMMA QueryLemma ==
    ASSUME TypeOK, NEW ps \in SUBSET Prefixes, QueryServiceBranches(ps)
    PROVE  /\ queries' \in [Prefixes -> [Slots -> Queries]]
           /\ \A p \in ps : \E s \in Slots : queries'[p][s] = Unread
           /\ \A p \in Prefixes, s \in Slots :
                 queries[p][s] # NoQuery => queries'[p][s] = queries[p][s]
<1>. DEFINE free(p) == CHOOSE s \in Slots : queries[p][s] = NoQuery
<1>1. \A p \in ps : free(p) \in Slots /\ queries[p][free(p)] = NoQuery
  BY DEF QueryServiceBranches, HasRoom
<1>2. queries' = [p \in Prefixes |-> IF p \in ps
                                     THEN [queries[p] EXCEPT ![free(p)] = Unread]
                                     ELSE queries[p]]
  BY DEF QueryServiceBranches
<1>3. queries \in [Prefixes -> [Slots -> Queries]] /\ Unread \in Queries
  BY DEF TypeOK, Queries
<1>. HIDE DEF free
<1>. QED
  BY <1>1, <1>2, <1>3

(* The callbacks that tell the associated LSAs to faces. *)
LEMMA AssociatedLemma ==
    ASSUME TypeOK, NEW p \in Prefixes, NEW F \in SUBSET Faces,
           state' = AdvertiseAssociated(p, F)
    PROVE  /\ state' \in [Keys -> States]
           /\ \A k \in Keys : /\ state'[k].seq = state[k].seq
                              /\ state[k].faces \subseteq state'[k].faces
                              /\ state'[k].seq = 0 => state'[k].faces = {}
                              /\ state'[k] # state[k] => IsInstalled(adj, k, state[k])
                              /\ k[2] = p /\ IsInstalled(adj, k, state[k])
                                 => F \subseteq state'[k].faces
<1>. SUFFICES ASSUME NEW k \in Keys
     PROVE  /\ state'[k] \in States
            /\ state'[k].seq = state[k].seq
            /\ state[k].faces \subseteq state'[k].faces
            /\ state'[k].seq = 0 => state'[k].faces = {}
            /\ state'[k] # state[k] => IsInstalled(adj, k, state[k])
            /\ k[2] = p /\ IsInstalled(adj, k, state[k]) => F \subseteq state'[k].faces
  BY DEF AdvertiseAssociated
<1>1. state[k] \in States /\ (state[k].seq = 0 => state[k].faces = {})
  BY DEF TypeOK, States
<1>2. state[k].seq \in 0..MaxSeq
  BY <1>1 DEF States
<1>3. CASE k[2] = p /\ IsInstalled(adj, k, state[k])
  <2>1. state'[k] = Advertise(state[k], state[k].seq, F)
    BY <1>3 DEF AdvertiseAssociated
  <2>2. state[k].seq # 0
    BY <1>3 DEF IsInstalled
  <2>. QED
    BY <1>1, <1>2, <1>3, <2>1, <2>2, AdvertiseLemma, ConstantsAssumption DEF States
<1>4. CASE ~(k[2] = p /\ IsInstalled(adj, k, state[k]))
  BY <1>1, <1>4 DEF AdvertiseAssociated
<1>. QED
  BY <1>3, <1>4

(* The answer to the query of queryAllServiceBranches. *)
LEMMA StartupLemma ==
    ASSUME TypeOK, StartupQuerySucceeds
    PROVE  /\ state' \in [Keys -> States]
           /\ \A k \in Keys : /\ state'[k].seq = state[k].seq
                              /\ state[k].faces \subseteq state'[k].faces
                              /\ state'[k].seq = 0 => state'[k].faces = {}
                              /\ state'[k] # state[k] => IsInstalled(adj, k, state[k])
                              /\ IsInstalled(adj, k, state[k])
                                 => startup[k[2]].faces \subseteq state'[k].faces
<1>. SUFFICES ASSUME NEW k \in Keys
     PROVE  /\ state'[k] \in States
            /\ state'[k].seq = state[k].seq
            /\ state[k].faces \subseteq state'[k].faces
            /\ state'[k].seq = 0 => state'[k].faces = {}
            /\ state'[k] # state[k] => IsInstalled(adj, k, state[k])
            /\ IsInstalled(adj, k, state[k]) => startup[k[2]].faces \subseteq state'[k].faces
  BY DEF StartupQuerySucceeds
<1>1. state[k] \in States /\ (state[k].seq = 0 => state[k].faces = {})
  BY DEF TypeOK, States
<1>2. state[k].seq \in 0..MaxSeq
  BY <1>1 DEF States
<1>3. startup[k[2]].faces \in SUBSET Faces
  <2>1. \A q \in Queries : q.faces \in SUBSET Faces
    BY DEF Queries, NoQuery, Unread, Read
  <2>. QED
    BY <2>1 DEF TypeOK, Keys
<1>4. CASE IsInstalled(adj, k, state[k])
  <2>1. state'[k] = Advertise(state[k], state[k].seq, startup[k[2]].faces)
    BY <1>4 DEF StartupQuerySucceeds
  <2>2. state[k].seq # 0
    BY <1>4 DEF IsInstalled
  <2>. QED
    BY <1>1, <1>2, <1>3, <1>4, <2>1, <2>2, AdvertiseLemma, ConstantsAssumption DEF States
<1>5. CASE ~IsInstalled(adj, k, state[k])
  BY <1>1, <1>5 DEF StartupQuerySucceeds
<1>. QED
  BY <1>4, <1>5

-----------------------------------------------------------------------------
(* Entries only grow, and only to the number installed in a. *)
Grown(a, s0, s1) ==
    /\ s1 \in [Keys -> States]
    /\ \A k \in Keys :
          /\ s1[k].seq = 0 => s1[k].faces = {}
          /\ s1[k].seq >= s0[k].seq
          /\ s1[k] = s0[k] \/ s1[k].seq = a[k[1]].seq
          /\ s1[k].seq = s0[k].seq => s0[k].faces \subseteq s1[k].faces

(* Advertising some keys at their installed numbers grows the entries. *)
LEMMA GrownLemma ==
    ASSUME TypeOK, NEW a \in [Routers -> AdjLsas], NEW s0 \in [Keys -> States],
           \A k \in Keys : s0[k].seq = 0 => s0[k].faces = {},
           NEW K \in SUBSET Keys,
           NEW s1, s1 = [k \in Keys |-> IF k \in K
                                        THEN Advertise(s0[k], a[k[1]].seq, active)
                                        ELSE s0[k]]
    PROVE  /\ Grown(a, s0, s1)
           /\ \A k \in K : s1[k].seq >= a[k[1]].seq
<1>. SUFFICES ASSUME NEW k \in Keys
     PROVE  /\ s1[k] \in States
            /\ s1[k].seq = 0 => s1[k].faces = {}
            /\ s1[k].seq >= s0[k].seq
            /\ s1[k] = s0[k] \/ s1[k].seq = a[k[1]].seq
            /\ s1[k].seq = s0[k].seq => s0[k].faces \subseteq s1[k].faces
            /\ k \in K => s1[k].seq >= a[k[1]].seq
  BY DEF Grown
<1>1. /\ s0[k] \in States /\ (s0[k].seq = 0 => s0[k].faces = {})
      /\ a[k[1]].seq \in 0..MaxSeq /\ active \in SUBSET Faces
  BY DEF TypeOK, Keys, AdjLsas
<1>2. CASE k \in K
  <2>1. s1[k] = Advertise(s0[k], a[k[1]].seq, active)
    BY <1>2
  <2>. QED
    BY <1>1, <2>1, AdvertiseLemma
<1>3. CASE k \notin K
  <2>1. s1[k] = s0[k]
    BY <1>3
  <2>2. s0[k].seq \in Int
    BY <1>1 DEF States
  <2>. QED
    BY <1>1, <1>3, <2>1, <2>2
<1>. QED
  BY <1>2, <1>3

(* What a changed Adjacency LSA does: whatever becomes current by it is    *)
(* queried for.                                                            *)
LEMMA InstallLemma ==
    ASSUME TypeOK, NEW o \in Routers, NEW lsa \in AdjLsas, lsa.seq > adj[o].seq,
           ModifiedAdjLsa(o, lsa)
    PROVE  /\ adj' = [adj EXCEPT ![o] = lsa] /\ adj' \in [Routers -> AdjLsas]
           /\ queries' \in [Prefixes -> [Slots -> Queries]]
           /\ \A p \in Prefixes, s \in Slots :
                 queries[p][s] # NoQuery => queries'[p][s] = queries[p][s]
           /\ Grown(adj', state, state')
           /\ \A k \in Attachment(adj', names) : state'[k].seq >= adj'[k[1]].seq
           /\ \A k \in Keys :
                 \/ \E s \in Slots : queries'[k[2]][s] = Unread
                 \/ k[1] # o /\ state'[k].seq = state[k].seq
                 \/ ~IsInstalled(adj', k, state'[k])
<1>. DEFINE a == [adj EXCEPT ![o] = lsa]
            s1 == MaybeAdvertiseServiceAttachment(a, names, state)
            s2 == IF o = Self THEN AdvertiseOwnAdjFirstHop(a, names, s1) ELSE s1
            own == {k \in Keys : k[1] = Self /\ k[2] \in names[Self]}
            ps == AttachedPrefixes(a, names) \cup PropagateIfAssociated(o, lsa.seq, s2)
<1>1. adj' = a /\ state' = s2 /\ QueryServiceBranches(ps)
  BY DEF ModifiedAdjLsa
<1>2. /\ a \in [Routers -> AdjLsas] /\ a[o] = lsa
      /\ \A r \in Routers : r # o => a[r] = adj[r]
  BY DEF TypeOK
<1>3. /\ state \in [Keys -> States]
      /\ \A k \in Keys : state[k].seq = 0 => state[k].faces = {}
  BY DEF TypeOK, States
<1>4. Attachment(a, names) \subseteq Keys /\ own \subseteq Keys
  BY DEF Attachment
<1>5. /\ Grown(a, state, s1)
      /\ \A k \in Attachment(a, names) : s1[k].seq >= a[k[1]].seq
      /\ \A k \in Keys \ Attachment(a, names) : s1[k] = state[k]
  <2>1. s1 = [k \in Keys |-> IF k \in Attachment(a, names)
                             THEN Advertise(state[k], a[k[1]].seq, active) ELSE state[k]]
    BY DEF MaybeAdvertiseServiceAttachment
  <2>. HIDE DEF s1, a
  <2>. QED
    BY <1>2, <1>3, <1>4, <2>1, GrownLemma
<1>6. /\ s1 \in [Keys -> States]
      /\ \A k \in Keys : s1[k].seq = 0 => s1[k].faces = {}
  BY <1>5 DEF Grown
<1>7. /\ Grown(a, s1, s2)
      /\ \A k \in Keys : s2[k] # s1[k] => o = Self /\ k[1] = o
  <2>1. CASE o = Self
    <3>1. s2 = [k \in Keys |-> IF k \in own
                               THEN Advertise(s1[k], a[k[1]].seq, active) ELSE s1[k]]
      BY <2>1 DEF AdvertiseOwnAdjFirstHop
    <3>2. \A k \in Keys : s2[k] # s1[k] => k \in own
      BY <3>1
    <3>3. Grown(a, s1, s2)
      <4>. HIDE DEF s1, s2, a, own
      <4>. QED
        BY <1>2, <1>4, <1>6, <3>1, GrownLemma
    <3>. QED
      BY <2>1, <3>2, <3>3
  <2>2. CASE o # Self
    <3>1. s2 = s1
      BY <2>2
    <3>. HIDE DEF s1, s2, a
    <3>2. \A k \in Keys : s1[k].seq \in Int
      BY <1>6 DEF States
    <3>. QED
      BY <1>6, <3>1, <3>2 DEF Grown
  <2>. QED
    BY <2>1, <2>2
<1>. HIDE DEF s1, s2, a, own
<1>8. Grown(a, state, s2)
  <2>. SUFFICES ASSUME NEW k \in Keys
       PROVE  /\ s2[k].seq >= state[k].seq
              /\ s2[k] = state[k] \/ s2[k].seq = a[k[1]].seq
              /\ s2[k].seq = state[k].seq => state[k].faces \subseteq s2[k].faces
    BY <1>7 DEF Grown
  <2>1. s2[k].seq \in Int /\ s1[k].seq \in Int /\ state[k].seq \in Int
    BY <1>3, <1>6, <1>7 DEF Grown, States
  <2>2. s2[k].seq >= s1[k].seq /\ s1[k].seq >= state[k].seq
    BY <1>5, <1>7 DEF Grown
  <2>. QED
    BY <1>5, <1>7, <2>1, <2>2 DEF Grown
<1>9. \A k \in Attachment(a, names) : s2[k].seq >= a[k[1]].seq
  <2>. SUFFICES ASSUME NEW k \in Attachment(a, names) PROVE s2[k].seq >= a[k[1]].seq
    OBVIOUS
  <2>0. k \in Keys /\ k[1] \in Routers
    BY <1>4 DEF Keys
  <2>1. s2[k].seq \in Int /\ s1[k].seq \in Int /\ a[k[1]].seq \in Int
    BY <1>2, <1>6, <1>7, <2>0 DEF Grown, States, AdjLsas
  <2>2. s2[k].seq >= s1[k].seq /\ s1[k].seq >= a[k[1]].seq
    BY <1>5, <1>7, <2>0 DEF Grown
  <2>. QED
    BY <2>1, <2>2
<1>10. ps \in SUBSET Prefixes
  <2>1. AttachedPrefixes(a, names) \subseteq Prefixes
    BY DEF AttachedPrefixes, Attached, TypeOK
  <2>. QED
    BY <2>1 DEF PropagateIfAssociated
<1>11. /\ queries' \in [Prefixes -> [Slots -> Queries]]
       /\ \A p \in ps : \E s \in Slots : queries'[p][s] = Unread
       /\ \A p \in Prefixes, s \in Slots :
             queries[p][s] # NoQuery => queries'[p][s] = queries[p][s]
  BY <1>1, <1>10, QueryLemma
<1>12. ASSUME NEW k \in Keys,
              ~(k[1] # o /\ s2[k].seq = state[k].seq), IsInstalled(a, k, s2[k])
       PROVE  k[2] \in ps
  <2>0. k = <<k[1], k[2]>> /\ k[1] \in Routers /\ k[2] \in Prefixes
    BY DEF Keys
  <2>1. CASE k[1] = o
    <3>1. s2[<<o, k[2]>>].seq = lsa.seq
      BY <1>2, <1>12, <2>0, <2>1 DEF IsInstalled
    <3>. QED
      BY <2>0, <3>1 DEF PropagateIfAssociated
  <2>2. CASE k[1] # o
    <3>1. s1[k] # state[k]
      BY <1>7, <1>12, <2>2
    <3>2. k \in Attachment(a, names)
      BY <1>5, <3>1
    <3>3. k[2] \in AttachedPrefixes(a, names)
      BY <3>2 DEF Attachment, AttachedPrefixes
    <3>. QED
      BY <3>3
  <2>. QED
    BY <2>1, <2>2
<1>. HIDE DEF ps
<1>13. \A k \in Keys :
          \/ \E s \in Slots : queries'[k[2]][s] = Unread
          \/ k[1] # o /\ s2[k].seq = state[k].seq
          \/ ~IsInstalled(a, k, s2[k])
  BY <1>11, <1>12
<1>14. adj' = [adj EXCEPT ![o] = lsa]
  BY <1>1 DEF a
<1>. QED
  BY <1>1, <1>2, <1>8, <1>9, <1>11, <1>13, <1>14

(* The same of a changed Name LSA. *)
LEMMA NameLemma ==
    ASSUME TypeOK, NEW ns \in [Routers -> SUBSET Prefixes],
           state' = MaybeAdvertiseServiceAttachment(adj, ns, state),
           QueryServiceBranches(AttachedPrefixes(adj, ns))
    PROVE  /\ queries' \in [Prefixes -> [Slots -> Queries]]
           /\ \A p \in Prefixes, s \in Slots :
                 queries[p][s] # NoQuery => queries'[p][s] = queries[p][s]
           /\ Grown(adj, state, state')
           /\ \A k \in Attachment(adj, ns) : state'[k].seq >= adj[k[1]].seq
           /\ \A k \in Keys :
                 \/ \E s \in Slots : queries'[k[2]][s] = Unread
                 \/ state'[k] = state[k]
<1>1. /\ state \in [Keys -> States] /\ adj \in [Routers -> AdjLsas]
      /\ \A k \in Keys : state[k].seq = 0 => state[k].faces = {}
  BY DEF TypeOK, States
<1>2. Attachment(adj, ns) \subseteq Keys
  BY DEF Attachment
<1>3. state' = [k \in Keys |-> IF k \in Attachment(adj, ns)
                               THEN Advertise(state[k], adj[k[1]].seq, active)
                               ELSE state[k]]
  BY DEF MaybeAdvertiseServiceAttachment
<1>4. /\ Grown(adj, state, state')
      /\ \A k \in Attachment(adj, ns) : state'[k].seq >= adj[k[1]].seq
  BY <1>1, <1>2, <1>3, GrownLemma
<1>5. AttachedPrefixes(adj, ns) \in SUBSET Prefixes
  BY DEF AttachedPrefixes, Attached
<1>6. /\ queries' \in [Prefixes -> [Slots -> Queries]]
      /\ \A p \in AttachedPrefixes(adj, ns) : \E s \in Slots : queries'[p][s] = Unread
      /\ \A p \in Prefixes, s \in Slots :
            queries[p][s] # NoQuery => queries'[p][s] = queries[p][s]
  BY <1>5, QueryLemma
<1>7. \A k \in Attachment(adj, ns) : k[2] \in AttachedPrefixes(adj, ns)
  BY DEF Attachment, AttachedPrefixes
<1>8. \A k \in Keys \ Attachment(adj, ns) : state'[k] = state[k]
  BY <1>3
<1>. QED
  BY <1>2, <1>4, <1>6, <1>7, <1>8

(* The part of NoBranchForgotten about one key. *)
Remembered(k) ==
    /\ \A f \in branches[k[2]] : f \in state[k].faces \/ Asking(k[2])
    /\ ~env.faulty => \A f \in nfd.branches[k[2]] :
                         f \in state[k].faces \/ OnItsWay(k[2], f)

Current(k) == IsInstalled(adj, k, state[k]) /\ ~adj[k[1]].silent

(* A step that only adds queries and faces forgets no branch of a key that *)
(* stays current, or that is queried for.                                  *)
LEMMA KeepsBranches ==
    ASSUME NoBranchForgotten, TypeOK,
           UNCHANGED <<branches, outside, startup>>, env'.faulty = env.faulty,
           \A p \in Prefixes, s \in Slots :
              queries[p][s] # NoQuery => queries'[p][s] = queries[p][s],
           \A k \in Keys : Current(k)' =>
              \/ \E s \in Slots : queries'[k[2]][s] = Unread
              \/ Current(k) /\ state[k].faces \subseteq state'[k].faces
    PROVE  NoBranchForgotten'
<1>. SUFFICES ASSUME NEW k \in Keys, Current(k)' PROVE Remembered(k)'
  BY DEF NoBranchForgotten, Remembered, Current
<1>0. k[2] \in Prefixes /\ Unread # NoQuery
  BY DEF Keys, Unread, NoQuery
<1>1. CASE \E s \in Slots : queries'[k[2]][s] = Unread
  BY <1>0, <1>1 DEF Remembered, Asking, OnItsWay
<1>2. CASE Current(k) /\ state[k].faces \subseteq state'[k].faces
  <2>1. Remembered(k)
    BY <1>2 DEF NoBranchForgotten, Remembered, Current
  <2>2. Asking(k[2]) => Asking(k[2])'
    BY <1>0 DEF Asking
  <2>3. ASSUME NEW f, OnItsWay(k[2], f) PROVE OnItsWay(k[2], f)'
    <3>1. \A s \in Slots : f \in queries[k[2]][s].faces => queries[k[2]][s] # NoQuery
      BY DEF NoQuery
    <3>. QED
      BY <1>0, <2>3, <3>1 DEF OnItsWay, outside
  <2>. QED
    BY <1>2, <2>1, <2>2, <2>3 DEF Remembered, outside
<1>. QED
  BY <1>1, <1>2

(* What an availability Interest does. *)
LEMMA HintLemma ==
    ASSUME TypeOK, NEW o \in Routers, NEW n \in 1..MaxSeq, NEW p \in Prefixes,
           ProcessAvailabilityInterest(o, n, p)
    PROVE  /\ queries' \in [Prefixes -> [Slots -> Queries]]
           /\ \A q \in Prefixes, s \in Slots :
                 queries[q][s] # NoQuery => queries'[q][s] = queries[q][s]
           /\ state' \in [Keys -> States]
           /\ \A k \in Keys :
                 /\ state'[k].seq = 0 => state'[k].faces = {}
                 /\ state'[k].seq >= state[k].seq
                 /\ \/ state'[k] = state[k]
                    \/ state'[k].faces = {} /\ state'[k].seq # adj[k[1]].seq
                    \/ /\ state'[k].faces = {}
                       /\ \E s \in Slots : queries'[k[2]][s] = Unread
<1>1. /\ state \in [Keys -> States]
      /\ \A k \in Keys : state[k].seq = 0 => state[k].faces = {}
      /\ \A k \in Keys : state[k].seq \in Int
  BY ConstantsAssumption DEF TypeOK, States
<1>2. queries \in [Prefixes -> [Slots -> Queries]]
  BY DEF TypeOK
<1>3. CASE adj[o].seq > n
  BY <1>1, <1>2, <1>3 DEF ProcessAvailabilityInterest
<1>4. CASE ~(adj[o].seq > n)
  <2>. DEFINE key == <<o, p>>
              r == RecordAssociation(state[key], n)
              ps == IF adj[o].seq = n THEN {p} ELSE {}
  <2>1. state' = [state EXCEPT ![key] = r] /\ QueryServiceBranches(ps)
    BY <1>4 DEF ProcessAvailabilityInterest
  <2>2. key \in Keys /\ key[1] = o /\ key[2] = p
    BY DEF Keys
  <2>3. n \in 0..MaxSeq /\ n \in Int
    BY ConstantsAssumption
  <2>. HIDE DEF key
  <2>4. /\ r \in States /\ (r.seq = 0 => r.faces = {}) /\ r.seq >= state[key].seq
        /\ r = state[key] \/ (r.seq = n /\ r.faces = {})
    BY <1>1, <2>2, <2>3, RecordLemma
  <2>. HIDE DEF r
  <2>5. ps \in SUBSET Prefixes /\ (adj[o].seq = n => p \in ps)
    OBVIOUS
  <2>. HIDE DEF ps
  <2>6. /\ queries' \in [Prefixes -> [Slots -> Queries]]
        /\ \A q \in ps : \E s \in Slots : queries'[q][s] = Unread
        /\ \A q \in Prefixes, s \in Slots :
              queries[q][s] # NoQuery => queries'[q][s] = queries[q][s]
    BY <2>1, <2>5, QueryLemma
  <2>7. state' \in [Keys -> States] /\ state'[key] = r
    BY <1>1, <2>1, <2>2, <2>4
  <2>8. \A k \in Keys : k # key => state'[k] = state[k]
    BY <1>1, <2>1, <2>2
  <2>9. ASSUME NEW k \in Keys
        PROVE  /\ state'[k].seq = 0 => state'[k].faces = {}
               /\ state'[k].seq >= state[k].seq
               /\ \/ state'[k] = state[k]
                  \/ state'[k].faces = {} /\ state'[k].seq # adj[k[1]].seq
                  \/ /\ state'[k].faces = {}
                     /\ \E s \in Slots : queries'[k[2]][s] = Unread
    BY <1>1, <2>2, <2>4, <2>5, <2>6, <2>7, <2>8
  <2>. QED
    BY <2>6, <2>7, <2>9
<1>. QED
  BY <1>3, <1>4

-----------------------------------------------------------------------------
(* Each action keeps the types. *)
LEMMA TypeStep == TypeOK /\ [Next]_vars => TypeOK'
<1>. SUFFICES ASSUME TypeOK, [Next]_vars PROVE TypeOK'
  OBVIOUS
<1>0. /\ state \in [Keys -> States]
      /\ state' \in [Keys -> States] => state' \in [Keys -> [seq : 0..MaxSeq, faces : SUBSET Faces]]
      /\ NoAdjLsa \in AdjLsas /\ NoQuery \in Queries
      /\ \A F \in SUBSET Faces : Read(F) \in Queries
  BY ConstantsAssumption DEF TypeOK, States, NoAdjLsa, AdjLsas, Queries
<1>e. ASSUME NEW b \in BOOLEAN, Occurs(b) PROVE env' \in [events : 0..MaxEvents, faulty : BOOLEAN]
  BY <1>e, ConstantsAssumption DEF TypeOK, Occurs
<1>q. \A p \in Prefixes, s \in Slots : queries[p][s].faces \in SUBSET Faces
  <2>1. \A q \in Queries : q.faces \in SUBSET Faces
    BY DEF Queries, NoQuery, Unread, Read
  <2>. QED
    BY <2>1 DEF TypeOK
<1>s. \A p \in Prefixes : startup[p].faces \in SUBSET Faces
  <2>1. \A q \in Queries : q.faces \in SUBSET Faces
    BY DEF Queries, NoQuery, Unread, Read
  <2>. QED
    BY <2>1 DEF TypeOK
<1>1. ASSUME NEW o \in Routers, InstallAdjLsa(o) PROVE TypeOK'
  <2>1. PICK n \in adj[o].seq + 1 .. MaxSeq, nbrs \in SUBSET (Routers \ {o}) :
           ModifiedAdjLsa(o, [seq |-> n, nbrs |-> nbrs, silent |-> FALSE])
    BY <1>1 DEF InstallAdjLsa
  <2>. DEFINE lsa == [seq |-> n, nbrs |-> nbrs, silent |-> FALSE]
  <2>2. adj[o].seq \in 0..MaxSeq
    BY DEF TypeOK, AdjLsas
  <2>3. lsa \in AdjLsas /\ lsa.seq > adj[o].seq
    BY <2>1, <2>2, ConstantsAssumption DEF AdjLsas
  <2>. HIDE DEF lsa
  <2>4. /\ adj' \in [Routers -> AdjLsas] /\ queries' \in [Prefixes -> [Slots -> Queries]]
        /\ Grown(adj', state, state')
    BY <2>1, <2>3, InstallLemma DEF lsa
  <2>. QED
    BY <1>0, <1>1, <1>e, <2>4 DEF InstallAdjLsa, Event, Grown, outside, TypeOK
<1>2. ASSUME NEW o \in Routers, RefreshAdjLsa(o) PROVE TypeOK'
  <2>1. PICK n \in adj[o].seq + 1 .. MaxSeq :
           adj' = [adj EXCEPT ![o].seq = n, ![o].silent = TRUE]
    BY <1>2 DEF RefreshAdjLsa
  <2>2. adj[o] \in AdjLsas /\ adj[o].seq \in 0..MaxSeq /\ n \in 0..MaxSeq
    BY ConstantsAssumption DEF TypeOK, AdjLsas
  <2>3. adj' \in [Routers -> AdjLsas]
    BY <2>1, <2>2 DEF TypeOK, AdjLsas
  <2>. QED
    BY <1>2, <1>e, <2>3 DEF RefreshAdjLsa, Event, outside, TypeOK
<1>3. ASSUME NEW o \in Routers, RemoveAdjLsa(o) PROVE TypeOK'
  <2>1. /\ state' \in [Keys -> States]
        /\ \A k \in Keys : state'[k].seq = 0 => state'[k].faces = {}
    BY <1>0, <1>3, ConstantsAssumption DEF RemoveAdjLsa, EraseStates, NoState, States, TypeOK
  <2>2. adj' \in [Routers -> AdjLsas]
    BY <1>0, <1>3 DEF RemoveAdjLsa, TypeOK
  <2>. QED
    BY <1>0, <1>3, <1>e, <2>1, <2>2 DEF RemoveAdjLsa, Event, outside, TypeOK
<1>4. ASSUME NEW o \in Routers, InstallNameLsa(o) PROVE TypeOK'
  <2>1. PICK ps \in SUBSET Prefixes :
           LET ns == [names EXCEPT ![o] = ps]
           IN  /\ names' = ns
               /\ state' = MaybeAdvertiseServiceAttachment(adj, ns, state)
               /\ QueryServiceBranches(AttachedPrefixes(adj, ns))
    BY <1>4 DEF InstallNameLsa
  <2>2. names' \in [Routers -> SUBSET Prefixes]
    BY <2>1 DEF TypeOK
  <2>3. /\ state' = MaybeAdvertiseServiceAttachment(adj, names', state)
        /\ QueryServiceBranches(AttachedPrefixes(adj, names'))
    BY <2>1
  <2>4. queries' \in [Prefixes -> [Slots -> Queries]] /\ Grown(adj, state, state')
    BY <2>2, <2>3, NameLemma
  <2>. QED
    BY <1>0, <1>4, <1>e, <2>2, <2>4 DEF InstallNameLsa, Event, Grown, outside, TypeOK
<1>5. ASSUME NEW o \in Routers, RemoveNameLsa(o) PROVE TypeOK'
  BY <1>5, <1>e DEF RemoveNameLsa, Event, lsdb, outside, TypeOK
<1>6. ASSUME NEW o \in Routers, NEW n \in 1..MaxSeq, NEW p \in Prefixes,
             ProcessAvailabilityInterest(o, n, p)
      PROVE  TypeOK'
  <2>1. /\ queries' \in [Prefixes -> [Slots -> Queries]]
        /\ state' \in [Keys -> States]
        /\ \A k \in Keys : state'[k].seq = 0 => state'[k].faces = {}
    BY <1>6, HintLemma
  <2>. QED
    BY <1>0, <1>6, <1>e, <2>1 DEF ProcessAvailabilityInterest, Event, lsdb, outside, TypeOK
<1>7. ASSUME NEW p \in Prefixes, NEW s \in Slots, NfdReads(p, s) PROVE TypeOK'
  <2>1. queries' \in [Prefixes -> [Slots -> Queries]]
    BY <1>0, <1>7 DEF NfdReads, TypeOK
  <2>. QED
    BY <1>7, <2>1 DEF NfdReads, lsdb, outside, TypeOK
<1>8. ASSUME NEW p \in Prefixes, NEW s \in Slots, QuerySucceeds(p, s) PROVE TypeOK'
  <2>1. /\ state' \in [Keys -> States]
        /\ \A k \in Keys : state'[k].seq = 0 => state'[k].faces = {}
    BY <1>8, <1>q, AssociatedLemma DEF QuerySucceeds
  <2>2. queries' \in [Prefixes -> [Slots -> Queries]]
    BY <1>0, <1>8 DEF QuerySucceeds, EndQuery, TypeOK
  <2>3. branches' \in [Prefixes -> SUBSET Faces]
    BY <1>8, <1>q DEF QuerySucceeds, ReplaceServiceBranchSnapshot, TypeOK
  <2>. QED
    BY <1>0, <1>8, <2>1, <2>2, <2>3 DEF QuerySucceeds, lsdb, outside, TypeOK
<1>9. ASSUME NEW p \in Prefixes, NEW s \in Slots, QueryFails(p, s) PROVE TypeOK'
  <2>1. branches[p] \in SUBSET Faces
    BY DEF TypeOK
  <2>2. /\ state' \in [Keys -> States]
        /\ \A k \in Keys : state'[k].seq = 0 => state'[k].faces = {}
    BY <1>9, <2>1, AssociatedLemma DEF QueryFails
  <2>3. queries' \in [Prefixes -> [Slots -> Queries]]
    BY <1>0, <1>9 DEF QueryFails, EndQuery, TypeOK
  <2>. QED
    BY <1>0, <1>9, <1>e, <2>2, <2>3 DEF QueryFails, Fault, lsdb, outside, TypeOK
<1>10. ASSUME NEW p \in Prefixes, NEW f \in Faces, BranchCreated(p, f) PROVE TypeOK'
  <2>1. nfd' \in [faces : SUBSET Faces, branches : [Prefixes -> SUBSET Faces]]
    BY <1>10 DEF BranchCreated, TypeOK
  <2>2. created' \subseteq Prefixes \X Faces
    BY <1>10 DEF BranchCreated, TypeOK
  <2>. QED
    BY <1>10, <1>e, <2>1, <2>2 DEF BranchCreated, Event, lsdb, TypeOK
<1>11. ASSUME NEW p \in Prefixes, NEW f \in Faces, BranchExpires(p, f) PROVE TypeOK'
  <2>1. nfd' \in [faces : SUBSET Faces, branches : [Prefixes -> SUBSET Faces]]
    BY <1>11 DEF BranchExpires, TypeOK
  <2>. QED
    BY <1>11, <1>e, <2>1 DEF BranchExpires, Event, lsdb, TypeOK
<1>12. ASSUME NEW p \in Prefixes, NEW f \in Faces, BranchCreatedEvent(p, f) PROVE TypeOK'
  <2>1. /\ state' \in [Keys -> States]
        /\ \A k \in Keys : state'[k].seq = 0 => state'[k].faces = {}
    BY <1>12, AssociatedLemma DEF BranchCreatedEvent, NoteServiceBranch
  <2>2. branches' \in [Prefixes -> SUBSET Faces]
    BY <1>12 DEF BranchCreatedEvent, NoteServiceBranch, TypeOK
  <2>. QED
    BY <1>0, <1>12, <2>1, <2>2 DEF BranchCreatedEvent, lsdb, TypeOK
<1>13. ASSUME NEW p \in Prefixes, NEW f \in Faces, NotificationLost(p, f) PROVE TypeOK'
  BY <1>13, <1>e DEF NotificationLost, Fault, lsdb, TypeOK
<1>14. ASSUME NEW f \in Faces, FaceDestroyed(f) PROVE TypeOK'
  <2>1. nfd' \in [faces : SUBSET Faces, branches : [Prefixes -> SUBSET Faces]]
    BY <1>14 DEF FaceDestroyed, TypeOK
  <2>. QED
    BY <1>14, <1>e, <2>1 DEF FaceDestroyed, Event, lsdb, TypeOK
<1>15. ASSUME NEW f \in Faces, OnFaceDestroyed(f) PROVE TypeOK'
  <2>1. /\ state' \in [Keys -> States]
        /\ \A k \in Keys : state'[k].seq = 0 => state'[k].faces = {}
    BY <1>0, <1>15 DEF OnFaceDestroyed, States, TypeOK
  <2>. QED
    BY <1>0, <1>15, <2>1 DEF OnFaceDestroyed, lsdb, TypeOK
<1>16. ASSUME NEW f \in Faces, StatusChanges(f) PROVE TypeOK'
  BY <1>16, <1>e DEF StatusChanges, Event, lsdb, outside, TypeOK
<1>17. ASSUME NfdReadsAll PROVE TypeOK'
  <2>1. startup' \in [Prefixes -> Queries]
    BY <1>0, <1>17 DEF NfdReadsAll, TypeOK
  <2>. QED
    BY <1>17, <2>1 DEF NfdReadsAll, lsdb, outside, TypeOK
<1>18. ASSUME StartupQuerySucceeds PROVE TypeOK'
  <2>1. /\ state' \in [Keys -> States]
        /\ \A k \in Keys : state'[k].seq = 0 => state'[k].faces = {}
    BY <1>18, StartupLemma
  <2>2. startup' \in [Prefixes -> Queries] /\ branches' \in [Prefixes -> SUBSET Faces]
    BY <1>0, <1>18, <1>s DEF StartupQuerySucceeds, EndStartup, TypeOK
  <2>. QED
    BY <1>0, <1>18, <2>1, <2>2 DEF StartupQuerySucceeds, lsdb, outside, TypeOK
<1>19. ASSUME StartupQueryFails PROVE TypeOK'
  <2>1. startup' \in [Prefixes -> Queries]
    BY <1>0, <1>19 DEF StartupQueryFails, EndStartup, TypeOK
  <2>. QED
    BY <1>19, <1>e, <2>1 DEF StartupQueryFails, Fault, lsdb, outside, TypeOK
<1>20. CASE UNCHANGED vars
  BY <1>20 DEF vars, TypeOK
<1>. QED
  BY <1>1, <1>2, <1>3, <1>4, <1>5, <1>6, <1>7, <1>8, <1>9, <1>10, <1>11, <1>12, <1>13,
     <1>14, <1>15, <1>16, <1>17, <1>18, <1>19, <1>20
  DEF Next, Availabilities, LsdbStep, QueryStep, BranchStep, FaceStep, StartupStep

(* Corridor::start and every callback leave variables of their types. *)
THEOREM TypeCorrectness == Spec => []TypeOK
<1>1. Init => TypeOK
  <2>. SUFFICES ASSUME Init PROVE TypeOK
    OBVIOUS
  <2>1. NoAdjLsa \in AdjLsas /\ NoQuery \in Queries /\ Unread \in Queries
    BY ConstantsAssumption DEF NoAdjLsa, AdjLsas, Queries
  <2>2. env \in [events : 0..MaxEvents, faulty : BOOLEAN]
    BY ConstantsAssumption DEF Init
  <2>3. /\ state \in [Keys -> [seq : 0..MaxSeq, faces : SUBSET Faces]]
        /\ \A k \in Keys : state[k].seq = 0 => state[k].faces = {}
    BY ConstantsAssumption DEF Init, NoState
  <2>. QED
    BY <2>1, <2>2, <2>3 DEF Init, TypeOK
<1>. QED
  BY <1>1, TypeStep, PTL DEF Spec

-----------------------------------------------------------------------------
(* Corridor::advertise, recordAssociation and onLsdbModified: no face is   *)
(* on record as told a number that was only hinted.                        *)
THEOREM HintsAreNotTold == Spec => []ToldIsInstalled
<1>1. Init => ToldIsInstalled
  BY DEF Init, ToldIsInstalled, NoState
<1>2. ASSUME TypeOK, ToldIsInstalled, [Next]_vars PROVE ToldIsInstalled'
  <2>0. /\ \A k \in Keys : /\ state[k].seq \in 0..MaxSeq /\ k[1] \in Routers
                           /\ adj[k[1]].seq \in 0..MaxSeq
      /\ \A k \in Keys : state[k].faces # {} => state[k].seq <= adj[k[1]].seq
    BY <1>2 DEF TypeOK, Keys, AdjLsas, ToldIsInstalled
  <2>1. ASSUME NEW o \in Routers, InstallAdjLsa(o) PROVE ToldIsInstalled'
    <3>1. PICK n \in adj[o].seq + 1 .. MaxSeq, nbrs \in SUBSET (Routers \ {o}) :
             ModifiedAdjLsa(o, [seq |-> n, nbrs |-> nbrs, silent |-> FALSE])
      BY <2>1 DEF InstallAdjLsa
    <3>. DEFINE lsa == [seq |-> n, nbrs |-> nbrs, silent |-> FALSE]
    <3>2. adj[o].seq \in 0..MaxSeq
      BY <1>2 DEF TypeOK, AdjLsas
    <3>3. lsa \in AdjLsas /\ lsa.seq > adj[o].seq
      BY <3>1, <3>2, ConstantsAssumption DEF AdjLsas
    <3>. HIDE DEF lsa
    <3>4. adj' = [adj EXCEPT ![o] = lsa] /\ Grown(adj', state, state')
          /\ adj' \in [Routers -> AdjLsas]
      BY <1>2, <3>1, <3>3, InstallLemma DEF lsa
    <3>5. \A r \in Routers : adj'[r].seq >= adj[r].seq /\ adj'[r].seq \in 0..MaxSeq
      BY <1>2, <3>3, <3>4, ConstantsAssumption DEF TypeOK, AdjLsas
    <3>. QED
      BY <2>0, <3>4, <3>5, ConstantsAssumption DEF Grown, ToldIsInstalled, States
  <2>2. ASSUME NEW o \in Routers, RefreshAdjLsa(o) PROVE ToldIsInstalled'
    <3>1. PICK n \in adj[o].seq + 1 .. MaxSeq :
             adj' = [adj EXCEPT ![o].seq = n, ![o].silent = TRUE]
      BY <2>2 DEF RefreshAdjLsa
    <3>2. adj[o] \in AdjLsas /\ adj[o].seq \in 0..MaxSeq /\ n >= adj[o].seq /\ n \in Int
      BY <1>2, ConstantsAssumption DEF TypeOK, AdjLsas
    <3>3. \A r \in Routers : adj'[r].seq = IF r = o THEN n ELSE adj[r].seq
      BY <1>2, <3>1, <3>2 DEF TypeOK, AdjLsas
    <3>4. state' = state
      BY <2>2 DEF RefreshAdjLsa
    <3>. QED
      BY <2>0, <3>2, <3>3, <3>4, ConstantsAssumption DEF ToldIsInstalled
  <2>3. ASSUME NEW o \in Routers, RemoveAdjLsa(o) PROVE ToldIsInstalled'
    BY <1>2, <2>0, <2>3 DEF RemoveAdjLsa, EraseStates, NoState, ToldIsInstalled, TypeOK
  <2>4. ASSUME NEW o \in Routers, InstallNameLsa(o) PROVE ToldIsInstalled'
    <3>1. PICK ps \in SUBSET Prefixes :
             LET ns == [names EXCEPT ![o] = ps]
             IN  /\ state' = MaybeAdvertiseServiceAttachment(adj, ns, state)
                 /\ QueryServiceBranches(AttachedPrefixes(adj, ns))
      BY <2>4 DEF InstallNameLsa
    <3>2. [names EXCEPT ![o] = ps] \in [Routers -> SUBSET Prefixes]
      BY <1>2 DEF TypeOK
    <3>3. Grown(adj, state, state')
      BY <1>2, <3>1, <3>2, NameLemma
    <3>4. adj' = adj
      BY <2>4 DEF InstallNameLsa
    <3>. QED
      BY <2>0, <3>3, <3>4, ConstantsAssumption DEF Grown, ToldIsInstalled, States
  <2>5. ASSUME NEW o \in Routers, NEW n \in 1..MaxSeq, NEW p \in Prefixes,
               ProcessAvailabilityInterest(o, n, p)
        PROVE  ToldIsInstalled'
    <3>1. \A k \in Keys : state'[k] = state[k] \/ state'[k].faces = {}
      BY <1>2, <2>5, HintLemma
    <3>2. adj' = adj
      BY <2>5 DEF ProcessAvailabilityInterest, lsdb
    <3>. QED
      BY <2>0, <3>1, <3>2 DEF ToldIsInstalled
  <2>6. ASSUME NEW p \in Prefixes, NEW F \in SUBSET Faces,
               state' = AdvertiseAssociated(p, F), adj' = adj
        PROVE  ToldIsInstalled'
    <3>1. \A k \in Keys : /\ state'[k].seq = state[k].seq
                          /\ state'[k] = state[k] \/ IsInstalled(adj, k, state[k])
      BY <1>2, <2>6, AssociatedLemma
    <3>. QED
      BY <2>0, <2>6, <3>1, ConstantsAssumption DEF ToldIsInstalled, IsInstalled
  <2>q. \A p \in Prefixes, s \in Slots : queries[p][s].faces \in SUBSET Faces
    <3>1. \A q \in Queries : q.faces \in SUBSET Faces
      BY DEF Queries, NoQuery, Unread, Read
    <3>. QED
      BY <1>2, <3>1 DEF TypeOK
  <2>7. ASSUME NEW p \in Prefixes, NEW s \in Slots, QuerySucceeds(p, s)
        PROVE  ToldIsInstalled'
    BY <2>6, <2>7, <2>q DEF QuerySucceeds, lsdb
  <2>8. ASSUME NEW p \in Prefixes, NEW s \in Slots, QueryFails(p, s)
        PROVE  ToldIsInstalled'
    <3>1. branches[p] \in SUBSET Faces
      BY <1>2 DEF TypeOK
    <3>. QED
      BY <2>6, <2>8, <3>1 DEF QueryFails, lsdb
  <2>9. ASSUME NEW p \in Prefixes, NEW f \in Faces, BranchCreatedEvent(p, f)
        PROVE  ToldIsInstalled'
    BY <2>6, <2>9 DEF BranchCreatedEvent, NoteServiceBranch, lsdb
  <2>10. ASSUME StartupQuerySucceeds PROVE ToldIsInstalled'
    <3>1. \A k \in Keys : /\ state'[k].seq = state[k].seq
                          /\ state'[k] = state[k] \/ IsInstalled(adj, k, state[k])
      BY <1>2, <2>10, StartupLemma
    <3>2. adj' = adj
      BY <2>10 DEF StartupQuerySucceeds, lsdb
    <3>. QED
      BY <2>0, <3>1, <3>2, ConstantsAssumption DEF ToldIsInstalled, IsInstalled
  <2>11. ASSUME NEW f \in Faces, OnFaceDestroyed(f) PROVE ToldIsInstalled'
    BY <1>2, <2>0, <2>11 DEF OnFaceDestroyed, lsdb, ToldIsInstalled, TypeOK
  <2>12. ASSUME UNCHANGED <<adj, state>> PROVE ToldIsInstalled'
    BY <2>0, <2>12 DEF ToldIsInstalled
  <2>. QED
    BY <1>2, <2>1, <2>2, <2>3, <2>4, <2>5, <2>7, <2>8, <2>9, <2>10, <2>11, <2>12
    DEF Next, Availabilities, LsdbStep, QueryStep, BranchStep, FaceStep, StartupStep, RemoveNameLsa,
        NfdReads, BranchCreated, BranchExpires, NotificationLost, FaceDestroyed,
        StatusChanges, NfdReadsAll, StartupQueryFails, lsdb, vars
<1>. QED
  BY <1>1, <1>2, TypeCorrectness, PTL DEF Spec

-----------------------------------------------------------------------------
(* Corridor::maybeAdvertiseServiceAttachment: in whichever order its LSAs  *)
(* arrive, an attached service is associated with both ends.               *)
THEOREM AttachmentsAreAssociated == Spec => []AttachmentIsAssociated
<1>1. Init => AttachmentIsAssociated
  BY DEF Init, AttachmentIsAssociated, Attachment, Attached, AttachedPrefixes, NoAdjLsa
<1>2. ASSUME TypeOK, AttachmentIsAssociated, [Next]_vars PROVE AttachmentIsAssociated'
  <2>0. \A k \in Keys : /\ state[k].seq \in Int /\ k[1] \in Routers
                        /\ adj[k[1]].seq \in Int
    BY <1>2, ConstantsAssumption DEF TypeOK, Keys, AdjLsas
  <2>1. ASSUME NEW o \in Routers, InstallAdjLsa(o) PROVE AttachmentIsAssociated'
    <3>1. PICK n \in adj[o].seq + 1 .. MaxSeq, nbrs \in SUBSET (Routers \ {o}) :
             ModifiedAdjLsa(o, [seq |-> n, nbrs |-> nbrs, silent |-> FALSE])
      BY <2>1 DEF InstallAdjLsa
    <3>. DEFINE lsa == [seq |-> n, nbrs |-> nbrs, silent |-> FALSE]
    <3>2. adj[o].seq \in 0..MaxSeq
      BY <1>2 DEF TypeOK, AdjLsas
    <3>3. lsa \in AdjLsas /\ lsa.seq > adj[o].seq
      BY <3>1, <3>2, ConstantsAssumption DEF AdjLsas
    <3>. HIDE DEF lsa
    <3>4. \A k \in Attachment(adj', names) : state'[k].seq >= adj'[k[1]].seq
      BY <1>2, <3>1, <3>3, InstallLemma DEF lsa
    <3>5. names' = names
      BY <2>1 DEF InstallAdjLsa
    <3>. QED
      BY <3>4, <3>5 DEF AttachmentIsAssociated
  <2>2. ASSUME NEW o \in Routers, RefreshAdjLsa(o) PROVE AttachmentIsAssociated'
    <3>1. PICK n \in adj[o].seq + 1 .. MaxSeq :
             adj' = [adj EXCEPT ![o].seq = n, ![o].silent = TRUE]
      BY <2>2 DEF RefreshAdjLsa
    <3>2. /\ adj'[o].silent /\ adj'[o].nbrs = adj[o].nbrs /\ adj[o].seq # 0
          /\ \A r \in Routers : r # o => adj'[r] = adj[r]
      BY <1>2, <2>2, <3>1 DEF RefreshAdjLsa, TypeOK, AdjLsas
    <3>3. names' = names /\ state' = state
      BY <2>2 DEF RefreshAdjLsa
    <3>4. Attached(adj') \subseteq Attached(adj)
      BY <3>2, ConstantsAssumption DEF Attached
    <3>5. Attachment(adj', names') \subseteq Attachment(adj, names)
      BY <3>3, <3>4 DEF Attachment, AttachedPrefixes
    <3>6. Attachment(adj', names') \subseteq Keys
      BY DEF Attachment
    <3>. QED
      BY <1>2, <2>0, <3>2, <3>3, <3>5, <3>6 DEF AttachmentIsAssociated
  <2>3. ASSUME NEW o \in Routers, RemoveAdjLsa(o) PROVE AttachmentIsAssociated'
    <3>1. /\ adj'[o].seq = 0
          /\ \A r \in Routers : r # o => adj'[r] = adj[r]
          /\ \A k \in Keys : k[1] # o => state'[k] = state[k]
          /\ names' = names
      BY <1>2, <2>3 DEF RemoveAdjLsa, EraseStates, NoAdjLsa, TypeOK
    <3>2. Attached(adj') \subseteq Attached(adj) /\ o \notin Attached(adj')
          /\ (o = Self => Attached(adj') = {})
      BY <3>1, ConstantsAssumption DEF Attached
    <3>3. Attachment(adj', names') \subseteq Attachment(adj, names)
      BY <3>1, <3>2 DEF Attachment, AttachedPrefixes
    <3>4. \A k \in Attachment(adj', names') : k \in Keys /\ k[1] # o
      BY <3>2 DEF Attachment, AttachedPrefixes
    <3>. QED
      BY <1>2, <2>0, <3>1, <3>3, <3>4 DEF AttachmentIsAssociated
  <2>4. ASSUME NEW o \in Routers, InstallNameLsa(o) PROVE AttachmentIsAssociated'
    <3>1. PICK ps \in SUBSET Prefixes :
             LET ns == [names EXCEPT ![o] = ps]
             IN  /\ names' = ns
                 /\ state' = MaybeAdvertiseServiceAttachment(adj, ns, state)
                 /\ QueryServiceBranches(AttachedPrefixes(adj, ns))
      BY <2>4 DEF InstallNameLsa
    <3>2. [names EXCEPT ![o] = ps] \in [Routers -> SUBSET Prefixes]
      BY <1>2 DEF TypeOK
    <3>3. \A k \in Attachment(adj, names') : state'[k].seq >= adj[k[1]].seq
      BY <1>2, <3>1, <3>2, NameLemma
    <3>4. adj' = adj
      BY <2>4 DEF InstallNameLsa
    <3>. QED
      BY <3>3, <3>4 DEF AttachmentIsAssociated
  <2>5. ASSUME NEW o \in Routers, RemoveNameLsa(o) PROVE AttachmentIsAssociated'
    <3>1. adj' = adj /\ state' = state /\ \A r \in Routers : names'[r] \subseteq names[r]
      BY <1>2, <2>5 DEF RemoveNameLsa, TypeOK
    <3>2. Attachment(adj', names') \subseteq Attachment(adj, names)
      BY <3>1 DEF Attachment, AttachedPrefixes, Attached, Keys
    <3>. QED
      BY <1>2, <3>1, <3>2 DEF AttachmentIsAssociated
  <2>6. ASSUME adj' = adj, names' = names,
               \A k \in Keys : state'[k].seq \in Int /\ state'[k].seq >= state[k].seq
        PROVE  AttachmentIsAssociated'
    <3>1. Attachment(adj', names') = Attachment(adj, names) /\ Attachment(adj, names) \subseteq Keys
      BY <2>6 DEF Attachment
    <3>. QED
      BY <1>2, <2>0, <2>6, <3>1 DEF AttachmentIsAssociated
  <2>7. \/ \E o \in Routers : LsdbStep(o)
        \/ adj' = adj /\ names' = names /\ \A k \in Keys : state'[k].seq >= state[k].seq
    <3>1. ASSUME NEW o \in Routers, NEW n \in 1..MaxSeq, NEW p \in Prefixes,
                 ProcessAvailabilityInterest(o, n, p)
          PROVE  \A k \in Keys : state'[k].seq >= state[k].seq
      BY <1>2, <3>1, HintLemma
    <3>2. ASSUME NEW p \in Prefixes, NEW F \in SUBSET Faces,
                 state' = AdvertiseAssociated(p, F)
          PROVE  \A k \in Keys : state'[k].seq >= state[k].seq
      BY <1>2, <2>0, <3>2, AssociatedLemma
    <3>q. /\ \A p \in Prefixes, s \in Slots : queries[p][s].faces \in SUBSET Faces
          /\ \A p \in Prefixes : branches[p] \in SUBSET Faces
      <4>1. \A q \in Queries : q.faces \in SUBSET Faces
        BY DEF Queries, NoQuery, Unread, Read
      <4>. QED
        BY <1>2, <4>1 DEF TypeOK
    <3>3. ASSUME NEW p \in Prefixes, NEW s \in Slots, QuerySucceeds(p, s) \/ QueryFails(p, s)
          PROVE  \A k \in Keys : state'[k].seq >= state[k].seq
      BY <3>2, <3>3, <3>q DEF QuerySucceeds, QueryFails
    <3>4. ASSUME NEW p \in Prefixes, NEW f \in Faces, BranchCreatedEvent(p, f)
          PROVE  \A k \in Keys : state'[k].seq >= state[k].seq
      BY <3>2, <3>4 DEF BranchCreatedEvent, NoteServiceBranch
    <3>5. ASSUME StartupQuerySucceeds PROVE \A k \in Keys : state'[k].seq >= state[k].seq
      BY <1>2, <2>0, <3>5, StartupLemma
    <3>6. ASSUME NEW f \in Faces, OnFaceDestroyed(f)
          PROVE  \A k \in Keys : state'[k].seq >= state[k].seq
      BY <1>2, <2>0, <3>6 DEF OnFaceDestroyed, TypeOK
    <3>7. ASSUME state' = state PROVE \A k \in Keys : state'[k].seq >= state[k].seq
      BY <2>0, <3>7
    <3>8. (\E o \in Routers : LsdbStep(o)) \/ (adj' = adj /\ names' = names)
      BY <1>2 DEF Next, Availabilities, QueryStep, BranchStep, FaceStep, StartupStep,
         ProcessAvailabilityInterest,
         QuerySucceeds, QueryFails, BranchCreatedEvent, StartupQuerySucceeds, OnFaceDestroyed,
         NfdReads, BranchCreated, BranchExpires, NotificationLost, FaceDestroyed,
         StatusChanges, NfdReadsAll, StartupQueryFails, lsdb, vars
    <3>9. (\E o \in Routers : LsdbStep(o)) \/ \A k \in Keys : state'[k].seq >= state[k].seq
      BY <1>2, <3>1, <3>3, <3>4, <3>5, <3>6, <3>7
      DEF Next, Availabilities, QueryStep, BranchStep, FaceStep, StartupStep,
          NfdReads, BranchCreated, BranchExpires, NotificationLost, FaceDestroyed,
          StatusChanges, NfdReadsAll, StartupQueryFails, vars
    <3>. QED
      BY <3>8, <3>9
  <2>8. \A k \in Keys : state'[k].seq \in Int
    BY <1>2, TypeStep, ConstantsAssumption DEF TypeOK
  <2>. QED
    BY <2>1, <2>2, <2>3, <2>4, <2>5, <2>6, <2>7, <2>8 DEF LsdbStep
<1>. QED
  BY <1>1, <1>2, TypeCorrectness, PTL DEF Spec

-----------------------------------------------------------------------------
(* NFD lists branches of living faces only, and announces dead ones. *)
LEMMA NfdCorrect == Spec => []NfdInv
<1>1. Init => NfdInv
  BY DEF Init, NfdInv
<1>2. ASSUME TypeOK, NfdInv, [Next]_vars PROVE NfdInv'
  <2>1. ASSUME NEW p \in Prefixes, NEW f \in Faces, BranchCreated(p, f) \/ BranchExpires(p, f)
        PROVE  NfdInv'
    BY <1>2, <2>1 DEF BranchCreated, BranchExpires, NfdInv, TypeOK
  <2>2. ASSUME NEW f \in Faces, FaceDestroyed(f) PROVE NfdInv'
    BY <1>2, <2>2 DEF FaceDestroyed, NfdInv, TypeOK
  <2>3. ASSUME NEW f \in Faces, OnFaceDestroyed(f) PROVE NfdInv'
    BY <1>2, <2>3 DEF OnFaceDestroyed, NfdInv
  <2>4. ASSUME UNCHANGED <<nfd, destroyed>> PROVE NfdInv'
    BY <1>2, <2>4 DEF NfdInv
  <2>5. ASSUME NEW o \in Routers, LsdbStep(o) PROVE UNCHANGED <<nfd, destroyed>>
    BY <2>5 DEF LsdbStep, InstallAdjLsa, RefreshAdjLsa, RemoveAdjLsa, InstallNameLsa,
       RemoveNameLsa, outside
  <2>. QED
    BY <1>2, <2>1, <2>2, <2>3, <2>4, <2>5
    DEF Next, Availabilities, QueryStep, BranchStep, FaceStep, StartupStep,
        ProcessAvailabilityInterest,
        QuerySucceeds, QueryFails, BranchCreatedEvent, NotificationLost, StartupQuerySucceeds,
        NfdReads, StatusChanges, NfdReadsAll, StartupQueryFails, outside, vars
<1>. QED
  BY <1>1, <1>2, TypeCorrectness, PTL DEF Spec

(* A change of the LSDB forgets no branch: a key stays current as it was,  *)
(* or the branches of its prefix are queried.                              *)
LEMMA LsdbForgetsNoBranch ==
    ASSUME TypeOK, NoBranchForgotten, NEW o \in Routers, LsdbStep(o)
    PROVE  NoBranchForgotten'
<1>0. \A k \in Keys : k[1] \in Routers /\ k[2] \in Prefixes
  BY DEF Keys
<1>e. Event => env'.faulty = env.faulty
  BY DEF Event, Occurs, TypeOK
<1>1. CASE InstallAdjLsa(o)
  <2>1. PICK n \in adj[o].seq + 1 .. MaxSeq, nbrs \in SUBSET (Routers \ {o}) :
           ModifiedAdjLsa(o, [seq |-> n, nbrs |-> nbrs, silent |-> FALSE])
    BY <1>1 DEF InstallAdjLsa
  <2>. DEFINE lsa == [seq |-> n, nbrs |-> nbrs, silent |-> FALSE]
  <2>2. adj[o].seq \in 0..MaxSeq
    BY DEF TypeOK, AdjLsas
  <2>3. lsa \in AdjLsas /\ lsa.seq > adj[o].seq
    BY <2>1, <2>2, ConstantsAssumption DEF AdjLsas
  <2>. HIDE DEF lsa
  <2>4. /\ adj' = [adj EXCEPT ![o] = lsa]
        /\ \A p \in Prefixes, s \in Slots :
              queries[p][s] # NoQuery => queries'[p][s] = queries[p][s]
        /\ Grown(adj', state, state')
        /\ \A k \in Keys :
              \/ \E s \in Slots : queries'[k[2]][s] = Unread
              \/ k[1] # o /\ state'[k].seq = state[k].seq
              \/ ~IsInstalled(adj', k, state'[k])
    BY <2>1, <2>3, InstallLemma DEF lsa
  <2>5. \A r \in Routers : r # o => adj'[r] = adj[r]
    BY <2>4 DEF TypeOK
  <2>6. \A k \in Keys : Current(k)' =>
           \/ \E s \in Slots : queries'[k[2]][s] = Unread
           \/ Current(k) /\ state[k].faces \subseteq state'[k].faces
    BY <1>0, <2>4, <2>5 DEF Current, IsInstalled, Grown
  <2>7. UNCHANGED <<branches, outside, startup>> /\ env'.faulty = env.faulty
    BY <1>1, <1>e DEF InstallAdjLsa
  <2>. QED
    BY <2>4, <2>6, <2>7, KeepsBranches
<1>2. CASE RefreshAdjLsa(o)
  <2>1. PICK n \in adj[o].seq + 1 .. MaxSeq :
           adj' = [adj EXCEPT ![o].seq = n, ![o].silent = TRUE]
    BY <1>2 DEF RefreshAdjLsa
  <2>2. adj'[o].silent /\ \A r \in Routers : r # o => adj'[r] = adj[r]
    BY <2>1 DEF TypeOK, AdjLsas
  <2>3. UNCHANGED <<state, queries, branches, outside, startup>> /\ env'.faulty = env.faulty
    BY <1>2, <1>e DEF RefreshAdjLsa
  <2>4. \A k \in Keys : Current(k)' => Current(k)
    BY <1>0, <2>2, <2>3 DEF Current, IsInstalled
  <2>. QED
    BY <2>3, <2>4, KeepsBranches
<1>3. CASE RemoveAdjLsa(o)
  <2>1. /\ adj'[o].seq = 0
        /\ \A r \in Routers : r # o => adj'[r] = adj[r]
        /\ \A k \in Keys : k[1] # o => state'[k] = state[k]
    BY <1>3 DEF RemoveAdjLsa, EraseStates, NoAdjLsa, TypeOK
  <2>2. UNCHANGED <<queries, branches, outside, startup>> /\ env'.faulty = env.faulty
    BY <1>3, <1>e DEF RemoveAdjLsa
  <2>3. \A k \in Keys : Current(k)' => Current(k) /\ state'[k] = state[k]
    BY <1>0, <2>1 DEF Current, IsInstalled
  <2>. QED
    BY <2>2, <2>3, KeepsBranches
<1>4. CASE InstallNameLsa(o)
  <2>1. PICK ps \in SUBSET Prefixes :
           LET ns == [names EXCEPT ![o] = ps]
           IN  /\ state' = MaybeAdvertiseServiceAttachment(adj, ns, state)
               /\ QueryServiceBranches(AttachedPrefixes(adj, ns))
    BY <1>4 DEF InstallNameLsa
  <2>2. [names EXCEPT ![o] = ps] \in [Routers -> SUBSET Prefixes]
    BY DEF TypeOK
  <2>3. /\ \A p \in Prefixes, s \in Slots :
              queries[p][s] # NoQuery => queries'[p][s] = queries[p][s]
        /\ \A k \in Keys :
              \/ \E s \in Slots : queries'[k[2]][s] = Unread
              \/ state'[k] = state[k]
    BY <2>1, <2>2, NameLemma
  <2>4. adj' = adj /\ UNCHANGED <<branches, outside, startup>> /\ env'.faulty = env.faulty
    BY <1>4, <1>e DEF InstallNameLsa
  <2>5. \A k \in Keys : Current(k)' =>
           \/ \E s \in Slots : queries'[k[2]][s] = Unread
           \/ Current(k) /\ state[k].faces \subseteq state'[k].faces
    BY <2>3, <2>4 DEF Current
  <2>. QED
    BY <2>3, <2>4, <2>5, KeepsBranches
<1>5. CASE RemoveNameLsa(o)
  <2>1. UNCHANGED <<adj, state, queries, branches, outside, startup>> /\ env'.faulty = env.faulty
    BY <1>5, <1>e DEF RemoveNameLsa
  <2>2. \A k \in Keys : Current(k)' => Current(k)
    BY <2>1 DEF Current
  <2>. QED
    BY <2>1, <2>2, KeepsBranches
<1>. QED
  BY <1>1, <1>2, <1>3, <1>4, <1>5 DEF LsdbStep

(* The same of an availability Interest. *)
LEMMA HintForgetsNoBranch ==
    ASSUME TypeOK, NoBranchForgotten, NEW o \in Routers, NEW n \in 1..MaxSeq,
           NEW p \in Prefixes, ProcessAvailabilityInterest(o, n, p)
    PROVE  NoBranchForgotten'
<1>1. /\ \A q \in Prefixes, s \in Slots :
            queries[q][s] # NoQuery => queries'[q][s] = queries[q][s]
      /\ \A k \in Keys :
            \/ state'[k] = state[k]
            \/ state'[k].faces = {} /\ state'[k].seq # adj[k[1]].seq
            \/ state'[k].faces = {} /\ \E s \in Slots : queries'[k[2]][s] = Unread
  BY HintLemma
<1>2. adj' = adj /\ UNCHANGED <<branches, outside, startup>> /\ env'.faulty = env.faulty
  BY DEF ProcessAvailabilityInterest, Event, Occurs, lsdb, TypeOK
<1>3. \A k \in Keys : Current(k)' =>
         \/ \E s \in Slots : queries'[k[2]][s] = Unread
         \/ Current(k) /\ state[k].faces \subseteq state'[k].faces
  BY <1>1, <1>2 DEF Current, IsInstalled
<1>. QED
  BY <1>1, <1>2, <1>3, KeepsBranches

(* An answer, or a failure, leaves no branch of its prefix untold. *)
LEMMA QueryForgetsNoBranch ==
    ASSUME TypeOK, NoBranchForgotten, NEW p \in Prefixes, NEW s \in Slots, QueryStep(p, s)
    PROVE  NoBranchForgotten'
<1>. SUFFICES ASSUME NEW k \in Keys, Current(k)' PROVE Remembered(k)'
  BY DEF NoBranchForgotten, Remembered, Current
<1>0. k[2] \in Prefixes /\ Unread # NoQuery /\ \A F : Read(F) # NoQuery
  BY DEF Keys, Unread, NoQuery, Read
<1>q. queries \in [Prefixes -> [Slots -> Queries]]
  BY DEF TypeOK
<1>f. /\ \A q \in Queries : q.faces \in SUBSET Faces
      /\ \A q \in Queries : q.phase = "read" => q # Unread /\ q # NoQuery
      /\ NoQuery.faces = {} /\ Unread.faces = {} /\ \A F : Read(F).faces = F
  BY DEF Queries, NoQuery, Unread, Read
<1>1. CASE NfdReads(p, s)
  <2>1. Current(k) /\ UNCHANGED <<state, branches, startup, outside, env>>
    BY <1>1 DEF NfdReads, Current, lsdb
  <2>2. Remembered(k)
    BY <2>1 DEF NoBranchForgotten, Remembered, Current
  <2>3. \A q \in Prefixes, z \in Slots :
           queries'[q][z] = IF q = p /\ z = s THEN Read(nfd.branches[p]) ELSE queries[q][z]
    BY <1>1, <1>q DEF NfdReads
  <2>4. Asking(k[2]) => Asking(k[2])'
    BY <1>0, <2>3 DEF Asking
  <2>5. queries[p][s] = Unread
    BY <1>1 DEF NfdReads
  <2>6. ASSUME NEW f \in nfd.branches[k[2]], OnItsWay(k[2], f) PROVE OnItsWay(k[2], f)'
    BY <1>0, <1>f, <2>1, <2>3, <2>5, <2>6 DEF OnItsWay, outside
  <2>. QED
    BY <2>1, <2>2, <2>4, <2>6 DEF Remembered, outside
<1>2. CASE QuerySucceeds(p, s)
  <2>. DEFINE F == queries[p][s].faces
  <2>1. /\ queries[p][s].phase = "read" /\ queries[p][s] # Unread /\ F \in SUBSET Faces
    BY <1>2, <1>f, <1>q DEF QuerySucceeds
  <2>2. /\ state' = AdvertiseAssociated(p, F) /\ branches' = [branches EXCEPT ![p] = F]
        /\ UNCHANGED <<adj, startup, outside, env>>
    BY <1>2 DEF QuerySucceeds, ReplaceServiceBranchSnapshot, lsdb
  <2>3. \A q \in Prefixes, z \in Slots :
           queries'[q][z] = IF q = p /\ z = s THEN NoQuery ELSE queries[q][z]
    BY <1>2, <1>q DEF QuerySucceeds, EndQuery
  <2>4. /\ state'[k].seq = state[k].seq /\ state[k].faces \subseteq state'[k].faces
        /\ k[2] = p /\ IsInstalled(adj, k, state[k]) => F \subseteq state'[k].faces
    BY <2>1, <2>2, AssociatedLemma
  <2>5. Current(k)
    BY <2>2, <2>4 DEF Current, IsInstalled
  <2>6. Remembered(k)
    BY <2>5 DEF NoBranchForgotten, Remembered, Current
  <2>7. k[2] = p => F \subseteq state'[k].faces
    BY <2>4, <2>5 DEF Current
  <2>8. ASSUME NEW f \in nfd.branches[k[2]], OnItsWay(k[2], f)
        PROVE  OnItsWay(k[2], f)' \/ f \in state'[k].faces
    BY <1>0, <2>1, <2>2, <2>3, <2>7, <2>8 DEF OnItsWay, outside
  <2>9. \A f \in branches'[k[2]] : f \in state'[k].faces \/ Asking(k[2])'
    <3>1. CASE k[2] = p
      BY <2>2, <2>7, <3>1 DEF TypeOK
    <3>2. CASE k[2] # p
      <4>1. Asking(k[2]) => Asking(k[2])'
        BY <1>0, <2>3, <3>2 DEF Asking
      <4>. QED
        BY <1>0, <2>2, <2>4, <2>6, <3>2, <4>1 DEF Remembered, TypeOK
    <3>. QED
      BY <3>1, <3>2
  <2>. QED
    BY <2>2, <2>4, <2>6, <2>8, <2>9 DEF Remembered, outside
<1>3. CASE QueryFails(p, s)
  <2>1. /\ state' = AdvertiseAssociated(p, branches[p]) /\ branches[p] \in SUBSET Faces
        /\ UNCHANGED <<adj, branches>> /\ env'.faulty
    BY <1>3 DEF QueryFails, Fault, Occurs, lsdb, TypeOK
  <2>2. /\ state'[k].seq = state[k].seq /\ state[k].faces \subseteq state'[k].faces
        /\ k[2] = p /\ IsInstalled(adj, k, state[k]) => branches[p] \subseteq state'[k].faces
    BY <2>1, AssociatedLemma
  <2>3. Current(k)
    BY <2>1, <2>2 DEF Current, IsInstalled
  <2>4. Remembered(k)
    BY <2>3 DEF NoBranchForgotten, Remembered, Current
  <2>5. CASE k[2] = p
    BY <2>1, <2>2, <2>3, <2>5 DEF Remembered, Current
  <2>6. CASE k[2] # p
    <3>1. \A z \in Slots : queries'[k[2]][z] = queries[k[2]][z]
      BY <1>0, <1>3, <1>q, <2>6 DEF QueryFails, EndQuery
    <3>2. Asking(k[2]) => Asking(k[2])'
      BY <3>1 DEF Asking
    <3>. QED
      BY <2>1, <2>2, <2>4, <3>2 DEF Remembered
  <2>. QED
    BY <2>5, <2>6
<1>. QED
  BY <1>1, <1>2, <1>3 DEF QueryStep

(* Branches come, expire and are noted or lost; faces come and go. *)
LEMMA BranchForgetsNoBranch ==
    ASSUME TypeOK, NfdInv, NoBranchForgotten,
           \/ \E p \in Prefixes, f \in Faces : BranchStep(p, f)
           \/ \E f \in Faces : FaceStep(f)
           \/ StartupStep
    PROVE  NoBranchForgotten'
<1>. SUFFICES ASSUME NEW k \in Keys, Current(k)' PROVE Remembered(k)'
  BY DEF NoBranchForgotten, Remembered, Current
<1>0. k[2] \in Prefixes
  BY DEF Keys
<1>c. Current(k) => Remembered(k)
  BY DEF NoBranchForgotten, Remembered, Current
<1>s. UNCHANGED <<adj, state>> => Current(k)
  BY DEF Current
<1>a. queries' = queries => Asking(k[2])' = Asking(k[2])
  BY DEF Asking
<1>1. ASSUME NEW p \in Prefixes, NEW f \in Faces, BranchCreated(p, f) PROVE Remembered(k)'
  <2>1. /\ UNCHANGED <<adj, state, branches, queries, startup>> /\ env'.faulty = env.faulty
        /\ created' = created \cup {<<p, f>>}
        /\ \A q \in Prefixes : nfd'.branches[q] \subseteq
               nfd.branches[q] \cup (IF q = p THEN {f} ELSE {})
    BY <1>1 DEF BranchCreated, Event, Occurs, lsdb, TypeOK
  <2>2. \A g : OnItsWay(k[2], g) => OnItsWay(k[2], g)'
    BY <2>1 DEF OnItsWay
  <2>3. k[2] = p => OnItsWay(k[2], f)'
    BY <2>1 DEF OnItsWay
  <2>. QED
    BY <1>0, <1>a, <1>c, <1>s, <2>1, <2>2, <2>3 DEF Remembered
<1>2. ASSUME NEW p \in Prefixes, NEW f \in Faces, BranchExpires(p, f) PROVE Remembered(k)'
  <2>1. /\ UNCHANGED <<adj, state, branches, queries, startup, created>>
        /\ env'.faulty = env.faulty
        /\ \A q \in Prefixes : nfd'.branches[q] \subseteq nfd.branches[q]
    BY <1>2 DEF BranchExpires, Event, Occurs, lsdb, TypeOK
  <2>2. \A g : OnItsWay(k[2], g) => OnItsWay(k[2], g)'
    BY <2>1 DEF OnItsWay
  <2>. QED
    BY <1>0, <1>a, <1>c, <1>s, <2>1, <2>2 DEF Remembered
<1>3. ASSUME NEW p \in Prefixes, NEW f \in Faces, BranchCreatedEvent(p, f) PROVE Remembered(k)'
  <2>1. /\ state' = AdvertiseAssociated(p, {f}) /\ branches' = [branches EXCEPT ![p] = @ \cup {f}]
        /\ created' = created \ {<<p, f>>} /\ UNCHANGED <<adj, queries, startup, nfd, env>>
    BY <1>3 DEF BranchCreatedEvent, NoteServiceBranch, lsdb
  <2>2. /\ state'[k].seq = state[k].seq /\ state[k].faces \subseteq state'[k].faces
        /\ k[2] = p /\ IsInstalled(adj, k, state[k]) => {f} \subseteq state'[k].faces
    <3>1. {f} \in SUBSET Faces
      OBVIOUS
    <3>. QED
      BY <2>1, <3>1, AssociatedLemma
  <2>3. Current(k)
    BY <2>1, <2>2 DEF Current, IsInstalled
  <2>4. k[2] = p => f \in state'[k].faces
    BY <2>2, <2>3 DEF Current
  <2>5. \A g : OnItsWay(k[2], g) => OnItsWay(k[2], g)' \/ (k[2] = p /\ g = f)
    BY <2>1 DEF OnItsWay
  <2>6. \A g \in branches'[k[2]] : g \in branches[k[2]] \/ (k[2] = p /\ g = f)
    BY <1>0, <2>1 DEF TypeOK
  <2>. QED
    BY <1>a, <1>c, <2>1, <2>2, <2>3, <2>4, <2>5, <2>6 DEF Remembered
<1>4. ASSUME NEW p \in Prefixes, NEW f \in Faces, NotificationLost(p, f) PROVE Remembered(k)'
  <2>1. UNCHANGED <<adj, state, branches, queries>> /\ env'.faulty
    BY <1>4 DEF NotificationLost, Fault, Occurs, lsdb
  <2>. QED
    BY <1>a, <1>c, <1>s, <2>1 DEF Remembered
<1>5. ASSUME NEW f \in Faces, FaceDestroyed(f) PROVE Remembered(k)'
  <2>1. /\ UNCHANGED <<adj, state, branches, queries, startup, created>>
        /\ env'.faulty = env.faulty
        /\ \A q \in Prefixes : nfd'.branches[q] \subseteq nfd.branches[q]
    BY <1>5 DEF FaceDestroyed, Event, Occurs, lsdb, TypeOK
  <2>2. \A g : OnItsWay(k[2], g) => OnItsWay(k[2], g)'
    BY <2>1 DEF OnItsWay
  <2>. QED
    BY <1>0, <1>a, <1>c, <1>s, <2>1, <2>2 DEF Remembered
<1>6. ASSUME NEW f \in Faces, OnFaceDestroyed(f) PROVE Remembered(k)'
  <2>1. /\ UNCHANGED <<adj, queries, startup, nfd, created, env>>
        /\ \A q \in Prefixes : branches'[q] = branches[q] \ {f}
        /\ state'[k] = [state[k] EXCEPT !.faces = @ \ {f}]
    BY <1>6 DEF OnFaceDestroyed, lsdb
  <2>2. state'[k].seq = state[k].seq /\ state'[k].faces = state[k].faces \ {f}
    BY <2>1 DEF TypeOK
  <2>3. f \notin nfd.branches[k[2]]
    BY <1>0, <1>6 DEF OnFaceDestroyed, NfdInv
  <2>4. Current(k)
    BY <2>1, <2>2 DEF Current, IsInstalled
  <2>5. \A g : OnItsWay(k[2], g)' = OnItsWay(k[2], g)
    BY <2>1 DEF OnItsWay
  <2>. QED
    BY <1>0, <1>a, <1>c, <2>1, <2>2, <2>3, <2>4, <2>5 DEF Remembered
<1>7. ASSUME NEW f \in Faces, StatusChanges(f) PROVE Remembered(k)'
  <2>1. /\ UNCHANGED <<adj, state, branches, queries, startup, created, nfd>>
        /\ env'.faulty = env.faulty
    BY <1>7 DEF StatusChanges, Event, Occurs, lsdb, outside, TypeOK
  <2>2. \A g : OnItsWay(k[2], g)' = OnItsWay(k[2], g)
    BY <2>1 DEF OnItsWay
  <2>. QED
    BY <1>a, <1>c, <1>s, <2>1, <2>2 DEF Remembered
<1>8. ASSUME NfdReadsAll PROVE Remembered(k)'
  <2>1. /\ UNCHANGED <<adj, state, branches, queries, created, nfd, env>>
        /\ startup[k[2]] = Unread /\ startup'[k[2]] = Read(nfd.branches[k[2]])
    BY <1>0, <1>8 DEF NfdReadsAll, lsdb, outside
  <2>2. \A g \in nfd.branches[k[2]] : OnItsWay(k[2], g)'
    BY <2>1 DEF OnItsWay, Read
  <2>. QED
    BY <1>a, <1>c, <1>s, <2>1, <2>2 DEF Remembered
<1>9. ASSUME StartupQuerySucceeds PROVE Remembered(k)'
  <2>1. /\ UNCHANGED <<adj, queries, created, nfd, env>>
        /\ branches'[k[2]] = branches[k[2]] \cup startup[k[2]].faces
        /\ startup[k[2]] # Unread
    BY <1>0, <1>9 DEF StartupQuerySucceeds, lsdb, outside, Unread
  <2>2. /\ state'[k].seq = state[k].seq /\ state[k].faces \subseteq state'[k].faces
        /\ IsInstalled(adj, k, state[k]) => startup[k[2]].faces \subseteq state'[k].faces
    BY <1>9, StartupLemma
  <2>3. Current(k)
    BY <2>1, <2>2 DEF Current, IsInstalled
  <2>4. startup[k[2]].faces \subseteq state'[k].faces
    BY <2>2, <2>3 DEF Current
  <2>5. \A g : OnItsWay(k[2], g) => OnItsWay(k[2], g)' \/ g \in startup[k[2]].faces
    BY <2>1 DEF OnItsWay
  <2>. QED
    BY <1>a, <1>c, <2>1, <2>2, <2>3, <2>4, <2>5 DEF Remembered
<1>10. ASSUME StartupQueryFails PROVE Remembered(k)'
  <2>1. UNCHANGED <<adj, state, branches, queries>> /\ env'.faulty
    BY <1>10 DEF StartupQueryFails, Fault, Occurs, lsdb
  <2>. QED
    BY <1>a, <1>c, <1>s, <2>1 DEF Remembered
<1>. QED
  BY <1>1, <1>2, <1>3, <1>4, <1>5, <1>6, <1>7, <1>8, <1>9, <1>10
  DEF BranchStep, FaceStep, StartupStep

(* Corridor::propagateIfAssociated, noteServiceBranch, advertiseAssociated *)
(* and the callbacks of queryServiceBranches together lose no branch.      *)
THEOREM BranchesAreTold == Spec => []NoBranchForgotten
<1>1. Init => NoBranchForgotten
  BY DEF Init, NoBranchForgotten, IsInstalled, NoAdjLsa, Keys
<1>2. ASSUME TypeOK, NfdInv, NoBranchForgotten, [Next]_vars PROVE NoBranchForgotten'
  <2>1. CASE UNCHANGED vars
    BY <1>2, <2>1 DEF vars, NoBranchForgotten, IsInstalled, Asking, OnItsWay
  <2>. QED
    BY <1>2, <2>1, LsdbForgetsNoBranch, HintForgetsNoBranch, QueryForgetsNoBranch,
       BranchForgetsNoBranch
    DEF Next, Availabilities
<1>. QED
  BY <1>1, <1>2, TypeCorrectness, NfdCorrect, PTL DEF Spec
=============================================================================
