------------------------------ MODULE Corridor ------------------------------
(***************************************************************************)
(* The corridor of one router (corridor.cpp): it tells the faces along a   *)
(* service that an Adjacency LSA is installed here, so that the routers    *)
(* behind them fetch it before sync gets to them.                          *)
(*                                                                         *)
(* Faces to tell are the ones of ACTIVE adjacencies, when a service is     *)
(* attached next door, and the service branches of NFD, which the corridor *)
(* learns from notifications and from queries.  All of these, and the      *)
(* LSDB, change between a query and its answer.                            *)
(*                                                                         *)
(* The LSDB is the environment: what it installs and fetches is LsaSync,   *)
(* which also has the directed fetch a hint causes.  Of an Adjacency LSA   *)
(* the model keeps its number, the neighbours it lists and whether it came *)
(* without a change (Lsdb::installLsa emits nothing then); of a Name LSA   *)
(* its prefixes.  Only Adjacency LSAs are ever advertised, so the LSA type *)
(* is no part of a key.  Queries for one prefix that leave in one callback *)
(* are the same Interest, and one query here.                              *)
(*                                                                         *)
(* A definition right above the one in use and used nowhere is a mutated   *)
(* form of it, a plausible slip that a property is shown to catch.         *)
(***************************************************************************)
EXTENDS Integers, FiniteSets

CONSTANTS
    Routers,           \* this router and the origins of LSAs
    Self,              \* this router
    Prefixes,          \* names of services
    Faces,             \* face ids; NFD does not use one twice
    MaxSeq,            \* bound: highest sequence number
    Slots,             \* bound: queries per prefix that are under way
    MaxEvents          \* bound: changes of the LSDB and of faces and branches,
                       \* hints, failed queries and lost notifications together

ASSUME ConstantsAssumption ==
    /\ Self \in Routers
    /\ {MaxSeq, MaxEvents} \subseteq Nat

Keys == Routers \X Prefixes

(* A query: none, one NFD has not seen yet, or the branches NFD read. *)
NoQuery == [phase |-> "none", faces |-> {}]
Unread == [phase |-> "unread", faces |-> {}]
Read(faces) == [phase |-> "read", faces |-> faces]
Queries == {NoQuery, Unread} \cup {Read(faces) : faces \in SUBSET Faces}

AdjLsas == [seq : 0..MaxSeq, nbrs : SUBSET Routers, silent : BOOLEAN]
NoAdjLsa == [seq |-> 0, nbrs |-> {}, silent |-> FALSE]

VARIABLES
    adj,               \* Adjacency LSAs of the LSDB; number 0 if there is none
    names,             \* prefixes of the Name LSAs of the LSDB
    active,            \* faces of ACTIVE adjacencies
    state,             \* m_state; number 0 if there is no entry
    branches,          \* m_branches
    queries,           \* queryServiceBranches calls without their callback
    startup,           \* the query of queryAllServiceBranches
    nfd,               \* external: NFD's service branches of every prefix
    created,           \* external: branch notifications under way
    destroyed,         \* external: face-destroyed notifications under way
    env                \* how much of the bound is used, and whether a query failed
                       \* or a notification was lost

vars == <<adj, names, active, state, branches, queries, startup, nfd, created,
          destroyed, env>>

lsdb == <<adj, names>>
outside == <<nfd, created, destroyed>>

Occurs(faulty) ==
    /\ env.events < MaxEvents
    /\ env' = [events |-> env.events + 1, faulty |-> env.faulty \/ faulty]

Event == Occurs(FALSE)
Fault == Occurs(TRUE)

-----------------------------------------------------------------------------
(* The advertisement state of one key. *)

NoState == [seq |-> 0, faces |-> {}]

RecordKeepsFaces(st, n) == IF n > st.seq THEN [st EXCEPT !.seq = n] ELSE st

RecordAssociation(st, n) == IF n > st.seq THEN [seq |-> n, faces |-> {}] ELSE st

(* Interests go to the faces that are new in the entry. *)
Advertise(st, n, faces) ==
    IF n = 0 \/ n < st.seq
    THEN st
    ELSE [RecordAssociation(st, n) EXCEPT !.faces = @ \cup faces]

IsInstalled(a, k, st) == a[k[1]].seq # 0 /\ a[k[1]].seq = st.seq

(* Tell faces about every LSA that is associated with p and installed. *)
AdvertiseAssociated(p, faces) ==
    [k \in Keys |-> IF k[2] = p /\ IsInstalled(adj, k, state[k])
                    THEN Advertise(state[k], state[k].seq, faces)
                    ELSE state[k]]

-----------------------------------------------------------------------------
(* Queries to NFD. *)

HasRoom(ps) == \A p \in ps : \E s \in Slots : queries[p][s] = NoQuery

QueryServiceBranches(ps) ==
    /\ HasRoom(ps)
    /\ queries' = [p \in Prefixes |->
          IF p \in ps
          THEN [queries[p] EXCEPT ![CHOOSE s \in Slots : queries[p][s] = NoQuery] = Unread]
          ELSE queries[p]]

EndQuery(p, s) == queries' = [queries EXCEPT ![p][s] = NoQuery]

EndStartup == startup' = [p \in Prefixes |-> NoQuery]

ReplaceServiceBranchSnapshot(p, faces) == [branches EXCEPT ![p] = faces]

-----------------------------------------------------------------------------
(* Lsdb::onLsdbModified. *)

(* Origins whose adjacency with this router both sides declare. *)
Attached(a) ==
    {o \in Routers \ {Self} : /\ a[Self].seq # 0 /\ a[o].seq # 0
                              /\ Self \in a[o].nbrs /\ o \in a[Self].nbrs}

AttachedPrefixes(a, ns) == UNION {ns[o] : o \in Attached(a)}

(* The keys that maybeAdvertiseServiceAttachment advertises. *)
Attachment(a, ns) ==
    {k \in Keys : \/ k[1] \in Attached(a) /\ k[2] \in ns[k[1]]
                  \/ k[1] = Self /\ k[2] \in AttachedPrefixes(a, ns)}

AdvertiseOriginOnly(a, ns, st) ==
    [k \in Keys |-> IF k[1] \in Attached(a) /\ k[2] \in ns[k[1]]
                    THEN Advertise(st[k], a[k[1]].seq, active)
                    ELSE st[k]]

MaybeAdvertiseServiceAttachment(a, ns, st) ==
    [k \in Keys |-> IF k \in Attachment(a, ns)
                    THEN Advertise(st[k], a[k[1]].seq, active)
                    ELSE st[k]]

(* Only an installed own Adjacency LSA comes here. *)
AdvertiseOwnAdjFirstHop(a, ns, st) ==
    [k \in Keys |-> IF k[1] = Self /\ k[2] \in ns[Self]
                    THEN Advertise(st[k], a[Self].seq, active)
                    ELSE st[k]]

(* The prefixes that propagateIfAssociated queries. *)
PropagateIfAssociated(o, n, st) == {p \in Prefixes : st[<<o, p>>].seq = n}

ModifiedAdjLsa(o, lsa) ==
    LET a == [adj EXCEPT ![o] = lsa]
        attached == MaybeAdvertiseServiceAttachment(a, names, state)
        st == IF o = Self THEN AdvertiseOwnAdjFirstHop(a, names, attached) ELSE attached
    IN  /\ adj' = a
        /\ state' = st
        /\ QueryServiceBranches(AttachedPrefixes(a, names)
                                \cup PropagateIfAssociated(o, lsa.seq, st))

(* INSTALLED, or UPDATED by a newer version that lists something else. *)
InstallAdjLsa(o) ==
    /\ Event
    /\ \E n \in adj[o].seq + 1 .. MaxSeq, nbrs \in SUBSET (Routers \ {o}) :
          ModifiedAdjLsa(o, [seq |-> n, nbrs |-> nbrs, silent |-> FALSE])
    /\ UNCHANGED <<names, active, branches, startup, outside>>

(* A newer version that lists the same is installed and not signalled. *)
RefreshAdjLsa(o) ==
    /\ Event
    /\ adj[o].seq # 0
    /\ \E n \in adj[o].seq + 1 .. MaxSeq :
          adj' = [adj EXCEPT ![o].seq = n, ![o].silent = TRUE]
    /\ UNCHANGED <<names, active, state, branches, queries, startup, outside>>

EraseKeepsFaces(o) ==
    [k \in Keys |-> IF k[1] = o THEN [state[k] EXCEPT !.seq = 0] ELSE state[k]]

EraseStates(o) == [k \in Keys |-> IF k[1] = o THEN NoState ELSE state[k]]

(* REMOVED *)
RemoveAdjLsa(o) ==
    /\ Event
    /\ adj[o].seq # 0
    /\ adj' = [adj EXCEPT ![o] = NoAdjLsa]
    /\ state' = EraseStates(o)
    /\ UNCHANGED <<names, active, branches, queries, startup, outside>>

(* INSTALLED or UPDATED *)
InstallNameLsa(o) ==
    /\ Event
    /\ \E ps \in SUBSET Prefixes :
          LET ns == [names EXCEPT ![o] = ps]
          IN  /\ ps # names[o]
              /\ names' = ns
              /\ state' = MaybeAdvertiseServiceAttachment(adj, ns, state)
              /\ QueryServiceBranches(AttachedPrefixes(adj, ns))
    /\ UNCHANGED <<adj, active, branches, startup, outside>>

(* REMOVED; m_state has no entry for a Name LSA. *)
RemoveNameLsa(o) ==
    /\ Event
    /\ names[o] # {}
    /\ names' = [names EXCEPT ![o] = {}]
    /\ UNCHANGED <<adj, active, state, branches, queries, startup, outside>>

-----------------------------------------------------------------------------
(* Availability Interests of other routers. *)

(* What a name parses to; a name of any other form is ignored.  A hint of  *)
(* number 0 changes nothing: an entry with number 0 is as good as none.    *)
Availabilities == [origin : Routers, seq : 1..MaxSeq, prefix : Prefixes]

ProcessAvailabilityInterest(o, n, p) ==
    /\ Event
    /\ IF adj[o].seq > n
       THEN UNCHANGED <<state, queries>>
       ELSE /\ state' = [state EXCEPT ![<<o, p>>] = RecordAssociation(@, n)]
            /\ QueryServiceBranches(IF adj[o].seq = n THEN {p} ELSE {})
    /\ UNCHANGED <<lsdb, active, branches, startup, outside>>

-----------------------------------------------------------------------------
(* Callbacks from NFD. *)

NoteServiceBranch(p, f) ==
    /\ branches' = [branches EXCEPT ![p] = @ \cup {f}]
    /\ state' = AdvertiseAssociated(p, {f})

BranchCreatedEvent(p, f) ==
    /\ <<p, f>> \in created
    /\ created' = created \ {<<p, f>>}
    /\ NoteServiceBranch(p, f)
    /\ UNCHANGED <<lsdb, active, queries, startup, nfd, destroyed, env>>

QuerySucceeds(p, s) ==
    /\ queries[p][s].phase = "read"
    /\ EndQuery(p, s)
    /\ branches' = ReplaceServiceBranchSnapshot(p, queries[p][s].faces)
    /\ state' = AdvertiseAssociated(p, queries[p][s].faces)
    /\ UNCHANGED <<lsdb, active, startup, outside, env>>

FailureIgnored(p, s) ==
    /\ Fault
    /\ queries[p][s] # NoQuery
    /\ EndQuery(p, s)
    /\ UNCHANGED <<lsdb, active, state, branches, startup, outside>>

QueryFails(p, s) ==
    /\ Fault
    /\ queries[p][s] # NoQuery
    /\ EndQuery(p, s)
    /\ state' = AdvertiseAssociated(p, branches[p])
    /\ UNCHANGED <<lsdb, active, branches, startup, outside>>

(* Every branch of the answer goes through noteServiceBranch. *)
StartupQuerySucceeds ==
    /\ \A p \in Prefixes : startup[p].phase = "read"
    /\ EndStartup
    /\ branches' = [p \in Prefixes |-> branches[p] \cup startup[p].faces]
    /\ state' = [k \in Keys |-> IF IsInstalled(adj, k, state[k])
                                THEN Advertise(state[k], state[k].seq, startup[k[2]].faces)
                                ELSE state[k]]
    /\ UNCHANGED <<lsdb, active, queries, outside, env>>

StartupQueryFails ==
    /\ Fault
    /\ \A p \in Prefixes : startup[p] # NoQuery
    /\ EndStartup
    /\ UNCHANGED <<lsdb, active, state, branches, queries, outside>>

(* Nlsr then takes the face from the adjacency that has it. *)
OnFaceDestroyed(f) ==
    /\ f \in destroyed
    /\ destroyed' = destroyed \ {f}
    /\ branches' = [p \in Prefixes |-> branches[p] \ {f}]
    /\ state' = [k \in Keys |-> [state[k] EXCEPT !.faces = @ \ {f}]]
    /\ active' = active \ {f}
    /\ UNCHANGED <<lsdb, queries, startup, nfd, created, env>>

-----------------------------------------------------------------------------
(* The environment: NFD, and the Hello protocol. *)

BranchCreated(p, f) ==
    /\ Event
    /\ f \in nfd.faces \ nfd.branches[p]
    /\ nfd' = [nfd EXCEPT !.branches[p] = @ \cup {f}]
    /\ created' = created \cup {<<p, f>>}
    /\ UNCHANGED <<lsdb, active, state, branches, queries, startup, destroyed>>

BranchExpires(p, f) ==
    /\ Event
    /\ f \in nfd.branches[p]
    /\ nfd' = [nfd EXCEPT !.branches[p] = @ \ {f}]
    /\ UNCHANGED <<lsdb, active, state, branches, queries, startup, created, destroyed>>

FaceDestroyed(f) ==
    /\ Event
    /\ f \in nfd.faces
    /\ nfd' = [faces |-> nfd.faces \ {f},
               branches |-> [p \in Prefixes |-> nfd.branches[p] \ {f}]]
    /\ destroyed' = destroyed \cup {f}
    /\ UNCHANGED <<lsdb, active, state, branches, queries, startup, created>>

NotificationLost(p, f) ==
    /\ Fault
    /\ <<p, f>> \in created
    /\ created' = created \ {<<p, f>>}
    /\ UNCHANGED <<lsdb, active, state, branches, queries, startup, nfd, destroyed>>

NfdReads(p, s) ==
    /\ queries[p][s] = Unread
    /\ queries' = [queries EXCEPT ![p][s] = Read(nfd.branches[p])]
    /\ UNCHANGED <<lsdb, active, state, branches, startup, outside, env>>

NfdReadsAll ==
    /\ \A p \in Prefixes : startup[p] = Unread
    /\ startup' = [p \in Prefixes |-> Read(nfd.branches[p])]
    /\ UNCHANGED <<lsdb, active, state, branches, queries, outside, env>>

(* A neighbour with face f becomes ACTIVE, or is no longer. *)
StatusChanges(f) ==
    /\ Event
    /\ f \in nfd.faces
    /\ active' = IF f \in active THEN active \ {f} ELSE active \cup {f}
    /\ UNCHANGED <<lsdb, state, branches, queries, startup, outside>>

-----------------------------------------------------------------------------
Init ==
    /\ adj = [o \in Routers |-> NoAdjLsa]
    /\ names = [o \in Routers |-> {}]
    /\ active = {}
    /\ state = [k \in Keys |-> NoState]
    /\ branches = [p \in Prefixes |-> {}]
    /\ queries = [p \in Prefixes |-> [s \in Slots |-> NoQuery]]
    /\ startup = [p \in Prefixes |-> Unread]
    /\ nfd \in [faces : {Faces}, branches : [Prefixes -> SUBSET Faces]]
    /\ created = {}
    /\ destroyed = {}
    /\ env = [events |-> 0, faulty |-> FALSE]

LsdbStep(o) ==
    \/ InstallAdjLsa(o) \/ RefreshAdjLsa(o) \/ RemoveAdjLsa(o)
    \/ InstallNameLsa(o) \/ RemoveNameLsa(o)

QueryStep(p, s) == NfdReads(p, s) \/ QuerySucceeds(p, s) \/ QueryFails(p, s)

BranchStep(p, f) ==
    \/ BranchCreated(p, f) \/ BranchExpires(p, f)
    \/ BranchCreatedEvent(p, f) \/ NotificationLost(p, f)

FaceStep(f) == FaceDestroyed(f) \/ OnFaceDestroyed(f) \/ StatusChanges(f)

StartupStep == NfdReadsAll \/ StartupQuerySucceeds \/ StartupQueryFails

Next ==
    \/ \E o \in Routers : LsdbStep(o)
    \/ \E av \in Availabilities : ProcessAvailabilityInterest(av.origin, av.seq, av.prefix)
    \/ \E p \in Prefixes, s \in Slots : QueryStep(p, s)
    \/ \E p \in Prefixes, f \in Faces : BranchStep(p, f)
    \/ \E f \in Faces : FaceStep(f)
    \/ StartupStep

Spec == Init /\ [][Next]_vars

-----------------------------------------------------------------------------
(* Properties. *)

(* The variables have their types, and a key without an entry in m_state   *)
(* has no advertised faces.                                                *)
TypeOK ==
    /\ adj \in [Routers -> AdjLsas]
    /\ names \in [Routers -> SUBSET Prefixes]
    /\ active \subseteq Faces
    /\ state \in [Keys -> [seq : 0..MaxSeq, faces : SUBSET Faces]]
    /\ \A k \in Keys : state[k].seq = 0 => state[k].faces = {}
    /\ branches \in [Prefixes -> SUBSET Faces]
    /\ queries \in [Prefixes -> [Slots -> Queries]]
    /\ startup \in [Prefixes -> Queries]
    /\ nfd \in [faces : SUBSET Faces, branches : [Prefixes -> SUBSET Faces]]
    /\ created \subseteq Prefixes \X Faces
    /\ destroyed \subseteq Faces
    /\ env \in [events : 0..MaxEvents, faulty : BOOLEAN]

(* A hint is not routing truth (corridor.hpp): however hints, fetches by   *)
(* sync, removals and late answers interleave, a face on record as told    *)
(* was told a number that is or was installed here, never one that is only *)
(* hinted.                                                                 *)
ToldIsInstalled ==
    \A k \in Keys : state[k].faces # {} => state[k].seq <= adj[k[1]].seq

(* A query of p that has yet to call back. *)
Asking(p) == \E s \in Slots : queries[p][s] # NoQuery

(* The corridor will hear of branch f, from a notification or an answer. *)
OnItsWay(p, f) ==
    \/ <<p, f>> \in created
    \/ startup[p] = Unread \/ f \in startup[p].faces
    \/ \E s \in Slots : queries[p][s] = Unread \/ f \in queries[p][s].faces

(* An LSA that is installed and associated with a service reaches every    *)
(* branch of the service: whatever happened between the hint, the install, *)
(* queries and notifications, each branch the corridor knows was told the  *)
(* installed number or is about to be, when a query calls back; and as     *)
(* long as no query failed and no notification was lost, so was each       *)
(* branch of NFD, or it is on its way to the corridor.  Excepted is a      *)
(* number that was installed without a change and hence without a signal.  *)
NoBranchForgotten ==
    \A k \in Keys :
        IsInstalled(adj, k, state[k]) /\ ~adj[k[1]].silent
        => /\ \A f \in branches[k[2]] : f \in state[k].faces \/ Asking(k[2])
           /\ ~env.faulty => \A f \in nfd.branches[k[2]] :
                                    f \in state[k].faces \/ OnItsWay(k[2], f)

(* Whichever of the three LSAs comes last, a service attached next door is *)
(* associated with the installed numbers, or newer hinted ones, of both    *)
(* ends of the adjacency.                                                  *)
AttachmentIsAssociated ==
    \A k \in Attachment(adj, names) :
        ~adj[k[1]].silent => state[k].seq >= adj[k[1]].seq
=============================================================================
