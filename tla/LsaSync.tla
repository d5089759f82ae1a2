------------------------------- MODULE LsaSync -------------------------------
(***************************************************************************)
(* How one router's Adjacency LSA reaches the others: the origin builds,   *)
(* installs, publishes, refreshes and removes it (lsdb.cpp) and keeps its  *)
(* sequence number in a file (sequencing-manager.cpp); sync tells every    *)
(* router the highest number (sync-logic-handler.cpp), and a router        *)
(* fetches the version by its number, retries, installs and expires it.    *)
(*                                                                         *)
(* Name and Coordinate LSAs take the same path without the deferral that   *)
(* corridor-prioritised-routing adds.  An LSA is its sequence number and   *)
(* its content, an opaque value: what it lists does not matter here.       *)
(*                                                                         *)
(* The sync library and the network are external.  A router's sync state   *)
(* is the highest number it knows for the origin's prefix; a lower one is  *)
(* ignored, as PSync's publishName and state-vector sync do.  Data once    *)
(* sent may be replayed by a cache or by another router's m_lsaStorage.    *)
(*                                                                         *)
(* A definition right above the one in use and used nowhere is a mutated   *)
(* form of it, a plausible slip that a property is shown to catch.         *)
(***************************************************************************)
EXTENDS Integers, FiniteSets

CONSTANTS
    Peers,             \* the other routers
    Contents,          \* what an Adjacency LSA can list
    Corridor,          \* corridor-prioritised-routing
    DryRun,            \* hyperbolic-routing dry-run instead of off
    TornWrites,        \* a crash may come between truncation and write of the file
    OwnHints,          \* availability of the origin's LSA may reach the origin
    RestartJump,       \* added to the number in the file at start (10)
    MaxAttempts,       \* CORRIDOR_LSA_FETCH_MAX_ATTEMPTS (3)
    MaxSeq,            \* bound: highest sequence number
    MaxFaults,         \* bound: crashes of routers
    MaxGiveUps,        \* bound: fetches whose retrieval deadline passes
    MaxHints           \* bound: corridor availability Interests

ASSUME ConstantsAssumption ==
    /\ {Corridor, DryRun, TornWrites, OwnHints} \subseteq BOOLEAN
    /\ RestartJump \in Nat \ {0}
    /\ MaxAttempts \in Nat \ {0}
    /\ {MaxSeq, MaxFaults, MaxGiveUps, MaxHints} \subseteq Nat

Origin == "origin"

ASSUME OriginAssumption == Origin \notin Peers

Routers == Peers \cup {Origin}

VARIABLES
    up,                \* whether the origin runs
    seq,               \* SequencingManager::m_adjLsaSeq of the origin
    file,              \* the number in nlsrSeqNo.txt, 0 in an emptied file
    published,         \* m_publishedAdjLsaSeq
    deferred,          \* m_scheduledAdjLsaSyncPublish: version that armed it, 0 if none
    trigger,           \* m_pendingAdjSyncTrigger
    db,                \* m_lsdb of every router: its copy of the origin's LSA
    highest,           \* m_highestSeqNo of every router, 0 if it has none
    fetches,           \* fetches under way or waiting to be retried
    sync,              \* external: highest number known to every router's sync
    packets,           \* external: LSA Data the origin has sent
    faults,            \* crashes and restarts so far
    env                \* give-ups and availability Interests so far

origin == <<up, seq, file, published, deferred, trigger>>
budget == <<faults, env>>
vars == <<origin, db, highest, fetches, sync, packets, budget>>

NoLsa == [seq |-> 0, content |-> "none"]

Lsas == [seq : Nat \ {0}, content : Contents]

(* via: expressInterest, or fetchLsaFromFace, which counts its attempts.   *)
Fetches == [seq : Nat \ {0}, via : {"sync", "face"}, attempt : Nat, waiting : BOOLEAN]

Larger(a, b) == IF a < b THEN b ELSE a

(***************************************************************************)
(* The LSDB of one router.                                                 *)
(***************************************************************************)
IsLsaNew(r, s) == db[r] = NoLsa \/ db[r].seq < s

(* A known LSA is replaced only by a higher number.                        *)
InstallLsa(r, lsa) == [db EXCEPT ![r] = IF IsLsaNew(r, lsa.seq) THEN lsa ELSE db[r]]

(* publishUpdate of the sync library never goes back to a lower number.    *)
PublishUpdate(r, s) == [sync EXCEPT ![r] = Larger(sync[r], s)]

PublishRoutingUpdate(s) == PublishUpdate(Origin, s)

(* increaseAdjLsaSeq or setLsaSeq, then writeSeqNoToFile.                  *)
RecordInMemory(s) == seq' = s /\ file' = file
RecordInFile(s) == seq' = seq /\ file' = s
RecordSeq(s) == seq' = s /\ file' = s

(***************************************************************************)
(* The origin.                                                             *)
(***************************************************************************)
CancelTimerOnly == deferred' = 0 /\ UNCHANGED trigger
CancelDeferral == deferred' = 0 /\ trigger' = FALSE

(* The timer counts from the first unpublished version.                    *)
Defer(s) == deferred' = IF deferred = 0 THEN s ELSE deferred

FinishWithoutPublication(s) == CancelDeferral /\ UNCHANGED <<published, sync>>
FinishOwnAdjSyncPublication(s) ==
    /\ CancelDeferral
    /\ published' = Larger(published, s)
    /\ sync' = IF s > published THEN PublishRoutingUpdate(s) ELSE sync

(* buildAndInstallOwnAdjLsa.  Under the corridor the LSA is installed at   *)
(* once and its publication deferred; otherwise it is published, then      *)
(* installed.                                                              *)
BuildAndInstallOwnAdjLsa(content, expressSyncAfterPublish) ==
    LET s == seq + 1 IN
    /\ up
    /\ seq < MaxSeq
    /\ RecordSeq(s)
    /\ db' = InstallLsa(Origin, [seq |-> s, content |-> content])
    /\ IF Corridor
       THEN /\ trigger' = (trigger \/ expressSyncAfterPublish)
            /\ Defer(s)
            /\ UNCHANGED <<published, sync>>
       ELSE /\ published' = s
            /\ sync' = PublishRoutingUpdate(s)
            /\ UNCHANGED <<trigger, deferred>>
    /\ UNCHANGED <<up, highest, fetches, packets, budget>>

OnDelayedOwnAdjSyncPublication ==
    /\ up
    /\ deferred # 0
    /\ IF db[Origin] = NoLsa
       THEN CancelDeferral /\ UNCHANGED <<published, sync>>
       ELSE FinishOwnAdjSyncPublication(db[Origin].seq)
    /\ UNCHANGED <<up, seq, file, db, highest, fetches, packets, budget>>

(* removeLsa of the own LSA, from buildAdjLsa without active neighbours.   *)
RemoveOwnLsa ==
    /\ up
    /\ db[Origin] # NoLsa
    /\ db' = [db EXCEPT ![Origin] = NoLsa]
    /\ CancelDeferral
    /\ UNCHANGED <<up, seq, file, published, highest, fetches, sync, packets, budget>>

(* expireOrRefreshLsa finds the own LSA in the LSDB.                       *)
OwnLsaForgotten == TRUE
OwnLsaExists == db[Origin] # NoLsa

(* expireOrRefreshLsa for the own LSA.                                     *)
RefreshOwnLsa ==
    LET s == db[Origin].seq + 1 IN
    /\ up
    /\ OwnLsaExists
    /\ s <= MaxSeq
    /\ db' = [db EXCEPT ![Origin].seq = s]
    /\ RecordSeq(s)
    /\ IF Corridor
       THEN FinishOwnAdjSyncPublication(s)
       ELSE /\ published' = s
            /\ sync' = PublishRoutingUpdate(s)
            /\ UNCHANGED <<deferred, trigger>>
    /\ UNCHANGED <<up, highest, fetches, packets, budget>>

(* The lifetime of a copy, router-dead-interval, is longer than            *)
(* lsa-refresh-time: a copy expires only once the origin has refreshed,    *)
(* removed or lost its LSA.                                                *)
OutlivedIfUp(p) == up /\ db[Origin].seq # db[p].seq
Outlived(p) == up => db[Origin].seq # db[p].seq

(* expireOrRefreshLsa for another router's LSA.                            *)
ExpireLsa(p) ==
    /\ db[p] # NoLsa
    /\ Outlived(p)
    /\ db' = [db EXCEPT ![p] = NoLsa]
    /\ UNCHANGED <<origin, highest, fetches, sync, packets, budget>>

(***************************************************************************)
(* Crashes.  writeSeqNoToFile truncates the file and then writes it: a     *)
(* crash can leave the old number, no number or the new one.               *)
(***************************************************************************)
LoseState(r) ==
    /\ faults < MaxFaults
    /\ faults' = faults + 1
    /\ db' = [db EXCEPT ![r] = NoLsa]
    /\ highest' = [highest EXCEPT ![r] = 0]
    /\ fetches' = [fetches EXCEPT ![r] = {}]
    /\ sync' = [sync EXCEPT ![r] = 0]
    /\ UNCHANGED <<packets, env>>

WriteSeqNoToFile == {file, seq + 1} \cup (IF TornWrites THEN {0} ELSE {})

Crash ==
    /\ up
    /\ up' = FALSE
    /\ file' \in {n \in WriteSeqNoToFile : n <= MaxSeq}
    /\ LoseState(Origin)
    /\ UNCHANGED <<seq, published, deferred, trigger>>

(* In dry-run the second half of the function takes the number that the    *)
(* first half has just increased for a leftover of link-state routing.     *)
InitiateSeqNoFromFile == IF DryRun THEN 0 ELSE file + RestartJump

(* The constructors of SequencingManager and of Lsdb, which writes the     *)
(* file when it builds its Name LSA.                                       *)
Restart ==
    /\ ~up
    /\ InitiateSeqNoFromFile <= MaxSeq
    /\ up' = TRUE
    /\ seq' = InitiateSeqNoFromFile
    /\ file' = InitiateSeqNoFromFile
    /\ published' = 0
    /\ CancelDeferral
    /\ UNCHANGED <<db, highest, fetches, sync, packets, budget>>

RestartPeer(p) == LoseState(p) /\ UNCHANGED origin

(***************************************************************************)
(* Sync and fetching.                                                      *)
(***************************************************************************)
Running(r) == r # Origin \/ up

NewFetch(s, via, attempt) == [seq |-> s, via |-> via, attempt |-> attempt, waiting |-> FALSE]

(* The checks of m_highestSeqNo in expressInterest and afterFetchLsa.      *)
RaiseHighest(r, s) == highest' = [highest EXCEPT ![r] = Larger(@, s)]

NeverOutdated(r, s) == FALSE
Outdated(r, s) == s < highest[r]

(* expressInterest: an old number is not asked for any more.               *)
ExpressInterest(r, s, rest) ==
    /\ RaiseHighest(r, s)
    /\ fetches' = [fetches EXCEPT ![r] =
                      IF Outdated(r, s) THEN rest ELSE rest \cup {NewFetch(s, "sync", 0)}]

(* The sync library reports a higher number in any other router's state.   *)
OnSyncUpdate(r, q) ==
    /\ Running(r) /\ Running(q)
    /\ sync[r] < sync[q]
    /\ sync' = [sync EXCEPT ![r] = sync[q]]

(* A router never fetches its own LSA because of sync.                     *)
ProcessUpdate(r, q) ==
    /\ OnSyncUpdate(r, q)
    /\ IF r # Origin /\ IsLsaNew(r, sync[q])
       THEN ExpressInterest(r, sync[q], fetches[r])
       ELSE UNCHANGED <<highest, fetches>>
    /\ UNCHANGED <<origin, db, packets, budget>>

(* fetchLsaFromFace, called again after each failure.                      *)
FetchLsaFromFace(r, s, attempt, rest) ==
    fetches' = [fetches EXCEPT ![r] =
                   IF attempt < MaxAttempts THEN rest \cup {NewFetch(s, "face", attempt)} ELSE rest]

(* Corridor: a router q that has the LSA advertises its number on a face.  *)
ProcessAvailabilityInterest(r, q) ==
    /\ Corridor
    /\ Running(r) /\ Running(q)
    /\ r = Origin => OwnHints
    /\ db[q] # NoLsa
    /\ env.hints < MaxHints
    /\ env' = [env EXCEPT !.hints = @ + 1]
    /\ IsLsaNew(r, db[q].seq)
    /\ FetchLsaFromFace(r, db[q].seq, 0, fetches[r])
    /\ UNCHANGED <<origin, db, highest, sync, packets, faults>>

(* processInterestForLsa: the origin answers for the number it has, and    *)
(* only for that one.                                                      *)
OriginAnswers(s) == {lsa \in {db[Origin]} : up /\ lsa.seq = s}

CacheAnswers(s) == {lsa \in packets : lsa.seq = s}

(* The fetch completes and afterFetchLsa installs what it brought, unless  *)
(* a higher number has been asked for since.                               *)
AfterFetchLsa(r, f, lsa) ==
    /\ Running(r)
    /\ ~f.waiting
    /\ RaiseHighest(r, f.seq)
    /\ db' = IF ~Outdated(r, f.seq) /\ IsLsaNew(r, f.seq) THEN InstallLsa(r, lsa) ELSE db
    /\ fetches' = [fetches EXCEPT ![r] = @ \ {f}]
    /\ UNCHANGED <<origin, sync, budget>>

FetchFromOrigin(r, f) ==
    /\ r # Origin
    /\ \E lsa \in OriginAnswers(f.seq) :
          AfterFetchLsa(r, f, lsa) /\ packets' = packets \cup {lsa}

FetchFromCache(r, f) ==
    \E lsa \in CacheAnswers(f.seq) : AfterFetchLsa(r, f, lsa) /\ UNCHANGED packets

(* onFetchLsaError retries while the number is the highest asked for; a    *)
(* corridor fetch is retried up to its number of attempts.                 *)
Retries(r, f) == f.via = "face" \/ highest[r] = f.seq

OnFetchLsaError(r, f) ==
    /\ Running(r)
    /\ ~f.waiting
    /\ fetches' = [fetches EXCEPT ![r] =
                      (@ \ {f}) \cup {g \in {[f EXCEPT !.waiting = TRUE]} : Retries(r, f)}]
    /\ UNCHANGED <<origin, db, highest, sync, packets, budget>>

(* onFetchLsaError after the deadline of the whole retrieval.              *)
GiveUpFetch(r, f) ==
    /\ Running(r)
    /\ ~f.waiting
    /\ f.via = "sync"
    /\ env.giveUps < MaxGiveUps
    /\ env' = [env EXCEPT !.giveUps = @ + 1]
    /\ fetches' = [fetches EXCEPT ![r] = @ \ {f}]
    /\ UNCHANGED <<origin, db, highest, sync, packets, faults>>

(* The scheduled retry.                                                    *)
RetryFetch(r, f) ==
    LET rest == fetches[r] \ {f} IN
    /\ Running(r)
    /\ f.waiting
    /\ IF f.via = "sync"
       THEN ExpressInterest(r, f.seq, rest)
       ELSE FetchLsaFromFace(r, f.seq, f.attempt + 1, rest) /\ UNCHANGED highest
    /\ UNCHANGED <<origin, db, sync, packets, budget>>

Init ==
    /\ up = TRUE
    /\ seq = 0
    /\ file = 0
    /\ published = 0
    /\ deferred = 0
    /\ trigger = FALSE
    /\ db = [r \in Routers |-> NoLsa]
    /\ highest = [r \in Routers |-> 0]
    /\ fetches = [r \in Routers |-> {}]
    /\ sync = [r \in Routers |-> 0]
    /\ packets = {}
    /\ faults = 0
    /\ env = [giveUps |-> 0, hints |-> 0]

OriginStep ==
    \/ \E c \in Contents, e \in BOOLEAN : BuildAndInstallOwnAdjLsa(c, e)
    \/ OnDelayedOwnAdjSyncPublication
    \/ RemoveOwnLsa
    \/ RefreshOwnLsa
    \/ Crash
    \/ Restart

FetchStep(r) ==
    \E f \in fetches[r] :
        \/ FetchFromOrigin(r, f)
        \/ FetchFromCache(r, f)
        \/ OnFetchLsaError(r, f)
        \/ GiveUpFetch(r, f)
        \/ RetryFetch(r, f)

Next ==
    \/ OriginStep
    \/ \E p \in Peers : ExpireLsa(p) \/ RestartPeer(p)
    \/ \E r, q \in Routers : ProcessUpdate(r, q) \/ ProcessAvailabilityInterest(r, q)
    \/ \E r \in Routers : FetchStep(r)

Spec == Init /\ [][Next]_vars

(* Fairness: timers fire, sync spreads a number, and a fetch that is       *)
(* retried again and again is answered once by a router that has the LSA.  *)
FetchCurrent(p) ==
    \E f \in fetches[p] : f.seq = db[Origin].seq /\ FetchFromOrigin(p, f)

Fairness ==
    /\ WF_vars(OnDelayedOwnAdjSyncPublication)
    /\ \A p \in Peers :
          /\ WF_vars(ExpireLsa(p))
          /\ WF_vars(ProcessUpdate(p, Origin))
          /\ SF_vars(FetchCurrent(p))
          /\ WF_vars(\E f \in fetches[p] : RetryFetch(p, f))
          /\ WF_vars(\E f \in fetches[p] : OnFetchLsaError(p, f))

FairSpec == Spec /\ Fairness

----------------------------------------------------------------------------
(* Type invariant of the origin's and the routers' LSDB state.             *)
TypeOK ==
    /\ up \in BOOLEAN
    /\ trigger \in BOOLEAN
    /\ seq \in Nat /\ file \in Nat
    /\ published \in Nat /\ deferred \in Nat
    /\ faults \in Nat
    /\ db \in [Routers -> Lsas \cup {NoLsa}]
    /\ highest \in [Routers -> Nat]
    /\ sync \in [Routers -> Nat]
    /\ fetches \in [Routers -> SUBSET Fetches]
    /\ packets \subseteq Lsas
    /\ env \in [giveUps : Nat, hints : Nat]

(* A number stands for one content everywhere: in the caches, at the       *)
(* origin and at every router, across crashes of the origin (the file and  *)
(* the jump at start, sequencing-manager.cpp).                             *)
Copies == packets \cup {db[r] : r \in Routers}

OneContentPerSeq ==
    \A a, b \in Copies : a.seq = b.seq => a = b

(* No router has heard of a number the origin has not reached yet, and a   *)
(* restarted origin resumes above every number in use, so that its next    *)
(* LSA is new to everyone (isLsaNew, m_highestSeqNo).                      *)
Reached == IF up THEN seq ELSE file + RestartJump

NumbersStayAhead ==
    /\ \A r \in Routers : sync[r] <= Reached /\ highest[r] <= Reached
    /\ \A a \in Copies : a.seq <= Reached

(* A router never falls back to an older LSA, not even after its copy has  *)
(* expired: what it installs is the highest number it has asked for        *)
(* (m_highestSeqNo outlives the LSA).                                      *)
NeverOlder ==
    [][\A p \in Peers :
         db'[p] \notin {db[p], NoLsa} => db'[p].seq >= highest[p] /\ db'[p].seq = highest'[p]]_vars

(* Deferral of the publication under the corridor: an own LSA that sync    *)
(* does not know yet has its publication scheduled, and a requested sync   *)
(* trigger is not forgotten.                                               *)
UnpublishedIsDeferred ==
    /\ db[Origin].seq > published => deferred # 0
    /\ trigger => deferred # 0

(* Every router ends up with the origin's LSA whenever that one stays.     *)
Converged(p) == up /\ db[Origin] # NoLsa => db[p] = db[Origin]

Convergence == \A p \in Peers : []<>Converged(p)

(* An LSA the origin has removed or lost for good disappears everywhere,   *)
(* even though caches can still serve it.                                  *)
Forgotten ==
    \A p \in Peers : <>[](db[Origin] = NoLsa) => <>[](db[p] = NoLsa)
=============================================================================
