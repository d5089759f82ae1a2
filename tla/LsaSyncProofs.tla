---------------------------- MODULE LsaSyncProofs ----------------------------
(***************************************************************************)
(* Proofs about LsaSync, for any set of peers, any contents and any        *)
(* bounds.  The sequence numbers need the inductive invariant IInv: beside *)
(* the properties themselves, the file holds the number in memory while    *)
(* the origin runs, an installed own LSA carries that number, the origin   *)
(* fetches nothing for itself, and no fetch is for a number out of reach.  *)
(***************************************************************************)
EXTENDS LsaSync, TLAPS

(* The settings under which numbers are not reused: link-state routing, a  *)
(* file that a crash does not leave empty, and no availability Interest    *)
(* that makes the origin fetch its own LSA.                                *)
Safe == ~DryRun /\ ~TornWrites /\ ~OwnHints

OriginInv ==
    /\ fetches[Origin] = {}
    /\ ~up => db[Origin] = NoLsa
    /\ up => file = seq
    /\ db[Origin] # NoLsa => db[Origin].seq = seq

FetchesInReach ==
    \A r \in Routers : \A f \in fetches[r] : f.seq <= Reached

IInv ==
    /\ TypeOK
    /\ OriginInv
    /\ NumbersStayAhead
    /\ FetchesInReach
    /\ OneContentPerSeq
    /\ UnpublishedIsDeferred

LEMMA ConstantTypes ==
    /\ Corridor \in BOOLEAN /\ DryRun \in BOOLEAN
    /\ RestartJump \in Nat \ {0}
    /\ MaxAttempts \in Nat
    /\ MaxSeq \in Nat /\ MaxFaults \in Nat /\ MaxGiveUps \in Nat /\ MaxHints \in Nat
    /\ Origin \in Routers /\ Peers \subseteq Routers /\ Origin \notin Peers
BY ConstantsAssumption, OriginAssumption DEF Routers

LEMMA JumpType ==
    /\ RestartJump \in Nat /\ RestartJump > 0
    /\ \A n \in Nat : n + RestartJump \in Nat
BY ConstantsAssumption

LEMMA NoLsaFacts == NoLsa.seq = 0 /\ NoLsa \notin Lsas
BY DEF NoLsa, Lsas

LEMMA LargerFacts ==
    ASSUME NEW a \in Nat, NEW b \in Nat
    PROVE  /\ Larger(a, b) \in Nat
           /\ a <= Larger(a, b) /\ b <= Larger(a, b)
           /\ Larger(a, b) \in {a, b}
BY DEF Larger

LEMMA InstallType ==
    ASSUME TypeOK, NEW r \in Routers, NEW lsa \in Lsas
    PROVE  InstallLsa(r, lsa) \in [Routers -> Lsas \cup {NoLsa}]
BY DEF TypeOK, InstallLsa

LEMMA PublishType ==
    ASSUME TypeOK, NEW s \in Nat
    PROVE  PublishRoutingUpdate(s) \in [Routers -> Nat]
BY ConstantTypes, LargerFacts DEF TypeOK, PublishRoutingUpdate, PublishUpdate

LEMMA FinishType ==
    ASSUME TypeOK, NEW s \in Nat, FinishOwnAdjSyncPublication(s)
    PROVE  /\ deferred' \in Nat /\ trigger' \in BOOLEAN
           /\ published' \in Nat /\ sync' \in [Routers -> Nat]
BY PublishType, LargerFacts DEF TypeOK, FinishOwnAdjSyncPublication, CancelDeferral

LEMMA BuildType ==
    ASSUME TypeOK, NEW c \in Contents, NEW e \in BOOLEAN, BuildAndInstallOwnAdjLsa(c, e)
    PROVE  TypeOK'
<1>1. [seq |-> seq + 1, content |-> c] \in Lsas
  BY DEF TypeOK, Lsas
<1>2. db' \in [Routers -> Lsas \cup {NoLsa}]
  BY <1>1, InstallType, ConstantTypes DEF BuildAndInstallOwnAdjLsa
<1>3. PublishRoutingUpdate(seq + 1) \in [Routers -> Nat]
  BY PublishType DEF TypeOK
<1>4. published' \in Nat /\ deferred' \in Nat /\ trigger' \in BOOLEAN /\ sync' \in [Routers -> Nat]
  BY <1>3 DEF TypeOK, BuildAndInstallOwnAdjLsa, Defer
<1> QED
  BY <1>2, <1>4 DEF TypeOK, BuildAndInstallOwnAdjLsa, RecordSeq, budget

LEMMA DelayedType ==
    ASSUME TypeOK, OnDelayedOwnAdjSyncPublication
    PROVE  TypeOK'
<1>1. db[Origin].seq \in Nat
  BY ConstantTypes, NoLsaFacts DEF TypeOK, Lsas
<1>2. published' \in Nat /\ deferred' \in Nat /\ trigger' \in BOOLEAN /\ sync' \in [Routers -> Nat]
  <2>1. CASE db[Origin] = NoLsa
    <3>1. CancelDeferral /\ UNCHANGED <<published, sync>>
      BY <2>1 DEF OnDelayedOwnAdjSyncPublication
    <3> QED
      BY <3>1 DEF TypeOK, CancelDeferral
  <2>2. CASE db[Origin] # NoLsa
    BY <1>1, <2>2, FinishType DEF OnDelayedOwnAdjSyncPublication
  <2> QED
    BY <2>1, <2>2
<1> QED
  BY <1>2 DEF TypeOK, OnDelayedOwnAdjSyncPublication, budget

LEMMA RefreshType ==
    ASSUME TypeOK, RefreshOwnLsa
    PROVE  TypeOK'
<1>1. db[Origin] \in Lsas
  BY ConstantTypes DEF TypeOK, RefreshOwnLsa, OwnLsaExists
<1>2. db[Origin].seq + 1 \in Nat \ {0} /\ [db[Origin] EXCEPT !.seq = db[Origin].seq + 1] \in Lsas
  BY <1>1 DEF Lsas
<1>3. db' \in [Routers -> Lsas \cup {NoLsa}]
  BY <1>2 DEF TypeOK, RefreshOwnLsa
<1>4. PublishRoutingUpdate(db[Origin].seq + 1) \in [Routers -> Nat]
  BY <1>2, PublishType
<1>5. published' \in Nat /\ deferred' \in Nat /\ trigger' \in BOOLEAN /\ sync' \in [Routers -> Nat]
  BY <1>2, <1>4, FinishType DEF TypeOK, RefreshOwnLsa
<1> QED
  BY <1>2, <1>3, <1>5 DEF TypeOK, RefreshOwnLsa, RecordSeq, budget

LEMMA LoseStateType ==
    ASSUME TypeOK, NEW r \in Routers, LoseState(r)
    PROVE  /\ db' \in [Routers -> Lsas \cup {NoLsa}]
           /\ highest' \in [Routers -> Nat] /\ sync' \in [Routers -> Nat]
           /\ fetches' \in [Routers -> SUBSET Fetches]
           /\ packets' \subseteq Lsas
           /\ faults' \in Nat /\ env' \in [giveUps : Nat, hints : Nat]
<1>1. db' \in [Routers -> Lsas \cup {NoLsa}]
  BY DEF TypeOK, LoseState
<1>2. highest' \in [Routers -> Nat] /\ sync' \in [Routers -> Nat]
  BY DEF TypeOK, LoseState
<1>3. fetches' \in [Routers -> SUBSET Fetches]
  BY DEF TypeOK, LoseState
<1> QED
  BY <1>1, <1>2, <1>3 DEF TypeOK, LoseState

LEMMA OriginStepType ==
    ASSUME TypeOK, OriginStep
    PROVE  TypeOK'
<1>1. CASE RemoveOwnLsa
  BY <1>1 DEF TypeOK, RemoveOwnLsa, CancelDeferral, budget
<1>2. CASE Crash
  <2>1. file' \in Nat
    BY <1>2 DEF TypeOK, Crash, WriteSeqNoToFile
  <2> QED
    BY <1>2, <2>1, ConstantTypes, LoseStateType DEF TypeOK, Crash
<1>3. CASE Restart
  <2>1. InitiateSeqNoFromFile \in Nat
    BY ConstantTypes DEF TypeOK, InitiateSeqNoFromFile
  <2> QED
    BY <1>3, <2>1 DEF TypeOK, Restart, CancelDeferral, budget
<1> QED
  BY <1>1, <1>2, <1>3, BuildType, DelayedType, RefreshType DEF OriginStep

LEMMA ExpressType ==
    ASSUME TypeOK, NEW r \in Routers, NEW s \in Nat \ {0}, NEW rest \in SUBSET Fetches,
           ExpressInterest(r, s, rest)
    PROVE  highest' \in [Routers -> Nat] /\ fetches' \in [Routers -> SUBSET Fetches]
<1>1. NewFetch(s, "sync", 0) \in Fetches
  BY DEF NewFetch, Fetches
<1>2. Larger(highest[r], s) \in Nat
  BY LargerFacts DEF TypeOK
<1> QED
  BY <1>1, <1>2 DEF TypeOK, ExpressInterest, RaiseHighest

LEMMA FromFaceType ==
    ASSUME TypeOK, NEW r \in Routers, NEW s \in Nat \ {0}, NEW a \in Nat,
           NEW rest \in SUBSET Fetches, FetchLsaFromFace(r, s, a, rest)
    PROVE  fetches' \in [Routers -> SUBSET Fetches]
<1>1. NewFetch(s, "face", a) \in Fetches
  BY DEF NewFetch, Fetches
<1> QED
  BY <1>1 DEF TypeOK, FetchLsaFromFace

LEMMA UpdateType ==
    ASSUME TypeOK, NEW r \in Routers, NEW q \in Routers, ProcessUpdate(r, q)
    PROVE  TypeOK'
<1>1. sync[q] \in Nat \ {0} /\ fetches[r] \in SUBSET Fetches
  BY DEF TypeOK, ProcessUpdate, OnSyncUpdate
<1>2. highest' \in [Routers -> Nat] /\ fetches' \in [Routers -> SUBSET Fetches]
  BY <1>1, ExpressType DEF TypeOK, ProcessUpdate, OnSyncUpdate
<1> QED
  BY <1>1, <1>2 DEF TypeOK, ProcessUpdate, OnSyncUpdate, origin, budget

LEMMA AvailabilityType ==
    ASSUME TypeOK, NEW r \in Routers, NEW q \in Routers, ProcessAvailabilityInterest(r, q)
    PROVE  TypeOK'
<1>1. db[q].seq \in Nat \ {0} /\ fetches[r] \in SUBSET Fetches
  BY DEF TypeOK, ProcessAvailabilityInterest, Lsas
<1>2. fetches' \in [Routers -> SUBSET Fetches]
  BY <1>1, FromFaceType DEF ProcessAvailabilityInterest
<1>3. env' \in [giveUps : Nat, hints : Nat]
  BY DEF TypeOK, ProcessAvailabilityInterest
<1> QED
  BY <1>2, <1>3 DEF TypeOK, ProcessAvailabilityInterest, origin

LEMMA AfterFetchType ==
    ASSUME TypeOK, NEW r \in Routers, NEW f \in fetches[r], NEW lsa \in Lsas,
           AfterFetchLsa(r, f, lsa), packets' \subseteq Lsas
    PROVE  TypeOK'
<1>0. f \in Fetches /\ f.seq \in Nat /\ highest[r] \in Nat
  BY DEF TypeOK, Fetches
<1>1. f \in Fetches /\ Larger(highest[r], f.seq) \in Nat
  BY <1>0, LargerFacts
<1>2. db' \in [Routers -> Lsas \cup {NoLsa}]
  BY InstallType DEF TypeOK, AfterFetchLsa
<1> QED
  BY <1>1, <1>2 DEF TypeOK, AfterFetchLsa, RaiseHighest, origin, budget

LEMMA FetchStepType ==
    ASSUME TypeOK, NEW r \in Routers, FetchStep(r)
    PROVE  TypeOK'
<1> PICK f \in fetches[r] :
        \/ FetchFromOrigin(r, f) \/ FetchFromCache(r, f) \/ OnFetchLsaError(r, f)
        \/ GiveUpFetch(r, f) \/ RetryFetch(r, f)
  BY DEF FetchStep
<1>1. f \in Fetches /\ fetches[r] \in SUBSET Fetches /\ f.seq \in Nat \ {0} /\ f.attempt \in Nat
  BY DEF TypeOK, Fetches
<1>2. CASE FetchFromOrigin(r, f)
  <2>1. PICK lsa \in OriginAnswers(f.seq) :
            AfterFetchLsa(r, f, lsa) /\ packets' = packets \cup {lsa}
    BY <1>2 DEF FetchFromOrigin
  <2>2. lsa \in Lsas
    BY <2>1, <1>1, ConstantTypes, NoLsaFacts DEF OriginAnswers, TypeOK
  <2> QED
    BY <2>1, <2>2, AfterFetchType DEF TypeOK
<1>3. CASE FetchFromCache(r, f)
  BY <1>3, AfterFetchType DEF FetchFromCache, CacheAnswers, TypeOK
<1>4. CASE OnFetchLsaError(r, f)
  <2>1. [f EXCEPT !.waiting = TRUE] \in Fetches
    BY <1>1 DEF Fetches
  <2> QED
    BY <1>1, <1>4, <2>1 DEF TypeOK, OnFetchLsaError, origin, budget
<1>5. CASE GiveUpFetch(r, f)
  BY <1>1, <1>5 DEF TypeOK, GiveUpFetch, origin
<1>6. CASE RetryFetch(r, f)
  <2>1. highest' \in [Routers -> Nat] /\ fetches' \in [Routers -> SUBSET Fetches]
    BY <1>1, <1>6, ExpressType, FromFaceType DEF RetryFetch, TypeOK
  <2> QED
    BY <2>1, <1>6 DEF TypeOK, RetryFetch, origin, budget
<1> QED
  BY <1>2, <1>3, <1>4, <1>5, <1>6

LEMMA TypeStep == TypeOK /\ [Next]_vars => TypeOK'
<1> SUFFICES ASSUME TypeOK, [Next]_vars PROVE TypeOK'
  OBVIOUS
<1>1. CASE UNCHANGED vars
  BY <1>1 DEF TypeOK, vars, origin, budget
<1>2. ASSUME NEW p \in Peers, ExpireLsa(p) PROVE TypeOK'
  BY <1>2 DEF TypeOK, ExpireLsa, origin, budget
<1>3. ASSUME NEW p \in Peers, RestartPeer(p) PROVE TypeOK'
  BY <1>3, ConstantTypes, LoseStateType DEF TypeOK, RestartPeer, origin
<1> QED
  BY <1>1, <1>2, <1>3, OriginStepType, UpdateType, AvailabilityType, FetchStepType DEF Next

LEMMA InitType == Init => TypeOK
<1> SUFFICES ASSUME Init PROVE TypeOK
  OBVIOUS
<1>1. fetches \in [Routers -> SUBSET Fetches]
  BY DEF Init
<1>2. db \in [Routers -> Lsas \cup {NoLsa}]
  BY DEF Init
<1>3. packets \subseteq Lsas /\ env \in [giveUps : Nat, hints : Nat]
  BY DEF Init
<1>4. highest \in [Routers -> Nat] /\ sync \in [Routers -> Nat]
  BY DEF Init
<1> QED
  BY <1>1, <1>2, <1>3, <1>4 DEF Init, TypeOK

(* Type correctness of the LSDBs, the fetches and the origin's counters.   *)
THEOREM TypeCorrectness == Spec => []TypeOK
BY InitType, TypeStep, PTL DEF Spec

-----------------------------------------------------------------------------
(* What a router installs is what it has just asked for.                   *)
LEMMA AfterFetchNeverOlder ==
    ASSUME TypeOK, NEW r \in Routers, NEW f \in fetches[r], NEW lsa \in Lsas,
           lsa.seq = f.seq, AfterFetchLsa(r, f, lsa), NEW p \in Routers,
           db'[p] \notin {db[p], NoLsa}
    PROVE  db'[p].seq >= highest[p] /\ db'[p].seq = highest'[p]
<1>1. f.seq \in Nat /\ highest[r] \in Nat
  BY DEF TypeOK, Fetches
<1>2. r = p /\ ~Outdated(r, f.seq) /\ db'[r] = lsa
  BY DEF TypeOK, AfterFetchLsa, InstallLsa
<1>3. highest'[r] = Larger(highest[r], f.seq)
  BY DEF TypeOK, AfterFetchLsa, RaiseHighest
<1>4. Larger(highest[r], f.seq) = f.seq /\ f.seq >= highest[r]
  BY <1>1, <1>2 DEF Outdated, Larger
<1> QED
  BY <1>2, <1>3, <1>4

LEMMA OriginKeepsPeers ==
    ASSUME TypeOK, OriginStep, NEW p \in Peers
    PROVE  db'[p] \in {db[p], NoLsa}
<1> USE ConstantTypes DEF TypeOK
<1>1. ASSUME NEW c \in Contents, NEW e \in BOOLEAN, BuildAndInstallOwnAdjLsa(c, e)
      PROVE  db'[p] = db[p]
  BY <1>1 DEF BuildAndInstallOwnAdjLsa, InstallLsa
<1>2. CASE RefreshOwnLsa
  BY <1>2 DEF RefreshOwnLsa
<1>3. CASE RemoveOwnLsa
  BY <1>3 DEF RemoveOwnLsa
<1>4. CASE Crash
  BY <1>4 DEF Crash, LoseState
<1> QED
  BY <1>1, <1>2, <1>3, <1>4 DEF OriginStep, OnDelayedOwnAdjSyncPublication, Restart

LEMMA FetchNeverOlder ==
    ASSUME TypeOK, NEW r \in Routers, FetchStep(r), NEW p \in Routers,
           db'[p] \notin {db[p], NoLsa}
    PROVE  db'[p].seq >= highest[p] /\ db'[p].seq = highest'[p]
<1> PICK f \in fetches[r] :
        \/ FetchFromOrigin(r, f) \/ FetchFromCache(r, f) \/ OnFetchLsaError(r, f)
        \/ GiveUpFetch(r, f) \/ RetryFetch(r, f)
  BY DEF FetchStep
<1>1. FetchFromOrigin(r, f) \/ FetchFromCache(r, f)
  BY DEF OnFetchLsaError, GiveUpFetch, RetryFetch
<1>2. f.seq \in Nat \ {0}
  BY DEF TypeOK, Fetches
<1>3. PICK lsa \in Lsas : lsa.seq = f.seq /\ AfterFetchLsa(r, f, lsa)
  <2>1. OriginAnswers(f.seq) \subseteq Lsas
    BY <1>2, ConstantTypes, NoLsaFacts DEF OriginAnswers, TypeOK
  <2> QED
    BY <1>1, <2>1 DEF FetchFromOrigin, FetchFromCache, OriginAnswers, CacheAnswers, TypeOK
<1> QED
  BY <1>3, AfterFetchNeverOlder

LEMMA NeverOlderStep ==
    ASSUME TypeOK, [Next]_vars
    PROVE  \A p \in Peers :
             db'[p] \notin {db[p], NoLsa} => db'[p].seq >= highest[p] /\ db'[p].seq = highest'[p]
<1> SUFFICES ASSUME NEW p \in Peers, db'[p] \notin {db[p], NoLsa}
             PROVE  db'[p].seq >= highest[p] /\ db'[p].seq = highest'[p]
  OBVIOUS
<1>1. ASSUME NEW q \in Peers, ExpireLsa(q) \/ RestartPeer(q) PROVE FALSE
  BY <1>1, ConstantTypes DEF ExpireLsa, RestartPeer, LoseState, TypeOK
<1>2. ASSUME NEW r \in Routers, NEW q \in Routers,
             ProcessUpdate(r, q) \/ ProcessAvailabilityInterest(r, q)
      PROVE  FALSE
  BY <1>2 DEF ProcessUpdate, OnSyncUpdate, ProcessAvailabilityInterest
<1>3. ~UNCHANGED vars
  BY DEF vars
<1>4. PICK r \in Routers : FetchStep(r)
  BY <1>1, <1>2, <1>3, OriginKeepsPeers DEF Next
<1> QED
  BY <1>4, FetchNeverOlder, ConstantTypes

(* A router never falls back to an older LSA, whatever is lost, delayed or *)
(* replayed and whether or not its copy has expired.                       *)
THEOREM NoFallback == Spec => NeverOlder
<1>1. TypeOK /\ [Next]_vars =>
        [\A p \in Peers :
           db'[p] \notin {db[p], NoLsa} => db'[p].seq >= highest[p] /\ db'[p].seq = highest'[p]]_vars
  BY NeverOlderStep
<1> QED
  BY <1>1, TypeCorrectness, PTL DEF Spec, NeverOlder

-----------------------------------------------------------------------------
LEMMA ReachedType == TypeOK => Reached \in Nat
BY ConstantTypes DEF TypeOK, Reached

LEMMA ReachedTypeNext ==
    ASSUME TypeOK'
    PROVE  Reached' \in Nat
<1>0. seq' \in Nat /\ file' \in Nat
  BY DEF TypeOK
<1>1. file' + RestartJump \in Nat
  BY <1>0, JumpType
<1>2. Reached' = seq' \/ Reached' = file' + RestartJump
  BY DEF Reached
<1> QED
  BY <1>0, <1>1, <1>2

(* A step that brings in at most one copy, lsa, and it is new or known.    *)
LEMMA CopiesStep ==
    ASSUME TypeOK, OneContentPerSeq, NEW lsa \in Lsas \cup {NoLsa},
           \A a \in Copies : a.seq = lsa.seq => a = lsa,
           packets' \subseteq packets \cup {lsa},
           \A r \in Routers : db'[r] \in {db[r], NoLsa, lsa}
    PROVE  OneContentPerSeq' /\ Copies' \subseteq Copies \cup {NoLsa, lsa}
<1>1. Copies' \subseteq Copies \cup {NoLsa, lsa}
  BY DEF Copies
<1>2. \A a \in Copies \cup {lsa} : a \in Lsas \cup {NoLsa}
  BY DEF Copies, TypeOK
<1>3. \A a \in Copies \cup {lsa} : a.seq = NoLsa.seq => a = NoLsa
  BY <1>2, NoLsaFacts DEF Lsas
<1>4. \A a, b \in Copies \cup {NoLsa, lsa} : a.seq = b.seq => a = b
  BY <1>3 DEF OneContentPerSeq
<1> QED
  BY <1>1, <1>4 DEF OneContentPerSeq

LEMMA AheadStep ==
    ASSUME TypeOK, NumbersStayAhead, TypeOK', Reached <= Reached',
           NEW lsa \in Lsas \cup {NoLsa}, lsa.seq <= Reached',
           Copies' \subseteq Copies \cup {NoLsa, lsa},
           \A r \in Routers : sync'[r] <= Reached' /\ highest'[r] <= Reached'
    PROVE  NumbersStayAhead'
<1>1. Reached \in Nat /\ Reached' \in Nat
  BY ReachedType, ReachedTypeNext
<1>2. \A a \in Copies : a.seq \in Nat
  BY NoLsaFacts DEF Copies, TypeOK, Lsas
<1>3. \A a \in Copies' : a.seq <= Reached'
  BY <1>1, <1>2, NoLsaFacts DEF NumbersStayAhead
<1> QED
  BY <1>3 DEF NumbersStayAhead

LEMMA PublishBound ==
    ASSUME TypeOK, NumbersStayAhead, NEW s \in Nat, Reached <= s
    PROVE  \A r \in Routers : PublishRoutingUpdate(s)[r] <= s /\ sync[r] <= s
<1>1. \A r \in Routers : sync[r] <= s
  BY ReachedType DEF NumbersStayAhead, TypeOK
<1> QED
  BY <1>1, ConstantTypes DEF PublishRoutingUpdate, PublishUpdate, Larger, TypeOK

LEMMA BuildInv ==
    ASSUME IInv, NEW c \in Contents, NEW e \in BOOLEAN, BuildAndInstallOwnAdjLsa(c, e)
    PROVE  IInv'
<1> DEFINE lsa == [seq |-> seq + 1, content |-> c]
<1> USE ConstantTypes
<1>1. TypeOK /\ TypeOK' /\ lsa \in Lsas /\ lsa.seq = seq + 1
  BY BuildType DEF IInv, TypeOK, Lsas
<1>2. up /\ up' /\ Reached = seq /\ Reached' = seq + 1 /\ seq' = seq + 1 /\ file' = seq + 1
  BY DEF BuildAndInstallOwnAdjLsa, RecordSeq, Reached
<1>3. \A a \in Copies : a.seq \in Nat /\ a.seq <= seq
  BY <1>1, <1>2, NoLsaFacts DEF IInv, NumbersStayAhead, Copies, TypeOK, Lsas
<1>4. IsLsaNew(Origin, lsa.seq) /\ db' = [db EXCEPT ![Origin] = lsa]
  <2>1. db[Origin] \in Copies
    BY DEF Copies
  <2>2. db[Origin].seq < lsa.seq
    BY <1>1, <1>3, <2>1 DEF TypeOK
  <2>3. IsLsaNew(Origin, lsa.seq)
    BY <2>2 DEF IsLsaNew
  <2>4. db' = InstallLsa(Origin, lsa)
    BY DEF BuildAndInstallOwnAdjLsa
  <2> QED
    BY <2>3, <2>4 DEF InstallLsa
<1>5. OneContentPerSeq' /\ Copies' \subseteq Copies \cup {NoLsa, lsa}
  <2>1. \A r \in Routers : db'[r] \in {db[r], NoLsa, lsa}
    BY <1>1, <1>4 DEF TypeOK
  <2>2. \A a \in Copies : a.seq = lsa.seq => a = lsa
    BY <1>1, <1>3 DEF TypeOK
  <2>3. packets' \subseteq packets \cup {lsa}
    BY DEF BuildAndInstallOwnAdjLsa
  <2> QED
    BY <1>1, <2>1, <2>2, <2>3, CopiesStep DEF IInv
<1>6. \A r \in Routers : sync'[r] <= seq + 1 /\ highest'[r] <= seq + 1
  BY <1>1, <1>2, PublishBound DEF IInv, NumbersStayAhead, TypeOK, BuildAndInstallOwnAdjLsa
<1>7. NumbersStayAhead'
  BY <1>1, <1>2, <1>5, <1>6, AheadStep DEF IInv, TypeOK
<1>8. FetchesInReach'
  BY <1>1, <1>2 DEF IInv, FetchesInReach, BuildAndInstallOwnAdjLsa, TypeOK, Fetches
<1>9. OriginInv'
  BY <1>1, <1>2, <1>4 DEF IInv, OriginInv, BuildAndInstallOwnAdjLsa, TypeOK
<1>10. UnpublishedIsDeferred'
  <2>1. db'[Origin].seq = seq + 1
    BY <1>1, <1>4 DEF TypeOK
  <2>2. CASE Corridor
    BY <1>1, <2>2 DEF UnpublishedIsDeferred, BuildAndInstallOwnAdjLsa, Defer, TypeOK
  <2>3. CASE ~Corridor
    BY <1>1, <2>1, <2>3 DEF IInv, UnpublishedIsDeferred, BuildAndInstallOwnAdjLsa, TypeOK
  <2> QED
    BY <2>2, <2>3
<1> QED
  BY <1>1, <1>5, <1>7, <1>8, <1>9, <1>10 DEF IInv

LEMMA FinishInv ==
    ASSUME TypeOK, NumbersStayAhead, NEW s \in Nat, Reached <= s,
           FinishOwnAdjSyncPublication(s)
    PROVE  /\ \A r \in Routers : sync'[r] <= s
           /\ s <= published' /\ deferred' = 0 /\ trigger' = FALSE
BY PublishBound, LargerFacts DEF TypeOK, FinishOwnAdjSyncPublication, CancelDeferral

LEMMA RefreshInv ==
    ASSUME IInv, RefreshOwnLsa
    PROVE  IInv'
<1> DEFINE lsa == [db[Origin] EXCEPT !.seq = seq + 1]
<1> USE ConstantTypes
<1>1. TypeOK /\ TypeOK' /\ db[Origin] \in Lsas
  BY RefreshType DEF IInv, TypeOK, RefreshOwnLsa, OwnLsaExists
<1>2. db[Origin].seq = seq /\ lsa \in Lsas /\ lsa.seq = seq + 1
  BY <1>1 DEF IInv, OriginInv, RefreshOwnLsa, OwnLsaExists, TypeOK, Lsas
<1>3. up /\ up' /\ Reached = seq /\ Reached' = seq + 1 /\ seq' = seq + 1 /\ file' = seq + 1
  BY <1>2 DEF RefreshOwnLsa, RecordSeq, Reached
<1>4. \A a \in Copies : a.seq \in Nat /\ a.seq <= seq
  BY <1>1, <1>3, NoLsaFacts DEF IInv, NumbersStayAhead, Copies, TypeOK, Lsas
<1>5. db' = [db EXCEPT ![Origin] = lsa]
  BY <1>2 DEF RefreshOwnLsa
<1>6. OneContentPerSeq' /\ Copies' \subseteq Copies \cup {NoLsa, lsa}
  <2>1. \A r \in Routers : db'[r] \in {db[r], NoLsa, lsa}
    BY <1>1, <1>5 DEF TypeOK
  <2>2. \A a \in Copies : a.seq = lsa.seq => a = lsa
    BY <1>1, <1>2, <1>4 DEF TypeOK
  <2>3. packets' \subseteq packets \cup {lsa}
    BY DEF RefreshOwnLsa
  <2> QED
    BY <1>1, <1>2, <2>1, <2>2, <2>3, CopiesStep DEF IInv
<1>7. (\A r \in Routers : sync'[r] <= seq + 1) /\ seq + 1 <= published' /\ (trigger' => deferred' # 0)
  <2>1. seq + 1 \in Nat /\ Reached <= seq + 1
    BY <1>1, <1>3 DEF TypeOK
  <2>2. CASE Corridor
    <3>1. FinishOwnAdjSyncPublication(seq + 1)
      BY <1>2, <2>2 DEF RefreshOwnLsa
    <3> QED
      BY <1>1, <2>1, <3>1, FinishInv DEF IInv
  <2>3. CASE ~Corridor
    <3>1. published' = seq + 1 /\ sync' = PublishRoutingUpdate(seq + 1)
          /\ UNCHANGED <<deferred, trigger>>
      BY <1>2, <2>3 DEF RefreshOwnLsa
    <3> QED
      BY <1>1, <2>1, <3>1, PublishBound DEF IInv, UnpublishedIsDeferred, TypeOK
  <2> QED
    BY <2>2, <2>3
<1>8. NumbersStayAhead'
  <2>1. \A r \in Routers : highest'[r] <= seq + 1
    BY <1>1, <1>3 DEF IInv, NumbersStayAhead, TypeOK, RefreshOwnLsa
  <2>2. Reached <= Reached' /\ lsa.seq <= Reached'
    BY <1>1, <1>2, <1>3 DEF TypeOK
  <2>3. \A r \in Routers : sync'[r] <= Reached' /\ highest'[r] <= Reached'
    BY <1>3, <1>7, <2>1
  <2> HIDE DEF lsa
  <2> QED
    BY <1>1, <1>2, <1>6, <2>2, <2>3, AheadStep DEF IInv
<1>9. FetchesInReach'
  BY <1>1, <1>3 DEF IInv, FetchesInReach, RefreshOwnLsa, TypeOK, Fetches
<1>10. OriginInv'
  BY <1>1, <1>2, <1>3, <1>5 DEF IInv, OriginInv, RefreshOwnLsa, TypeOK
<1>11. UnpublishedIsDeferred'
  <2>1. db'[Origin].seq = seq + 1
    BY <1>1, <1>2, <1>5 DEF TypeOK
  <2> QED
    BY <1>1, <1>7, <2>1 DEF UnpublishedIsDeferred, TypeOK
<1> QED
  BY <1>1, <1>6, <1>8, <1>9, <1>10, <1>11 DEF IInv

(* The steps that add no copy and publish nothing new.                     *)
LEMMA QuietInv ==
    ASSUME IInv, TypeOK', Reached <= Reached',
           packets' = packets,
           \A r \in Routers : db'[r] \in {db[r], NoLsa},
           \A r \in Routers : sync'[r] <= Reached' /\ highest'[r] <= Reached'
    PROVE  NumbersStayAhead' /\ OneContentPerSeq'
<1>1. NoLsa \in Lsas \cup {NoLsa} /\ NoLsa.seq <= Reached'
  BY NoLsaFacts, ReachedTypeNext
<1>2. \A a \in Copies : a.seq = NoLsa.seq => a = NoLsa
  BY NoLsaFacts DEF IInv, TypeOK, Copies, Lsas
<1>3. OneContentPerSeq' /\ Copies' \subseteq Copies \cup {NoLsa, NoLsa}
  BY <1>1, <1>2, CopiesStep DEF IInv
<1> QED
  BY <1>1, <1>3, AheadStep DEF IInv

LEMMA DelayedInv ==
    ASSUME IInv, OnDelayedOwnAdjSyncPublication
    PROVE  IInv'
<1> USE ConstantTypes
<1>1. TypeOK /\ TypeOK' /\ db[Origin].seq \in Nat
  BY DelayedType, NoLsaFacts DEF IInv, TypeOK, Lsas
<1>2. up /\ Reached' = Reached /\ Reached = seq /\ seq \in Nat
  BY <1>1 DEF OnDelayedOwnAdjSyncPublication, Reached, TypeOK
<1>3. CASE db[Origin] = NoLsa
  <2>1. CancelDeferral /\ UNCHANGED <<published, sync>>
    BY <1>3 DEF OnDelayedOwnAdjSyncPublication
  <2>2. NumbersStayAhead' /\ OneContentPerSeq'
    BY <1>1, <1>2, <2>1, QuietInv
       DEF IInv, NumbersStayAhead, OnDelayedOwnAdjSyncPublication, TypeOK
  <2>3. OriginInv' /\ FetchesInReach'
    BY <1>2 DEF IInv, OriginInv, FetchesInReach, OnDelayedOwnAdjSyncPublication
  <2>4. UnpublishedIsDeferred'
    BY <1>1, <1>3, <2>1, NoLsaFacts
       DEF UnpublishedIsDeferred, CancelDeferral, OnDelayedOwnAdjSyncPublication, TypeOK
  <2> QED
    BY <1>1, <2>2, <2>3, <2>4 DEF IInv
<1>4. CASE db[Origin] # NoLsa
  <2>1. db[Origin].seq = seq /\ FinishOwnAdjSyncPublication(seq)
    BY <1>4 DEF IInv, OriginInv, OnDelayedOwnAdjSyncPublication
  <2>2. (\A r \in Routers : sync'[r] <= seq) /\ seq <= published' /\ trigger' = FALSE
    <3>1. NumbersStayAhead /\ Reached <= seq
      BY <1>2 DEF IInv
    <3> QED
      BY <1>1, <1>2, <2>1, <3>1, FinishInv
  <2>3. NumbersStayAhead' /\ OneContentPerSeq'
    BY <1>1, <1>2, <2>2, QuietInv
       DEF IInv, NumbersStayAhead, OnDelayedOwnAdjSyncPublication, TypeOK
  <2>4. OriginInv' /\ FetchesInReach'
    BY <1>2 DEF IInv, OriginInv, FetchesInReach, OnDelayedOwnAdjSyncPublication
  <2>5. UnpublishedIsDeferred'
    BY <1>1, <2>1, <2>2 DEF UnpublishedIsDeferred, OnDelayedOwnAdjSyncPublication, TypeOK
  <2> QED
    BY <1>1, <2>3, <2>4, <2>5 DEF IInv
<1> QED
  BY <1>3, <1>4

LEMMA RemoveInv ==
    ASSUME IInv, RemoveOwnLsa
    PROVE  IInv'
<1> USE ConstantTypes
<1>1. TypeOK /\ TypeOK' /\ Reached' = Reached /\ Reached \in Nat
  BY OriginStepType, ReachedType DEF IInv, OriginStep, RemoveOwnLsa, Reached
<1>2. NumbersStayAhead' /\ OneContentPerSeq'
  BY <1>1, QuietInv DEF IInv, NumbersStayAhead, RemoveOwnLsa, TypeOK
<1>3. OriginInv' /\ FetchesInReach'
  BY <1>1 DEF IInv, OriginInv, FetchesInReach, RemoveOwnLsa, TypeOK
<1>4. UnpublishedIsDeferred'
  BY <1>1, NoLsaFacts DEF UnpublishedIsDeferred, CancelDeferral, RemoveOwnLsa, TypeOK
<1> QED
  BY <1>1, <1>2, <1>3, <1>4 DEF IInv

LEMMA CrashInv ==
    ASSUME Safe, IInv, Crash
    PROVE  IInv'
<1> USE ConstantTypes
<1>1. TypeOK /\ TypeOK' /\ Reached \in Nat
  BY OriginStepType, ReachedType DEF IInv, OriginStep
<1>2. file' \in {file, seq + 1} /\ up /\ file = seq /\ ~up'
  BY DEF IInv, OriginInv, Crash, WriteSeqNoToFile, Safe
<1>3. Reached <= Reached' /\ Reached' \in Nat
  <2>1. Reached = seq /\ Reached' = file' + RestartJump
    BY <1>2 DEF Reached
  <2>2. seq <= file' + RestartJump
    <3>1. seq \in Nat
      BY <1>1 DEF TypeOK
    <3>2. CASE file' = seq
      BY <3>1, <3>2, JumpType
    <3>3. CASE file' = seq + 1
      BY <3>1, <3>3, JumpType
    <3> QED
      BY <1>2, <3>2, <3>3
  <2> QED
    BY <1>1, <2>1, <2>2, ReachedTypeNext
<1>4. NumbersStayAhead' /\ OneContentPerSeq'
  <2>1. packets' = packets /\ \A r \in Routers : db'[r] \in {db[r], NoLsa}
    BY <1>1 DEF Crash, LoseState, TypeOK
  <2>2. \A r \in Routers : sync'[r] <= Reached' /\ highest'[r] <= Reached'
    BY <1>1, <1>3 DEF IInv, NumbersStayAhead, Crash, LoseState, TypeOK
  <2> QED
    BY <1>1, <1>3, <2>1, <2>2, QuietInv
<1>5. OriginInv'
  BY <1>1, <1>2 DEF OriginInv, Crash, LoseState, TypeOK
<1>6. FetchesInReach'
  <2> SUFFICES ASSUME NEW r \in Routers, NEW f \in fetches'[r] PROVE f.seq <= Reached'
    BY DEF FetchesInReach
  <2>1. f \in fetches[r] /\ f.seq \in Nat
    BY <1>1 DEF Crash, LoseState, TypeOK, Fetches
  <2> QED
    BY <1>1, <1>3, <2>1 DEF IInv, FetchesInReach
<1>7. UnpublishedIsDeferred'
  BY <1>1, NoLsaFacts DEF IInv, UnpublishedIsDeferred, Crash, LoseState, TypeOK
<1> QED
  BY <1>1, <1>4, <1>5, <1>6, <1>7 DEF IInv

LEMMA RestartInv ==
    ASSUME Safe, IInv, Restart
    PROVE  IInv'
<1> USE ConstantTypes
<1>1. TypeOK /\ TypeOK' /\ Reached \in Nat
  BY OriginStepType, ReachedType DEF IInv, OriginStep
<1>2. ~up /\ up' /\ seq' = file + RestartJump /\ file' = seq' /\ db[Origin] = NoLsa
  BY DEF IInv, OriginInv, Restart, InitiateSeqNoFromFile, Safe
<1>3. Reached' = Reached
  BY <1>2 DEF Reached
<1>4. NumbersStayAhead' /\ OneContentPerSeq'
  BY <1>1, <1>3, QuietInv DEF IInv, NumbersStayAhead, Restart, TypeOK
<1>5. OriginInv' /\ FetchesInReach'
  BY <1>1, <1>2, <1>3 DEF IInv, OriginInv, FetchesInReach, Restart
<1>6. UnpublishedIsDeferred'
  BY <1>1, <1>2, NoLsaFacts DEF UnpublishedIsDeferred, Restart, CancelDeferral, TypeOK
<1> QED
  BY <1>1, <1>4, <1>5, <1>6 DEF IInv

LEMMA PeerInv ==
    ASSUME IInv, NEW p \in Peers, ExpireLsa(p) \/ RestartPeer(p)
    PROVE  IInv'
<1> USE ConstantTypes
<1>1. TypeOK /\ TypeOK'
  BY TypeStep DEF IInv, Next
<1>2. Reached' = Reached /\ Reached \in Nat /\ UNCHANGED origin /\ packets' = packets
  BY <1>1, ReachedType DEF ExpireLsa, RestartPeer, LoseState, origin, Reached
<1>3. \A r \in Routers : /\ db'[r] \in {db[r], NoLsa}
                         /\ sync'[r] \in {sync[r], 0} /\ highest'[r] \in {highest[r], 0}
                         /\ fetches'[r] \subseteq fetches[r]
  BY <1>1 DEF ExpireLsa, RestartPeer, LoseState, TypeOK
<1>4. db'[Origin] = db[Origin]
  BY <1>1 DEF ExpireLsa, RestartPeer, LoseState, TypeOK
<1>5. NumbersStayAhead' /\ OneContentPerSeq'
  <2>1. \A r \in Routers : sync'[r] <= Reached' /\ highest'[r] <= Reached'
    BY <1>2, <1>3 DEF IInv, NumbersStayAhead
  <2> QED
    BY <1>1, <1>2, <1>3, <2>1, QuietInv
<1>6. OriginInv' /\ FetchesInReach'
  BY <1>2, <1>3, <1>4 DEF IInv, OriginInv, FetchesInReach, origin
<1>7. UnpublishedIsDeferred'
  BY <1>2, <1>4 DEF IInv, UnpublishedIsDeferred, origin
<1> QED
  BY <1>1, <1>5, <1>6, <1>7 DEF IInv

(* Steps that touch only what a router asks for.                           *)
LEMMA AskingInv ==
    ASSUME IInv, TypeOK', UNCHANGED <<origin, db, packets>>, fetches'[Origin] = {},
           \A r \in Routers : /\ sync'[r] <= Reached /\ highest'[r] <= Reached
                              /\ \A f \in fetches'[r] : f.seq <= Reached
    PROVE  IInv'
<1>1. Reached' = Reached /\ Reached \in Nat
  BY ReachedType DEF IInv, origin, Reached
<1>2. NumbersStayAhead' /\ OneContentPerSeq'
  <2>1. packets' = packets /\ \A r \in Routers : db'[r] \in {db[r], NoLsa}
    OBVIOUS
  <2>2. \A r \in Routers : sync'[r] <= Reached' /\ highest'[r] <= Reached'
    BY <1>1
  <2> QED
    BY <1>1, <2>1, <2>2, QuietInv
<1>3. OriginInv' /\ FetchesInReach' /\ UnpublishedIsDeferred'
  BY <1>1 DEF IInv, OriginInv, FetchesInReach, UnpublishedIsDeferred, origin
<1> QED
  BY <1>2, <1>3 DEF IInv

LEMMA UpdateInv ==
    ASSUME IInv, NEW r \in Routers, NEW q \in Routers, ProcessUpdate(r, q)
    PROVE  IInv'
<1> USE ConstantTypes
<1>1. TypeOK /\ TypeOK' /\ Reached \in Nat
  BY UpdateType, ReachedType DEF IInv
<1>2. \A x \in Routers : /\ sync[x] <= Reached /\ highest[x] <= Reached
                         /\ \A f \in fetches[x] : f.seq <= Reached
  BY DEF IInv, NumbersStayAhead, FetchesInReach
<1>3. \A x \in Routers : sync'[x] <= Reached
  BY <1>1, <1>2 DEF ProcessUpdate, OnSyncUpdate, TypeOK
<1>4. CASE r # Origin /\ IsLsaNew(r, sync[q])
  <2>1. ExpressInterest(r, sync[q], fetches[r])
    BY <1>4 DEF ProcessUpdate, OnSyncUpdate
  <2>2. NewFetch(sync[q], "sync", 0).seq = sync[q]
    BY DEF NewFetch
  <2>3. \A x \in Routers : highest'[x] <= Reached
    BY <1>1, <1>2, <2>1 DEF ExpressInterest, RaiseHighest, Larger, TypeOK
  <2>4. \A x \in Routers : \A f \in fetches'[x] : f.seq <= Reached
    BY <1>1, <1>2, <2>1, <2>2 DEF ExpressInterest, TypeOK
  <2>5. fetches'[Origin] = {}
    BY <1>1, <1>4, <2>1 DEF IInv, OriginInv, ExpressInterest, TypeOK
  <2> QED
    BY <1>1, <1>3, <2>3, <2>4, <2>5, AskingInv DEF ProcessUpdate, OnSyncUpdate
<1>5. CASE ~(r # Origin /\ IsLsaNew(r, sync[q]))
  <2>1. UNCHANGED <<highest, fetches>>
    BY <1>5 DEF ProcessUpdate, OnSyncUpdate
  <2> QED
    BY <1>1, <1>2, <1>3, <2>1, AskingInv DEF ProcessUpdate, OnSyncUpdate, IInv, OriginInv
<1> QED
  BY <1>4, <1>5

LEMMA AvailabilityInv ==
    ASSUME Safe, IInv, NEW r \in Routers, NEW q \in Routers, ProcessAvailabilityInterest(r, q)
    PROVE  IInv'
<1> USE ConstantTypes
<1>1. TypeOK /\ TypeOK' /\ Reached \in Nat /\ r # Origin
  BY AvailabilityType, ReachedType DEF IInv, Safe, ProcessAvailabilityInterest
<1>2. \A x \in Routers : /\ sync[x] <= Reached /\ highest[x] <= Reached
                         /\ \A f \in fetches[x] : f.seq <= Reached
  BY DEF IInv, NumbersStayAhead, FetchesInReach
<1>3. db[q].seq <= Reached
  BY DEF IInv, NumbersStayAhead, Copies
<1>4. NewFetch(db[q].seq, "face", 0).seq = db[q].seq
  BY DEF NewFetch
<1>5. \A x \in Routers : \A f \in fetches'[x] : f.seq <= Reached
  BY <1>1, <1>2, <1>3, <1>4 DEF ProcessAvailabilityInterest, FetchLsaFromFace, TypeOK
<1>6. fetches'[Origin] = {}
  BY <1>1 DEF IInv, OriginInv, ProcessAvailabilityInterest, FetchLsaFromFace, TypeOK
<1> QED
  BY <1>1, <1>2, <1>5, <1>6, AskingInv DEF ProcessAvailabilityInterest

LEMMA AfterFetchInv ==
    ASSUME IInv, TypeOK', NEW r \in Routers, NEW f \in fetches[r], NEW lsa \in Copies,
           AfterFetchLsa(r, f, lsa), packets' \subseteq packets \cup {lsa}
    PROVE  IInv'
<1> USE ConstantTypes
<1>1. TypeOK /\ Reached' = Reached /\ Reached \in Nat /\ UNCHANGED <<origin, sync>>
  BY ReachedType DEF IInv, AfterFetchLsa, origin, Reached
<1>2. r # Origin
  BY DEF IInv, OriginInv
<1>3. db'[Origin] = db[Origin] /\ \A x \in Routers : db'[x] \in {db[x], NoLsa, lsa}
  BY <1>1, <1>2 DEF AfterFetchLsa, InstallLsa, TypeOK
<1>4. lsa \in Lsas \cup {NoLsa} /\ lsa.seq <= Reached'
  BY <1>1 DEF Copies, TypeOK, IInv, NumbersStayAhead
<1>5. OneContentPerSeq' /\ Copies' \subseteq Copies \cup {NoLsa, lsa}
  <2>1. \A a \in Copies : a.seq = lsa.seq => a = lsa
    BY DEF IInv, OneContentPerSeq
  <2> QED
    BY <1>1, <1>3, <1>4, <2>1, CopiesStep DEF IInv
<1>6. \A x \in Routers : sync'[x] <= Reached' /\ highest'[x] <= Reached'
  <2>1. f.seq \in Nat /\ f.seq <= Reached
    BY <1>1 DEF IInv, FetchesInReach, TypeOK, Fetches
  <2>2. \A x \in Routers : highest[x] \in Nat /\ highest[x] <= Reached /\ sync[x] <= Reached
    BY <1>1 DEF IInv, NumbersStayAhead, TypeOK
  <2> QED
    BY <1>1, <2>1, <2>2 DEF AfterFetchLsa, RaiseHighest, Larger, TypeOK
<1>7. NumbersStayAhead'
  BY <1>1, <1>4, <1>5, <1>6, AheadStep DEF IInv
<1>8. FetchesInReach' /\ fetches'[Origin] = {}
  BY <1>1 DEF IInv, OriginInv, FetchesInReach, AfterFetchLsa, TypeOK
<1>9. OriginInv' /\ UnpublishedIsDeferred'
  BY <1>1, <1>3, <1>8 DEF IInv, OriginInv, UnpublishedIsDeferred, origin
<1> QED
  BY <1>5, <1>7, <1>8, <1>9 DEF IInv

LEMMA FetchStepInv ==
    ASSUME IInv, NEW r \in Routers, FetchStep(r)
    PROVE  IInv'
<1> USE ConstantTypes
<1>0. TypeOK /\ TypeOK' /\ Reached \in Nat
  BY FetchStepType, ReachedType DEF IInv
<1> PICK f \in fetches[r] :
        \/ FetchFromOrigin(r, f) \/ FetchFromCache(r, f) \/ OnFetchLsaError(r, f)
        \/ GiveUpFetch(r, f) \/ RetryFetch(r, f)
  BY DEF FetchStep
<1>1. r # Origin /\ f.seq \in Nat /\ f.seq <= Reached
  BY <1>0 DEF IInv, OriginInv, FetchesInReach, TypeOK, Fetches
<1>2. \A x \in Routers : /\ sync[x] <= Reached /\ highest[x] <= Reached
                         /\ \A g \in fetches[x] : g.seq <= Reached
  BY DEF IInv, NumbersStayAhead, FetchesInReach
<1>3. CASE FetchFromOrigin(r, f)
  BY <1>0, <1>3, AfterFetchInv DEF FetchFromOrigin, OriginAnswers, Copies
<1>4. CASE FetchFromCache(r, f)
  BY <1>0, <1>4, AfterFetchInv DEF FetchFromCache, CacheAnswers, Copies
<1>5. CASE OnFetchLsaError(r, f)
  <2>1. [f EXCEPT !.waiting = TRUE].seq = f.seq
    BY <1>0 DEF TypeOK, Fetches
  <2>2. \A x \in Routers : \A g \in fetches'[x] : g.seq <= Reached
    BY <1>0, <1>1, <1>2, <1>5, <2>1 DEF OnFetchLsaError, TypeOK
  <2>3. fetches'[Origin] = {}
    BY <1>0, <1>1, <1>5 DEF IInv, OriginInv, OnFetchLsaError, TypeOK
  <2> QED
    BY <1>0, <1>2, <1>5, <2>2, <2>3, AskingInv DEF OnFetchLsaError
<1>6. CASE GiveUpFetch(r, f)
  <2>1. \A x \in Routers : \A g \in fetches'[x] : g.seq <= Reached
    BY <1>0, <1>2, <1>6 DEF GiveUpFetch, TypeOK
  <2>2. fetches'[Origin] = {}
    BY <1>0, <1>1, <1>6 DEF IInv, OriginInv, GiveUpFetch, TypeOK
  <2> QED
    BY <1>0, <1>2, <1>6, <2>1, <2>2, AskingInv DEF GiveUpFetch
<1>7. CASE RetryFetch(r, f)
  <2>1. \A s : NewFetch(f.seq, "sync", 0).seq = f.seq /\ NewFetch(f.seq, "face", s).seq = f.seq
    BY DEF NewFetch
  <2>2. \A x \in Routers : highest'[x] <= Reached
    BY <1>0, <1>1, <1>2, <1>7 DEF RetryFetch, ExpressInterest, RaiseHighest, Larger, TypeOK
  <2>3. \A x \in Routers : \A g \in fetches'[x] : g.seq <= Reached
    BY <1>0, <1>1, <1>2, <1>7, <2>1 DEF RetryFetch, ExpressInterest, FetchLsaFromFace, TypeOK
  <2>4. fetches'[Origin] = {}
    BY <1>0, <1>1, <1>7 DEF IInv, OriginInv, RetryFetch, ExpressInterest, FetchLsaFromFace, TypeOK
  <2> QED
    BY <1>0, <1>2, <1>7, <2>2, <2>3, <2>4, AskingInv DEF RetryFetch
<1> QED
  BY <1>3, <1>4, <1>5, <1>6, <1>7

LEMMA Invariance == Safe => (Spec => []IInv)
<1> SUFFICES ASSUME Safe PROVE Spec => []IInv
  OBVIOUS
<1>1. Init => IInv
  <2> SUFFICES ASSUME Init PROVE IInv
    OBVIOUS
  <2>1. TypeOK
    BY InitType
  <2>2. Copies = {NoLsa} /\ Reached = 0
    BY ConstantTypes DEF Init, Copies, Reached
  <2> QED
    BY <2>1, <2>2, ConstantTypes, NoLsaFacts
       DEF Init, IInv, OriginInv, NumbersStayAhead, FetchesInReach, OneContentPerSeq,
           UnpublishedIsDeferred
<1>2. IInv /\ [Next]_vars => IInv'
  <2> SUFFICES ASSUME IInv, [Next]_vars PROVE IInv'
    OBVIOUS
  <2>1. CASE OriginStep
    BY <2>1, BuildInv, DelayedInv, RemoveInv, RefreshInv, CrashInv, RestartInv DEF OriginStep
  <2>2. CASE UNCHANGED vars
    BY <2>2 DEF IInv, TypeOK, OriginInv, NumbersStayAhead, FetchesInReach, OneContentPerSeq,
                UnpublishedIsDeferred, Copies, Reached, vars, origin, budget
  <2> QED
    BY <2>1, <2>2, PeerInv, UpdateInv, AvailabilityInv, FetchStepInv DEF Next
<1> QED
  BY <1>1, <1>2, PTL DEF Spec

(* In link-state mode, with a file that survives crashes, no number that   *)
(* any router knows is ahead of the origin, now or after a restart: every  *)
(* LSA the origin builds is new to everyone.                               *)
THEOREM Ahead == Safe => (Spec => []NumbersStayAhead)
BY Invariance, PTL DEF IInv

(* Under the same settings a number never stands for two contents, so that *)
(* ignoring known numbers and serving from caches is sound.                *)
THEOREM SameContent == Safe => (Spec => []OneContentPerSeq)
BY Invariance, PTL DEF IInv

(* An own LSA that sync does not know has its publication scheduled.       *)
THEOREM Deferral == Safe => (Spec => []UnpublishedIsDeferred)
BY Invariance, PTL DEF IInv
=============================================================================
