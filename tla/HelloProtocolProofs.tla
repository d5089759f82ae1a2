------------------------- MODULE HelloProtocolProofs -------------------------
(***************************************************************************)
(* Proofs about HelloProtocol, for any set of neighbours and any value of  *)
(* the other constants.                                                    *)
(***************************************************************************)
EXTENDS HelloProtocol, TLAPS

SweepStates == [active : BOOLEAN, targets : SUBSET Nbrs, results : [Nbrs -> Results]]

(* What every function of Lsdb's build gate keeps true of a build state.   *)
GoodBuild(b) ==
    /\ b \in BuildStates
    /\ b.scheduled <=> b.timer # "none"
    /\ b.dirty /\ ~b.held => b.timer # "none"

(* b is up to date with the active neighbours act, or marked dirty. *)
Honest(b, act) == ~HyperbolicOn /\ b.adv # act => b.dirty

-----------------------------------------------------------------------------
(* The build gate *)

(* scheduleAdjLsaBuild marks the LSA dirty, starts the timer unless held   *)
(* and never touches the installed LSA.                                    *)
LEMMA ScheduleLemma ==
    ASSUME NEW b, GoodBuild(b)
    PROVE  LET c == ScheduleAdjLsaBuild(b)
           IN GoodBuild(c) /\ c.dirty /\ c.held = b.held /\ c.adv = b.adv
  BY DEF ScheduleAdjLsaBuild, GoodBuild, BuildStates, Timers

(* A status change leaves the gate in order and the LSA honest about any   *)
(* set of active neighbours.                                               *)
LEMMA RequestBuildLemma ==
    ASSUME NEW b, GoodBuild(b)
    PROVE  LET c == RequestBuild(b)
           IN /\ GoodBuild(c) /\ c.held = b.held /\ c.adv = b.adv
              /\ \A act : Honest(c, act)
  BY ScheduleLemma DEF RequestBuild, Honest

(* buildAdjLsa keeps the gate in order and does nothing while it is held.  *)
LEMMA BuildLemma ==
    ASSUME NEW b, GoodBuild(b), NEW act \in SUBSET Nbrs, NEW bld \in BOOLEAN,
           NEW settle \in BOOLEAN, Honest(b, act)
    PROVE  LET c == BuildAdjLsa(b, act, bld, settle)
           IN /\ GoodBuild(c) /\ Honest(c, act) /\ c.held = b.held
              /\ b.held => c.adv = b.adv
  BY DEF BuildAdjLsa, GoodBuild, BuildStates, Timers, Honest

(* So does requestImmediateAdjLsaBuild. *)
LEMMA ImmediateLemma ==
    ASSUME NEW b, GoodBuild(b), NEW act \in SUBSET Nbrs, NEW bld \in BOOLEAN,
           NEW settle \in BOOLEAN, Honest(b, act)
    PROVE  LET c == RequestImmediateAdjLsaBuild(b, act, bld, settle)
           IN /\ GoodBuild(c) /\ Honest(c, act) /\ c.held = b.held
              /\ b.held => c.adv = b.adv
  BY BuildLemma DEF RequestImmediateAdjLsaBuild

(* holdAdjLsaBuild takes the hold and leaves LSA and dirty count alone. *)
LEMMA HoldLemma ==
    ASSUME NEW b, GoodBuild(b)
    PROVE  LET c == HoldAdjLsaBuild(b)
           IN GoodBuild(c) /\ c.held /\ c.dirty = b.dirty /\ c.adv = b.adv
  BY DEF HoldAdjLsaBuild, GoodBuild, BuildStates, Timers

(* releaseAdjLsaBuildHold gives the hold back and leaves a dirty LSA with  *)
(* a timer or rebuilt.                                                     *)
LEMMA ReleaseLemma ==
    ASSUME NEW b, GoodBuild(b), NEW act \in SUBSET Nbrs, NEW bld \in BOOLEAN,
           NEW imm \in BOOLEAN, Honest(b, act)
    PROVE  LET c == ReleaseAdjLsaBuildHold(b, act, bld, imm)
           IN GoodBuild(c) /\ Honest(c, act) /\ ~c.held
  BY DEF ReleaseAdjLsaBuildHold, RequestImmediateAdjLsaBuild, BuildAdjLsa,
         GoodBuild, BuildStates, Timers, Honest

-----------------------------------------------------------------------------
(* The inductive invariant *)

(* What holds of the Hello flows under way, whatever the sweep does: one   *)
(* authoritative flow per neighbour in event-driven mode; flows with the   *)
(* current token have ids of their own, so that a retry, which gives one   *)
(* up first, finds a free one; vanilla mode has no stale flows.            *)
FlowInv(fl) ==
    /\ fl \subseteq Flows
    /\ EventDriven => \A f, g \in fl : f.nbr = g.nbr /\ f.current /\ g.current => f = g
    /\ \A f, g \in fl : f.nbr = g.nbr /\ f.current /\ g.current /\ f.id = g.id => f = g
    /\ ~EventDriven => \A f \in fl : f.current

(* What a sweep s, given flows fl, statuses st and face ids fc, relies on  *)
(* for target n.  Without a face there is no authoritative flow left that  *)
(* could revive n, hence n's result is in.                                 *)
TargetInv(s, n, fl, st, fc) ==
    /\ s.results[n] = "none" => \E f \in fl : f.nbr = n /\ f.current
    /\ s.results[n] = "REACHABLE" => st[n] = "ACTIVE"
    /\ s.results[n] = "UNREACHABLE" => st[n] = "INACTIVE"
    /\ fc[n] = "none" => st[n] = "INACTIVE" /\ \A f \in fl : f.nbr = n => ~f.current

SweepInv == /\ sweep.active => EventDriven
            /\ sweep.active => \A n \in sweep.targets : TargetInv(sweep, n, flows, status, face)

BuildInv == /\ GoodBuild(build)
            /\ Honest(build, Active(status))
            /\ sweep.active <=> build.held

IInv == TypeOK /\ FlowInv(flows) /\ SweepInv /\ BuildInv

-----------------------------------------------------------------------------
(* Flows *)

(* ++flowToken leaves n without an authoritative flow and the flows of the *)
(* other neighbours as they are.                                           *)
LEMMA SupersedeLemma ==
    ASSUME NEW fl, FlowInv(fl), NEW n \in Nbrs, EventDriven
    PROVE  /\ FlowInv(Supersede(fl, n))
           /\ \A f \in Supersede(fl, n) : f.nbr = n => ~f.current
           /\ \A f : f.nbr # n => (f \in Supersede(fl, n) <=> f \in fl)
<1> DEFINE stale == {[f EXCEPT !.current = FALSE] :
                        f \in {g \in FlowsOf(fl, n) : g.phase # "nackDelay"}}
<1>1. \A f \in stale : f \in Flows /\ f.nbr = n /\ ~f.current
  <2> SUFFICES ASSUME NEW f \in fl
               PROVE  LET e == [f EXCEPT !.current = FALSE]
                      IN f.nbr = n => e \in Flows /\ e.nbr = n /\ ~e.current
    BY DEF FlowsOf
  <2> f \in Flows
    BY DEF FlowInv
  <2> QED
    BY DEF Flows
<1>2. Supersede(fl, n) = (fl \ FlowsOf(fl, n)) \cup stale
  BY DEF Supersede
<1> HIDE DEF stale
<1>3. \A f \in fl \ FlowsOf(fl, n) : f \in fl /\ f.nbr # n
  BY DEF FlowsOf
<1>4. \A f : f.nbr # n => (f \in Supersede(fl, n) <=> f \in fl)
  BY <1>1, <1>2 DEF FlowsOf
<1>5. FlowInv(Supersede(fl, n))
  BY <1>1, <1>2, <1>3, EventDriven DEF FlowInv
<1> QED
  BY <1>1, <1>2, <1>3, <1>4, <1>5

(* An Interest sent while an id is free is one more flow of n with the     *)
(* current token.                                                          *)
LEMMA ExpressLemma ==
    ASSUME NEW fl, FlowInv(fl), NEW n \in Nbrs, NEW r \in BOOLEAN,
           Free(fl, n) # {},
           EventDriven => \A f \in fl : f.nbr = n => ~f.current
    PROVE  /\ FlowInv(ExpressInterest(fl, n, r))
           /\ \E f \in ExpressInterest(fl, n, r) : f.nbr = n /\ f.current
           /\ \A f : f.nbr # n => (f \in ExpressInterest(fl, n, r) <=> f \in fl)
<1> DEFINE i == CHOOSE i \in Free(fl, n) : TRUE
           e == [id |-> i, nbr |-> n, recip |-> r, phase |-> "pending", current |-> TRUE]
<1>1. i \in Free(fl, n)
  OBVIOUS
<1>2. ExpressInterest(fl, n, r) = fl \cup {e}
  BY DEF ExpressInterest
<1> HIDE DEF i
<1>3. i \in FlowIds /\ \A f \in fl : f.nbr = n /\ f.current => f.id # i
  BY <1>1 DEF Free, FlowsOf
<1>4. e \in Flows /\ e.nbr = n /\ e.current /\ e.id = i
  BY <1>3 DEF Flows, Phases
<1> HIDE DEF e
<1>5. FlowInv(fl \cup {e})
  BY <1>3, <1>4 DEF FlowInv
<1> QED
  BY <1>2, <1>4, <1>5

(* A new flow, with the token it takes in event-driven mode. *)
LEMMA NewFlowLemma ==
    ASSUME NEW fl, FlowInv(fl), NEW n \in Nbrs, NEW r \in BOOLEAN,
           Free(IF EventDriven THEN Supersede(fl, n) ELSE fl, n) # {}
    PROVE  /\ FlowInv(NewFlow(fl, n, r))
           /\ \E f \in NewFlow(fl, n, r) : f.nbr = n /\ f.current
           /\ \A f : f.nbr # n => (f \in NewFlow(fl, n, r) <=> f \in fl)
<1>1. CASE EventDriven
  <2>1. /\ FlowInv(Supersede(fl, n))
        /\ \A f \in Supersede(fl, n) : f.nbr = n => ~f.current
        /\ \A f : f.nbr # n => (f \in Supersede(fl, n) <=> f \in fl)
    BY <1>1, SupersedeLemma
  <2>2. NewFlow(fl, n, r) = ExpressInterest(Supersede(fl, n), n, r)
    BY <1>1 DEF NewFlow
  <2>3. Free(Supersede(fl, n), n) # {}
    BY <1>1
  <2>4. /\ FlowInv(ExpressInterest(Supersede(fl, n), n, r))
        /\ \E f \in ExpressInterest(Supersede(fl, n), n, r) : f.nbr = n /\ f.current
        /\ \A f : f.nbr # n => (f \in ExpressInterest(Supersede(fl, n), n, r)
                                   <=> f \in Supersede(fl, n))
    BY <2>1, <2>3, ExpressLemma
  <2> QED
    BY <2>1, <2>2, <2>4
<1>2. CASE ~EventDriven
  BY <1>2, ExpressLemma DEF NewFlow
<1> QED
  BY <1>1, <1>2

(* A flow that is given up, or one that only moves to another phase. *)
LEMMA DropLemma ==
    ASSUME NEW fl, FlowInv(fl), NEW f \in fl
    PROVE  /\ FlowInv(fl \ {f})
           /\ Authoritative(f) => /\ f.current
                                  /\ Free(fl \ {f}, f.nbr) # {}
                                  /\ EventDriven => \A g \in fl \ {f} :
                                                       g.nbr = f.nbr => ~g.current
  BY DEF FlowInv, Authoritative, Free, FlowsOf, Flows

LEMMA PhaseLemma ==
    ASSUME NEW fl, FlowInv(fl), NEW f \in fl, NEW ph \in Phases
    PROVE  LET e == [f EXCEPT !.phase = ph]
           IN /\ FlowInv((fl \ {f}) \cup {e})
              /\ e.nbr = f.nbr /\ e.current = f.current
<1> DEFINE e == [f EXCEPT !.phase = ph]
<1>1. e \in Flows /\ e.nbr = f.nbr /\ e.current = f.current /\ e.id = f.id
  BY DEF FlowInv, Flows
<1> HIDE DEF e
<1>2. FlowInv((fl \ {f}) \cup {e})
  BY <1>1 DEF FlowInv
<1> QED
  BY <1>1, <1>2 DEF e

-----------------------------------------------------------------------------
(* The sweep *)

(* noteSweepResult keeps the gate in order, and a sweep that is still      *)
(* active after it has recorded the result and touched nothing else.       *)
LEMMA NoteLemma ==
    ASSUME NEW s \in SweepStates, NEW b, GoodBuild(b), s.active <=> b.held,
           NEW act \in SUBSET Nbrs, NEW bld \in BOOLEAN, Honest(b, act), NEW n \in Nbrs,
           NEW res \in {"REACHABLE", "UNREACHABLE", "INDETERMINATE"}
    PROVE  LET g == NoteSweepResult(Gate(s, b), n, res, act, bld)
           IN /\ g.sweep \in SweepStates /\ GoodBuild(g.build) /\ Honest(g.build, act)
              /\ g.sweep.active <=> g.build.held
              /\ g.sweep.active => /\ s.active /\ g.build = b
                                   /\ g.sweep.targets = s.targets
                                   /\ \A m \in Nbrs \ {n} : g.sweep.results[m] = s.results[m]
                                   /\ n \in s.targets => g.sweep.results[n] = res
<1> DEFINE g == NoteSweepResult(Gate(s, b), n, res, act, bld)
           noted == [s EXCEPT !.results[n] = res]
           released(imm) == ReleaseAdjLsaBuildHold(b, act, bld, imm)
<1>1. \A imm \in BOOLEAN : /\ GoodBuild(released(imm)) /\ Honest(released(imm), act)
                          /\ ~released(imm).held
  BY ReleaseLemma
<1>2. NoSweep \in SweepStates /\ ~NoSweep.active
  BY DEF NoSweep, SweepStates, Results
<1>3. CASE ~s.active \/ n \notin s.targets
  <2>1. g = Gate(s, b)
    BY <1>3 DEF NoteSweepResult, Gate
  <2> QED
    BY <2>1, <1>3 DEF Gate
<1>4. CASE s.active /\ n \in s.targets /\ res = "INDETERMINATE"
  <2>1. g = Gate(NoSweep, released(FALSE))
    BY <1>4 DEF NoteSweepResult, AbortMobilitySweep, Gate
  <2> HIDE DEF g, released
  <2>2. g.sweep = NoSweep /\ g.build = released(FALSE)
    BY <2>1 DEF Gate
  <2>3. /\ g.sweep \in SweepStates /\ GoodBuild(g.build) /\ Honest(g.build, act)
        /\ ~g.sweep.active /\ ~g.build.held
    BY <2>2, <1>1, <1>2
  <2> QED
    BY <2>3 DEF g
<1>5. CASE s.active /\ n \in s.targets /\ res # "INDETERMINATE"
  <2>1. g = CheckSweepCompletion(Gate(noted, b), act, bld)
    BY <1>5 DEF NoteSweepResult, Gate
  <2>2. noted \in SweepStates /\ noted.active = s.active /\ noted.targets = s.targets
    BY <1>5 DEF SweepStates, Results
  <2>3. noted.results[n] = res /\ \A m \in Nbrs \ {n} : noted.results[m] = s.results[m]
    BY DEF SweepStates
  <2> HIDE DEF noted
  <2>4a. g = Gate(noted, b) \/ g = Gate(NoSweep, released(TRUE))
    BY <2>1 DEF CheckSweepCompletion, Gate
  <2> HIDE DEF g, released
  <2>4. \/ g.sweep = noted /\ g.build = b
        \/ g.sweep = NoSweep /\ g.build = released(TRUE)
    <3>1. CASE g = Gate(noted, b)
      BY <3>1 DEF Gate
    <3>2. CASE g = Gate(NoSweep, released(TRUE))
      BY <3>2 DEF Gate
    <3> QED
      BY <2>4a, <3>1, <3>2
  <2>5. CASE g.sweep = noted /\ g.build = b
    BY <2>2, <2>3, <2>5, <1>5 DEF g
  <2>6. CASE g.sweep = NoSweep /\ g.build = released(TRUE)
    <3>1. /\ g.sweep \in SweepStates /\ GoodBuild(g.build) /\ Honest(g.build, act)
          /\ ~g.sweep.active /\ ~g.build.held
      BY <2>6, <1>1, <1>2
    <3> QED
      BY <3>1 DEF g
  <2> QED
    BY <2>4, <2>5, <2>6
<1> QED
  BY <1>3, <1>4, <1>5

(* The same of a callback's report, in terms of the state after the step.  *)
LEMMA ReportLemma ==
    ASSUME NEW b, GoodBuild(b), NEW n \in Nbrs,
           NEW res \in {"REACHABLE", "UNREACHABLE", "INDETERMINATE"},
           NEW st, NEW to, Honest(b, Active(st)),
           sweep \in SweepStates, sweep.active <=> b.held, sweep.active => EventDriven,
           ReportResult(b, n, res, st, to)
    PROVE  /\ sweep' \in SweepStates /\ GoodBuild(build') /\ Honest(build', Active(st))
           /\ sweep'.active <=> build'.held
           /\ sweep'.active => /\ sweep.active /\ build' = b
                               /\ sweep'.targets = sweep.targets
                               /\ \A m \in Nbrs \ {n} : sweep'.results[m] = sweep.results[m]
                               /\ n \in sweep.targets => sweep'.results[n] = res
<1>1. Active(st) \in SUBSET Nbrs
  BY DEF Active
<1>2. IsAdjLsaBuildable(st, to) \in BOOLEAN
  BY DEF IsAdjLsaBuildable
<1>3. CASE EventDriven
  <2> DEFINE g == NoteSweepResult(Gate(sweep, b), n, res, Active(st), IsAdjLsaBuildable(st, to))
  <2>1. sweep' = g.sweep /\ build' = g.build
    BY <1>3 DEF ReportResult
  <2>2. /\ g.sweep \in SweepStates /\ GoodBuild(g.build) /\ Honest(g.build, Active(st))
        /\ g.sweep.active <=> g.build.held
        /\ g.sweep.active => /\ sweep.active /\ g.build = b
                             /\ g.sweep.targets = sweep.targets
                             /\ \A m \in Nbrs \ {n} : g.sweep.results[m] = sweep.results[m]
                             /\ n \in sweep.targets => g.sweep.results[n] = res
    BY <1>1, <1>2, NoteLemma
  <2> HIDE DEF g
  <2> QED
    BY <2>1, <2>2
<1>4. CASE ~EventDriven
  BY <1>4 DEF ReportResult
<1> QED
  BY <1>3, <1>4

(* What happens to n's flows, status and face leaves the other targets     *)
(* alone.                                                                  *)
LEMMA OtherTargetLemma ==
    ASSUME NEW n, NEW m, m # n, NEW s, NEW t, s.results[m] = t.results[m],
           NEW fl, NEW gl, \A f : f.nbr # n => (f \in gl <=> f \in fl),
           NEW st, NEW su, st[m] = su[m], NEW fc, NEW fd, fc[m] = fd[m],
           TargetInv(s, m, fl, st, fc)
    PROVE  TargetInv(t, m, gl, su, fd)
  BY DEF TargetInv

(* A step that concerns neighbour n keeps the sweep in order if it does so *)
(* for n.                                                                  *)
LEMMA SweepStepLemma ==
    ASSUME SweepInv, sweep.targets \subseteq Nbrs, NEW n,
           sweep'.active => /\ sweep.active
                            /\ sweep'.targets = sweep.targets
                            /\ \A m \in Nbrs \ {n} : sweep'.results[m] = sweep.results[m],
           \A f : f.nbr # n => (f \in flows' <=> f \in flows),
           \A m \in Nbrs \ {n} : status'[m] = status[m] /\ face'[m] = face[m],
           sweep'.active /\ n \in sweep.targets
               => TargetInv(sweep', n, flows', status', face')
    PROVE  SweepInv'
<1> SUFFICES ASSUME sweep'.active, NEW m \in sweep'.targets
             PROVE  TargetInv(sweep', m, flows', status', face')
  BY DEF SweepInv
<1>1. m \in sweep.targets /\ m \in Nbrs /\ TargetInv(sweep, m, flows, status, face)
  BY DEF SweepInv
<1>2. CASE m = n
  BY <1>1, <1>2
<1>3. CASE m # n
  BY <1>1, <1>3, OtherTargetLemma
<1> QED
  BY <1>2, <1>3

(* A change of n's status to v leaves the own LSA honest. *)
LEMMA StatusLemma ==
    ASSUME NEW st \in [Nbrs -> {"ACTIVE", "INACTIVE"}], NEW n \in Nbrs,
           NEW v \in {"ACTIVE", "INACTIVE"}, NEW b, GoodBuild(b), Honest(b, Active(st))
    PROVE  LET c == IF st[n] # v THEN RequestBuild(b) ELSE b
           IN /\ GoodBuild(c) /\ Honest(c, Active([st EXCEPT ![n] = v]))
              /\ c.held = b.held /\ c.adv = b.adv
<1>1. CASE st[n] # v
  BY <1>1, RequestBuildLemma
<1>2. CASE st[n] = v
  <2>1. [st EXCEPT ![n] = v] = st
    BY <1>2
  <2> QED
    BY <1>2, <2>1
<1> QED
  BY <1>1, <1>2

(* registerPrefix adds registrations on a face that exists. *)
LEMMA RegisterLemma ==
    ASSUME NEW r \in SUBSET Registrations, NEW n \in Nbrs,
           NEW fc \in [Nbrs -> {"none", "live", "dead"}],
           NEW kind \in {"adj", "other"}, NEW times \in 0..RegTries
    PROVE  RegisterPrefix(r, fc, n, kind, times) \in SUBSET Registrations
  BY DEF RegisterPrefix, Registrations

(* So does registerAdjacencyPrefixes. *)
LEMMA RegisterAdjacencyLemma ==
    ASSUME NEW r \in SUBSET Registrations, NEW n \in Nbrs,
           NEW fc \in [Nbrs -> {"none", "live", "dead"}]
    PROVE  RegisterAdjacencyPrefixes(r, fc, n) \in SUBSET Registrations
<1>1. 0 \in 0..RegTries
  BY ConstantsAssumption
<1>2. RegisterPrefix(r, fc, n, "adj", 0) \in SUBSET Registrations
  BY <1>1, RegisterLemma
<1> QED
  BY <1>1, <1>2, RegisterLemma DEF RegisterAdjacencyPrefixes

-----------------------------------------------------------------------------
(* Every action preserves the invariant *)

(* The initial state. *)
LEMMA InitInv == Init => IInv
<1> SUFFICES ASSUME Init PROVE IInv
  OBVIOUS
<1> USE ConstantsAssumption
<1>1. TypeOK
  <2>1. calc \in [mode : HyperbolicStates, scheduled : BOOLEAN, view : SUBSET Nbrs]
    BY DEF Init
  <2> QED
    BY <2>1 DEF Init, TypeOK, NoSweep, InitBuild, BuildStates, Timers, Results
<1>2. FlowInv(flows)
  BY DEF Init, FlowInv
<1>3. SweepInv
  BY DEF Init, SweepInv, NoSweep
<1>4. BuildInv
  BY DEF Init, BuildInv, GoodBuild, Honest, NoSweep, InitBuild, BuildStates, Timers, Active
<1> QED
  BY <1>1, <1>2, <1>3, <1>4 DEF IInv

(* FACE_EVENT_CREATED gives n a face, which no sweep minds. *)
LEMMA FaceCreatedInv == ASSUME IInv, NEW n \in Nbrs, FaceCreated(n) PROVE IInv'
<1> USE ConstantsAssumption
<1>0. TypeOK /\ SweepInv
  BY DEF IInv
<1>1. env' \in [faces : 0..MaxFaceEvents, hints : 0..MaxHints, hellos : 0..MaxHellos]
  BY <1>0 DEF TypeOK, FaceCreated, FaceEvent
<1>2. face' \in [Nbrs -> {"none", "live", "dead"}]
  BY <1>0 DEF TypeOK, FaceCreated
<1>2a. regs' \subseteq Registrations
  BY <1>0, <1>2, RegisterAdjacencyLemma DEF TypeOK, FaceCreated
<1>3. TypeOK'
  BY <1>0, <1>1, <1>2, <1>2a DEF TypeOK, FaceCreated
<1>4. FlowInv(flows')
  BY DEF IInv, FaceCreated
<1>5. SweepInv'
  <2>1. sweep.active /\ n \in sweep.targets => TargetInv(sweep', n, flows', status', face')
    BY <1>0 DEF SweepInv, TargetInv, FaceCreated, TypeOK
  <2> QED
    BY <1>0, <2>1, SweepStepLemma DEF FaceCreated, TypeOK
<1>6. BuildInv'
  BY DEF IInv, BuildInv, Honest, HyperbolicOn, FaceCreated
<1> QED
  BY <1>3, <1>4, <1>5, <1>6 DEF IInv

(* A face event NLSR misses changes what is known as live to dead. *)
LEMMA FaceEventMissedInv == ASSUME IInv, NEW n \in Nbrs, FaceEventMissed(n) PROVE IInv'
<1> USE ConstantsAssumption
<1>0. TypeOK /\ SweepInv
  BY DEF IInv
<1>1. env' \in [faces : 0..MaxFaceEvents, hints : 0..MaxHints, hellos : 0..MaxHellos]
  BY <1>0 DEF TypeOK, FaceEventMissed, FaceEvent
<1>2. regs' \subseteq Registrations
  BY <1>0 DEF TypeOK, FaceEventMissed, RegsAfterDestroy, Registrations
<1>3. TypeOK'
  BY <1>0, <1>1, <1>2 DEF TypeOK, FaceEventMissed
<1>4. FlowInv(flows')
  BY DEF IInv, FaceEventMissed
<1>5. SweepInv'
  <2>1. sweep.active /\ n \in sweep.targets => TargetInv(sweep', n, flows', status', face')
    BY <1>0 DEF SweepInv, TargetInv, FaceEventMissed, TypeOK
  <2> QED
    BY <1>0, <2>1, SweepStepLemma DEF FaceEventMissed, TypeOK
<1>6. BuildInv'
  BY DEF IInv, BuildInv, Honest, HyperbolicOn, FaceEventMissed
<1> QED
  BY <1>3, <1>4, <1>5, <1>6 DEF IInv

(* The face dataset gives face ids to neighbours without one. *)
LEMMA ProcessFaceDatasetInv == ASSUME IInv, ProcessFaceDataset PROVE IInv'
<1>0. TypeOK /\ SweepInv
  BY DEF IInv
<1>1. face' \in [Nbrs -> {"none", "live", "dead"}]
  BY <1>0 DEF TypeOK, ProcessFaceDataset
<1>2. \A n \in Nbrs : RegisterAdjacencyPrefixes(regs, face', n) \in SUBSET Registrations
  BY <1>0, <1>1, RegisterAdjacencyLemma DEF TypeOK
<1>3. regs' \subseteq Registrations
  BY <1>2 DEF ProcessFaceDataset
<1>4. TypeOK'
  BY <1>0, <1>1, <1>3 DEF TypeOK, ProcessFaceDataset
<1>5. FlowInv(flows')
  BY DEF IInv, ProcessFaceDataset
<1>6. SweepInv'
  <2>1. \A n \in Nbrs : face'[n] = "none" => face[n] = "none"
    BY DEF ProcessFaceDataset
  <2> QED
    BY <1>0, <2>1 DEF SweepInv, TargetInv, TypeOK, ProcessFaceDataset
<1>7. BuildInv'
  BY DEF IInv, BuildInv, Honest, HyperbolicOn, ProcessFaceDataset
<1> QED
  BY <1>4, <1>5, <1>6, <1>7 DEF IInv

(* sendHelloInterest, once n has a face or its sweep result is in. *)
LEMMA SendHelloLemma ==
    ASSUME IInv, NEW n \in Nbrs, HasRoom(n),
           NEW fc \in [Nbrs -> {"none", "live", "dead"}],
           NEW tk \in [Nbrs -> 0..MaxTicks], ~EventDriven => tk[n] < MaxTicks,
           SendHelloInterest(n, fc, tk)
    PROVE  /\ FlowInv(flows')
           /\ ticks' \in [Nbrs -> 0..MaxTicks]
           /\ \A f : f.nbr # n => (f \in flows' <=> f \in flows)
           /\ fc[n] # "none" => \E f \in flows' : f.nbr = n /\ f.current
           /\ fc[n] = "none" /\ EventDriven => \A f \in flows' : f.nbr = n => ~f.current
<1>1. ticks' \in [Nbrs -> 0..MaxTicks]
  BY ConstantsAssumption DEF SendHelloInterest
<1>2. FlowInv(flows)
  BY DEF IInv
<1>3. CASE fc[n] # "none"
  <2>1. flows' = NewFlow(flows, n, FALSE)
    BY <1>3 DEF SendHelloInterest
  <2> QED
    BY <1>1, <1>2, <1>3, <2>1, NewFlowLemma DEF HasRoom
<1>4. CASE fc[n] = "none" /\ EventDriven
  <2>1. flows' = Supersede(flows, n)
    BY <1>4 DEF SendHelloInterest
  <2> QED
    BY <1>1, <1>2, <1>4, <2>1, SupersedeLemma
<1>5. CASE fc[n] = "none" /\ ~EventDriven
  <2>1. flows' = flows
    BY <1>5 DEF SendHelloInterest
  <2> QED
    BY <1>1, <1>2, <1>5, <2>1
<1> QED
  BY <1>3, <1>4, <1>5

(* The periodic Hello supersedes the flow of a target only to replace it,  *)
(* or when the target has no face and its result is in.                    *)
LEMMA PeriodicHelloInv == ASSUME IInv, NEW n \in Nbrs, PeriodicHello(n) PROVE IInv'
<1>0. TypeOK /\ SweepInv
  BY DEF IInv
<1> DEFINE tk == [ticks EXCEPT ![n] = @ - 1]
<1>1. tk \in [Nbrs -> 0..MaxTicks] /\ tk[n] < MaxTicks
  BY <1>0, ConstantsAssumption DEF TypeOK, PeriodicHello
<1>2. SendHelloInterest(n, face, tk) /\ HasRoom(n)
  BY DEF PeriodicHello
<1> HIDE DEF tk
<1>3. /\ FlowInv(flows')
      /\ ticks' \in [Nbrs -> 0..MaxTicks]
      /\ \A f : f.nbr # n => (f \in flows' <=> f \in flows)
      /\ face[n] # "none" => \E f \in flows' : f.nbr = n /\ f.current
      /\ face[n] = "none" /\ EventDriven => \A f \in flows' : f.nbr = n => ~f.current
  BY <1>0, <1>1, <1>2, SendHelloLemma DEF TypeOK
<1>4. UNCHANGED <<status, timedOut, face, nfd, regs, sweep, build, calc, env>>
  BY DEF PeriodicHello
<1>5. TypeOK'
  BY <1>0, <1>3, <1>4 DEF TypeOK, FlowInv
<1>6. SweepInv'
  <2>1. sweep.active /\ n \in sweep.targets => TargetInv(sweep', n, flows', status', face')
    BY <1>0, <1>3, <1>4 DEF SweepInv, TargetInv, TypeOK
  <2> QED
    BY <1>0, <1>3, <1>4, <2>1, SweepStepLemma DEF TypeOK
<1>7. BuildInv'
  BY <1>4 DEF IInv, BuildInv, Honest, HyperbolicOn
<1> QED
  BY <1>3, <1>5, <1>6, <1>7 DEF IInv

(* A reciprocal Hello is sent to a neighbour with a face. *)
LEMMA ProcessInterestInv == ASSUME IInv, NEW n \in Nbrs, ProcessInterest(n) PROVE IInv'
<1>0. TypeOK /\ SweepInv /\ FlowInv(flows)
  BY DEF IInv
<1>1. env' \in [faces : 0..MaxFaceEvents, hints : 0..MaxHints, hellos : 0..MaxHellos]
  BY <1>0, ConstantsAssumption DEF TypeOK, ProcessInterest
<1>2. /\ FlowInv(flows')
      /\ \A f : f.nbr # n => (f \in flows' <=> f \in flows)
      /\ \E f \in flows' : f.nbr = n /\ f.current
  BY <1>0, NewFlowLemma DEF ProcessInterest, HasRoom
<1>3. UNCHANGED <<status, timedOut, face, nfd, regs, ticks, sweep, build, calc>> /\ face[n] # "none"
  BY DEF ProcessInterest
<1>4. TypeOK'
  BY <1>0, <1>1, <1>2, <1>3 DEF TypeOK, FlowInv
<1>5. SweepInv'
  <2>1. sweep.active /\ n \in sweep.targets => TargetInv(sweep', n, flows', status', face')
    BY <1>0, <1>2, <1>3 DEF SweepInv, TargetInv, TypeOK
  <2> QED
    BY <1>0, <1>2, <1>3, <2>1, SweepStepLemma DEF TypeOK
<1>6. BuildInv'
  BY <1>3 DEF IInv, BuildInv, Honest, HyperbolicOn
<1> QED
  BY <1>2, <1>4, <1>5, <1>6 DEF IInv

(* A registration answer gives its neighbour a face and may start a flow. *)
LEMMA OnRegistrationSuccessInv == ASSUME IInv, NEW r \in regs, OnRegistrationSuccess(r) PROVE IInv'
<1>0. TypeOK /\ SweepInv /\ FlowInv(flows)
  BY DEF IInv
<1> DEFINE n == r.nbr
<1>1. n \in Nbrs /\ r.face \in {"live", "dead"}
  BY <1>0 DEF TypeOK, Registrations
<1>2. face' \in [Nbrs -> {"none", "live", "dead"}] /\ face'[n] # "none"
  BY <1>0, <1>1 DEF TypeOK, OnRegistrationSuccess
<1>3. /\ FlowInv(flows')
      /\ ticks' \in [Nbrs -> 0..MaxTicks]
      /\ \A f : f.nbr # n => (f \in flows' <=> f \in flows)
      /\ flows' = flows \/ \E f \in flows' : f.nbr = n /\ f.current
  <2>1. CASE r.kind = "adj"
    <3>1. /\ SendHelloInterest(n, face', ticks) /\ HasRoom(n)
          /\ ~EventDriven => ticks[n] < MaxTicks
      BY <2>1 DEF OnRegistrationSuccess
    <3> QED
      BY <1>0, <1>1, <1>2, <3>1, SendHelloLemma DEF TypeOK
  <2>2. CASE r.kind # "adj"
    BY <1>0, <2>2 DEF OnRegistrationSuccess, TypeOK
  <2> QED
    BY <2>1, <2>2
<1>4. /\ UNCHANGED <<status, timedOut, nfd, sweep, build, calc, env>>
      /\ face' = [face EXCEPT ![n] = r.face]
      /\ regs' \subseteq regs
  BY DEF OnRegistrationSuccess
<1>5. TypeOK'
  BY <1>0, <1>2, <1>3, <1>4 DEF TypeOK, FlowInv
<1>6. SweepInv'
  <2>1. sweep.active /\ n \in sweep.targets => TargetInv(sweep', n, flows', status', face')
    BY <1>0, <1>2, <1>3, <1>4 DEF SweepInv, TargetInv, TypeOK
  <2> QED
    BY <1>0, <1>1, <1>3, <1>4, <2>1, SweepStepLemma DEF TypeOK
<1>7. BuildInv'
  BY <1>4 DEF IInv, BuildInv, Honest, HyperbolicOn
<1> QED
  BY <1>3, <1>5, <1>6, <1>7 DEF IInv

(* A failed registration is tried again or given up. *)
LEMMA OnRegistrationFailureInv == ASSUME IInv, NEW r \in regs, OnRegistrationFailure(r) PROVE IInv'
<1>0. TypeOK /\ r \in Registrations
  BY DEF IInv, TypeOK
<1>1. regs' \in SUBSET Registrations
  <2>1. CASE r.times < RegTries
    <3>1. /\ r.times + 1 \in 0..RegTries /\ r.nbr \in Nbrs /\ r.kind \in {"adj", "other"}
          /\ regs \ {r} \in SUBSET Registrations
      BY <1>0, <2>1, ConstantsAssumption DEF Registrations, TypeOK
    <3>2. regs' = RegisterPrefix(regs \ {r}, face, r.nbr, r.kind, r.times + 1)
      BY <2>1 DEF OnRegistrationFailure
    <3> QED
      BY <1>0, <3>1, <3>2, RegisterLemma DEF TypeOK
  <2>2. CASE ~(r.times < RegTries)
    BY <1>0, <2>2 DEF OnRegistrationFailure, TypeOK
  <2> QED
    BY <2>1, <2>2
<1>2. UNCHANGED <<status, timedOut, face, nfd, flows, ticks, sweep, build, calc, env>>
  BY DEF OnRegistrationFailure
<1>3. TypeOK'
  BY <1>0, <1>1, <1>2 DEF TypeOK
<1> QED
  BY <1>2, <1>3 DEF IInv, SweepInv, TargetInv, BuildInv, Honest, HyperbolicOn

(* Data and Nacks move a flow to its next phase. *)
LEMMA PhaseInv ==
    ASSUME IInv, NEW f \in flows, OnContent(f) \/ OnNack(f) PROVE IInv'
<1>0. TypeOK /\ SweepInv /\ FlowInv(flows)
  BY DEF IInv
<1>1. PICK ph \in Phases : flows' = (flows \ {f}) \cup {[f EXCEPT !.phase = ph]}
  BY DEF OnContent, OnNack, Phases
<1> DEFINE e == [f EXCEPT !.phase = ph]
<1>2. /\ FlowInv(flows') /\ e.nbr = f.nbr /\ e.current = f.current
      /\ flows' = (flows \ {f}) \cup {e}
  BY <1>0, <1>1, PhaseLemma
<1> HIDE DEF e
<1>3. UNCHANGED <<status, timedOut, face, nfd, regs, ticks, sweep, build, calc, env>>
  BY DEF OnContent, OnNack
<1>4. TypeOK'
  BY <1>0, <1>2, <1>3 DEF TypeOK, FlowInv
<1>5. SweepInv'
  BY <1>0, <1>2, <1>3 DEF SweepInv, TargetInv
<1>6. BuildInv'
  BY <1>3 DEF IInv, BuildInv, Honest, HyperbolicOn
<1> QED
  BY <1>2, <1>4, <1>5, <1>6 DEF IInv

(* A superseded flow ends without a trace. *)
LEMMA StaleCallbackInv == ASSUME IInv, NEW f \in flows, StaleCallback(f) PROVE IInv'
<1>0. TypeOK /\ SweepInv /\ FlowInv(flows)
  BY DEF IInv
<1>1. UNCHANGED <<status, timedOut, face, nfd, regs, ticks, sweep, build, calc, env>>
  BY DEF StaleCallback
<1>2. flows' = flows \ {f} /\ ~f.current
  BY DEF StaleCallback, Authoritative
<1>3. FlowInv(flows')
  BY <1>0, <1>2, DropLemma
<1>4. TypeOK'
  BY <1>0, <1>1, <1>3 DEF TypeOK, FlowInv
<1>5. SweepInv'
  BY <1>0, <1>1, <1>2 DEF SweepInv, TargetInv
<1>6. BuildInv'
  BY <1>1 DEF IInv, BuildInv, Honest, HyperbolicOn
<1> QED
  BY <1>3, <1>4, <1>5, <1>6 DEF IInv

(* No LSA is installed or removed by a step that leaves a sweep active.   *)
Unpublished == sweep'.active => build'.adv = build.adv

(* A timeout retries with a flow of its own, or gives up and reports.      *)
LEMMA ProcessInterestTimedOutInv ==
    ASSUME IInv, NEW f \in flows, ProcessInterestTimedOut(f) PROVE IInv' /\ Unpublished
<1>0. TypeOK /\ SweepInv /\ FlowInv(flows) /\ BuildInv
  BY DEF IInv
<1> DEFINE n == f.nbr
<1>1. n \in Nbrs /\ f.recip \in BOOLEAN /\ f.current
  BY <1>0, DropLemma DEF FlowInv, Flows, ProcessInterestTimedOut
<1>2. FlowInv(flows \ {f}) /\ Free(flows \ {f}, n) # {}
      /\ (EventDriven => \A g \in flows \ {f} : g.nbr = n => ~g.current)
  BY <1>0, DropLemma DEF ProcessInterestTimedOut
<1>3. timedOut' \in [Nbrs -> 0..RetryNumber]
  <2>1. IncrementTimedOut(timedOut[n]) \in 0..RetryNumber
    <3>1. timedOut[n] \in 0..RetryNumber /\ RetryNumber \in Nat
      BY <1>0, <1>1, ConstantsAssumption DEF TypeOK
    <3> QED
      BY <3>1 DEF IncrementTimedOut
  <2>2. timedOut' = [timedOut EXCEPT ![n] = IncrementTimedOut(timedOut[n])]
    BY DEF ProcessInterestTimedOut
  <2> QED
    BY <1>0, <2>1, <2>2 DEF TypeOK
<1>4. UNCHANGED <<face, nfd, regs, ticks, env>>
  BY DEF ProcessInterestTimedOut
<1>5. CASE timedOut'[n] < RetryNumber
  <2>1. flows' = ExpressInterest(flows \ {f}, n, f.recip) /\ UNCHANGED <<status, sweep, build, calc>>
    BY <1>5 DEF ProcessInterestTimedOut
  <2>2. /\ FlowInv(flows')
        /\ \E g \in flows' : g.nbr = n /\ g.current
        /\ \A g : g.nbr # n => (g \in flows' <=> g \in flows \ {f})
    BY <1>1, <1>2, <2>1, ExpressLemma
  <2>3. TypeOK'
    BY <1>0, <1>3, <1>4, <2>1, <2>2 DEF TypeOK, FlowInv
  <2>4. SweepInv'
    <3>1. sweep.active /\ n \in sweep.targets => TargetInv(sweep', n, flows', status', face')
      BY <1>0, <1>1, <1>4, <2>1, <2>2 DEF SweepInv, TargetInv
    <3>2. \A g : g.nbr # n => (g \in flows' <=> g \in flows)
      BY <2>2
    <3> QED
      BY <1>0, <1>4, <2>1, <3>1, <3>2, SweepStepLemma DEF TypeOK
  <2>5. BuildInv'
    BY <1>0, <2>1 DEF BuildInv, Honest, HyperbolicOn
  <2> QED
    BY <2>1, <2>2, <2>3, <2>4, <2>5 DEF IInv, Unpublished
<1>6. CASE ~(timedOut'[n] < RetryNumber)
  <2> DEFINE b == IF status[n] = "ACTIVE" THEN RequestBuild(build) ELSE build
  <2>1. /\ flows' = flows \ {f}
        /\ status' = [status EXCEPT ![n] = "INACTIVE"]
        /\ calc' \in {calc, RequestCalculation(calc)}
        /\ ReportResult(b, n, "UNREACHABLE", status', timedOut')
    BY <1>6 DEF ProcessInterestTimedOut, GiveUp
  <2>2. b = IF status[n] # "INACTIVE" THEN RequestBuild(build) ELSE build
    BY <1>0, <1>1 DEF TypeOK
  <2> HIDE DEF b
  <2>3. GoodBuild(b) /\ Honest(b, Active(status')) /\ b.held = build.held /\ b.adv = build.adv
    <3>1. /\ status \in [Nbrs -> {"ACTIVE", "INACTIVE"}]
          /\ GoodBuild(build) /\ Honest(build, Active(status))
      BY <1>0 DEF TypeOK, BuildInv
    <3> HIDE DEF n
    <3>2. /\ GoodBuild(b) /\ Honest(b, Active([status EXCEPT ![n] = "INACTIVE"]))
          /\ b.held = build.held /\ b.adv = build.adv
      <4>1. LET c == IF status[n] # "INACTIVE" THEN RequestBuild(build) ELSE build
            IN /\ GoodBuild(c) /\ Honest(c, Active([status EXCEPT ![n] = "INACTIVE"]))
               /\ c.held = build.held /\ c.adv = build.adv
        BY <1>1, <3>1, StatusLemma
      <4> QED
        BY <2>2, <4>1
    <3> QED
      BY <2>1, <3>2
  <2>4. /\ sweep' \in SweepStates /\ GoodBuild(build') /\ Honest(build', Active(status'))
        /\ sweep'.active <=> build'.held
        /\ sweep'.active => /\ sweep.active /\ build' = b
                            /\ sweep'.targets = sweep.targets
                            /\ \A m \in Nbrs \ {n} : sweep'.results[m] = sweep.results[m]
                            /\ n \in sweep.targets => sweep'.results[n] = "UNREACHABLE"
    BY <1>0, <1>1, <2>1, <2>3, ReportLemma DEF TypeOK, BuildInv, SweepInv, SweepStates
  <2>5. calc' \in [mode : {calc.mode}, scheduled : BOOLEAN, view : SUBSET Nbrs]
    BY <1>0, <2>1 DEF TypeOK, RequestCalculation
  <2>6. TypeOK'
    BY <1>0, <1>1, <1>2, <1>3, <1>4, <2>1, <2>4, <2>5 DEF TypeOK, FlowInv, SweepStates, GoodBuild
  <2>7. SweepInv'
    <3>1. sweep'.active /\ n \in sweep.targets => TargetInv(sweep', n, flows', status', face')
      BY <1>0, <1>1, <1>4, <2>1, <2>4 DEF SweepInv, TargetInv, TypeOK
    <3> QED
      BY <1>0, <1>4, <2>1, <2>4, <3>1, SweepStepLemma DEF TypeOK
  <2>8. BuildInv'
    BY <2>4, <2>5 DEF BuildInv, Honest, HyperbolicOn
  <2> QED
    BY <1>2, <2>1, <2>3, <2>4, <2>6, <2>7, <2>8 DEF IInv, Unpublished
<1> QED
  BY <1>5, <1>6

(* A reciprocal Hello's build leaves a sweep's LSA alone and no LSA stale. *)
LEMMA ReciprocalLemma ==
    ASSUME NEW b, GoodBuild(b), NEW f, NEW st, NEW to, Honest(b, Active(st)),
           sweep.active => EventDriven
    PROVE  LET c == ReciprocalBuild(b, f, st, to)
           IN /\ GoodBuild(c) /\ Honest(c, Active(st)) /\ c.held = b.held
              /\ sweep.active => c.adv = b.adv
<1>1. Active(st) \in SUBSET Nbrs /\ IsAdjLsaBuildable(st, to) \in BOOLEAN
  BY DEF Active, IsAdjLsaBuildable
<1> DEFINE i == RequestImmediateAdjLsaBuild(b, Active(st), IsAdjLsaBuildable(st, to), FALSE)
<1>2. GoodBuild(i) /\ Honest(i, Active(st)) /\ i.held = b.held
  BY <1>1, ImmediateLemma
<1>3. \/ ReciprocalBuild(b, f, st, to) = b
      \/ ReciprocalBuild(b, f, st, to) = i /\ ~sweep.active
  BY DEF ReciprocalBuild
<1> HIDE DEF i
<1> QED
  BY <1>2, <1>3

(* Validated Data makes n ACTIVE and reports it. *)
LEMMA OnContentValidatedInv ==
    ASSUME IInv, NEW f \in flows, OnContentValidated(f) PROVE IInv' /\ Unpublished
<1>0. TypeOK /\ SweepInv /\ FlowInv(flows) /\ BuildInv
  BY DEF IInv
<1> DEFINE n == f.nbr
           b == IF status[n] # "ACTIVE" THEN RequestBuild(build) ELSE build
           c == ReciprocalBuild(b, f, status', timedOut')
<1>1. n \in Nbrs /\ f.current /\ FlowInv(flows \ {f})
  BY <1>0, DropLemma DEF FlowInv, Flows, OnContentValidated
<1>2. /\ flows' = flows \ {f}
      /\ status' = [status EXCEPT ![n] = "ACTIVE"]
      /\ timedOut' = [timedOut EXCEPT ![n] = 0]
      /\ calc' \in {calc, RequestCalculation(calc)}
      /\ regs' \in {regs, RegisterPrefix(regs, face, n, "other", 0)}
      /\ ReportResult(c, n, "REACHABLE", status', timedOut')
      /\ UNCHANGED <<face, nfd, ticks, env>>
  BY DEF OnContentValidated
<1>3. GoodBuild(b) /\ Honest(b, Active(status')) /\ b.held = build.held /\ b.adv = build.adv
  <2>1. /\ status \in [Nbrs -> {"ACTIVE", "INACTIVE"}]
        /\ GoodBuild(build) /\ Honest(build, Active(status))
    BY <1>0 DEF TypeOK, BuildInv
  <2> HIDE DEF n
  <2>2. /\ GoodBuild(b) /\ Honest(b, Active([status EXCEPT ![n] = "ACTIVE"]))
        /\ b.held = build.held /\ b.adv = build.adv
    BY <1>1, <2>1, StatusLemma
  <2> QED
    BY <1>2, <2>2
<1> HIDE DEF b
<1>4. /\ GoodBuild(c) /\ Honest(c, Active(status')) /\ c.held = build.held
      /\ sweep.active => c.adv = build.adv
  BY <1>0, <1>3, ReciprocalLemma DEF SweepInv
<1> HIDE DEF c
<1>5. /\ sweep' \in SweepStates /\ GoodBuild(build') /\ Honest(build', Active(status'))
      /\ sweep'.active <=> build'.held
      /\ sweep'.active => /\ sweep.active /\ build' = c
                          /\ sweep'.targets = sweep.targets
                          /\ \A m \in Nbrs \ {n} : sweep'.results[m] = sweep.results[m]
                          /\ n \in sweep.targets => sweep'.results[n] = "REACHABLE"
  BY <1>0, <1>1, <1>2, <1>4, ReportLemma DEF TypeOK, BuildInv, SweepInv, SweepStates
<1>5a. calc' \in [mode : {calc.mode}, scheduled : BOOLEAN, view : SUBSET Nbrs]
  BY <1>0, <1>2 DEF TypeOK, RequestCalculation
<1>6. TypeOK'
  <2>2. 0 \in 0..RegTries /\ 0 \in 0..RetryNumber
    BY ConstantsAssumption
  <2>3. regs' \in SUBSET Registrations
    <3>1. RegisterPrefix(regs, face, n, "other", 0) \in SUBSET Registrations
      BY <1>0, <1>1, <2>2, RegisterLemma DEF TypeOK
    <3> QED
      BY <1>0, <1>2, <3>1 DEF TypeOK
  <2>4. status' \in [Nbrs -> {"ACTIVE", "INACTIVE"}] /\ timedOut' \in [Nbrs -> 0..RetryNumber]
    BY <1>0, <1>1, <1>2, <2>2 DEF TypeOK
  <2> QED
    BY <1>0, <1>1, <1>2, <1>5, <1>5a, <2>3, <2>4 DEF TypeOK, FlowInv, SweepStates, GoodBuild
<1>7. SweepInv'
  <2>1. sweep'.active /\ n \in sweep.targets => TargetInv(sweep', n, flows', status', face')
    BY <1>0, <1>1, <1>2, <1>5 DEF SweepInv, TargetInv, TypeOK
  <2> QED
    BY <1>0, <1>2, <1>5, <2>1, SweepStepLemma DEF TypeOK
<1>8. BuildInv'
  BY <1>5, <1>5a DEF BuildInv, Honest, HyperbolicOn
<1> QED
  BY <1>1, <1>2, <1>4, <1>5, <1>6, <1>7, <1>8 DEF IInv, Unpublished

(* Data that fails validation ends the sweep of its neighbour. *)
LEMMA OnContentValidationFailedInv ==
    ASSUME IInv, NEW f \in flows, OnContentValidationFailed(f) PROVE IInv' /\ Unpublished
<1>0. TypeOK /\ SweepInv /\ FlowInv(flows) /\ BuildInv
  BY DEF IInv
<1> DEFINE n == f.nbr
<1>1. n \in Nbrs /\ FlowInv(flows \ {f})
  BY <1>0, DropLemma DEF FlowInv, Flows
<1>2. /\ flows' = flows \ {f}
      /\ ReportResult(build, n, "INDETERMINATE", status, timedOut)
      /\ UNCHANGED <<status, timedOut, face, nfd, regs, ticks, calc, env>>
  BY DEF OnContentValidationFailed
<1>3. /\ sweep' \in SweepStates /\ GoodBuild(build') /\ Honest(build', Active(status))
      /\ sweep'.active <=> build'.held
      /\ sweep'.active => /\ sweep.active /\ build' = build
                          /\ sweep'.targets = sweep.targets
                          /\ \A m \in Nbrs \ {n} : sweep'.results[m] = sweep.results[m]
                          /\ n \in sweep.targets => sweep'.results[n] = "INDETERMINATE"
  BY <1>0, <1>1, <1>2, ReportLemma DEF TypeOK, BuildInv, SweepInv, SweepStates
<1>4. TypeOK'
  BY <1>0, <1>1, <1>2, <1>3 DEF TypeOK, FlowInv, SweepStates, GoodBuild
<1>5. SweepInv'
  <2>1. sweep'.active => n \notin sweep.targets
    BY <1>1, <1>3 DEF SweepStates, Results
  <2> QED
    BY <1>0, <1>2, <1>3, <2>1, SweepStepLemma DEF TypeOK
<1>6. BuildInv'
  BY <1>2, <1>3 DEF BuildInv, Honest, HyperbolicOn
<1> QED
  BY <1>1, <1>2, <1>3, <1>4, <1>5, <1>6 DEF IInv, Unpublished

(* FACE_EVENT_DESTROYED: n is INACTIVE at once, and a sweep's flow to it   *)
(* loses its authority before it could say otherwise.                      *)
LEMMA FaceDestroyedInv ==
    ASSUME IInv, NEW n \in Nbrs, FaceDestroyed(n) PROVE IInv' /\ Unpublished
<1>0. TypeOK /\ SweepInv /\ FlowInv(flows) /\ BuildInv
  BY DEF IInv
<1>1. env' \in [faces : 0..MaxFaceEvents, hints : 0..MaxHints, hellos : 0..MaxHellos]
  BY <1>0, ConstantsAssumption DEF TypeOK, FaceDestroyed, FaceEvent
<1>2. regs' \subseteq Registrations
  BY <1>0 DEF TypeOK, FaceDestroyed, RegsAfterDestroy, Registrations
<1>3. nfd' \in [Nbrs -> BOOLEAN] /\ ticks' = ticks
  BY <1>0 DEF TypeOK, FaceDestroyed
<1>4. CASE face[n] # "live"
  <2>1. UNCHANGED <<face, status, timedOut, calc, flows, sweep, build>>
    BY <1>4 DEF FaceDestroyed
  <2>2. TypeOK'
    BY <1>0, <1>1, <1>2, <1>3, <2>1 DEF TypeOK
  <2> QED
    BY <1>0, <2>1, <2>2 DEF IInv, SweepInv, TargetInv, BuildInv, Honest, HyperbolicOn, Unpublished
<1>5. CASE face[n] = "live"
  <2> DEFINE b == IF status[n] = "ACTIVE" THEN RequestBuild(build) ELSE build
  <2>1. /\ face' = [face EXCEPT ![n] = "none"]
        /\ status' = [status EXCEPT ![n] = "INACTIVE"]
        /\ timedOut' = [timedOut EXCEPT ![n] = IF status[n] = "ACTIVE" THEN RetryNumber ELSE @]
        /\ calc' \in {calc, RequestCalculation(calc)}
        /\ OnAdjacentFaceDestroyed(n, b, status', timedOut')
    BY <1>5 DEF FaceDestroyed
  <2>2. b = IF status[n] # "INACTIVE" THEN RequestBuild(build) ELSE build
    BY <1>0 DEF TypeOK
  <2> HIDE DEF b
  <2>3. GoodBuild(b) /\ Honest(b, Active(status')) /\ b.held = build.held /\ b.adv = build.adv
    <3>1. /\ status \in [Nbrs -> {"ACTIVE", "INACTIVE"}]
          /\ GoodBuild(build) /\ Honest(build, Active(status))
      BY <1>0 DEF TypeOK, BuildInv
    <3>2. /\ GoodBuild(b) /\ Honest(b, Active([status EXCEPT ![n] = "INACTIVE"]))
          /\ b.held = build.held /\ b.adv = build.adv
      <4>1. LET c == IF status[n] # "INACTIVE" THEN RequestBuild(build) ELSE build
            IN /\ GoodBuild(c) /\ Honest(c, Active([status EXCEPT ![n] = "INACTIVE"]))
               /\ c.held = build.held /\ c.adv = build.adv
        BY <3>1, StatusLemma
      <4> QED
        BY <2>2, <4>1
    <3> QED
      BY <2>1, <3>2
  <2>4. /\ sweep' \in SweepStates /\ GoodBuild(build') /\ Honest(build', Active(status'))
        /\ sweep'.active <=> build'.held
        /\ sweep'.active => /\ sweep.active /\ build' = b
                            /\ sweep'.targets = sweep.targets
                            /\ \A m \in Nbrs \ {n} : sweep'.results[m] = sweep.results[m]
                            /\ n \in sweep.targets => sweep'.results[n] = "UNREACHABLE"
        /\ FlowInv(flows')
        /\ \A f : f.nbr # n => (f \in flows' <=> f \in flows)
        /\ sweep.active /\ n \in sweep.targets => \A f \in flows' : f.nbr = n => ~f.current
    <3>1. CASE EventDriven /\ sweep.active /\ n \in sweep.targets
      <4>1. flows' = Supersede(flows, n) /\ ReportResult(b, n, "UNREACHABLE", status', timedOut')
        BY <2>1, <3>1 DEF OnAdjacentFaceDestroyed
      <4>2. /\ FlowInv(flows')
            /\ \A f \in flows' : f.nbr = n => ~f.current
            /\ \A f : f.nbr # n => (f \in flows' <=> f \in flows)
        BY <1>0, <3>1, <4>1, SupersedeLemma
      <4> QED
        BY <1>0, <2>3, <4>1, <4>2, ReportLemma DEF TypeOK, BuildInv, SweepInv, SweepStates
    <3>2. CASE ~(EventDriven /\ sweep.active /\ n \in sweep.targets)
      BY <1>0, <2>1, <2>3, <3>2 DEF OnAdjacentFaceDestroyed, TypeOK, BuildInv, SweepInv, SweepStates
    <3> QED
      BY <3>1, <3>2
  <2>4a. calc' \in [mode : {calc.mode}, scheduled : BOOLEAN, view : SUBSET Nbrs]
    BY <1>0, <2>1 DEF TypeOK, RequestCalculation
  <2>5. TypeOK'
    <3>2. timedOut' \in [Nbrs -> 0..RetryNumber]
      BY <1>0, <2>1, ConstantsAssumption DEF TypeOK
    <3>3. status' \in [Nbrs -> {"ACTIVE", "INACTIVE"}] /\ face' \in [Nbrs -> {"none", "live", "dead"}]
      BY <1>0, <2>1 DEF TypeOK
    <3> QED
      BY <1>0, <1>1, <1>2, <1>3, <2>4, <2>4a, <3>2, <3>3 DEF TypeOK, FlowInv, SweepStates, GoodBuild
  <2>6. SweepInv'
    <3>1. sweep'.active /\ n \in sweep.targets => TargetInv(sweep', n, flows', status', face')
      BY <1>0, <2>1, <2>4 DEF SweepInv, TargetInv, TypeOK
    <3> QED
      BY <1>0, <2>1, <2>4, <3>1, SweepStepLemma DEF TypeOK
  <2>7. BuildInv'
    BY <2>4, <2>4a DEF BuildInv, Honest, HyperbolicOn
  <2> QED
    BY <2>3, <2>4, <2>5, <2>6, <2>7 DEF IInv, Unpublished
<1> QED
  BY <1>4, <1>5

(* The flows after requestVerificationNow: the verified targets have one   *)
(* authoritative flow if they have a face, the others keep theirs.         *)
LEMMA VerificationLemma ==
    ASSUME IInv, EventDriven, NEW targets \in SUBSET Nbrs, \A n \in targets : HasRoom(n),
           RequestVerificationNow(targets)
    PROVE  /\ FlowInv(flows')
           /\ \A n \in Verified(targets) :
                  face[n] # "none" => \E f \in flows' : f.nbr = n /\ f.current
<1> DEFINE after(n) == IF n \notin Verified(targets) THEN flows
                       ELSE IF face[n] = "none" THEN Supersede(flows, n)
                       ELSE NewFlow(flows, n, FALSE)
<1>0. FlowInv(flows) /\ Verified(targets) \subseteq targets
  BY DEF IInv, Verified
<1>1. flows' = UNION {FlowsOf(after(n), n) : n \in Nbrs}
  BY DEF RequestVerificationNow
<1>2. ASSUME NEW n \in Nbrs
      PROVE  /\ FlowInv(after(n))
             /\ n \in Verified(targets) /\ face[n] # "none"
                   => \E f \in after(n) : f.nbr = n /\ f.current
  <2>1. CASE n \notin Verified(targets)
    BY <1>0, <2>1
  <2>2. CASE n \in Verified(targets) /\ face[n] = "none"
    BY <1>0, <2>2, SupersedeLemma
  <2>3. CASE n \in Verified(targets) /\ face[n] # "none"
    BY <1>0, <2>3, NewFlowLemma DEF HasRoom
  <2> QED
    BY <2>1, <2>2, <2>3
<1> HIDE DEF after
<1>3. \A f : f \in flows' => f.nbr \in Nbrs /\ f \in after(f.nbr)
  BY <1>1 DEF FlowsOf
<1>4. \A n \in Nbrs : \A f \in after(n) : f.nbr = n => f \in flows'
  BY <1>1 DEF FlowsOf
<1>5. FlowInv(flows')
  BY <1>2, <1>3, EventDriven DEF FlowInv
<1> QED
  BY <1>0, <1>2, <1>4, <1>5

(* A hint starts a sweep in which every target has a face and a flow, or   *)
(* one that is over at once.                                               *)
LEMMA BeginMobilitySweepInv == ASSUME IInv, BeginMobilitySweep PROVE IInv' /\ Unpublished
<1>0. TypeOK /\ SweepInv /\ FlowInv(flows) /\ BuildInv
  BY DEF IInv
<1> DEFINE targets == BuildSweepTargets
           held == IF sweep.active THEN build ELSE HoldAdjLsaBuild(build)
           begun == [NoSweep EXCEPT !.active = TRUE, !.targets = targets]
           released == ReleaseAdjLsaBuildHold(held, Active(status),
                           IsAdjLsaBuildable(status, timedOut'), FALSE)
<1>1. /\ EventDriven /\ targets \in SUBSET Nbrs /\ \A n \in targets : HasRoom(n)
      /\ RequestVerificationNow(targets)
      /\ UNCHANGED <<status, face, nfd, regs, calc>>
  BY DEF BeginMobilitySweep, BuildSweepTargets
<1>2. begun \in SweepStates /\ begun.active /\ begun.targets = targets
      /\ \A n \in Nbrs : begun.results[n] = "none"
  BY <1>1 DEF NoSweep, SweepStates, Results
<1>3. NoSweep \in SweepStates /\ ~NoSweep.active
  BY DEF NoSweep, SweepStates, Results
<1>4. GoodBuild(held) /\ Honest(held, Active(status)) /\ held.held /\ held.adv = build.adv
  BY <1>0, HoldLemma DEF BuildInv, Honest
<1>5. \/ sweep' = begun /\ build' = held /\ \A n \in targets : face[n] # "none"
      \/ sweep' = NoSweep /\ build' = released
  <2> DEFINE over == targets = {} \/ \E n \in targets : face[n] = "none"
  <2>1. CASE over
    <3>1. /\ sweep' = AbortMobilitySweep(Gate(begun, held), Active(status),
                           IsAdjLsaBuildable(status, timedOut')).sweep
          /\ build' = AbortMobilitySweep(Gate(begun, held), Active(status),
                           IsAdjLsaBuildable(status, timedOut')).build
      BY <2>1 DEF BeginMobilitySweep
    <3> HIDE DEF begun, held, targets
    <3>2. AbortMobilitySweep(Gate(begun, held), Active(status),
              IsAdjLsaBuildable(status, timedOut')) = Gate(NoSweep, released)
      BY <1>2 DEF AbortMobilitySweep, Gate
    <3> HIDE DEF released
    <3> QED
      BY <3>1, <3>2 DEF Gate
  <2>2. CASE ~over
    <3>1. sweep' = Gate(begun, held).sweep /\ build' = Gate(begun, held).build
      BY <2>2 DEF BeginMobilitySweep
    <3> HIDE DEF begun, held
    <3> QED
      BY <2>2, <3>1 DEF Gate
  <2> QED
    BY <2>1, <2>2
<1> HIDE DEF begun, held
<1>6. GoodBuild(released) /\ Honest(released, Active(status)) /\ ~released.held
  <2>1. Active(status) \in SUBSET Nbrs /\ IsAdjLsaBuildable(status, timedOut') \in BOOLEAN
    BY DEF Active, IsAdjLsaBuildable
  <2> QED
    BY <1>4, <2>1, ReleaseLemma
<1> HIDE DEF released, targets
<1>7. /\ FlowInv(flows')
      /\ \A n \in Verified(targets) : face[n] # "none" => \E f \in flows' : f.nbr = n /\ f.current
  BY <1>1, VerificationLemma
<1>8. BuildInv'
  BY <1>1, <1>2, <1>3, <1>4, <1>5, <1>6 DEF BuildInv, Honest, HyperbolicOn
<1>9. TypeOK'
  <2>1. env' \in [faces : 0..MaxFaceEvents, hints : 0..MaxHints, hellos : 0..MaxHellos]
    BY <1>0, ConstantsAssumption DEF TypeOK, BeginMobilitySweep
  <2>2. timedOut' \in [Nbrs -> 0..RetryNumber] /\ ticks' \in [Nbrs -> 0..MaxTicks]
    BY <1>0, <1>1, ConstantsAssumption DEF TypeOK, RequestVerificationNow
  <2> QED
    BY <1>0, <1>1, <1>2, <1>3, <1>5, <1>7, <1>8, <2>1, <2>2
    DEF TypeOK, FlowInv, SweepStates, BuildInv, GoodBuild
<1>10. SweepInv'
  <2>1. CASE sweep' = begun /\ \A n \in targets : face[n] # "none"
    <3>1. Verified(targets) = targets
      BY <2>1 DEF Verified
    <3> QED
      BY <1>1, <1>2, <1>7, <2>1, <3>1 DEF SweepInv, TargetInv
  <2>2. CASE sweep' = NoSweep
    BY <1>3, <2>2 DEF SweepInv
  <2> QED
    BY <1>5, <2>1, <2>2
<1> QED
  BY <1>2, <1>3, <1>4, <1>5, <1>7, <1>8, <1>9, <1>10 DEF IInv, Unpublished

(* The build timer never publishes under a hold. *)
LEMMA BuildTimerInv == ASSUME IInv, BuildTimer PROVE IInv' /\ Unpublished
<1>0. TypeOK /\ SweepInv /\ FlowInv(flows) /\ BuildInv
  BY DEF IInv
<1>1. UNCHANGED <<status, timedOut, face, nfd, regs, flows, ticks, sweep, calc, env>>
  BY DEF BuildTimer
<1>2. Active(status) \in SUBSET Nbrs /\ IsAdjLsaBuildable(status, timedOut) \in BOOLEAN
  BY DEF Active, IsAdjLsaBuildable
<1>3. /\ GoodBuild(build') /\ Honest(build', Active(status)) /\ build'.held = build.held
      /\ build.held => build'.adv = build.adv
  <2>1. build' = BuildAdjLsa(build, Active(status), IsAdjLsaBuildable(status, timedOut),
                             build.timer = "settle")
    BY DEF BuildTimer
  <2> QED
    BY <1>0, <1>2, <2>1, BuildLemma DEF BuildInv
<1>4. TypeOK'
  BY <1>0, <1>1, <1>3 DEF TypeOK, GoodBuild
<1>5. SweepInv'
  BY <1>0, <1>1 DEF SweepInv, TargetInv
<1>6. BuildInv'
  BY <1>0, <1>1, <1>3 DEF BuildInv, Honest, HyperbolicOn
<1> QED
  BY <1>0, <1>1, <1>3, <1>4, <1>5, <1>6 DEF IInv, BuildInv, Unpublished

(* The routing calculation reads the adjacency list only. *)
LEMMA CalculationTimerInv == ASSUME IInv, CalculationTimer PROVE IInv'
<1>1. UNCHANGED <<status, timedOut, face, nfd, regs, flows, ticks, sweep, build, env>>
  BY DEF CalculationTimer
<1>2. calc' \in [mode : {calc.mode}, scheduled : BOOLEAN, view : SUBSET Nbrs]
  BY DEF IInv, TypeOK, CalculationTimer, Active
<1>3. TypeOK'
  BY <1>1, <1>2 DEF IInv, TypeOK
<1> QED
  BY <1>1, <1>2, <1>3 DEF IInv, SweepInv, TargetInv, BuildInv, Honest, HyperbolicOn

(* Every step preserves the invariant and respects a sweep. *)
LEMMA NextInv == ASSUME IInv, [Next]_vars PROVE IInv' /\ Unpublished
<1>1. ASSUME NEW n \in Nbrs, FaceCreated(n) PROVE IInv' /\ Unpublished
  BY <1>1, FaceCreatedInv DEF Unpublished, FaceCreated
<1>2. ASSUME NEW n \in Nbrs, FaceDestroyed(n) PROVE IInv' /\ Unpublished
  BY <1>2, FaceDestroyedInv
<1>3. ASSUME NEW n \in Nbrs, FaceEventMissed(n) PROVE IInv' /\ Unpublished
  BY <1>3, FaceEventMissedInv DEF Unpublished, FaceEventMissed
<1>4. CASE ProcessFaceDataset
  BY <1>4, ProcessFaceDatasetInv DEF Unpublished, ProcessFaceDataset
<1>5. ASSUME NEW r \in regs, OnRegistrationSuccess(r) PROVE IInv' /\ Unpublished
  BY <1>5, OnRegistrationSuccessInv DEF Unpublished, OnRegistrationSuccess
<1>6. ASSUME NEW r \in regs, OnRegistrationFailure(r) PROVE IInv' /\ Unpublished
  BY <1>6, OnRegistrationFailureInv DEF Unpublished, OnRegistrationFailure
<1>7. ASSUME NEW n \in Nbrs, PeriodicHello(n) PROVE IInv' /\ Unpublished
  BY <1>7, PeriodicHelloInv DEF Unpublished, PeriodicHello
<1>8. ASSUME NEW n \in Nbrs, ProcessInterest(n) PROVE IInv' /\ Unpublished
  BY <1>8, ProcessInterestInv DEF Unpublished, ProcessInterest
<1>9. ASSUME NEW f \in flows, Answer(f) PROVE IInv' /\ Unpublished
  BY <1>9, PhaseInv, ProcessInterestTimedOutInv DEF Answer, Unpublished, OnContent, OnNack
<1>10. ASSUME NEW f \in flows, Validation(f) PROVE IInv' /\ Unpublished
  BY <1>10, OnContentValidatedInv, OnContentValidationFailedInv DEF Validation
<1>11. ASSUME NEW f \in flows, StaleCallback(f) PROVE IInv' /\ Unpublished
  BY <1>11, StaleCallbackInv DEF Unpublished, StaleCallback
<1>12. CASE BeginMobilitySweep
  BY <1>12, BeginMobilitySweepInv
<1>13. CASE BuildTimer
  BY <1>13, BuildTimerInv
<1>14. CASE CalculationTimer
  BY <1>14, CalculationTimerInv DEF Unpublished, CalculationTimer
<1>15. CASE UNCHANGED vars
  BY <1>15 DEF IInv, TypeOK, SweepInv, TargetInv, BuildInv, Honest, HyperbolicOn, Unpublished, vars
<1> QED
  BY <1>1, <1>2, <1>3, <1>4, <1>5, <1>6, <1>7, <1>8, <1>9, <1>10, <1>11, <1>12,
     <1>13, <1>14, <1>15
  DEF Next, NfdStep

-----------------------------------------------------------------------------
(* Theorems *)

(* The invariant holds of every behaviour of the Hello protocol. *)
THEOREM Invariance == Spec => []IInv
<1>1. Init => IInv
  BY InitInv
<1>2. IInv /\ [Next]_vars => IInv'
  BY NextInv
<1> QED
  BY <1>1, <1>2, PTL DEF Spec

(* Every variable keeps its type, for any neighbours and bounds: a retry   *)
(* always finds a free id, a registration always has a face.               *)
THEOREM TypeCorrectness == Spec => []TypeOK
  BY Invariance, PTL DEF IInv

(* The hold on the own LSA lasts exactly as long as a mobility sweep.      *)
THEOREM SweepHold == Spec => []SweepHoldsBuild
<1>1. IInv => SweepHoldsBuild
  BY DEF IInv, BuildInv, SweepHoldsBuild
<1> QED
  BY <1>1, Invariance, PTL

(* One Hello flow per neighbour is authoritative in event-driven mode.     *)
THEOREM SingleFlow == Spec => []OneAuthoritativeFlow
<1>1. IInv => OneAuthoritativeFlow
  BY DEF IInv, FlowInv, OneAuthoritativeFlow
<1> QED
  BY <1>1, Invariance, PTL

(* A sweep waits only for targets that are being probed.                   *)
THEOREM SweepWaitsForProbes == Spec => []TargetIsProbed
<1>1. IInv => TargetIsProbed
  BY DEF IInv, SweepInv, TargetInv, TargetIsProbed
<1> QED
  BY <1>1, Invariance, PTL

(* Recorded sweep results agree with the status of their targets.          *)
THEOREM SweepResults == Spec => []ResultsMatchStatus
<1>1. IInv => ResultsMatchStatus
  BY DEF IInv, SweepInv, TargetInv, ResultsMatchStatus
<1> QED
  BY <1>1, Invariance, PTL

(* Nothing revives a target whose face is gone while its sweep lasts.      *)
THEOREM NoRevival == Spec => []NoRevivalDuringSweep
<1>1. IInv => NoRevivalDuringSweep
  BY DEF IInv, SweepInv, TargetInv, NoRevivalDuringSweep
<1> QED
  BY <1>1, Invariance, PTL

(* An own LSA that disagrees with the adjacency list has a build pending.  *)
THEOREM StaleLsa == Spec => []StaleLsaIsPending
<1>1. IInv => StaleLsaIsPending
  BY DEF IInv, BuildInv, GoodBuild, Honest, StaleLsaIsPending
<1> QED
  BY <1>1, Invariance, PTL

(* The scheduled flag agrees with the build timer.                         *)
THEOREM ScheduledFlag == Spec => []ScheduledFlagIsTrue
<1>1. IInv => ScheduledFlagIsTrue
  BY DEF IInv, BuildInv, GoodBuild, ScheduledFlagIsTrue
<1> QED
  BY <1>1, Invariance, PTL

(* No step publishes the own LSA in the middle of a sweep.                 *)
THEOREM QuietSweep == Spec => NoPublicationDuringSweep
<1>1. IInv /\ [Next]_vars => [sweep'.active => build'.adv = build.adv]_vars
  BY NextInv DEF Unpublished
<1> QED
  BY <1>1, Invariance, PTL DEF Spec, NoPublicationDuringSweep

-----------------------------------------------------------------------------
(* Hyperbolic routing and the periodic Hellos *)

(* A step that changes no status and leaves the calculation alone, or one  *)
(* that asks for a calculation.                                            *)
LEMMA CalculationKept ==
    ASSUME IInv, StaleRoutesArePending,
           \/ UNCHANGED <<status, calc>>
           \/ calc' = RequestCalculation(calc)
    PROVE  StaleRoutesArePending'
<1>1. calc \in [mode : HyperbolicStates, scheduled : BOOLEAN, view : SUBSET Nbrs]
  BY DEF IInv, TypeOK
<1>2. CASE UNCHANGED <<status, calc>>
  BY <1>2 DEF StaleRoutesArePending, HyperbolicOn, Active
<1>3. CASE calc' = RequestCalculation(calc)
  BY <1>1, <1>3 DEF StaleRoutesArePending, HyperbolicOn, RequestCalculation
<1> QED
  BY <1>2, <1>3

(* A status that is set to what it was is not changed.                     *)
LEMMA StatusKept ==
    ASSUME IInv, StaleRoutesArePending, NEW n \in Nbrs, NEW s \in {"ACTIVE", "INACTIVE"},
           status' = [status EXCEPT ![n] = s],
           calc' = IF status[n] = s THEN calc ELSE RequestCalculation(calc)
    PROVE  StaleRoutesArePending'
<1>1. status \in [Nbrs -> {"ACTIVE", "INACTIVE"}]
  BY DEF IInv, TypeOK
<1>2. CASE status[n] = s
  <2>1. status' = status
    BY <1>1, <1>2
  <2> QED
    BY <1>2, <2>1, CalculationKept
<1>3. CASE status[n] # s
  BY <1>3, CalculationKept
<1> QED
  BY <1>2, <1>3

LEMMA StaleRoutesStep ==
    ASSUME IInv, StaleRoutesArePending, [Next]_vars
    PROVE  StaleRoutesArePending'
<1>0. status \in [Nbrs -> {"ACTIVE", "INACTIVE"}] /\ flows \subseteq Flows
  BY DEF IInv, TypeOK
<1>1. ASSUME NEW n \in Nbrs, FaceDestroyed(n) PROVE StaleRoutesArePending'
  <2>1. CASE face[n] = "live"
    <3>1. /\ status' = [status EXCEPT ![n] = "INACTIVE"]
          /\ calc' = IF status[n] = "ACTIVE" THEN RequestCalculation(calc) ELSE calc
      BY <1>1, <2>1 DEF FaceDestroyed
    <3> QED
      BY <1>0, <3>1, StatusKept
  <2>2. CASE face[n] # "live"
    <3>1. UNCHANGED <<status, calc>>
      BY <1>1, <2>2 DEF FaceDestroyed
    <3> QED
      BY <3>1, CalculationKept
  <2> QED
    BY <2>1, <2>2
<1>2. ASSUME NEW f \in flows, ProcessInterestTimedOut(f) PROVE StaleRoutesArePending'
  <2>1. CASE UNCHANGED <<status, calc>>
    BY <2>1, CalculationKept
  <2>2. CASE GiveUp(f)
    <3>1. /\ f.nbr \in Nbrs
          /\ status' = [status EXCEPT ![f.nbr] = "INACTIVE"]
          /\ calc' = IF status[f.nbr] = "ACTIVE" THEN RequestCalculation(calc) ELSE calc
      BY <1>0, <2>2 DEF GiveUp, Flows
    <3> QED
      BY <1>0, <3>1, StatusKept
  <2> QED
    BY <1>2, <2>1, <2>2 DEF ProcessInterestTimedOut
<1>3. ASSUME NEW f \in flows, OnContentValidated(f) PROVE StaleRoutesArePending'
  <2>1. /\ f.nbr \in Nbrs
        /\ status' = [status EXCEPT ![f.nbr] = "ACTIVE"]
        /\ calc' = IF status[f.nbr] # "ACTIVE" THEN RequestCalculation(calc) ELSE calc
    BY <1>0, <1>3 DEF OnContentValidated, Flows
  <2> QED
    BY <1>0, <2>1, StatusKept
<1>4. CASE CalculationTimer
  <2>1. calc' = [calc EXCEPT !.scheduled = FALSE, !.view = Active(status)] /\ status' = status
    BY <1>4 DEF CalculationTimer
  <2>2. calc \in [mode : HyperbolicStates, scheduled : BOOLEAN, view : SUBSET Nbrs]
    BY DEF IInv, TypeOK
  <2>3. calc'.view = Active(status)
    BY <2>1, <2>2
  <2> QED
    BY <2>1, <2>3 DEF StaleRoutesArePending, Active
<1>5. CASE UNCHANGED <<status, calc>>
  BY <1>5, CalculationKept
<1>6. UNCHANGED <<status, calc>> \/ CalculationTimer
      \/ (\E n \in Nbrs : FaceDestroyed(n))
      \/ (\E f \in flows : ProcessInterestTimedOut(f) \/ OnContentValidated(f))
  BY DEF Next, NfdStep, Answer, Validation, FaceCreated, FaceEventMissed, ProcessFaceDataset,
         OnRegistrationSuccess, OnRegistrationFailure, PeriodicHello, ProcessInterest, OnContent,
         OnNack, OnContentValidationFailed, StaleCallback, BeginMobilitySweep, BuildTimer, vars
<1> QED
  BY <1>1, <1>2, <1>3, <1>4, <1>5, <1>6

(* Under hyperbolic routing no change of a neighbour's status is left      *)
(* without a calculation, whichever callback makes it.                     *)
THEOREM StaleRoutes == Spec => []StaleRoutesArePending
<1>1. Init => StaleRoutesArePending
  <2> SUFFICES ASSUME Init PROVE calc.view = Active(status)
    BY DEF StaleRoutesArePending
  <2>1. Active(status) = {}
    BY DEF Init, Active
  <2>2. calc.view = {}
    BY DEF Init
  <2> QED
    BY <2>1, <2>2
<1>2. IInv /\ StaleRoutesArePending /\ [Next]_vars => StaleRoutesArePending'
  BY StaleRoutesStep
<1> QED
  BY <1>1, <1>2, Invariance, PTL DEF Spec

LEMMA HelloLoopStep ==
    ASSUME IInv, [Next]_vars, NEW n \in Nbrs, ticks[n] > 0
    PROVE  ticks'[n] > 0
<1>0. ticks \in [Nbrs -> 0 .. MaxTicks] /\ MaxTicks \in Nat
  BY ConstantsAssumption DEF IInv, TypeOK
<1>1. ASSUME NEW m \in Nbrs, NEW fc, NEW tk \in [Nbrs -> Nat], SendHelloInterest(m, fc, tk),
             m = n \/ tk[n] = ticks[n]
      PROVE  ticks'[n] > 0
  <2>1. ticks' = [tk EXCEPT ![m] = IF EventDriven THEN 1 ELSE tk[m] + 1]
    BY <1>1 DEF SendHelloInterest
  <2> QED
    BY <1>0, <1>1, <2>1
<1>2. ASSUME NEW r \in regs, OnRegistrationSuccess(r) PROVE ticks'[n] > 0
  <2>1. CASE r.kind = "adj"
    <3>1. SendHelloInterest(r.nbr, face', ticks)
      BY <1>2, <2>1 DEF OnRegistrationSuccess
    <3>2. r.nbr \in Nbrs /\ ticks \in [Nbrs -> Nat]
      BY <1>0 DEF IInv, TypeOK, Registrations
    <3> QED
      BY <1>1, <3>1, <3>2
  <2>2. CASE r.kind # "adj"
    BY <1>2, <2>2 DEF OnRegistrationSuccess
  <2> QED
    BY <2>1, <2>2
<1>3. ASSUME NEW m \in Nbrs, PeriodicHello(m) PROVE ticks'[n] > 0
  <2> DEFINE tk == [ticks EXCEPT ![m] = @ - 1]
  <2>1. SendHelloInterest(m, face, tk) /\ ticks[m] > 0
    BY <1>3 DEF PeriodicHello
  <2>2. tk \in [Nbrs -> Nat] /\ (m = n \/ tk[n] = ticks[n])
    BY <1>0, <2>1
  <2> HIDE DEF tk
  <2> QED
    BY <1>1, <2>1, <2>2
<1>4. CASE BeginMobilitySweep
  BY <1>4 DEF BeginMobilitySweep, RequestVerificationNow
<1>5. CASE UNCHANGED ticks
  BY <1>5
<1>6. UNCHANGED ticks \/ BeginMobilitySweep
      \/ (\E m \in Nbrs : PeriodicHello(m))
      \/ (\E r \in regs : OnRegistrationSuccess(r))
  BY DEF Next, NfdStep, Answer, Validation, FaceCreated, FaceDestroyed, FaceEventMissed,
         ProcessFaceDataset, OnRegistrationFailure, ProcessInterest, OnContent, OnNack,
         ProcessInterestTimedOut, OnContentValidated, OnContentValidationFailed, StaleCallback,
         BuildTimer, CalculationTimer, vars
<1> QED
  BY <1>2, <1>3, <1>4, <1>5, <1>6

(* A neighbour whose periodic Hello runs never loses it, in either mode:   *)
(* no timer, hint, registration or face event cancels it without re-arming.*)
THEOREM HelloLoopGoesOn == Spec => HelloLoopNeverStops
<1>1. IInv /\ [Next]_vars => [\A n \in Nbrs : ticks[n] > 0 => ticks'[n] > 0]_vars
  BY HelloLoopStep
<1> QED
  BY <1>1, Invariance, PTL DEF Spec, HelloLoopNeverStops

-----------------------------------------------------------------------------
(* HelloProtocol implements OwnAdjLsa *)

(* What a function of the gate may do with the LSA, given the neighbours   *)
(* act that are ACTIVE: leave it, or publish what was due and is not held. *)
Moves(b, c, act) ==
    \/ c.adv = b.adv /\ c.dirty = b.dirty
    \/ b.dirty /\ ~c.dirty /\ c.adv = act /\ ~c.held

LEMMA GateMoves ==
    ASSUME NEW b, GoodBuild(b), NEW act \in SUBSET Nbrs, NEW bld \in BOOLEAN, NEW x \in BOOLEAN
    PROVE  /\ Moves(b, BuildAdjLsa(b, act, bld, x), act)
           /\ Moves(b, RequestImmediateAdjLsaBuild(b, act, bld, x), act)
           /\ Moves(b, ReleaseAdjLsaBuildHold(b, act, bld, x), act)
<1>1. ASSUME NEW c, GoodBuild(c), NEW y \in BOOLEAN PROVE Moves(c, BuildAdjLsa(c, act, bld, y), act)
  BY <1>1 DEF Moves, BuildAdjLsa, GoodBuild, BuildStates, Timers
<1>2. ASSUME NEW c, GoodBuild(c), NEW y \in BOOLEAN
      PROVE  Moves(c, RequestImmediateAdjLsaBuild(c, act, bld, y), act)
  BY <1>1, <1>2 DEF Moves, RequestImmediateAdjLsaBuild
<1>3. Moves(b, ReleaseAdjLsaBuildHold(b, act, bld, x), act)
  BY DEF Moves, ReleaseAdjLsaBuildHold, RequestImmediateAdjLsaBuild, BuildAdjLsa, GoodBuild,
         BuildStates, Timers
<1> QED
  BY <1>1, <1>2, <1>3

(* A reported result leaves the gate alone or releases it. *)
LEMMA ReportMoves ==
    ASSUME NEW b, GoodBuild(b), NEW n, NEW res, NEW st, NEW to, ReportResult(b, n, res, st, to)
    PROVE  /\ Moves(b, build', Active(st))
           /\ ~sweep.active => build' = b
<1>1. Active(st) \in SUBSET Nbrs /\ IsAdjLsaBuildable(st, to) \in BOOLEAN
  BY DEF Active, IsAdjLsaBuildable
<1> DEFINE act == Active(st)
           bld == IsAdjLsaBuildable(st, to)
<1>2. \/ build' = b
      \/ sweep.active /\ \E x \in BOOLEAN : build' = ReleaseAdjLsaBuildHold(b, act, bld, x)
  BY DEF ReportResult, NoteSweepResult, AbortMobilitySweep, CheckSweepCompletion, Gate
<1> HIDE DEF act, bld
<1>3. ASSUME NEW x \in BOOLEAN, build' = ReleaseAdjLsaBuildHold(b, act, bld, x)
      PROVE  Moves(b, build', act)
  BY <1>1, <1>3, GateMoves DEF act, bld
<1>4. build' = b => Moves(b, build', act)
  BY DEF Moves
<1> QED
  BY <1>2, <1>3, <1>4 DEF act

(* A step in which the gate moves, after a change of status was noted, is  *)
(* a step of OwnAdjLsa.                                                    *)
LEMMA MoveIsStep ==
    ASSUME IInv, IInv', calc'.mode = calc.mode, NEW b, Moves(b, build', Active(status')),
           b.adv = build.adv,
           b.dirty = (build.dirty \/ (~HyperbolicOn /\ Active(status') # Active(status))),
           \/ Active(status') = Active(status)
           \/ \E n \in Nbrs : Active(status') \in {Active(status) \cup {n}, Active(status) \ {n}}
    PROVE  OwnLsa!Next
<1>1. HyperbolicOn' = HyperbolicOn
  BY DEF HyperbolicOn
<1>2. OwnLsa!StatusMayChange
  BY <1>1 DEF OwnLsa!StatusMayChange
<1>3. /\ sweep'.active \in BOOLEAN /\ build'.dirty \in BOOLEAN /\ build'.held \in BOOLEAN
      /\ sweep'.active <=> build'.held
  BY DEF IInv, TypeOK, BuildInv, BuildStates
<1>4. b.dirty = OwnLsa!IsDue
  BY DEF OwnLsa!IsDue
<1>5. CASE build'.adv = b.adv /\ build'.dirty = b.dirty
  BY <1>2, <1>3, <1>4, <1>5 DEF OwnLsa!Next, OwnLsa!Observe
<1>6. CASE b.dirty /\ ~build'.dirty /\ build'.adv = Active(status') /\ ~build'.held
  BY <1>2, <1>3, <1>4, <1>6 DEF OwnLsa!Next, OwnLsa!Publish
<1> QED
  BY <1>5, <1>6 DEF Moves

(* A status that is set is noted by the gate exactly if it changes. *)
LEMMA StatusIsNoted ==
    ASSUME IInv, NEW n \in Nbrs, NEW v \in {"ACTIVE", "INACTIVE"},
           status' = [status EXCEPT ![n] = v]
    PROVE  LET b == IF status[n] # v THEN RequestBuild(build) ELSE build
           IN /\ GoodBuild(b) /\ b.adv = build.adv
              /\ b.dirty = (build.dirty \/ (~HyperbolicOn /\ Active(status') # Active(status)))
              /\ \/ Active(status') = Active(status)
                 \/ Active(status') \in {Active(status) \cup {n}, Active(status) \ {n}}
<1>1. status \in [Nbrs -> {"ACTIVE", "INACTIVE"}] /\ GoodBuild(build) /\ build.dirty \in BOOLEAN
  BY DEF IInv, TypeOK, BuildInv, BuildStates
<1>2. CASE status[n] # v
  <2>1. Active(status') # Active(status)
    BY <1>1, <1>2 DEF Active
  <2>2. Active(status') \in {Active(status) \cup {n}, Active(status) \ {n}}
    <3>1. CASE v = "ACTIVE"
      BY <1>1, <3>1 DEF Active
    <3>2. CASE v = "INACTIVE"
      BY <1>1, <3>2 DEF Active
    <3> QED
      BY <3>1, <3>2
  <2>3. /\ GoodBuild(RequestBuild(build)) /\ RequestBuild(build).adv = build.adv
        /\ RequestBuild(build).dirty = (build.dirty \/ ~HyperbolicOn)
    BY <1>1, ScheduleLemma DEF RequestBuild, GoodBuild, BuildStates
  <2> QED
    BY <1>2, <2>1, <2>2, <2>3
<1>3. CASE status[n] = v
  <2>1. status' = status
    BY <1>1, <1>3
  <2> QED
    BY <1>1, <1>3, <2>1
<1> QED
  BY <1>2, <1>3

LEMMA FaceDestroyedRefines ==
    ASSUME IInv, IInv', NEW n \in Nbrs, FaceDestroyed(n) PROVE OwnLsa!Next
<1>0. GoodBuild(build) /\ calc \in [mode : HyperbolicStates, scheduled : BOOLEAN, view : SUBSET Nbrs]
  BY DEF IInv, TypeOK, BuildInv
<1>1. CASE face[n] = "live"
  <2> DEFINE b == IF status[n] # "INACTIVE" THEN RequestBuild(build) ELSE build
  <2>1. /\ status' = [status EXCEPT ![n] = "INACTIVE"]
        /\ calc' \in {calc, RequestCalculation(calc)}
        /\ OnAdjacentFaceDestroyed(n, b, status', timedOut')
    BY <1>1 DEF FaceDestroyed, IInv, TypeOK
  <2>2. /\ GoodBuild(b) /\ b.adv = build.adv
        /\ b.dirty = (build.dirty \/ (~HyperbolicOn /\ Active(status') # Active(status)))
        /\ \/ Active(status') = Active(status)
           \/ Active(status') \in {Active(status) \cup {n}, Active(status) \ {n}}
    BY <2>1, StatusIsNoted
  <2> HIDE DEF b
  <2>3. Moves(b, build', Active(status'))
    <3>1. CASE ReportResult(b, n, "UNREACHABLE", status', timedOut')
      BY <2>2, <3>1, ReportMoves
    <3>2. CASE build' = b
      BY <3>2 DEF Moves
    <3> QED
      BY <2>1, <3>1, <3>2 DEF OnAdjacentFaceDestroyed
  <2>4. calc'.mode = calc.mode
    BY <1>0, <2>1 DEF RequestCalculation
  <2> QED
    BY <2>2, <2>3, <2>4, MoveIsStep
<1>2. CASE face[n] # "live"
  <2>1. UNCHANGED <<status, calc, build>>
    BY <1>2 DEF FaceDestroyed
  <2>2. Moves(build, build', Active(status')) /\ build.dirty \in BOOLEAN
    BY <1>0, <2>1 DEF Moves, GoodBuild, BuildStates
  <2> QED
    BY <2>1, <2>2, MoveIsStep
<1> QED
  BY <1>1, <1>2

LEMMA TimedOutRefines ==
    ASSUME IInv, IInv', NEW f \in flows, ProcessInterestTimedOut(f) PROVE OwnLsa!Next
<1>0. /\ GoodBuild(build) /\ calc \in [mode : HyperbolicStates, scheduled : BOOLEAN, view : SUBSET Nbrs]
      /\ f.nbr \in Nbrs
  BY DEF IInv, TypeOK, BuildInv, Flows
<1>1. CASE GiveUp(f)
  <2> DEFINE n == f.nbr
             b == IF status[n] # "INACTIVE" THEN RequestBuild(build) ELSE build
  <2>1. /\ status' = [status EXCEPT ![n] = "INACTIVE"]
        /\ calc' \in {calc, RequestCalculation(calc)}
        /\ ReportResult(b, n, "UNREACHABLE", status', timedOut')
    BY <1>0, <1>1 DEF GiveUp, IInv, TypeOK
  <2> HIDE DEF n
  <2>2. /\ GoodBuild(b) /\ b.adv = build.adv
        /\ b.dirty = (build.dirty \/ (~HyperbolicOn /\ Active(status') # Active(status)))
        /\ \/ Active(status') = Active(status)
           \/ Active(status') \in {Active(status) \cup {n}, Active(status) \ {n}}
    BY <1>0, <2>1, StatusIsNoted DEF n
  <2> HIDE DEF b
  <2>3. Moves(b, build', Active(status'))
    BY <2>1, <2>2, ReportMoves
  <2>4. calc'.mode = calc.mode
    BY <1>0, <2>1 DEF RequestCalculation
  <2>5. n \in Nbrs
    BY <1>0 DEF n
  <2> QED
    BY <2>2, <2>3, <2>4, <2>5, MoveIsStep
<1>2. CASE UNCHANGED <<status, calc, build>>
  <2>1. Moves(build, build', Active(status')) /\ build.dirty \in BOOLEAN
    BY <1>0, <1>2 DEF Moves, GoodBuild, BuildStates
  <2> QED
    BY <1>2, <2>1, MoveIsStep
<1> QED
  BY <1>1, <1>2 DEF ProcessInterestTimedOut

LEMMA ValidatedRefines ==
    ASSUME IInv, IInv', NEW f \in flows, OnContentValidated(f) PROVE OwnLsa!Next
<1>0. /\ GoodBuild(build) /\ calc \in [mode : HyperbolicStates, scheduled : BOOLEAN, view : SUBSET Nbrs]
      /\ f.nbr \in Nbrs /\ sweep.active \in BOOLEAN /\ (sweep.active => EventDriven)
  BY DEF IInv, TypeOK, BuildInv, Flows, SweepInv
<1> DEFINE n == f.nbr
           b == IF status[n] # "ACTIVE" THEN RequestBuild(build) ELSE build
           c == ReciprocalBuild(b, f, status', timedOut')
<1>1. /\ status' = [status EXCEPT ![n] = "ACTIVE"]
      /\ calc' \in {calc, RequestCalculation(calc)}
      /\ ReportResult(c, n, "REACHABLE", status', timedOut')
  BY DEF OnContentValidated
<1> HIDE DEF n
<1>2. /\ GoodBuild(b) /\ b.adv = build.adv
      /\ b.dirty = (build.dirty \/ (~HyperbolicOn /\ Active(status') # Active(status)))
      /\ \/ Active(status') = Active(status)
         \/ Active(status') \in {Active(status) \cup {n}, Active(status) \ {n}}
  BY <1>0, <1>1, StatusIsNoted DEF n
<1> HIDE DEF b
<1> DEFINE i == RequestImmediateAdjLsaBuild(b, Active(status'), IsAdjLsaBuildable(status', timedOut'), FALSE)
<1>3. c = b \/ (c = i /\ ~sweep.active)
  BY <1>0 DEF ReciprocalBuild
<1>4. Moves(b, i, Active(status'))
  <2>1. Active(status') \in SUBSET Nbrs /\ IsAdjLsaBuildable(status', timedOut') \in BOOLEAN
    BY DEF Active, IsAdjLsaBuildable
  <2> QED
    BY <1>2, <2>1, GateMoves
<1> HIDE DEF c, i
<1>5. Moves(b, build', Active(status'))
  <2>1. CASE c = b
    BY <1>1, <1>2, <2>1, ReportMoves
  <2>2. CASE c = i /\ ~sweep.active
    <3>1. GoodBuild(i)
      <4>1. Active(status') \in SUBSET Nbrs /\ IsAdjLsaBuildable(status', timedOut') \in BOOLEAN
        BY DEF Active, IsAdjLsaBuildable
      <4> QED
        BY <1>2, <4>1 DEF i, RequestImmediateAdjLsaBuild, BuildAdjLsa, GoodBuild, BuildStates, Timers
    <3>2. build' = i
      BY <1>1, <2>2, <3>1, ReportMoves
    <3> QED
      BY <1>4, <3>2
  <2> QED
    BY <1>3, <2>1, <2>2
<1>6. calc'.mode = calc.mode /\ n \in Nbrs
  BY <1>0, <1>1 DEF RequestCalculation, n
<1> QED
  BY <1>2, <1>5, <1>6, MoveIsStep

(* Every step of HelloProtocol is one of OwnAdjLsa, or none.               *)
LEMMA NextRefines == ASSUME IInv, [Next]_vars PROVE [OwnLsa!Next]_(OwnLsa!ownVars)
<1>0. /\ IInv' /\ GoodBuild(build) /\ build.dirty \in BOOLEAN
      /\ calc \in [mode : HyperbolicStates, scheduled : BOOLEAN, view : SUBSET Nbrs]
  BY NextInv DEF IInv, TypeOK, BuildInv, BuildStates
<1>1. ASSUME UNCHANGED status, calc'.mode = calc.mode, Moves(build, build', Active(status))
      PROVE  OwnLsa!Next
  BY <1>0, <1>1, MoveIsStep
<1>2. CASE BuildTimer
  <2>1. Active(status) \in SUBSET Nbrs /\ IsAdjLsaBuildable(status, timedOut) \in BOOLEAN
    BY DEF Active, IsAdjLsaBuildable
  <2>2. Moves(build, build', Active(status))
    BY <1>0, <1>2, <2>1, GateMoves DEF BuildTimer
  <2> QED
    BY <1>1, <1>2, <2>2 DEF BuildTimer
<1>3. CASE BeginMobilitySweep
  <2>1. build'.adv = build.adv /\ build'.dirty = build.dirty
    BY <1>0, <1>3 DEF BeginMobilitySweep, AbortMobilitySweep, HoldAdjLsaBuild,
                      ReleaseAdjLsaBuildHold, Gate, GoodBuild, BuildStates
  <2> QED
    BY <1>1, <1>3, <2>1 DEF BeginMobilitySweep, Moves
<1>4. ASSUME NEW f \in flows, OnContentValidationFailed(f) PROVE OwnLsa!Next
  <2>1. ReportResult(build, f.nbr, "INDETERMINATE", status, timedOut) /\ UNCHANGED <<status, calc>>
    BY <1>4 DEF OnContentValidationFailed
  <2> QED
    BY <1>0, <1>1, <2>1, ReportMoves
<1>5. CASE UNCHANGED <<status, build>> /\ calc'.mode = calc.mode
  BY <1>1, <1>5 DEF Moves
<1>6. \/ UNCHANGED <<status, build, calc>> \/ CalculationTimer \/ BuildTimer \/ BeginMobilitySweep
      \/ \E n \in Nbrs : FaceDestroyed(n)
      \/ \E f \in flows : ProcessInterestTimedOut(f) \/ OnContentValidated(f)
                          \/ OnContentValidationFailed(f)
  BY DEF Next, NfdStep, Answer, Validation, FaceCreated, FaceEventMissed, ProcessFaceDataset,
         OnRegistrationSuccess, OnRegistrationFailure, PeriodicHello, ProcessInterest, OnContent,
         OnNack, StaleCallback, vars
<1>7. CASE CalculationTimer
  <2>1. UNCHANGED <<status, build>> /\ calc'.mode = calc.mode
    BY <1>0, <1>7 DEF CalculationTimer
  <2> QED
    BY <1>5, <2>1
<1> QED
  BY <1>0, <1>2, <1>3, <1>4, <1>5, <1>6, <1>7, FaceDestroyedRefines, TimedOutRefines,
     ValidatedRefines

(* HelloProtocol implements OwnAdjLsa: the own Adjacency LSA goes from one *)
(* true picture of the adjacency list to a later one, never during a       *)
(* sweep, and a change of status stays pending until the LSA has it        *)
(* (scheduleAdjLsaBuild, buildAdjLsa, releaseAdjLsaBuildHold).             *)
THEOREM OwnAdjLsaImplemented == Spec => PublishesOwnAdjLsa
<1>1. Init => OwnLsa!Init
  BY DEF Init, OwnLsa!Init, Active, InitBuild, NoSweep
<1>2. IInv /\ [Next]_vars => [OwnLsa!Next]_(OwnLsa!ownVars)
  BY NextRefines
<1> QED
  BY <1>1, <1>2, Invariance, PTL DEF Spec, PublishesOwnAdjLsa, OwnLsa!Spec
=============================================================================
