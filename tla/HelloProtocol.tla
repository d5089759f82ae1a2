---------------------------- MODULE HelloProtocol ----------------------------
(***************************************************************************)
(* One NLSR router's view of its neighbours: the Hello protocol            *)
(* (hello-protocol.cpp), the adjacency list it maintains                   *)
(* (adjacency-list.cpp), the face events and prefix registrations that     *)
(* start it (nlsr.cpp, fib.cpp) and the mobility sweep that holds back the *)
(* own Adjacency LSA (through AdjLsaBuild).                                *)
(*                                                                         *)
(* EventDriven is event-driven-adjacency-verification: off is the vanilla  *)
(* flow, on the owned flow, in which ctrl.flowToken makes one Interest per *)
(* neighbour authoritative.  The token is only ever compared for equality  *)
(* with the current one, so a flow carries a flag current and ++flowToken  *)
(* is Supersede, which makes every flow of the neighbour stale.            *)
(*                                                                         *)
(* NFD is external: it creates and destroys faces, answers registrations,  *)
(* and a Hello Interest ends in Data, a Nack or a timeout.  A face id is   *)
(* known here only as none (0), live (the face NFD has now) or dead (the   *)
(* id of a face NFD has destroyed).                                        *)
(***************************************************************************)
EXTENDS AdjLsaBuild, Integers, FiniteSets

CONSTANTS
    RetryNumber,       \* hello-retries
    EventDriven,       \* event-driven-adjacency-verification
    ResultDriven,      \* result-driven-adj-lsa-build
    HyperbolicStates,  \* the hyperbolic states to start with, of "off", "dry-run" and "on"
    RegTries,          \* retries of a failed prefix registration (3 in fib.cpp)
    FlowIds,           \* bound: Hello flows per neighbour with the current token
    MaxStale,          \* bound: superseded flows per neighbour still under way
    MaxTicks,          \* bound: periodic Hello timers per neighbour
    MaxFaceEvents,     \* bound: changes of NFD's faces
    MaxHints,          \* bound: attachment-change hints
    MaxHellos          \* bound: reciprocal Hellos that neighbours' Interests cause

(* Neighbours are numbered in the order of their names, the order in which *)
(* a std::set of them is walked.                                           *)
ASSUME ConstantsAssumption ==
    /\ Nbrs \subseteq Nat
    /\ RetryNumber \in Nat \ {0}
    /\ EventDriven \in BOOLEAN
    /\ ResultDriven \in BOOLEAN
    /\ HyperbolicStates \subseteq {"off", "dry-run", "on"}
    /\ RegTries \in Nat
    /\ MaxStale \in Nat
    /\ MaxTicks \in Nat \ {0}
    /\ MaxFaceEvents \in Nat
    /\ MaxHints \in Nat
    /\ MaxHellos \in Nat

VARIABLES
    status,            \* Adjacent::m_status
    timedOut,          \* Adjacent::m_interestTimedOutNo, saturated at RetryNumber
    face,              \* Adjacent::m_faceId
    nfd,               \* whether NFD has a face to the neighbour
    regs,              \* registrations NFD has not answered yet
    flows,             \* Hello Interests and what became of them so far
    ticks,             \* number of scheduled sendHelloInterest events
    sweep,             \* m_sweep
    build,             \* the own Adjacency LSA and its build
    calc,              \* the hyperbolic state, and the routing calculation asked for under it
    env                \* how much of the environment's bounds is used

vars == <<status, timedOut, face, nfd, regs, flows, ticks, sweep, build, calc, env>>

Phases == {"pending", "validating", "nackDelay"}

Flows == [id : FlowIds, nbr : Nbrs, recip : BOOLEAN, phase : Phases, current : BOOLEAN]

(* kind "adj" is a registration of the neighbour's own name, "other" one   *)
(* of the LSA or the sync prefix on the neighbour's face.                  *)
Registrations == [nbr : Nbrs, kind : {"adj", "other"}, face : {"live", "dead"},
                  times : 0..RegTries]

Results == {"none", "REACHABLE", "UNREACHABLE"}

NoSweep == [active |-> FALSE, targets |-> {}, results |-> [n \in Nbrs |-> "none"]]

TypeOK ==
    /\ status \in [Nbrs -> {"ACTIVE", "INACTIVE"}]
    /\ timedOut \in [Nbrs -> 0..RetryNumber]
    /\ face \in [Nbrs -> {"none", "live", "dead"}]
    /\ nfd \in [Nbrs -> BOOLEAN]
    /\ regs \subseteq Registrations
    /\ flows \subseteq Flows
    /\ ticks \in [Nbrs -> 0..MaxTicks]
    /\ sweep \in [active : BOOLEAN, targets : SUBSET Nbrs, results : [Nbrs -> Results]]
    /\ build \in BuildStates
    /\ calc \in [mode : HyperbolicStates, scheduled : BOOLEAN, view : SUBSET Nbrs]
    /\ env \in [faces : 0..MaxFaceEvents, hints : 0..MaxHints, hellos : 0..MaxHellos]

(* NLSR starts with every neighbour INACTIVE and without a face id; NFD    *)
(* may already have faces.                                                 *)
Init ==
    /\ status = [n \in Nbrs |-> "INACTIVE"]
    /\ timedOut = [n \in Nbrs |-> 0]
    /\ face = [n \in Nbrs |-> "none"]
    /\ nfd \in [Nbrs -> BOOLEAN]
    /\ regs = {}
    /\ flows = {}
    /\ ticks = [n \in Nbrs |-> 0]
    /\ sweep = NoSweep
    /\ build = InitBuild
    /\ calc \in [mode : HyperbolicStates, scheduled : {FALSE}, view : {{}}]
    /\ env = [faces |-> 0, hints |-> 0, hellos |-> 0]

-----------------------------------------------------------------------------
(* AdjacencyList *)

Active(st) == {n \in Nbrs : st[n] = "ACTIVE"}

(* isAdjLsaBuildable: true as soon as one neighbour is ACTIVE. *)
IsAdjLsaBuildable(st, to) ==
    \/ Active(st) # {}
    \/ \A n \in Nbrs : to[n] >= RetryNumber

(* incrementTimedOutInterestCount; the count is only ever compared with    *)
(* RetryNumber, so it need not grow beyond it.                             *)
IncrementTimedOut(c) == IF c < RetryNumber THEN c + 1 ELSE c

HyperbolicOn == calc.mode = "on"

RequestCalculationInDryRun(c) ==
    IF c.mode = "dry-run" THEN [c EXCEPT !.scheduled = TRUE] ELSE c

(* What a change of some neighbour's status does: under hyperbolic routing *)
(* it asks for a routing calculation, else for a build of the own LSA.     *)
RequestBuild(b) == IF HyperbolicOn THEN b ELSE ScheduleAdjLsaBuild(b)

RequestCalculation(c) == IF HyperbolicOn THEN [c EXCEPT !.scheduled = TRUE] ELSE c

-----------------------------------------------------------------------------
(* Hello Interests in flight *)

FlowsOf(fl, n) == {f \in fl : f.nbr = n}

(* Ids keep flows with the current token apart. *)
Free(fl, n) == {i \in FlowIds : \A f \in FlowsOf(fl, n) : f.current => f.id # i}

SupersedeKeepsToken(fl, n) == fl

(* ++flowToken, nackDelayEvent.cancel() and pendingInterest.cancel(). The  *)
(* scheduler drops the event at once; the cancel of an Interest is         *)
(* asynchronous and nothing stops a validation, so those live on, stale.   *)
Supersede(fl, n) ==
    (fl \ FlowsOf(fl, n)) \cup
    {[f EXCEPT !.current = FALSE] : f \in {g \in FlowsOf(fl, n) : g.phase # "nackDelay"}}

(* expressInterestVanilla and expressInterestOwned *)
ExpressInterest(fl, n, isReciprocal) ==
    fl \cup {[id |-> CHOOSE i \in Free(fl, n) : TRUE, nbr |-> n,
              recip |-> isReciprocal, phase |-> "pending", current |-> TRUE]}

(* A new flow for n: the only authoritative one in event-driven mode, one  *)
(* more in vanilla mode. *)
NewFlow(fl, n, isReciprocal) ==
    ExpressInterest(IF EventDriven THEN Supersede(fl, n) ELSE fl, n, isReciprocal)

AuthoritativeAlways(f) == TRUE

(* The token check at the head of every callback. *)
Authoritative(f) == EventDriven => f.current

NoRearmWithoutFace(n, fc, tk) ==
    /\ flows' = IF fc[n] # "none" THEN NewFlow(flows, n, FALSE) ELSE flows
    /\ ticks' = IF fc[n] = "none" THEN tk
                ELSE [tk EXCEPT ![n] = IF EventDriven THEN 1 ELSE @ + 1]

(* sendHelloInterest(n), given the face ids and the timers it finds: an    *)
(* Interest if n has a face, and the next periodic event, which replaces   *)
(* the pending one in event-driven mode and comes on top in vanilla mode.  *)
SendHelloInterest(n, fc, tk) ==
    /\ flows' = CASE fc[n] # "none" -> NewFlow(flows, n, FALSE)
                  [] fc[n] = "none" /\ EventDriven -> Supersede(flows, n)
                  [] fc[n] = "none" /\ ~EventDriven -> flows
    /\ ticks' = [tk EXCEPT ![n] = IF EventDriven THEN 1 ELSE @ + 1]

-----------------------------------------------------------------------------
(* The mobility sweep.  These operators take and return a pair of the      *)
(* sweep and the build state, which it holds.                              *)

Gate(s, b) == [sweep |-> s, build |-> b]

AbortMobilitySweep(g, act, bld) ==
    IF g.sweep.active
    THEN Gate(NoSweep, ReleaseAdjLsaBuildHold(g.build, act, bld, FALSE))
    ELSE g

(* checkSweepCompletion *)
CheckSweepCompletion(g, act, bld) ==
    IF \A n \in g.sweep.targets : g.sweep.results[n] # "none"
    THEN Gate(NoSweep, ReleaseAdjLsaBuildHold(g.build, act, bld, TRUE))
    ELSE g

(* noteSweepResult *)
NoteSweepResult(g, n, result, act, bld) ==
    CASE ~g.sweep.active \/ n \notin g.sweep.targets -> g
      [] g.sweep.active /\ n \in g.sweep.targets /\ result = "INDETERMINATE" ->
           AbortMobilitySweep(g, act, bld)
      [] g.sweep.active /\ n \in g.sweep.targets /\ result # "INDETERMINATE" ->
           CheckSweepCompletion([g EXCEPT !.sweep.results[n] = result], act, bld)

(* The result a callback reports, only in event-driven mode. *)
ReportResult(b, n, result, st, to) ==
    LET g == NoteSweepResult(Gate(sweep, b), n, result,
                             Active(st), IsAdjLsaBuildable(st, to))
    IN /\ sweep' = IF EventDriven THEN g.sweep ELSE sweep
       /\ build' = IF EventDriven THEN g.build ELSE b

BuildSweepTargets == {n \in Nbrs : status[n] = "ACTIVE" \/ face[n] # "none"}

-----------------------------------------------------------------------------
(* Faces and registrations: Nlsr and Fib *)

RegisterWithoutFace(r, fc, n, kind, times) ==
    r \cup {[nbr |-> n, kind |-> kind, face |-> fc[n], times |-> times]}

(* Fib::registerPrefix for a prefix on n's face: nothing without a face id. *)
RegisterPrefix(r, fc, n, kind, times) ==
    IF fc[n] = "none" THEN r
    ELSE r \cup {[nbr |-> n, kind |-> kind, face |-> fc[n], times |-> times]}

(* registerAdjacencyPrefixes: the neighbour's name and the LSA prefix *)
RegisterAdjacencyPrefixes(r, fc, n) ==
    RegisterPrefix(RegisterPrefix(r, fc, n, "adj", 0), fc, n, "other", 0)

FaceEvent == /\ env.faces < MaxFaceEvents
             /\ env' = [env EXCEPT !.faces = @ + 1]

(* FACE_EVENT_CREATED *)
FaceCreated(n) ==
    /\ FaceEvent
    /\ ~nfd[n]
    /\ nfd' = [nfd EXCEPT ![n] = TRUE]
    /\ face' = [face EXCEPT ![n] = "live"]
    /\ regs' = RegisterAdjacencyPrefixes(regs, face', n)
    /\ UNCHANGED <<status, timedOut, flows, ticks, sweep, build, calc>>

(* NFD forgets n's face: its id is dead wherever it is remembered. *)
RegsAfterDestroy(n) ==
    {IF r.nbr = n THEN [r EXCEPT !.face = "dead"] ELSE r : r \in regs}

DestroyKeepsFlow(n, b, st, to) ==
    /\ flows' = flows
    /\ ReportResult(b, n, "UNREACHABLE", st, to)

IgnoresFaceDestroy(n, b, st, to) ==
    /\ build' = b
    /\ UNCHANGED <<flows, sweep>>

(* HelloProtocol::onAdjacentFaceDestroyed *)
OnAdjacentFaceDestroyed(n, b, st, to) ==
    IF EventDriven /\ sweep.active /\ n \in sweep.targets
    THEN /\ flows' = Supersede(flows, n)
         /\ ReportResult(b, n, "UNREACHABLE", st, to)
    ELSE /\ build' = b
         /\ UNCHANGED <<flows, sweep>>

(* FACE_EVENT_DESTROYED *)
FaceDestroyed(n) ==
    /\ FaceEvent
    /\ nfd[n]
    /\ nfd' = [nfd EXCEPT ![n] = FALSE]
    /\ regs' = RegsAfterDestroy(n)
    /\ IF face[n] = "live"
       THEN /\ face' = [face EXCEPT ![n] = "none"]
            /\ status' = [status EXCEPT ![n] = "INACTIVE"]
            /\ timedOut' = [timedOut EXCEPT ![n] =
                               IF status[n] = "ACTIVE" THEN RetryNumber ELSE @]
            /\ calc' = IF status[n] = "ACTIVE" THEN RequestCalculation(calc) ELSE calc
            /\ OnAdjacentFaceDestroyed(n,
                   IF status[n] = "ACTIVE" THEN RequestBuild(build) ELSE build,
                   status', timedOut')
       ELSE UNCHANGED <<face, status, timedOut, calc, flows, sweep, build>>
    /\ UNCHANGED ticks

(* The notification stream may skip an event; the face dataset, fetched    *)
(* periodically, is the code's backup for it.                              *)
FaceEventMissed(n) ==
    /\ FaceEvent
    /\ nfd' = [nfd EXCEPT ![n] = ~nfd[n]]
    /\ regs' = IF nfd[n] THEN RegsAfterDestroy(n) ELSE regs
    /\ face' = IF face[n] = "live" THEN [face EXCEPT ![n] = "dead"] ELSE face
    /\ UNCHANGED <<status, timedOut, flows, ticks, sweep, build, calc>>

(* processFaceDataset *)
ProcessFaceDataset ==
    LET found == {n \in Nbrs : face[n] = "none" /\ nfd[n]}
    IN /\ found # {}
       /\ face' = [n \in Nbrs |-> IF n \in found THEN "live" ELSE face[n]]
       /\ regs' = UNION {RegisterAdjacencyPrefixes(regs, face', n) : n \in found}
       /\ UNCHANGED <<status, timedOut, nfd, flows, ticks, sweep, build, calc, env>>

(* The bounds on flows leave room for another one of n. *)
HasRoom(n) ==
    /\ Free(IF EventDriven THEN Supersede(flows, n) ELSE flows, n) # {}
    /\ Cardinality({f \in FlowsOf(flows, n) : ~f.current}) < MaxStale \/ ~EventDriven

(* onRegistrationSuccess and the handler of onPrefixRegistrationSuccess:   *)
(* the id in the answer becomes the neighbour's face id, and an answer for *)
(* the neighbour's own name starts its Hello Interests.                    *)
OnRegistrationSuccess(r) ==
    /\ regs' = regs \ {r}
    /\ face' = [face EXCEPT ![r.nbr] = r.face]
    /\ IF r.kind = "adj"
       THEN /\ HasRoom(r.nbr)
            /\ ~EventDriven => ticks[r.nbr] < MaxTicks
            /\ SendHelloInterest(r.nbr, face', ticks)
       ELSE UNCHANGED <<flows, ticks>>
    /\ UNCHANGED <<status, timedOut, nfd, sweep, build, calc, env>>

(* onRegistrationFailure: again, on the face id of the moment *)
OnRegistrationFailure(r) ==
    /\ regs' = IF r.times < RegTries
               THEN RegisterPrefix(regs \ {r}, face, r.nbr, r.kind, r.times + 1)
               ELSE regs \ {r}
    /\ UNCHANGED <<status, timedOut, face, nfd, flows, ticks, sweep, build, calc, env>>

-----------------------------------------------------------------------------
(* Hello handlers *)

(* The periodic event: sendHelloInterest *)
PeriodicHello(n) ==
    /\ ticks[n] > 0
    /\ HasRoom(n)
    /\ SendHelloInterest(n, face, [ticks EXCEPT ![n] = @ - 1])
    /\ UNCHANGED <<status, timedOut, face, nfd, regs, sweep, build, calc, env>>

(* processInterest: a Hello Interest of neighbour n is always answered, and *)
(* from an INACTIVE neighbour with a face it starts a reciprocal Hello.     *)
ProcessInterest(n) ==
    /\ nfd[n]
    /\ status[n] = "INACTIVE" /\ face[n] # "none"
    /\ HasRoom(n)
    /\ env.hellos < MaxHellos
    /\ env' = [env EXCEPT !.hellos = @ + 1]
    /\ flows' = NewFlow(flows, n, TRUE)
    /\ UNCHANGED <<status, timedOut, face, nfd, regs, ticks, sweep, build, calc>>

(* Data for the Interest: validation starts.  onContent itself looks at no *)
(* token; that the Data of a stale flow is looked at and then ignored is   *)
(* part of StaleCallback.                                                  *)
OnContent(f) ==
    /\ f.phase = "pending" /\ Authoritative(f) /\ nfd[f.nbr]
    /\ flows' = (flows \ {f}) \cup {[f EXCEPT !.phase = "validating"]}
    /\ UNCHANGED <<status, timedOut, face, nfd, regs, ticks, sweep, build, calc, env>>

(* A Nack counts as a timeout after twice the Interest's lifetime. *)
OnNack(f) ==
    /\ f.phase = "pending" /\ Authoritative(f)
    /\ flows' = (flows \ {f}) \cup {[f EXCEPT !.phase = "nackDelay"]}
    /\ UNCHANGED <<status, timedOut, face, nfd, regs, ticks, sweep, build, calc, env>>

GiveUpKeepsStatus(f) ==
    /\ flows' = flows \ {f}
    /\ UNCHANGED <<status, calc>>
    /\ ReportResult(build, f.nbr, "UNREACHABLE", status, timedOut')

(* The end of a flow that found no answer RetryNumber times in a row. *)
GiveUp(f) ==
    LET n == f.nbr
    IN /\ flows' = flows \ {f}
       /\ status' = [status EXCEPT ![n] = "INACTIVE"]
       /\ calc' = IF status[n] = "ACTIVE" THEN RequestCalculation(calc) ELSE calc
       /\ ReportResult(IF status[n] = "ACTIVE" THEN RequestBuild(build) ELSE build,
                       n, "UNREACHABLE", status', timedOut')

(* processInterestTimedOut, from the Interest's timeout or the Nack delay *)
ProcessInterestTimedOut(f) ==
    /\ f.phase \in {"pending", "nackDelay"} /\ Authoritative(f)
    /\ timedOut' = [timedOut EXCEPT ![f.nbr] = IncrementTimedOut(@)]
    /\ IF timedOut'[f.nbr] < RetryNumber
       THEN /\ flows' = ExpressInterest(flows \ {f}, f.nbr, f.recip)
            /\ UNCHANGED <<status, sweep, build, calc>>
       ELSE GiveUp(f)
    /\ UNCHANGED <<face, nfd, regs, ticks, env>>

(* The build a validated reciprocal Hello asks for at once, unless a sweep *)
(* is going to.                                                            *)
ReciprocalBuild(b, f, st, to) ==
    IF /\ f.recip /\ ResultDriven /\ ~HyperbolicOn
       /\ ~(EventDriven /\ sweep.active)
    THEN RequestImmediateAdjLsaBuild(b, Active(st), IsAdjLsaBuildable(st, to), FALSE)
    ELSE b

(* onContentValidated *)
OnContentValidated(f) ==
    LET n == f.nbr
        changed == status[n] # "ACTIVE"
    IN /\ f.phase = "validating" /\ Authoritative(f)
       /\ flows' = flows \ {f}
       /\ status' = [status EXCEPT ![n] = "ACTIVE"]
       /\ timedOut' = [timedOut EXCEPT ![n] = 0]
       /\ calc' = IF changed THEN RequestCalculation(calc) ELSE calc
       /\ regs' = IF changed THEN RegisterPrefix(regs, face, n, "other", 0) ELSE regs
       /\ ReportResult(ReciprocalBuild(IF changed THEN RequestBuild(build) ELSE build,
                                       f, status', timedOut'),
                       n, "REACHABLE", status', timedOut')
       /\ UNCHANGED <<face, nfd, ticks, env>>

FailureUnreported(f) ==
    /\ f.phase = "validating" /\ Authoritative(f)
    /\ flows' = flows \ {f}
    /\ UNCHANGED <<status, timedOut, face, nfd, regs, ticks, sweep, build, calc, env>>

(* onContentValidationFailed *)
OnContentValidationFailed(f) ==
    /\ f.phase = "validating" /\ Authoritative(f)
    /\ flows' = flows \ {f}
    /\ ReportResult(build, f.nbr, "INDETERMINATE", status, timedOut)
    /\ UNCHANGED <<status, timedOut, face, nfd, regs, ticks, calc, env>>

(* What becomes of a superseded flow: its callback finds another token, or *)
(* the cancel reached the face in time.                                    *)
StaleCallback(f) ==
    /\ ~Authoritative(f)
    /\ flows' = flows \ {f}
    /\ UNCHANGED <<status, timedOut, face, nfd, regs, ticks, sweep, build, calc, env>>

(* The neighbours beginMobilitySweep verifies: in the order of their names *)
(* up to the first without a face, whose indeterminate result ends the     *)
(* sweep.  A target without a face is ACTIVE (BuildSweepTargets), so the   *)
(* UNREACHABLE branch of requestVerificationNow has no target to take.     *)
Verified(targets) ==
    {n \in targets : \A m \in targets : m < n => face[m] # "none"}

(* requestVerificationNow for each of them *)
RequestVerificationNow(targets) ==
    /\ timedOut' = [n \in Nbrs |-> IF n \in Verified(targets) THEN 0 ELSE timedOut[n]]
    /\ ticks' = [n \in Nbrs |-> IF n \in Verified(targets) THEN 1 ELSE ticks[n]]
    /\ flows' = UNION {FlowsOf(IF n \notin Verified(targets) THEN flows
                               ELSE IF face[n] = "none" THEN Supersede(flows, n)
                               ELSE NewFlow(flows, n, FALSE), n) : n \in Nbrs}

(* onAttachmentChangeHint, beginMobilitySweep *)
BeginMobilitySweep ==
    LET targets == BuildSweepTargets
        held == IF sweep.active THEN build ELSE HoldAdjLsaBuild(build)
        begun == Gate([NoSweep EXCEPT !.active = TRUE, !.targets = targets], held)
        g == IF targets = {} \/ \E n \in targets : face[n] = "none"
             THEN AbortMobilitySweep(begun, Active(status),
                                     IsAdjLsaBuildable(status, timedOut'))
             ELSE begun
    IN /\ EventDriven
       /\ env.hints < MaxHints
       /\ env' = [env EXCEPT !.hints = @ + 1]
       /\ \A n \in targets : HasRoom(n)
       /\ RequestVerificationNow(targets)
       /\ sweep' = g.sweep
       /\ build' = g.build
       /\ UNCHANGED <<status, face, nfd, regs, calc>>

(* The timer of the own LSA's build *)
BuildTimer ==
    /\ build.timer # "none"
    /\ build' = BuildAdjLsa(build, Active(status), IsAdjLsaBuildable(status, timedOut),
                            build.timer = "settle")
    /\ UNCHANGED <<status, timedOut, face, nfd, regs, flows, ticks, sweep, calc, env>>

(* The routing calculation under hyperbolic routing reads the adjacency    *)
(* list when it runs.                                                      *)
CalculationTimer ==
    /\ calc.scheduled
    /\ calc' = [calc EXCEPT !.scheduled = FALSE, !.view = Active(status)]
    /\ UNCHANGED <<status, timedOut, face, nfd, regs, flows, ticks, sweep, build, env>>

-----------------------------------------------------------------------------
NfdStep == \/ \E n \in Nbrs : FaceCreated(n) \/ FaceDestroyed(n) \/ FaceEventMissed(n)
           \/ ProcessFaceDataset
           \/ \E r \in regs : OnRegistrationSuccess(r) \/ OnRegistrationFailure(r)

Answer(f) == OnContent(f) \/ OnNack(f) \/ ProcessInterestTimedOut(f)

Validation(f) == OnContentValidated(f) \/ OnContentValidationFailed(f)

Next ==
    \/ NfdStep
    \/ \E n \in Nbrs : PeriodicHello(n) \/ ProcessInterest(n)
    \/ \E f \in flows : Answer(f) \/ Validation(f) \/ StaleCallback(f)
    \/ BeginMobilitySweep
    \/ BuildTimer
    \/ CalculationTimer

Spec == Init /\ [][Next]_vars

(* What the event loop and the network guarantee.  Timers fire; an         *)
(* Interest is answered or times out, NFD answers a registration, the      *)
(* validator decides.  A periodic Hello supersedes the flow in progress,   *)
(* but hello-interval (>= 30 s) exceeds hello-timeout (<= 15 s) and, with  *)
(* the default timeout of 1 s, the Nack delay of twice that: a flow is not *)
(* superseded every time before it is answered, hence strong fairness.     *)
Fairness ==
    /\ \A n \in Nbrs :
         /\ WF_vars(PeriodicHello(n))
         /\ SF_vars(\E f \in FlowsOf(flows, n) : f.phase = "pending" /\ f.current /\ Answer(f))
         /\ SF_vars(\E f \in FlowsOf(flows, n) : f.phase = "nackDelay" /\ Answer(f))
         /\ SF_vars(\E f \in FlowsOf(flows, n) : Validation(f))
         /\ WF_vars(\E f \in FlowsOf(flows, n) : StaleCallback(f))
         /\ WF_vars(\E r \in regs : /\ r.nbr = n
                                    /\ OnRegistrationSuccess(r) \/ OnRegistrationFailure(r))
    /\ WF_vars(ProcessFaceDataset)
    /\ WF_vars(BuildTimer)
    /\ WF_vars(CalculationTimer)

FairSpec == Spec /\ Fairness

-----------------------------------------------------------------------------
(* Safety *)

(* The hold on the own Adjacency LSA lasts exactly as long as a mobility   *)
(* sweep: beginMobilitySweep takes it, completion and abort give it back,  *)
(* a replacing sweep neither drops nor doubles it.                         *)
SweepHoldsBuild == sweep.active <=> build.held

(* In event-driven mode at most one Interest, validation or Nack delay per *)
(* neighbour carries the current token, however ticks, retries, reciprocal *)
(* Hellos, hints and face events interleave.                               *)
OneAuthoritativeFlow ==
    EventDriven => \A f, g \in flows : /\ f.nbr = g.nbr
                                       /\ f.current
                                       /\ g.current
                                       => f = g

(* A sweep never waits for nobody: a target without a result has an        *)
(* authoritative flow under way that will report one.                      *)
TargetIsProbed ==
    sweep.active => \A n \in sweep.targets :
        sweep.results[n] = "none" => \E f \in flows : f.nbr = n /\ f.current

(* The results a sweep settles on are the status it publishes: REACHABLE   *)
(* targets are ACTIVE and UNREACHABLE ones INACTIVE, also when a later     *)
(* timeout, Data or face event overtakes a recorded result.                *)
ResultsMatchStatus ==
    sweep.active => \A n \in sweep.targets :
        /\ sweep.results[n] = "REACHABLE" => status[n] = "ACTIVE"
        /\ sweep.results[n] = "UNREACHABLE" => status[n] = "INACTIVE"

(* onAdjacentFaceDestroyed: once a target's face is gone, no Data still    *)
(* under way for it makes it ACTIVE again during the sweep.                *)
NoRevivalDuringSweep ==
    sweep.active => \A n \in sweep.targets : face[n] = "none" => status[n] = "INACTIVE"

(* The installed own Adjacency LSA lists the ACTIVE neighbours, or a       *)
(* correction is on its way: the LSA is dirty and either a sweep holds the *)
(* build or its timer runs.                                                *)
StaleLsaIsPending ==
    /\ ~HyperbolicOn /\ build.adv # Active(status) => build.dirty
    /\ build.dirty /\ ~build.held => build.timer # "none"

(* m_isBuildAdjLsaScheduled, on which every link-state calculation gives   *)
(* up, tells the truth about the build timer.                              *)
ScheduledFlagIsTrue == build.scheduled <=> build.timer # "none"

(* Under hyperbolic routing a change of status since the last calculation  *)
(* has another one scheduled.                                              *)
StaleRoutesArePending ==
    HyperbolicOn /\ calc.view # Active(status) => calc.scheduled

(* No step installs, changes or removes the own Adjacency LSA and leaves a *)
(* sweep active.                                                           *)
NoPublicationDuringSweep == [][sweep'.active => build'.adv = build.adv]_vars

OwnLsa == INSTANCE OwnAdjLsa WITH
    wanted <- ~HyperbolicOn, active <- Active(status), advertised <- build.adv,
    pending <- build.dirty, frozen <- sweep.active

(* The Hello protocol with the build gate implements OwnAdjLsa: whatever   *)
(* callbacks, sweeps, timers and face events interleave, the own Adjacency *)
(* LSA goes from one true picture of the adjacency list to a later one, at *)
(* no time during a sweep, and forgets no change (scheduleAdjLsaBuild,     *)
(* buildAdjLsa and their callers).                                         *)
PublishesOwnAdjLsa == OwnLsa!Spec

(* Every handler that cancels a neighbour's periodic Hello re-arms it, and *)
(* sendHelloInterest does so also without a face.                          *)
HelloLoopNeverStops == [][\A n \in Nbrs : ticks[n] > 0 => ticks'[n] > 0]_vars

-----------------------------------------------------------------------------
(* Liveness *)

(* Once hints stop, the sweep completes or aborts, so the own LSA is not   *)
(* held for ever.                                                          *)
SweepEnds == sweep.active ~> ~sweep.active

(* A neighbour NFD has lost does not stay ACTIVE: Hello timeouts find out  *)
(* even if the face event was missed.  Excepted are a neighbour without    *)
(* periodic Hello or without a face id, to which no Hello is sent.         *)
DeadNeighborFound ==
    \A n \in Nbrs :
        status[n] = "ACTIVE" /\ ~nfd[n]
            ~> status[n] = "INACTIVE" \/ nfd[n] \/ face[n] = "none" \/ ticks[n] = 0

(* Nobody probes n and its status stays unknown. *)
Unprobed(n) ==
    status[n] = "INACTIVE" /\ timedOut[n] < RetryNumber /\ (face[n] = "none" \/ ticks[n] = 0)

(* The own LSA, or the hyperbolic calculation, catches up with the         *)
(* adjacency list, unless the build waits for a neighbour nobody probes or *)
(* one whose Data never stops failing validation, which counts neither as  *)
(* an answer nor as a timeout.                                             *)
LsaCatchesUp ==
    /\ <>[][\A f \in flows : ~OnContentValidationFailed(f)]_vars =>
          (~HyperbolicOn /\ build.adv # Active(status)
              ~> build.adv = Active(status) \/ \E n \in Nbrs : Unprobed(n))
    /\ HyperbolicOn /\ calc.view # Active(status) ~> calc.view = Active(status)

=============================================================================
