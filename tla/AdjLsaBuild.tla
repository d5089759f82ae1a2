----------------------------- MODULE AdjLsaBuild -----------------------------
(***************************************************************************)
(* The part of Lsdb that decides when this router's own Adjacency LSA is   *)
(* rebuilt: the dirty count, the debounce timer and the publication hold   *)
(* of a mobility sweep (lsdb.cpp, scheduleAdjLsaBuild .. buildAdjLsa).     *)
(*                                                                         *)
(* Every function of Lsdb is an operator from the build state to the build *)
(* state, so that a handler that calls several of them composes them in    *)
(* the order of its calls.  A build state is a record:                     *)
(*   dirty      m_adjBuildCount > 0 (the count is only compared with 0)    *)
(*   held       m_adjLsaBuildHeld                                          *)
(*   scheduled  m_isBuildAdjLsaScheduled                                   *)
(*   timer      m_scheduledAdjLsaBuild: no event, an ordinary build, or a  *)
(*              build that expresses sync after its publication            *)
(*   adv        the neighbours in the installed own Adjacency LSA; {} when *)
(*              the LSDB holds no such LSA                                 *)
(* active and buildable are what AdjacencyList answers at the call.        *)
(***************************************************************************)

CONSTANT Nbrs            \* the configured neighbours

Timers == {"none", "plain", "settle"}

BuildStates == [dirty : BOOLEAN, held : BOOLEAN, scheduled : BOOLEAN,
                timer : Timers, adv : SUBSET Nbrs]

InitBuild == [dirty |-> FALSE, held |-> FALSE, scheduled |-> FALSE,
              timer |-> "none", adv |-> {}]

-----------------------------------------------------------------------------
(* Mutated forms: plausible slips in the functions below, each the subject *)
(* of one mutant of PROJECT.json.                                          *)

ScheduleLosesDirty(b) ==
    IF b.held THEN b
    ELSE [b EXCEPT !.dirty = TRUE, !.scheduled = TRUE, !.timer = "plain"]

HoldForgetsFlag(b) == [b EXCEPT !.scheduled = FALSE, !.timer = "none"]

ReleaseForgetsDebounce(b, active, buildable, immediateIfDirty) ==
    IF ~b.held THEN b ELSE [b EXCEPT !.held = FALSE]

-----------------------------------------------------------------------------
(* Marks the own LSA dirty and (re)starts the debounce timer, which a held *)
(* build never gets.                                                       *)
ScheduleAdjLsaBuild(b) ==
    IF b.held THEN [b EXCEPT !.dirty = TRUE]
    ELSE [b EXCEPT !.dirty = TRUE, !.scheduled = TRUE, !.timer = "plain"]

(* The build itself, from the timer or from a direct call: suppressed by   *)
(* the hold; postponed while the adjacency list is not buildable; else it  *)
(* installs an LSA with the active neighbours, or removes the LSA when     *)
(* there are none.                                                         *)
BuildAdjLsa(b, active, buildable, settle) ==
    LET consumed == [b EXCEPT !.scheduled = FALSE, !.timer = "none"]
    IN CASE b.held -> consumed
         [] ~b.held /\ buildable ->
              IF b.dirty THEN [consumed EXCEPT !.dirty = FALSE, !.adv = active]
              ELSE consumed
         [] ~b.held /\ ~buildable ->
              [consumed EXCEPT !.scheduled = TRUE,
                               !.timer = IF settle THEN "settle" ELSE "plain"]

(* Runs an outstanding build now instead of after its delay. *)
RequestImmediateAdjLsaBuild(b, active, buildable, settle) ==
    IF b.held \/ ~b.dirty THEN b
    ELSE BuildAdjLsa(b, active, buildable, settle)

HoldKeepsScheduledFlag(b) == [b EXCEPT !.held = TRUE, !.timer = "none"]

(* Starts the hold: the timer goes, the dirty count stays. *)
HoldAdjLsaBuild(b) ==
    [b EXCEPT !.held = TRUE, !.scheduled = FALSE, !.timer = "none"]

(* Ends the hold: a dirty LSA is built at once (settle) or gets one        *)
(* ordinary debounce (abort).                                              *)
ReleaseAdjLsaBuildHold(b, active, buildable, immediateIfDirty) ==
    LET released == [b EXCEPT !.held = FALSE]
    IN CASE ~b.held -> b
         [] b.held /\ ~b.dirty -> released
         [] b.held /\ b.dirty /\ immediateIfDirty ->
              RequestImmediateAdjLsaBuild(released, active, buildable, TRUE)
         [] b.held /\ b.dirty /\ ~immediateIfDirty ->
              [released EXCEPT !.scheduled = TRUE, !.timer = "plain"]
=============================================================================
