---------------------------- MODULE MCHelloModes ----------------------------
(***************************************************************************)
(* HelloProtocol with two neighbours in two configurations.  The extended  *)
(* module is event-driven, with mobility sweeps whose targets' faces come  *)
(* and go; Vanilla has overlapping flows and timer chains, and hyperbolic  *)
(* routing.  mode is chosen at the start, as the configuration is read     *)
(* once; the variables of the configuration that is not in use stand       *)
(* still.                                                                  *)
(***************************************************************************)
EXTENDS HelloProtocol

VARIABLES mode, vStatus, vTimedOut, vFace, vNfd, vRegs, vFlows, vTicks, vSweep, vBuild,
          vCalc, vEnv

vVars == <<vStatus, vTimedOut, vFace, vNfd, vRegs, vFlows, vTicks, vSweep, vBuild, vCalc, vEnv>>

Vanilla == INSTANCE HelloProtocol WITH
    RetryNumber <- 1, RegTries <- 0,
    EventDriven <- FALSE, ResultDriven <- TRUE, HyperbolicStates <- {"on"},
    MaxStale <- 0, MaxTicks <- 2, MaxFaceEvents <- 1, MaxHints <- 0, MaxHellos <- 1,
    status <- vStatus, timedOut <- vTimedOut, face <- vFace, nfd <- vNfd, regs <- vRegs,
    flows <- vFlows, ticks <- vTicks, sweep <- vSweep, build <- vBuild, calc <- vCalc,
    env <- vEnv

Still(v) == v = << >>

StillVanilla ==
    /\ Still(vStatus) /\ Still(vTimedOut) /\ Still(vFace) /\ Still(vNfd)
    /\ Still(vRegs) /\ Still(vFlows) /\ Still(vTicks) /\ Still(vSweep)
    /\ Still(vBuild) /\ Still(vCalc) /\ Still(vEnv)

StillEventDriven == Init /\ nfd = [n \in Nbrs |-> FALSE]

MCInit == \/ mode = "event-driven" /\ Init /\ StillVanilla
          \/ mode = "vanilla" /\ Vanilla!Init /\ StillEventDriven

MCNext == /\ UNCHANGED mode
          /\ \/ mode = "vanilla" /\ Vanilla!Next /\ UNCHANGED vars
             \/ mode = "event-driven" /\ Next /\ UNCHANGED vVars

MCSpec == MCInit /\ [][MCNext]_<<vars, mode, vVars>>

(* HelloProtocol.HelloLoopNeverStops in either configuration: no handler   *)
(* leaves a neighbour without its periodic Hello (sendHelloInterest,       *)
(* requestVerificationNow).                                                *)
EveryHelloLoopGoesOn ==
    [][\A n \in Nbrs :
          /\ ticks[n] > 0 => ticks'[n] > 0
          /\ mode = "vanilla" /\ vTicks[n] > 0 => vTicks'[n] > 0]_<<vars, mode, vVars>>
=============================================================================
