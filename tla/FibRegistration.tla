--------------------------- MODULE FibRegistration ---------------------------
(***************************************************************************)
(* One FIB entry and the routes NFD holds for it (fib.cpp).  Fib sends     *)
(* rib/register and rib/unregister commands without waiting for answers,   *)
(* retries failed registrations, never retries failed unregistrations,     *)
(* and registers the whole entry again before its routes expire.           *)
(*                                                                         *)
(* The entry's prefix is not a neighbour's: isNotNeighbor holds, for       *)
(* otherwise Fib sends nothing (those routes belong to HelloProtocol).     *)
(* Entries of different prefixes share only the face ids of the adjacency  *)
(* list.  NFD executes commands in the order sent, and its answers and     *)
(* face notifications arrive in the order it sends them; an answer that    *)
(* never comes turns into a timeout at some later moment.                  *)
(***************************************************************************)
EXTENDS NextHops, SequencesExt

CONSTANTS
    Hops,               \* the next hops NamePrefixTable may ask for
    MaxFacesPerPrefix,
    RegTries,           \* retries of a registration (onRegistrationFailure)
    MaxUpdates,         \* bound: calls of update and remove
    MaxRegFaults,       \* bound: registrations that fail or time out
    MaxUnregFaults,     \* bound: unregistrations that fail
    MaxFaceEvents       \* bound: faces destroyed or created

Faces == FacesOf(Hops)

HopLists == {hops \in SUBSET Hops : \A g, h \in hops : g.face = h.face => g = h}

ASSUME ConstantsAssumption ==
    /\ Hops \subseteq [face : Nat, cost : Nat] /\ IsFiniteSet(Hops)
    /\ {MaxFacesPerPrefix, RegTries, MaxUpdates, MaxRegFaults, MaxUnregFaults,
        MaxFaceEvents} \subseteq Nat

VARIABLES
    running,    \* the NLSR process
    hops,       \* FibEntry::nexthopSet, {} for no entry
    listed,     \* the next hops of the last update, {} after remove
    refresh,    \* FibEntry::refreshEventId is scheduled
    faceId,     \* Adjacent::m_faceId of each face, 0 when unknown
    cmds,       \* commands on their way to NFD
    inbox,      \* answers and notifications on their way from NFD
    rib,        \* NFD: the routes of the prefix
    nfd,        \* NFD: latest id of each face, and whether the face exists
    env         \* what the bounds count

vars == <<running, hops, listed, refresh, faceId, cmds, inbox, rib, nfd, env>>

Quiet == cmds = <<>> /\ inbox = <<>>

(***************************************************************************)
(* Commands.  registerPrefix and unregisterPrefix look up the face id when *)
(* they are called, and send nothing without one.                          *)
(***************************************************************************)
Command(op, h, times) == [op |-> op, hop |-> h, id |-> faceId[h.face], times |-> times]

HasFaceId(h) == faceId[h.face] > 0

RegisterPrefix(h, times) ==
    IF HasFaceId(h) THEN <<Command("register", h, times)>> ELSE <<>>

(* Sets of next hops are walked in the order of their face URIs; the       *)
(* commands of a walk are those of the next hops with a face id.           *)
ByFace(hs) ==
    CHOOSE s \in [1 .. Cardinality(hs) -> hs] :
       \A i, j \in 1 .. Cardinality(hs) : i < j => s[i].face < s[j].face

Walk(op, hs) ==
    LET s == ByFace({h \in hs : HasFaceId(h)}) IN [i \in DOMAIN s |-> Command(op, s[i], 0)]

RegisterAll(hs) == Walk("register", hs)

UnregisterAll(hs) == Walk("unregister", hs)

(***************************************************************************)
(* Fib::update and Fib::remove.  Adding a next hop whose face the entry    *)
(* already has keeps the lower of the two costs, while the registration    *)
(* carries the new one.                                                    *)
(***************************************************************************)
KeepOldFaces(old, new) == Cheapest(old \cup new)
NewNextHops(old, new) == {h \in Cheapest(old \cup new) : h.face \in FacesOf(new)}

OtherNextHops(old, new) == old \ new
OldNextHops(old, new) == {h \in old : h.face \notin FacesOf(new)}

RemoveEntry ==
    /\ cmds' = cmds \o UnregisterAll(hops)
    /\ hops' = {}
    /\ refresh' = FALSE

UpdateEntry(hs) ==
    /\ cmds' = cmds \o RegisterAll(hs) \o UnregisterAll(OldNextHops(hops, hs))
    /\ hops' = NewNextHops(hops, hs)
    /\ refresh' = TRUE

Update(allHops) ==
    /\ running /\ env.updates < MaxUpdates
    /\ LET hs == First(allHops, MaxFacesPerPrefix)
       IN  /\ IF hs = {} THEN RemoveEntry ELSE UpdateEntry(hs)
           /\ listed' = hs
    /\ env' = [env EXCEPT !.updates = @ + 1]
    /\ UNCHANGED <<running, faceId, inbox, rib, nfd>>

(* refreshEntry and scheduleLoop.  The refresh time (two LSA refresh       *)
(* times, hours) is far longer than commands and their retries take.       *)
RefreshOnce ==
    /\ cmds' = cmds \o RegisterAll(hops)
    /\ refresh' = FALSE
RefreshEntry ==
    /\ cmds' = cmds \o RegisterAll(hops)
    /\ refresh' = refresh

Refresh ==
    /\ running /\ refresh /\ Quiet
    /\ RefreshEntry
    /\ rib' = {[r EXCEPT !.aged = TRUE] : r \in rib}
    /\ UNCHANGED <<running, hops, listed, faceId, inbox, nfd, env>>

(* main: an exception ends the process.  Fib::clean sends its commands     *)
(* outside the event loop: they may or may not leave the process.          *)
Terminate ==
    /\ running
    /\ running' = FALSE
    /\ \E sent \in {<<>>, UnregisterAll(hops)} : cmds' = cmds \o sent
    /\ UNCHANGED <<hops, listed, refresh, faceId, inbox, rib, nfd, env>>

(***************************************************************************)
(* Answers and notifications.  Only a timeout arrives out of order.        *)
(***************************************************************************)
Deliverable(i) ==
    \/ inbox[i].kind = "timeout"
    \/ \A j \in 1 .. i - 1 : inbox[j].kind = "timeout"

Take(i) ==
    /\ running /\ Deliverable(i)
    /\ inbox' = RemoveAt(inbox, i)
    /\ UNCHANGED <<running, hops, listed, refresh, rib, nfd, env>>

OnRegistrationSuccess(i) ==
    /\ inbox[i].kind = "success"
    /\ Take(i)
    /\ faceId' = [faceId EXCEPT ![inbox[i].cmd.hop.face] = inbox[i].cmd.id]
    /\ UNCHANGED cmds

OnRegistrationFailure(i) ==
    /\ inbox[i].kind \in {"failure", "timeout"}
    /\ Take(i)
    /\ LET c == inbox[i].cmd
       IN  cmds' = cmds \o (IF c.times < RegTries THEN RegisterPrefix(c.hop, c.times + 1)
                                                  ELSE <<>>)
    /\ UNCHANGED faceId

(* Nlsr::onFaceEventNotification, as far as face ids are concerned.        *)
KeepDestroyedId(i) ==
    /\ inbox[i].kind = "destroyed"
    /\ Take(i)
    /\ UNCHANGED <<faceId, cmds>>
FaceDestroyed(i) ==
    /\ inbox[i].kind = "destroyed"
    /\ Take(i)
    /\ faceId' = [faceId EXCEPT ![inbox[i].face] = IF @ = inbox[i].id THEN 0 ELSE @]
    /\ UNCHANGED cmds

FaceCreated(i) ==
    /\ inbox[i].kind = "created"
    /\ Take(i)
    /\ faceId' = [faceId EXCEPT ![inbox[i].face] = inbox[i].id]
    /\ UNCHANGED cmds

(***************************************************************************)
(* NFD.  It executes the next command, unless the face is gone; a fault    *)
(* refuses the command, or loses the command or its answer.  Answers to    *)
(* unregistrations are only logged.                                        *)
(***************************************************************************)
Execute(c) ==
    rib' = {r \in rib : r.face # c.hop.face} \cup
           IF c.op = "register" THEN {[face |-> c.hop.face, cost |-> c.hop.cost, aged |-> FALSE]}
           ELSE {}

FaceExists(c) == nfd[c.hop.face].up /\ nfd[c.hop.face].id = c.id

Answer(c, kind) ==
    inbox' = IF c.op = "register" THEN Append(inbox, [kind |-> kind, cmd |-> c]) ELSE inbox

Accept(c) == FaceExists(c) /\ Execute(c) /\ Answer(c, "success") /\ UNCHANGED env

Refuse(c) == ~FaceExists(c) /\ Answer(c, "failure") /\ UNCHANGED <<rib, env>>

Fault(c) ==
    /\ IF c.op = "register"
       THEN env.regFaults < MaxRegFaults /\ env' = [env EXCEPT !.regFaults = @ + 1]
       ELSE env.unregFaults < MaxUnregFaults /\ env' = [env EXCEPT !.unregFaults = @ + 1]
    /\ \/ UNCHANGED rib /\ \E kind \in {"failure", "timeout"} : Answer(c, kind)
       \/ FaceExists(c) /\ Execute(c) /\ Answer(c, "timeout")

TakeCommand ==
    /\ cmds # <<>>
    /\ cmds' = Tail(cmds)
    /\ UNCHANGED <<running, hops, listed, refresh, faceId, nfd>>

NfdAnswers == TakeCommand /\ (Accept(Head(cmds)) \/ Refuse(Head(cmds)))

NfdFails == TakeCommand /\ Fault(Head(cmds))

(* A route lasts a refresh time and a grace period from its registration,  *)
(* longer than a registration of the refresh and its retries take.         *)
InFlight(f) ==
    \/ \E i \in DOMAIN cmds : cmds[i].hop.face = f
    \/ \E i \in DOMAIN inbox : inbox[i].kind \in {"failure", "timeout"} /\ inbox[i].cmd.hop.face = f

Expire(r) ==
    /\ ~InFlight(r.face) \/ ~running
    /\ r.aged \/ r.face \notin FacesOf(hops) \/ ~running
    /\ rib' = rib \ {r}
    /\ UNCHANGED <<running, hops, listed, refresh, faceId, cmds, inbox, nfd, env>>

FaceEvent(f) ==
    /\ env.faceEvents < MaxFaceEvents
    /\ env' = [env EXCEPT !.faceEvents = @ + 1]
    /\ \/ /\ nfd[f].up
          /\ nfd' = [nfd EXCEPT ![f].up = FALSE]
          /\ rib' = {r \in rib : r.face # f}
          /\ inbox' = Append(inbox, [kind |-> "destroyed", face |-> f, id |-> nfd[f].id])
       \/ /\ ~nfd[f].up
          /\ nfd' = [nfd EXCEPT ![f] = [up |-> TRUE, id |-> @.id + 1]]
          /\ inbox' = Append(inbox, [kind |-> "created", face |-> f, id |-> nfd[f].id + 1])
          /\ UNCHANGED rib
    /\ UNCHANGED <<running, hops, listed, refresh, faceId, cmds>>

-----------------------------------------------------------------------------
Init ==
    /\ running = TRUE
    /\ hops = {} /\ listed = {} /\ refresh = FALSE
    /\ faceId = [f \in Faces |-> 1]
    /\ cmds = <<>> /\ inbox = <<>>
    /\ rib = {}
    /\ nfd = [f \in Faces |-> [up |-> TRUE, id |-> 1]]
    /\ env = [updates |-> 0, regFaults |-> 0, unregFaults |-> 0, faceEvents |-> 0]

Deliver ==
    \E i \in DOMAIN inbox :
       OnRegistrationSuccess(i) \/ OnRegistrationFailure(i) \/ FaceDestroyed(i) \/ FaceCreated(i)

Next ==
    \/ \E allHops \in HopLists : Update(allHops)
    \/ Refresh
    \/ Terminate
    \/ Deliver
    \/ NfdAnswers \/ NfdFails
    \/ \E r \in rib : Expire(r)
    \/ \E f \in Faces : FaceEvent(f)

Spec == Init /\ [][Next]_vars

(* NFD answers, answers are handled, timers fire and routes expire.        *)
Fairness ==
    /\ WF_vars(NfdAnswers)
    /\ WF_vars(Deliver)
    /\ WF_vars(Refresh)
    /\ \A f \in Faces : WF_vars(\E r \in rib : r.face = f /\ Expire(r))

LiveSpec == Spec /\ Fairness

-----------------------------------------------------------------------------
Commands == [op : {"register", "unregister"}, hop : Hops, id : Nat, times : 0 .. RegTries]

Messages == [kind : {"success", "failure", "timeout"}, cmd : Commands]
            \cup [kind : {"destroyed", "created"}, face : Faces, id : Nat]

(* Type invariant of the entry, the commands and answers on their way, and *)
(* NFD's routes: one route for a face.                                     *)
TypeOK ==
    /\ running \in BOOLEAN
    /\ hops \in HopLists /\ listed \in HopLists
    /\ refresh \in BOOLEAN
    /\ faceId \in [Faces -> Nat]
    /\ cmds \in Seq(Commands) /\ inbox \in Seq(Messages)
    /\ nfd \in [Faces -> [up : BOOLEAN, id : Nat \ {0}]]
    /\ rib \subseteq [face : Faces, cost : Nat, aged : BOOLEAN]
    /\ \A r, q \in rib : r.face = q.face => r = q
    /\ env \in [updates : Nat, regFaults : Nat, unregFaults : Nat, faceEvents : Nat]

NoFaults == env.regFaults = 0 /\ env.unregFaults = 0 /\ env.faceEvents = 0

(* While nothing fails, NFD routes the prefix over the faces last listed   *)
(* as soon as it has executed the commands, whatever updates overlapped.   *)
RibFollowsList ==
    running /\ NoFaults /\ cmds = <<>> => {r.face : r \in rib} = FacesOf(listed)

(* Once the notifications about a face are handled, the adjacency list has *)
(* the id NFD knows, so that no answer to an older registration brings a   *)
(* destroyed face back (onRegistrationSuccess sets the id too).            *)
FaceIdsSettle ==
    \A f \in Faces :
       running /\ (\A i \in DOMAIN inbox :
                      inbox[i].kind \in {"destroyed", "created"} => inbox[i].face # f)
       => faceId[f] = IF nfd[f].up THEN nfd[f].id ELSE 0

(* A next hop that stays listed while its face stays usable is eventually  *)
(* routed by NFD for good, whatever failed before: the refresh restores it.*)
ListedIsRouted ==
    \A f \in Faces :
       <>[](running /\ f \in FacesOf(listed) /\ nfd[f].up) => <>[](\E r \in rib : r.face = f)

(* A face that is listed no more, or whose NLSR has ended, is eventually   *)
(* routed no more, even when unregistrations fail or retries come late.    *)
UnlistedIsDropped ==
    \A f \in Faces :
       <>[](~running \/ f \notin FacesOf(listed)) => <>[](\A r \in rib : r.face # f)

(* What test-fib.cpp says of update: NFD is left with the costs of the     *)
(* next hops last listed.                                                  *)
RibHasListedCosts ==
    running /\ NoFaults /\ cmds = <<>> =>
       \A r \in rib : [face |-> r.face, cost |-> r.cost] \in listed
=============================================================================
