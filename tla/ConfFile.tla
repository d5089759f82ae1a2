------------------------------- MODULE ConfFile -------------------------------
(***************************************************************************)
(* How nlsrd reads its configuration (conf-file-processor.cpp) into its    *)
(* parameters (conf-parameter.hpp), one top-level section per step, and    *)
(* puts a copy of the file where later changes are saved.                  *)
(*                                                                         *)
(* A file is a sequence of sections.  A numeric setting is the number its  *)
(* text stands for, or Bad; a setting that is not there is not in the      *)
(* domain of num.  A neighbour has a name and a face URI, either of which  *)
(* is Bad if it is missing or malformed.  A file with a "broken" section   *)
(* does not parse.                                                         *)
(*                                                                         *)
(* A prefix line of the advertising section has a layout: "exact" is what  *)
(* nlsrd writes itself, one space and no comment; "indented" differs from  *)
(* it by white space only; "commented" by more, and still means the same   *)
(* name.  heading tells how "advertising" is written: "alone" on its line, *)
(* with the brace on the next; "blank" or "comment", alone with such a     *)
(* line before the brace; or "inline", with anything behind it.  The lines *)
(* "outside" have come between heading and brace.  INFO then takes the     *)
(* section for an empty one, and the brace for that of an unknown section  *)
(* prefix: nothing in it is read.                                          *)
(*                                                                         *)
(* A section that is refused ends the process: what it has set before that *)
(* is seen by nobody.                                                      *)
(***************************************************************************)
EXTENDS Integers, Sequences

CONSTANTS
    Bad,              \* a text that cannot be read as what it should be
    NoName,           \* the empty name
    SyncProtocols,    \* the sync protocols compiled in
    UIntModulus,      \* 2^32 in the code
    Files,            \* the files nlsrd may be started with
    Garbage           \* what an uninitialised uint32_t may hold

ASSUME ModulusAssumption == UIntModulus \in Nat

(* What the grammar gives: sections in sequence, a number or Bad for each  *)
(* numeric setting, what an advertising section consists of, and the       *)
(* neighbour and security entries in sequence.                             *)
IsSequence(q) == q \in Seq({q[i] : i \in DOMAIN q})

IsSection(s) ==
    /\ s.kind \in {"general", "neighbors", "fib"} =>
          \A k \in DOMAIN s.num : s.num[k] = Bad \/ s.num[k] \in Int
    /\ s.kind = "advertising" =>
          s = [kind |-> "advertising", heading |-> s.heading,
               outside |-> s.outside, lines |-> s.lines]
    /\ s.kind = "neighbors" => IsSequence(s.nbrs)
    /\ s.kind = "security" => IsSequence(s.entries)

IsFile(f) == IsSequence(f) /\ \A i \in DOMAIN f : IsSection(f[i])

ASSUME FilesAssumption == \A f \in Files : IsFile(f)

VARIABLES
    static,           \* the file given by -f
    dynamic,          \* nlsr.conf in the state directory
    writable,         \* whether dynamic may be written
    phase,            \* "stopped", "reading" or "running"
    next,             \* the section to be read
    conf              \* ConfParameter

confVars == <<static, dynamic, writable, phase, next, conf>>

(***************************************************************************)
(* conf-parameter.hpp: limits and defaults, and how a text is read.        *)
(***************************************************************************)
Limits ==
    [lsaRefreshTime |-> 240..7200, lsaInterestLifetime |-> 1..60,
     syncInterestLifetime |-> 1000..120000,
     helloRetries |-> 1..15, helloTimeout |-> 1..15, helloInterval |-> 30..90,
     adjLsaBuildInterval |-> 5..30, faceDatasetFetchTries |-> 1..10,
     faceDatasetFetchInterval |-> 1800..5400,
     maxFacesPerPrefix |-> 0..60, routingCalcInterval |-> 0..15]

Defaults ==
    [lsaRefreshTime |-> 1800, routerDeadInterval |-> 3600, lsaInterestLifetime |-> 4,
     syncInterestLifetime |-> 60000,
     helloRetries |-> 3, helloTimeout |-> 1, helloInterval |-> 60,
     adjLsaBuildInterval |-> 10, faceDatasetFetchTries |-> 3,
     faceDatasetFetchInterval |-> 3600,
     verificationTimeoutMs |-> 0, syncPublishDelay |-> 1,
     maxFacesPerPrefix |-> 0, routingCalcInterval |-> 15]

GeneralKeys == {"lsaRefreshTime", "lsaInterestLifetime", "syncInterestLifetime"}
NeighborKeys == {"helloRetries", "helloTimeout", "helloInterval", "adjLsaBuildInterval",
                 "faceDatasetFetchTries", "faceDatasetFetchInterval"}
FibKeys == {"maxFacesPerPrefix", "routingCalcInterval"}
StrictKeys == {"verificationTimeoutMs", "syncPublishDelay"}
Switches == {"resultDriven", "eventDriven", "corridor"}

(* Read by section.get<int>; the others are uint32_t, which wraps.         *)
SignedKeys == {"lsaInterestLifetime", "helloRetries", "maxFacesPerPrefix"} \cup StrictKeys

(* get(key, default) and ConfigurationVariable: a text that cannot be read *)
(* counts as absent, one with a minus sign wraps round if it is unsigned.  *)
Setting(s, k, default) ==
    IF k \notin DOMAIN s.num \/ s.num[k] = Bad THEN default
    ELSE IF s.num[k] < 0 /\ k \notin SignedKeys THEN s.num[k] + UIntModulus
    ELSE s.num[k]

Settings(s, keys) == [k \in keys |-> Setting(s, k, Defaults[k])]

AllInLimits(r) == \A k \in DOMAIN r : r[k] \in Limits[k]

Put(new, old) == [k \in DOMAIN old |-> IF k \in DOMAIN new THEN new[k] ELSE old[k]]

(* The constructor of ConfParameter leaves m_faceDatasetFetchTries unset.  *)
InitialConf(tries) ==
    [num |-> [Defaults EXCEPT !.faceDatasetFetchTries = tries],
     on |-> [w \in Switches |-> FALSE],
     sync |-> "psync", id |-> <<NoName, NoName, NoName>>,
     syncPrefix |-> << >>, lsaPrefix |-> << >>, stateDir |-> FALSE,
     nbrs |-> {}, names |-> {},
     hyperbolic |-> "off", radius |-> 0, angles |-> << >>,
     updateValidator |-> FALSE, certs |-> {}]

(***************************************************************************)
(* processConfSectionGeneral.                                              *)
(***************************************************************************)
DeadInterval(s) ==
    Setting(s, "routerDeadInterval", 2 * Setting(s, "lsaRefreshTime", Defaults.lsaRefreshTime))

AnyDeadInterval(s) == TRUE
DeadIntervalOK(s) == DeadInterval(s) > Settings(s, GeneralKeys).lsaRefreshTime

GeneralOK(s) ==
    /\ s.sync \in SyncProtocols
    /\ NoName \notin {s.id[i] : i \in DOMAIN s.id}
    /\ AllInLimits(Settings(s, GeneralKeys))
    /\ DeadIntervalOK(s)

(* The directory exists and the file in it, which must not be the one that *)
(* is being read, can be written.                                          *)
CopyOK(s) == GeneralOK(s) /\ s.stateDir \in {"usable", "noNewFiles"} /\ writable

(* After the copy: whether another file can be created there.              *)
StateDirOK(s) == CopyOK(s) /\ s.stateDir = "usable"

(* setNetwork appends to the prefixes.                                     *)
ReadGeneral(s) ==
    [conf EXCEPT
       !.sync = s.sync, !.id = s.id, !.stateDir = TRUE,
       !.syncPrefix = @ \o (IF s.sync = "svs" THEN <<s.id[1]>> ELSE <<"localhop", s.id[1]>>),
       !.lsaPrefix = @ \o <<"localhop", s.id[1]>>,
       !.num = Put(Settings(s, GeneralKeys), [@ EXCEPT !.routerDeadInterval = DeadInterval(s)])]

(***************************************************************************)
(* processConfSectionNeighbors.  A neighbour with an empty name is skipped *)
(* and a second one with the same name too (AdjacencyList::insert); one    *)
(* without a name or a face URI is refused.                                *)
(***************************************************************************)
StrictOK(s) == \A k \in StrictKeys \cap DOMAIN s.num : s.num[k] # Bad /\ s.num[k] >= 0

NeighborsOK(s) ==
    /\ AllInLimits(Settings(s, NeighborKeys))
    /\ StrictOK(s)
    /\ \A w \in DOMAIN s.on : s.on[w] \in {"on", "off"}
    /\ \A i \in DOMAIN s.nbrs : s.nbrs[i].name # Bad /\ s.nbrs[i].uri # Bad

InsertedLast(nbrs, entries) ==
    {entries[i] : i \in
       {i \in DOMAIN entries :
          /\ entries[i].name # NoName
          /\ \A n \in nbrs : n.name # entries[i].name
          /\ \A j \in DOMAIN entries : j > i => entries[j].name # entries[i].name}}

Inserted(nbrs, entries) ==
    {entries[i] : i \in
       {i \in DOMAIN entries :
          /\ entries[i].name # NoName
          /\ \A n \in nbrs : n.name # entries[i].name
          /\ \A j \in 1..(i - 1) : entries[j].name # entries[i].name}}

ReadNeighbors(s) ==
    [conf EXCEPT
       !.num = Put(Settings(s, NeighborKeys \cup StrictKeys), @),
       !.on = [w \in Switches |-> w \in DOMAIN s.on /\ s.on[w] = "on"],
       !.nbrs = @ \cup Inserted(@, s.nbrs)]

(***************************************************************************)
(* processConfSectionHyperbolic.  state is compared without regard to      *)
(* case, but only a lower-case one (exact) makes radius and angle          *)
(* mandatory; angle is read up to the first text that is no number.        *)
(***************************************************************************)
HasCoordinates(s) == s.radius # Bad /\ s.angle # Bad

HyperbolicOK(s) ==
    /\ s.state.word \in {"off", "on", "dry-run"}
    /\ IF HasCoordinates(s) THEN s.radius >= 0
       ELSE ~(s.state.exact /\ s.state.word \in {"on", "dry-run"})

ReadHyperbolic(s) ==
    LET c == [conf EXCEPT !.hyperbolic = s.state.word]
    IN  IF HasCoordinates(s) THEN [c EXCEPT !.radius = s.radius, !.angles = s.angle] ELSE c

(***************************************************************************)
(* processConfSectionFib, -Advertising and -Security.  Certificates are    *)
(* looked for only behind a prefix-update-validator; one that cannot be    *)
(* loaded is refused like an entry of another name.                        *)
(***************************************************************************)
FibOK(s) == AllInLimits(Settings(s, FibKeys))

ReadFib(s) == [conf EXCEPT !.num = Put(Settings(s, FibKeys), @)]

LinesRead(s) == IF s.outside = {} THEN s.lines ELSE {}

AdvertisingOK(s) == \A l \in LinesRead(s) : l.name # NoName

ReadAdvertising(s) == [conf EXCEPT !.names = @ \cup {l.name : l \in LinesRead(s)}]

HasUpdateValidator(s) == Len(s.entries) > 1 /\ s.entries[2] = "prefix-update-validator"

SecurityOK(s) ==
    /\ s.entries # << >> /\ s.entries[1] = "validator"
    /\ HasUpdateValidator(s) => \A i \in 3..Len(s.entries) : s.entries[i] = "cert-to-publish"

ReadSecurity(s) ==
    IF HasUpdateValidator(s)
    THEN [conf EXCEPT !.updateValidator = TRUE, !.certs = @ \cup {s.entries[i] : i \in 3..Len(s.entries)}]
    ELSE conf

(***************************************************************************)
(* The steps.  processSection either goes on with the new parameters or    *)
(* ends the process (main returns 2).                                      *)
(***************************************************************************)
Continue(accepted, c) ==
    /\ phase' = IF accepted THEN phase ELSE "stopped"
    /\ next' = IF accepted THEN next + 1 ELSE next
    /\ conf' = IF accepted THEN c ELSE conf

Reading(kind) ==
    /\ phase = "reading"
    /\ next <= Len(static)
    /\ static[next].kind = kind

(* The file is copied over the one of the last run, whatever later         *)
(* sections bring.                                                         *)
ProcessConfSectionGeneral ==
    /\ Reading("general")
    /\ Continue(StateDirOK(static[next]), ReadGeneral(static[next]))
    /\ dynamic' = IF CopyOK(static[next]) THEN static ELSE dynamic
    /\ UNCHANGED <<static, writable>>

ProcessConfSectionNeighbors ==
    /\ Reading("neighbors")
    /\ Continue(NeighborsOK(static[next]), ReadNeighbors(static[next]))
    /\ UNCHANGED <<static, dynamic, writable>>

ProcessConfSectionHyperbolic ==
    /\ Reading("hyperbolic")
    /\ Continue(HyperbolicOK(static[next]), ReadHyperbolic(static[next]))
    /\ UNCHANGED <<static, dynamic, writable>>

ProcessConfSectionFib ==
    /\ Reading("fib")
    /\ Continue(FibOK(static[next]), ReadFib(static[next]))
    /\ UNCHANGED <<static, dynamic, writable>>

ProcessConfSectionAdvertising ==
    /\ Reading("advertising")
    /\ Continue(AdvertisingOK(static[next]), ReadAdvertising(static[next]))
    /\ UNCHANGED <<static, dynamic, writable>>

ProcessConfSectionSecurity ==
    /\ Reading("security")
    /\ Continue(SecurityOK(static[next]), ReadSecurity(static[next]))
    /\ UNCHANGED <<static, dynamic, writable>>

(* Any other section is reported and passed over.                          *)
UnknownSection ==
    /\ Reading("unknown")
    /\ Continue(TRUE, conf)
    /\ UNCHANGED <<static, dynamic, writable>>

ProcessSection ==
    \/ ProcessConfSectionGeneral
    \/ ProcessConfSectionNeighbors
    \/ ProcessConfSectionHyperbolic
    \/ ProcessConfSectionFib
    \/ ProcessConfSectionAdvertising
    \/ ProcessConfSectionSecurity
    \/ UnknownSection

(* main makes the parameters, opens the file and parses it as a whole.     *)
ProcessConfFile ==
    /\ phase = "stopped"
    /\ phase' = IF \A i \in DOMAIN static : static[i].kind # "broken" THEN "reading" ELSE "stopped"
    /\ next' = 1
    /\ \E tries \in Garbage : conf' = InitialConf(tries)
    /\ UNCHANGED <<static, dynamic, writable>>

InitConf ==
    /\ static \in Files
    /\ dynamic = << >>
    /\ writable = TRUE
    /\ phase = "stopped"
    /\ next = 1
    /\ conf = InitialConf(Defaults.faceDatasetFetchTries)

-----------------------------------------------------------------------------
(* Reference: what the sections of file f before n say of parameters c,    *)
(* stated of the file as a whole and not of the steps that read it.        *)
Before(f, n, kind) == {i \in 1..(n - 1) : f[i].kind = kind}

LastOf(S) == {i \in S : \A j \in S : j <= i}

(* The text, if there is any, that the last section of a kind has for k.   *)
Texts(f, n, kind, k) ==
    {f[i].num[k] : i \in {i \in LastOf(Before(f, n, kind)) : k \in DOMAIN f[i].num}} \ {Bad}

NumberSaid(f, n, c, kind, k, default) ==
    /\ Texts(f, n, kind, k) = {} => c.num[k] = default
    /\ \A t \in Texts(f, n, kind, k) :
          IF t >= 0 \/ k \in SignedKeys THEN c.num[k] = t ELSE c.num[k] - t = UIntModulus

NumbersSaid(f, n, c) ==
    /\ \A k \in GeneralKeys : NumberSaid(f, n, c, "general", k, Defaults[k])
    /\ NumberSaid(f, n, c, "general", "routerDeadInterval", 2 * c.num.lsaRefreshTime)
    /\ \A k \in NeighborKeys \cup StrictKeys :
          \/ NumberSaid(f, n, c, "neighbors", k, Defaults[k])
          \/ k = "faceDatasetFetchTries" /\ Before(f, n, "neighbors") = {}
    /\ \A k \in FibKeys : NumberSaid(f, n, c, "fib", k, Defaults[k])

SwitchesSaid(f, n, c) ==
    \A w \in Switches :
        c.on[w] = (\E i \in LastOf(Before(f, n, "neighbors")) :
                     w \in DOMAIN f[i].on /\ f[i].on[w] = "on")

(* The prefixes made from the network name are only right if it is given   *)
(* once.                                                                   *)
NetworkSaid(f, n, c) ==
    LET G == Before(f, n, "general")
    IN  /\ c.stateDir = (G # {})
        /\ G = {} => /\ c.sync = "psync" /\ c.id = <<NoName, NoName, NoName>>
                     /\ c.lsaPrefix = << >> /\ c.syncPrefix = << >>
        /\ \A i \in LastOf(G) : c.sync = f[i].sync /\ c.id = f[i].id
        /\ \A i \in G : G = {i} =>
              /\ c.lsaPrefix = <<"localhop", f[i].id[1]>>
              /\ c.syncPrefix = IF f[i].sync = "svs" THEN <<f[i].id[1]>>
                                ELSE <<"localhop", f[i].id[1]>>

(* Entry j of section i has a name, which no entry before it has, of the   *)
(* same section or an earlier one.                                         *)
IsFirstOfName(f, i, j) ==
    /\ f[i].nbrs[j].name # NoName
    /\ \A h \in 1..i : f[h].kind = "neighbors" =>
          \A l \in DOMAIN f[h].nbrs : h < i \/ l < j => f[h].nbrs[l].name # f[i].nbrs[j].name

FirstEntries(f, i) == {f[i].nbrs[j] : j \in {j \in DOMAIN f[i].nbrs : IsFirstOfName(f, i, j)}}

NeighborsSaid(f, n, c) == c.nbrs = UNION {FirstEntries(f, i) : i \in Before(f, n, "neighbors")}

(* The last section with readable coordinates decides those.               *)
HyperbolicSaid(f, n, c) ==
    LET H == Before(f, n, "hyperbolic")
        R == {i \in H : f[i].radius # Bad /\ f[i].angle # Bad}
    IN  /\ H = {} => c.hyperbolic = "off"
        /\ \A i \in LastOf(H) : c.hyperbolic = f[i].state.word
        /\ R = {} => c.radius = 0 /\ c.angles = << >>
        /\ \A i \in LastOf(R) : c.radius = f[i].radius /\ c.angles = f[i].angle

NamesSaid(f, n, c) ==
    c.names = UNION {{l.name : l \in f[i].lines} :
                       i \in {i \in Before(f, n, "advertising") : f[i].outside = {}}}

SecuritySaid(f, n, c) ==
    LET V == {i \in Before(f, n, "security") :
                Len(f[i].entries) >= 2 /\ f[i].entries[2] = "prefix-update-validator"}
    IN  /\ c.updateValidator = (V # {})
        /\ c.certs = UNION {{f[i].entries[j] : j \in 3..Len(f[i].entries)} : i \in V}

AsWritten(f, n, c) ==
    /\ NumbersSaid(f, n, c)
    /\ SwitchesSaid(f, n, c)
    /\ NetworkSaid(f, n, c)
    /\ NeighborsSaid(f, n, c)
    /\ HyperbolicSaid(f, n, c)
    /\ NamesSaid(f, n, c)
    /\ SecuritySaid(f, n, c)

ReadTo(n) == phase = "reading" /\ next > n

(* After every section the parameters are what the sections up to it say   *)
(* as a whole, so at the end what the file says: the last section of a     *)
(* kind decides all its settings, also those it does not have, which are   *)
(* the default again; names and certificates add up; and the neighbours    *)
(* are the first entries of their names (processSection and the six        *)
(* functions behind it, AdjacencyList::insert).                            *)
ReadAsWritten == phase = "reading" => AsWritten(static, next, conf)

(* What the rest of nlsrd relies on once a file is accepted, whatever its  *)
(* sections, their order and repetition, and whatever wraps around on the  *)
(* way: an LSA outlives its refresh (LsaSync), a Hello Interest is         *)
(* answered or given up before the next one is due and at least once tried *)
(* (HelloProtocol), and a ranged setting is in its range, except for       *)
(* m_faceDatasetFetchTries, which no constructor sets.                     *)
AcceptedIsUsable ==
    ReadTo(Len(static)) \/ phase = "running" =>
       /\ conf.num.routerDeadInterval > conf.num.lsaRefreshTime
       /\ conf.num.helloTimeout < conf.num.helloInterval
       /\ \A k \in DOMAIN Limits :
             \/ conf.num[k] \in Limits[k]
             \/ k = "faceDatasetFetchTries" /\ Before(static, next, "neighbors") = {}
       /\ \A k \in StrictKeys : conf.num[k] >= 0
=============================================================================
