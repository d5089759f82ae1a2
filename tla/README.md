# NLSR: a TLA+ verification project

NLSR is the link-state routing daemon of Named Data Networking. This project
models one daemon, from its configuration file and Hello Interests to the routes
it registers with NFD, the commands that change at run time what it advertises,
and the exchange of link-state advertisements (LSAs) between daemons.
Everything is translated from the C++ under `src/src/`; NFD, the sync library
and the network are represented by what the code sees of them and are marked
external.

The daemon is one process with one event loop. Its concurrency is that of
callbacks: timers, Interest answers, validation results, NFD notifications and
command answers interleave in any order, and state read in one callback is
stale in the next. Each action below is one callback, from its entry to its
return to the event loop, with everything it calls.

## 1. Inventory

### Components, their state and operations

| Component | State | Operations | Module |
|---|---|---|---|
| HelloProtocol (`hello-protocol.cpp`) | per-neighbour flow token, periodic timer, Nack delay; `m_sweep` | send, retry, answer, validate, verify now, begin / complete / abort a mobility sweep | `HelloProtocol` |
| AdjacencyList, Adjacent | status, timed-out count, face id | status changes, `isAdjLsaBuildable` | `HelloProtocol` |
| Nlsr, faces (`nlsr.cpp`) | none of its own | face notifications, face dataset, registration of adjacency prefixes | `HelloProtocol` |
| Lsdb, build gate (`lsdb.cpp`) | dirty, held, scheduled flags and the build timer | schedule, hold, release, build | `AdjLsaBuild` |
| Lsdb, LSA exchange (`lsdb.cpp`) | `m_lsdb`, `m_highestSeqNo`, deferred publication | install, refresh, expire, remove, fetch, retry, answer | `LsaSync` |
| SequencingManager | numbers in memory and in `nlsrSeqNo.txt` | increase, write, start from file | `LsaSync` |
| SyncLogicHandler, SyncProtocolAdapter | highest number told to sync | publish, process update | `LsaSync` |
| Corridor (`corridor.cpp`) | `m_state`: number and told faces by origin and service; `m_branches` | LSDB signals, availability Interests, branch notifications, queries, destroyed faces | `Corridor`; directed fetches in `LsaSync` |
| TopologyChangeObserver | last adjacencies, pending changes | observe, settle, signal | `RoutingUpdate` |
| RoutingTable (`route/routing-table.cpp`) | entries, calculation timer, `m_ownAdjLsaExist` | schedule, calculate now, skip, clear | `RoutingUpdate`, `LinkState` |
| Nlsr, new paths (`nlsr.cpp`) | origins awaiting a calculation | await, announce | `RoutingUpdate` |
| Link-state calculator, NameMap | adjacency matrix, queue, distances, parents | matrix, Dijkstra, multipath simulation | `LinkState` |
| NamePrefixTable with its pool | entries, pool, use counts, references | LSA installed / updated / removed, routing change | `NameFib` |
| Fib (`route/fib.cpp`) | entries with next hops and refresh timers | update, remove, refresh, clean, register, unregister | `FibRegistration`, faces of an entry in `NameFib` |
| NexthopList, NextHop | next hops by face | add, cheapest | `NextHops` |
| Hyperbolic calculator (`routing-calculator-hyperbolic.cpp`), RoutingTable in that mode | table, dry table, calculation timer; Coordinate LSAs | schedule, calculate | `Hyperbolic`; requests of HelloProtocol in `HelloProtocol` |
| ConfFileProcessor, ConfParameter | the parameters, the file in the state directory | one per section of the file | `ConfFile` |
| NamePrefixList, update processors (`update/`) | advertised names, the file in the state directory | advertise, withdraw, save, delete, NFD's register and unregister | `PrefixUpdate` |
| nlsrc (`tools/nlsrc.cpp`) | its exit code | send a command, answer, timeout | `PrefixUpdate` |
| CertificateStore, Statistics, dataset handlers, logging | | | not modelled |

### How they interact

```
NFD faces, registrations ──> HelloProtocol ──(status changes)──> AdjLsaBuild ──> own Adjacency LSA
                                   │ sweep holds and releases the build            │
                                   ▼                                               ▼
                              calculation (hyperbolic)       LsaSync <── sync, fetches, caches, file
                                                                │ onLsdbModified
                        ┌───────────────────────────────────────┤
                        ▼                                       ▼
     RoutingUpdate: observer, calculation scheduling,    NameFib: names, pool, FIB
     announcements ──> LinkState: the routes ───────────>       │
     Corridor: hints to neighbours' LsaSync                     │
                                                                ▼
                                                  FibRegistration: commands to NFD

nlsr.conf ──> ConfFile ──> PrefixUpdate <── nlsrc, NFD's RIB     coordinates ──> Hyperbolic
                               └──> own Name LSA, saved file
```

The modules meet at these signals. `RoutingUpdate` takes the build gate as an
environment that schedules, holds and releases builds; that holds end is
`SweepEnds` of `HelloProtocol`. `NameFib` takes a calculation as an arbitrary
new choice of next hops, which is what `LinkState` computes. `Corridor` takes
the LSDB as an environment that installs, replaces and removes LSAs, and sends
hints that other routers turn into the directed fetches of `LsaSync`.
`PrefixUpdate` EXTENDS `ConfFile`: a run begins with the file, and commands edit
the copy that reading it has made. `AcceptedIsUsable` is what the other modules
assume of the configuration: LSAs that outlive their refresh (`LsaSync`), Hello
Interests that end before the next is due and at least one retry
(`HelloProtocol`).

### What is hard here

The hazards are in `PROJECT.json`, each at its line. The main ones: several
Interests for one neighbour of which only one may decide its status; a sweep
that holds the own LSA and must give it back on every path; a build, a hold and
a calculation that each wait for another; sequence numbers that must survive a
crash; fetches, retries and cached Data that arrive after they are wanted;
deferred publication against refresh and removal; next hops shared between
names and counted by hand; registrations that are neither confirmed nor ordered
with respect to their retries; a cache of NFD's service branches that is
replaced by answers older than the notifications already applied; a saved
configuration that every command rewrites as a whole, after the list has already
changed; commands that are executed after their sender has given up; a
configuration whose sections may repeat, be absent or hold texts that wrap.

## 2. Modules

**AdjLsaBuild** is the gate in front of the own Adjacency LSA
(`lsdb.cpp`: `scheduleAdjLsaBuild`, `holdAdjLsaBuild`,
`releaseAdjLsaBuildHold`, `buildAdjLsa`) as operators on a record
`[dirty, held, scheduled, timer, adv]`; `adv` is the set of neighbours the
installed LSA lists.

**HelloProtocol** (EXTENDS AdjLsaBuild). A Hello Interest is a flow
`[id, nbr, recip, phase, current]`. The code compares flow tokens for equality
with the current one only, so a token is the flag `current`, and `++flowToken`
makes every flow of the neighbour stale. Actions: face created, destroyed or
missed, the face dataset, registration answers, periodic Hello, a neighbour's
Interest, Data, Nack, timeout, validation success and failure, the return of a
stale callback, an attachment-change hint, the build timer and, under
hyperbolic routing, the calculation timer. The constants are the options of
`nlsr.conf` (`EventDriven`, `ResultDriven`, `RetryNumber`) and named bounds; the
hyperbolic state is one of `HyperbolicStates`, chosen at the start.

**OwnAdjLsa** is what HelloProtocol and the gate promise together, without
flows, timers, retries and faces: which neighbours are ACTIVE, which the own
LSA lists, whether a change is pending, whether a sweep freezes it. The LSA
changes only to the ACTIVE neighbours of that moment, only for a change of
status, never during a sweep, and no change is forgotten. HelloProtocol has it
as `OwnLsa`, an INSTANCE under the mapping of `active` to the statuses,
`advertised` to `adv`, `pending` to the dirty bit and `frozen` to the sweep;
`PublishesOwnAdjLsa` says that it implements it.

**LsaSync** follows one Adjacency LSA of an origin through peers: the number
in memory and file, build, deferred publication, refresh, removal, expiry,
crash and restart of either side, sync, fetches with retries, answers from the
origin and from any cache, and the corridor's directed fetches. Name and
Coordinate LSAs take the same path without the deferral. A copy may expire only
after its origin has moved on, because the configuration demands
router-dead-interval > lsa-refresh-time (`conf-file-processor.cpp`).

**RoutingUpdate** is the chain `onLsdbModified` → RoutingTable →
TopologyChangeObserver → Nlsr, which runs in one step of the event loop. The
serial numbers of the calculation barrier are reduced to the set of origins
that still await a calculation. The history variable `refused` follows a
calculation skipped for a scheduled build: the build is still to come, or it
found the own LSA unchanged and the calculation is forgotten.

**LinkState** is the calculation itself, one action per pass of a loop. NameMap
numbers routers in the order of a hash table; the model lets any of the
routers that tie come first. The max-faces-per-prefix is chosen at the start,
with the LSDBs that go with it. The reference the tables are compared with is in
the module too: `PathCosts` relaxes all links as many times as there are routers
and does not know of queues or parents.

**NextHops**, **NameFib**: next hops as sets of `[face, cost]`; the name prefix
table, the pool shared by names with the same destination, and the faces Fib is
given for each name. Dereferenced weak pointers of the code are references that
must not dangle.

**FibRegistration** is one Fib entry and NFD's routes for it. Commands reach
NFD in order; answers and face notifications come back in order, timeouts at
any time. NFD may refuse a command, or lose it or its answer. A loop of Fib over
a list of next hops is one `Walk`: the commands for those whose face has an id,
in the list's order.

**Corridor** is `corridor.cpp` at one router. A key of `m_state` is a pair of
origin and service with the number recorded for it and the faces told; a query
to NFD is unread, read (with the branches NFD had at that moment) or gone, so
that notifications, installs and destroyed faces fall before, between and after
its two halves. Actions: an Adjacency LSA installed, replaced by one that lists
something else, replaced by one that lists the same (which signals nothing) or
removed; the same for Name LSAs; a hint; a branch notification; success and
failure of an exact query and of the startup query; a destroyed face. NFD's
branches and the status of adjacencies change at any time.

**Hyperbolic** is hyperbolic routing at one router, on or in a dry run, chosen
at the start: Coordinate LSAs and the status of neighbours change, the calculation is
scheduled, and it fills the table with distances. The trigonometry is a table
(`Arc`, `Length`), in which the arc of equal vectors may be no number.

**ConfFile** reads a configuration, one section per action. A file is a sequence
of sections; a number in it is the number its text stands for, or `Bad`. The
checks of a section are collected in one predicate, since a refused section ends
the process and nobody sees what it had set before; the copy into the state
directory stands at its place between them. A `uint32_t` is read modulo
`UIntModulus`. A neighbor without a name or face-uri ends the start, one with an
empty name is skipped. `AsWritten` says of every parameter, without the
functions that set it, what the sections read so far make of it: which section
is the last of its kind (`Before`, `LastOf`), which settings it has, what adds up,
and which entry is the first of its neighbour.

**PrefixUpdate** (EXTENDS ConfFile) starts and stops the daemon, executes the
commands of nlsrc and NFD, builds and refreshes the own Name LSA, and edits the
saved file. A prefix line has the layout the code writes itself, differs from it
in white space, or carries a comment; a heading stands alone with the brace on
the line below it, has a blank or comment line in between, or shares its line
with the brace: that is what the line comparisons of `addOrDeletePrefix` tell apart.
A line written before the brace is kept in `outside`; it hides the section from
the next start. Commands are validated for any time and overtake each other;
answers may be lost, nlsrc times out or gets Data of the content type Nack (`OnNackData`), the process may die
between truncating and writing the file.

**MC modules** instantiate these for TLC. Where a run covers several
configurations, the MC module EXTENDS the component with one of them, has an
INSTANCE of it for each other, and a variable `mode` fixed by the initial
state; the properties about one mode say so. `MCLinkState` EXTENDS both
calculators and runs one of them.

## 3. Runs

| Run | Bounds | Shows |
|---|---|---|
| `hello` | 2 neighbours, 1 retry, 1 face event; event-driven with 1 hint and 1 superseded flow, or vanilla mode under hyperbolic routing with 2 flows and 2 timer chains each and 1 reciprocal Hello; 1.9 M states | safety of flows, sweep, hold and build; HelloProtocol implements OwnAdjLsa; no dead Hello loop |
| `hello_live` | 1 neighbour, 2 retries, 1 registration retry, 2 hints (the second can replace a running sweep), 1 face event; event-driven, hyperbolic routing off or on; 132 k states | no status change without a calculation; sweeps end, dead neighbours are found, the LSA or the calculation catches up |
| `lsa_sync` | 2 peers, 2 contents, 3 numbers, 1 crash, 1 hint or 1 abandoned fetch; 1.8 M states | numbers and contents, no fallback, deferred publication |
| `lsa_live` | 1 peer, 3 numbers and 1 crash with the corridor, 4 and 2 without; 67 k states | convergence and forgetting |
| `routing_update` | 3 routers, 2 costs, 5 changes; 181 k states | an LSA and an origin waiting for its announcement are overlooked in one case only, the one of `routing_lost` |
| `link_state` | 4 routers, all combinations of 5 (single path) or 4 (multipath) kinds of link, INF_DISTANCE 8; hyperbolic routing on or in a dry run with 4 changes; 311 k states | tables equal the reference, the cheapest hop is nearer; hyperbolic next hops are current |
| `name_fib` | 2 routers, 2 names, 2 faces at 2 costs, 1 face per prefix; 11 k states | table, pool and FIB agree |
| `fib_registration` | 2 faces, one at 2 costs; 2 updates, 1 or 2 failing registrations, 1 failing unregistration, 2 face events; 975 k states | NFD follows the list, eventually whatever fails |
| `corridor` | 1 router and 1 origin, 1 service, 2 faces, 2 numbers, 2 queries under way, 5 events; 1.2 M states | no branch untold, no hint passed on, attachments associated |
| `prefix_update` | every file of 1 or 2 out of 109 sections; a file that 3 commands of 2 clients, 1 command of NFD, 1 refresh, 1 change of access and 2 starts work on, two with unusual headings and 2 commands, one refused late; 2.7 M states | the parameters are what the file says and fit together; LSA, list and file agree with what nlsrc reports, except where section 6 says that it reports too much |
| `routing_lost`, `fib_costs` | small | disagreements of section 6 |

Two neighbours are enough for a sweep to have one target decided and one open,
and for a build to have one neighbour known and one not. Three sequence numbers
allow a version that is being fetched, one that replaces it and one after a
restart. `RestartJump` is 1 or 2 where the code has 10: what matters is that the
file is at most one write behind. Four routers are the least with two disjoint
paths of two links and a detour. `InfDistance` is 8 where the code has 2^31 - 1,
so that some paths cost more than it and are treated as absent. In `corridor`, two
numbers are one installed and one hinted, two queries one answer that is older
than the other, and two faces one told and one not. In `prefix_update`, the
sections have values at both ends of their ranges and one beyond; two sections
are enough for one to override, repeat or follow a refused one; three commands
are a save, a contrary command and one that overtakes them. `UIntModulus` is 2^20
there, since TLC's own integers end at 2^31: it exceeds every limit, which is
what matters of 2^32.

The other combinations of modes are no runs of their own: the theorems of
section 4 cover every mode.

`CHECK_DEADLOCK FALSE` stands where the bounds let the system come to rest
(no more events to come); `name_fib` has no such bound and checks deadlock.
`lsa_sync` uses symmetry of peers and of contents, `corridor` of faces,
`prefix_update` of runs of nlsrc; runs with liveness use none.

Every property has a mutant: a plausible slip in one of the modelled functions
(a dropped re-arm, a release forgotten, a stale token kept) under which the
same run finds the property violated.

### Fairness

- Timers of the event loop fire: weak fairness of every timer action.
- A Hello Interest is answered or times out and validation ends. A periodic
  Hello supersedes the flow in progress, hence strong fairness: hello-interval
  (≥ 30 s) is longer than hello-timeout (≤ 15 s) and, with the defaults, than
  the Nack delay of twice the timeout. With hello-timeout 15 and hello-interval
  30 it is not, and a neighbour that always Nacks may then never be declared
  dead.
- NFD answers registrations and executes commands; a Fib's routes expire.
- Sync spreads a number the origin has published, and a fetch repeated for ever
  is answered (strong fairness: it is enabled only between retries).
- Builds take place although sweeps hold them again and again (strong
  fairness): `SweepEnds` shows that each sweep ends.

`LsaCatchesUp` is conditional: Data that fails validation counts neither as an
answer nor as a timeout, so a neighbour whose Data fails for ever keeps its
status unknown for ever. `DeadNeighborFound` excepts a neighbour without a
periodic Hello: after a registration given up, only the neighbour's own
Interests start one.

## 4. Proofs

All theorems are for every value of the constants that satisfies the module's
ASSUMEs, which are type conditions, non-zero limits and finiteness.

The type invariants are proved and in no run.

- **HelloProtocolProofs**: `TypeCorrectness`, `SweepHold`, `SingleFlow`,
  `SweepWaitsForProbes`, `SweepResults`, `NoRevival`, `StaleLsa`,
  `ScheduledFlag`, `QuietSweep`, `StaleRoutes`, `HelloLoopGoesOn`, from the
  inductive invariant `TypeOK ∧ FlowInv ∧ SweepInv ∧ BuildInv`. FlowInv says that current flows are
  unique per neighbour in event-driven mode and how flows share their ids;
  SweepInv joins targets, results, status and flows, which none of the listed
  properties implies alone; BuildInv joins flags, timer and dirty bit.
  `OwnAdjLsaImplemented` is the refinement `Spec => PublishesOwnAdjLsa`. Every
  handler is a few calls of the gate around at most one status change; `Moves`
  says what such a sequence may do to the gate and the statuses, `MoveIsStep`
  that whatever moves so is a step or a stutter of OwnAdjLsa, and then there is
  one step per action.
- **LsaSyncProofs**: `TypeCorrectness` and `NoFallback` in every mode;
  `Ahead`, `SameContent`, `Deferral` under `Safe`: link-state routing, no torn
  write of the sequence file, and no router that tells the origin about its own
  LSA. `OneContentPerSeq` is not inductive: it needs `NumbersStayAhead` and
  that the origin's counter, file and LSA move together (`OriginInv`), also
  between a crash and the restart, and that fetches ask for numbers in reach
  (`FetchesInReach`).
- **RoutingUpdateProofs**: `TypeCorrectness`, `OpenPending`,
  `CalculatedAnnouncements`, and `RoutedLsas`: an LSA that the routes do not
  reflect has a calculation scheduled, or one skipped for a build to come, or a
  forgotten one. This is inductive with the types. That the last case does
  happen is what the run `routing_lost` shows.
- **LinkStateProofs**: `TypeCorrectness` and `DijkstraCertificate`: when the
  loop ends no link shortens any distance and each finite distance is its
  parent's plus the link. The loop invariant says that explored routers are no
  farther than unexplored ones, that links out of explored routers are relaxed,
  and that parents are explored.
  `ShortestTables` goes on to the routing table: for any routers, costs, tie
  order and max-faces-per-prefix it is what the reference over all paths gives.
  `Floor`: distances that no link shortens are at most the cost of any path.
  `Reached`: each finite distance is the cost of a path of at most as many links
  as routers are explored. `TreeInv`: parents are explored before their children,
  so that the walk of getNextHop ends at the source within the number of routers,
  and read the other way it is a path of the cost it should have (`ChainCost`).
  `SingleInv` and `MultiInv` join this with the table filled so far; in a pass
  with one simulated neighbour the paths start there and never come back to the
  source, and the cheapest next hop is on a path as cheap as any (`FirstHop`).
  `BestHop` follows. Induction over data is
  done through sets (`SetInduction`, from the well-founded order of the
  naturals) and recursive functions are unfolded by one lemma (`Iteration`). The
  reference first left out that a path of INF_DISTANCE or more is none; the
  attempt to prove it showed this, and TLC now has the case.
  `HyperbolicRoutes`: the invariant is inductive with the types. Its one hard
  step is the removal of an LSA, which takes away only next hops through its
  router and to it (`RemovalIsLocal`).
- **NameFibProofs**: `TypeCorrectness`, `TableFollowsLsdb`, `PoolFollowsTable`,
  `FibFollowsRoutes`; the pool's next hops must be the routing table's and the
  two kinds of LSA behind a name must be counted for the induction to go
  through.
- **FibRegistrationProofs**: `TypeCorrect`, `FaceIdsAlwaysSettle`,
  `RibAlwaysFollowsList`, for any faces, costs, failures and overlap of updates.
  `IdChain` orders what is on its way about a face: each id NLSR holds or is
  about to be told is the one the next notification ends, and the last one leads
  to NFD's; so a late answer to a registration is always followed by the
  notification that corrects it. `RouteInv` says that without faults the last
  command on its way for a face registers it exactly if it is listed
  (`WillFollowList`), which needs that the entry and the list have the same faces
  in spite of different costs (`SameFaces`).
- **CorridorProofs**: `TypeCorrectness`, `HintsAreNotTold`,
  `AttachmentsAreAssociated`, `BranchesAreTold`, for any number of routers,
  services, faces and outstanding queries. `BranchesAreTold` needs that NFD lists
  branches of living faces only (`NfdInv`), or a late face-destroyed notification
  would erase a face from the told ones that is a branch still. Its steps are of
  two kinds: those that change no LSA keep every told branch told and every
  announced branch announced, and those that install one leave a query unread,
  whose answer covers every branch NFD has by then.
- **PrefixUpdateProofs**: `NameLsaFollows`, `SavedNamesSurvive`, `ExitIsDone`,
  `AcceptedFileIsUsable`, `FileIsReadAsWritten`, for any files, names and number
  of runs of nlsrc. That the LSA follows the list needs that its number never
  runs ahead of the SequencingManager's, or `installLsa` would drop a rebuilt
  LSA. `SavedInv`: a name whose saving was confirmed has a line in the file, be
  it before a brace, since an edit keeps every other line (`EditsKeepNames`);
  with `CanSave` the next start reads it. `ExitIsDone`: a run of nlsrc that
  exits with 0 has got its answer from the execution of its own command
  (`ExitLemma`), which is what it says in the LSA and, if it says anything about
  it, in the file (`AnswerLemma`, `EditLemma`); its exceptions are the two that
  the property names: Data of the content type Nack, and a 205 that says nothing
  about the file. `AcceptedIsUsable` is about the end of the file: `ReadInv`
  says it of every prefix of it, with `m_faceDatasetFetchTries` excepted until a
  neighbors section is read. `ReadAsWritten` is about every prefix already;
  `WrittenInv` joins to it the fields of the parameters and that each name read
  has an entry (`NamesKept`). One section more is the last of its kind and of no
  other, with a step for each group of parameters; `InsertedAreFirst` says that
  what a neighbors section adds are the entries whose name no earlier entry has.

`SweepHold`, `SweepWaitsForProbes` and `QuietSweep` are proved and in no run; the
first two are parts of the argument for the properties that are, the third is
implied by `PublishesOwnAdjLsa`.

Only model-checked: all liveness (`SweepEnds`, `DeadNeighborFound`,
`LsaCatchesUp`, `Convergence`, `Forgotten`, `AwaitedIsAnnounced`,
`ListedIsRouted`, `UnlistedIsDropped`), which depends on fairness.
`AwaitedIsAnnounced` depends also on its two exceptions: the router loses its own
LSA, or the calculation was forgotten, in which case the origin stays unannounced
until something else asks for a calculation.
`EveryHelloLoopGoesOn` of the run `hello` is `HelloLoopNeverStops` in both of its
modes, and that is proved for every mode. That hints reach every branch in the
end is not checked: NFD's answers are not fair here.

## 5. Not modelled

- Clocks. Timers fire at any time after they are set, except where a condition
  between two configured times is stated above. An LSA that arrives expired is
  kept for an lsa-refresh-time in the code; a copy in the model lives until its
  origin has moved on.
- A face dataset that is older than a notification already handled.
- `triggerSync`, which only hastens what sync does anyway; the signal
  `originReachable`, which has no subscriber; the re-entrant request queue of
  RoutingTable, which no subscriber reaches.
- Name prefixes that equal router names, strategy choice commands, fractional
  costs (compared and sent as integers outside hyperbolic routing).
- In `Corridor`, several queries for one prefix that leave in one callback are
  one Interest and one query; after a failed query or a lost notification the
  branches of NFD that the corridor never heard of are excused, the ones it
  knows are not.
- How hyperbolic distances are computed (floating point: `Hyperbolic` has them
  as a table), how text becomes sections and numbers (boost), the settings
  without a check (link costs, log levels).
- Wire formats, certificates and signatures, statistics, dataset views and the
  status commands of `nlsrc`, which only print them: no state that another part
  reads, or cryptography.

## 6. Where the code disagrees with its comments

Runs, with their findings in `PROJECT.json`:

- `routing_lost`: a calculation skipped for a scheduled build is forgotten when
  the build finds nothing new. An LSA stays unrouted, and an origin that waits
  for its announcement goes on waiting.
- `fib_costs`: a raised cost reaches NFD once and is undone by the refresh.

Seen while modelling, and not kept as runs:

- `sequencing-manager.cpp:46`: the file is truncated before it is written; after
  a crash in between, the origin resumes at 10, below numbers in use, although
  line 70 means the jump of 10 for a crash before the write. `LsaSync` has the
  case as `TornWrites`, and `NumbersStayAhead` is violated under it; the theorems
  exclude it by `Safe`.
- `lsdb.cpp:349`: a hinted number whose LSA lists the same as the last is
  installed without a signal, and the corridor does not pass it on until a
  branch notification or a query comes.
- `corridor.cpp:341`: own names advertised after the own Adjacency LSA was
  installed are told to neighbours only at its next change.
- `corridor.cpp:462`: an answer read before a face was destroyed brings the face
  back into `m_branches`, until the next answer.

- `sequencing-manager.cpp:88`: in dry-run mode the start adds 10 to the
  Adjacency number and then sets it to 0.
- `lsdb.cpp:424`: without any ACTIVE neighbour the own LSA is not removed while
  another neighbour never had a face, since its status never becomes known.
- `adjacency-list.cpp:139`: one ACTIVE neighbour is enough to build the LSA,
  where `lsdb.hpp:311` says that all must be known.
- `hello-protocol.cpp:486`: outside a sweep, Data validated after its face was
  destroyed makes a neighbour without a face ACTIVE.
- `hello-protocol.cpp:245`: in vanilla mode each registration adds one more
  chain of periodic Hellos.
- `corridor.cpp:275`: a restarted router may fetch its own old LSA.
- `nlsr.cpp:412`: an origin is announced although its new adjacency was
  withdrawn while it waited.
- `fib.cpp:234`: a registration is retried after its prefix was removed, and
  the route stays until it expires.
- `fib.hpp` describes the hops that update removes as new minus old; the code
  removes old minus new.
- `prefix-update-processor.cpp:171`: a save adds a second line for a name whose
  line carries a comment, as in the shipped `nlsr.conf:164`, and
  `withdraw ... delete` then answers 205 and leaves the commented one, although
  `docs/manpages/nlsrc.rst:74` says that the prefix is deleted from the file.
  `ExitMeansDone` excepts such a line (`SaysNothing`).
- `prefix-update-processor.cpp:153`: a save answers 205 and writes nothing if no
  heading stands alone on its line; so does a delete of a file that cannot be
  written (line 116 then says that the prefix is there). `nlsrc.rst:61` promises
  the save. `ExitMeansDone` excepts both.
- `prefix-update-processor.cpp:153-156`: the prefix is written behind whatever line
  follows the heading. If that is a blank line or a comment, it lands before
  the brace: the section belongs to it from then on, and the next start does not
  find the prefixes in it. `SavedSurvives` and `ExitMeansDone` except such a file
  (`CanSave`).
- `nlsrc.cpp:271-274`: for Data of the content type Nack nlsrc prints an error and
  leaves `m_exitCode` at its default 0 (`nlsrc.hpp:172`), which `nlsrc.rst:92`
  calls success. `ExitMeansDone` excepts such an answer.
- `prefix-update-processor.cpp:178`: the file is truncated before it is written; a
  crash in between loses what was saved, and `SavedSurvives` does not count
  names saved before such a crash.
- `manager-base.cpp:65`: a save that fails with 406 has changed the list all the
  same.
- `conf-file-processor.cpp:378`: the file is copied before the permission to
  create others is checked and before later sections are read, so that a refused
  configuration replaces the saved one.
- `conf-parameter.cpp:106`: a second general section appends its network to the
  prefixes made from the first.
- `conf-parameter.hpp`: `m_faceDatasetFetchTries` has no value without a
  neighbors section; `nlsr.conf:39` limits hello-retries to 10, the code to 15;
  a negative router-dead-interval wraps and is accepted.
- `conf-file-processor.cpp:759`: certificates are read only behind a
  prefix-update-validator.
- `conf-file-processor.cpp:653`: a state in capital letters is accepted without
  radius and angle, and an angle without a number is an empty vector, which
  `routing-calculator-hyperbolic.cpp:168` says is not possible.
- `routing-calculator-hyperbolic.cpp:181`: the test of the inner angles is never
  true, and line 195 looks at the first vector again instead of the second.
- `nfd-rib-command-processor.cpp`: an unregistration from NFD withdraws also a
  name that the operator has configured, since every source is "".

## 7. Plan

Done: AdjLsaBuild, HelloProtocol, OwnAdjLsa, LsaSync, RoutingUpdate, LinkState,
NameFib, FibRegistration, Corridor, Hyperbolic, ConfFile, PrefixUpdate, and the
proofs of section 4, which state every safety property of the runs.

Next, in this order:

1. **LsaSync against an abstract specification**: a register of one origin whose
   versions peers take over in order, and the refinement of it under `Safe`.
2. **RoutingUpdate with its environment given by OwnAdjLsa**, so that the
   schedule, hold and release of builds it assumes are those HelloProtocol
   implements.
3. **Corridor and LsaSync together**: hints of one router causing fetches of the
   next, and under fair answers of NFD every branch told in the end.
