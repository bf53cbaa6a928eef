# OpenBGPD in TLA+

A verification project for `bgpd`, the BGP routing daemon of OpenBSD
(`src/src/usr.sbin/bgpd`). File names below are relative to that directory.

## The system

`bgpd` is four single-threaded processes joined by FIFO imsg pipes.

| process | main files | what it does |
|---|---|---|
| parent | `bgpd.c`, `kroute.c`, `config.c`, `carp.c`, `pfkey.c`, `parse.y` | configuration, kernel routes, carp demotion, keys |
| session engine (SE) | `session.c`, `session_bgp.c`, `timer.c`, `control.c` | TCP connections, the BGP state machine, `bgpctl` |
| route decision engine (RDE) | `rde*.c` | Adj-RIB-In, decision process, filters, Adj-RIB-Out |
| RTR engine | `rtr.c`, `rtr_proto.c` | RPKI-to-Router sessions |

The SE runs one `struct peer` per neighbor: a state machine, a list of timers, a
socket. It passes the neighbor's updates to the RDE and tells it when the session
comes up and how it ended: `SESSION_DOWN` (drop the routes), `SESSION_STALE` and
`SESSION_NOGRACE` per address family (graceful restart), `SESSION_FLUSH` and
`SESSION_RESTARTED` (remove what was kept), `SESSION_DELETE` (forget the peer). The
RDE answers with `UPDATE`, `UPDATE_ERR`, `REFRESH` and `SESSION_RESTARTED`. The SE
asks the parent to raise and lower carp demotion counters, and the parent tells the
SE of interface changes (`SESSION_DEPENDON`) and of new configurations.

### Inventory

| part | sources | modules | status |
|---|---|---|---|
| timer queue | `timer.c` | TimerQueue, TimerMap | modelled |
| BGP state machine | `session_bgp.c` | SessionFSM | modelled, except message formats and part of the capability negotiation |
| session engine | `session.c` | SessionFSM, PeerSession | one peer; throttling is in AdjOut, several peers of a reload in Reconf |
| SE-RDE session protocol, graceful restart, route refresh | `session.c`, `rde.c`, `rde_peer.c` | GracefulRestart | one family of one peer |
| control socket | `control.c` | SessionFSM | neighbor commands only |
| carp demotion | `carp.c` | SessionFSM | counter of a group as one peer moves it |
| reconfiguration handshake | `bgpd.c`, `config.c`, `session.c`, `rde.c`, `rtr.c` | Reconf | all four processes; contents of a configuration reduced to peers, ribs and listeners |
| decision process, nexthops | `rde_decide.c`, `rde_rib.c`, `rde.c` | Decision, Rib | one family, one path per peer |
| kernel routes and nexthop tracking | `kroute.c`, `bgpd.c` | Kroute, RoutePipe, RibFib | one routing table, composed with the RIB |
| resumable RIB walks | `rde_rib.c` | RibDump | one RIB, subtree and full walks |
| Adj-RIB-Out, update generation | `rde_adjout.c`, `rde_update.c`, `rde_peer.c` | AdjOut | one family of one peer |
| RTR | `rtr.c`, `rtr_proto.c` | Rtr | state machine and PDU handlers of several caches |
| ASPA and RPKI states of routes | `rde_aspa.c`, `rde.c`, `rde_rib.c`, `rtr.c` | Aspa, Rpki | ASPA algorithm in full, ROA lookup as a set of pairs |

`PROJECT.json` has the same list with reasons, every definition's source lines, and
the hazards the properties were chosen for.

## The modules

**TimerQueue** (`timer.c`) is the list `th` of timers of one peer, the clock, and the
main loop that serves the first element only. **TimerMap** is what the list stands
for: a map from timers to due times. `timer_set()`, `timer_stop()`,
`timer_remove()` and `timer_remove_all()` are one action each. `Dispatch` and `Handle` are
the main loop's use of `timer_nextisdue()`.

**SessionFSM** (`session_bgp.c`, `session.c`, `control.c`) is one neighbor. Its single
variable `peer` is `struct peer` plus what the two other processes make of the
messages about it: `peer.rde` (known or not, up or down, families held stale,
families wiped while live) and `peer.carp` (the demotion counters). The C functions
that take a `struct peer *` are operators from a peer to a peer, with the same names,
and call one another as in the source. A handler runs to completion in a
single-threaded process, so each event is one action: timers, socket events, accepted
connections, received messages, imsgs from RDE and parent, neighbor commands, reload,
removal, deletion. `change_state()` is split by target state. `bgp_fsm()` is split by
event.

What is abstracted: a timer is running or not (their order is TimerQueue's matter,
except that RestartTimeout comes before SessionDown, which the code guarantees by the
intervals it chooses). An OPEN message is a record of what negotiation looks at and of where
`parse_open()` gives up. Allocation failures, socket results and the checks on an
accepted connection are inputs chosen freely from the constants `Allocs`, `Accepts` and
from three socket outcomes. `fd = "stale"` is a descriptor number that has been closed
and not forgotten.

**PeerSession** is the contract of SE and RDE: known, up, stale families. SessionFSM
implements it (`ImplementsPeerSession`).

**GracefulRestart** (`session.c`, `rde.c`, `rde_peer.c`) takes the two processes apart. The
SE's part is reduced to down, negotiated, up and the restart flags of one family. The
RDE has its per-peer imsg queue, `staletime`, `recv_eor` and routes. Two FIFO pipes
lie between them, so everything the RDE does is late, and so is its End-of-RIB report
back to the SE. A route carries the session it was received in and whether it is older than
`staletime`; the code waits for the clock to move when it sets one, so this bit is all
a comparison of times can tell.

**Reconf** (`bgpd.c`, `config.c`, `session.c`, `rde.c`, `rtr.c`) is a reload. The parent
merges the new configuration, sends it to the three children, collects their DRAIN
answers, sends DONE and collects the DONE answers; `reconfpending` counts both. The SE
passes its peers on to the RDE over a pipe of their own, so the RDE's DONE may come
before or after them. A peer that goes away is stopped and deleted in a later round of
the SE's loop. Sessions come up and go down all the while. The RDE counts the walks it
starts (`softreconfig`) and answers when the last has ended.

**Rtr** (`rtr.c`, `rtr_proto.c`, `bgpd.c`) is the RTR process with its sessions, the
pipe to the parent and the parent's connect attempts. One action per PDU handler, timer,
socket event and imsg. A record of a cache is a model value; a response is received one
PDU at a time, which is what the recalculation semaphore is for.

**Aspa** (`rde_aspa.c`) is the ASPA table, an array with a hash table over it, and the
verdict of a path from both ramps. `Expected` is the reference, which speaks of hops and
their relation only. **Rpki** (`rde.c`, `rde_rib.c`, `rtr.c`) puts it to use: tables sent by
the RTR process, attribute objects shared by routes with the cached outcome and
its generation, the walk that validates routes again in slices, announcements in between,
and the Loc-RIB behind the input filter. A reload (`SoftStart`) takes one of the
configurations in `Confs` into force, with its rules, filter mode and roles of the peers,
and starts the walk of soft reconfiguration, which filters again (`soft.reload`) only if rules or
mode changed.

**Decision** (`rde_decide.c`) is the comparison and the sorted list of paths, operators
only. **Rib** (`rde_rib.c`) has the paths of each destination, the nexthops, and the
runner that carries a nexthop's new state to its paths a few at a time. **Kroute**
(`kroute.c`) is the parent's copy of the kernel table, its nexthops, and bgpd's own
routes. **RoutePipe** declares the two FIFO pipes between them and **RibFib** composes
the two processes.

**RibDump** (`rde_rib.c`) is the tree of a RIB with its walks: an entry that a walk
stops at is locked, and stays in the tree even without routes until the walk leaves it.

**AdjOut** (`rde_adjout.c`, `rde_update.c`, `rde_peer.c`) is one neighbor's Adj-RIB-Out
with the queue of updates, withdraws and markers, the walks that fill and resend it,
and, as an observer, the table the neighbor builds from what it is sent. The neighbor
treats BoRR and EoRR as `bgpd` itself does. Attributes in `TooBig` fit no message: the
prefix is withdrawn instead and stays in the Adj-RIB-Out.

The theorems about a component are in its **_proofs** module: SessionFSM, Rtr, TimerQueue,
GracefulRestart, RibDump, Rpki and Reconf have one. Reconf has a second,
ReconfSteps_proofs, with the inductive invariant and the lemmas about single steps. The
**MC** modules only give constants.

Definitions marked `Bug:` are wrong variants of the operator after them. No
specification uses them. Each stands for a plausible mistake and makes a property fail.

## The runs

| run | bounds | shows |
|---|---|---|
| `timer_queue` | 3 timers, offsets 0 to 2, clock to 4 | order, earliest wake-up, refinement of TimerMap, no starvation |
| `session` | 2 families, 6 OPENs, restart and `depend on` and `demote` configured, all commands, removal and re-addition | no dead end, RDE and carp told the truth, the contract, and the three liveness properties |
| `session_faults` | the same with 3 configurations swapped by reloads; allocation and accepting may fail; commands may reach a peer not yet initialised | what the RDE is told stays true |
| `session_clone` | a clone of a template, reloads with 3 configurations | timers, RDE, demotion over the clone's life |
| `graceful` | 1 prefix, 3 sessions, enhanced refresh; the neighbor sends while fewer than 1, 2 and 1 messages wait in sessions 1, 2 and 3 | one clean-up per restart, which spares the live session; queues of their session; agreement; every orphaned route goes |
| `rtr` | 2 caches, 1 ROA, 1 ASPA customer, 1 reload | semaphore, tables in force, retries |
| `reconf` | 2 peers, 2 ribs, 2 listeners, 1 reload, 3 session changes | no unexpected message, agreement of the processes, the reload ends |
| `ribfib` | 4 peers, 2 destinations, 2 nexthops, 2 kernel routes, 3 kernel events | order of paths, matching of nexthops, agreement of RIB, parent and kernel |
| `adjout` | 2 prefixes, 3 attribute sets, one of them too big for a message, one budget for each kind of event | neighbor and Adj-RIB-Out agree, markers, throttling |
| `ribdump` | 3 entries, slices of 1, 2 walks, 2 route changes, 1 throttle or stop | locks, no entry missed or repeated, walks end |
| `rpki` | paths and tables of `MCRpki`, 2 announcements, 1 reload to one of 4 configurations (the same, other rules, other filter mode, another role) | ASPA table and verdict, states of routes, Loc-RIB |
| `v_partial_table` | as `adjout` | violated, see below |

Several properties are conjunctions, so that a run states one property per question.
Each conjunct is a definition with a comment of its own. Where `PROJECT.json` lists several
mutants of a property, they break different conjuncts.

| property | conjuncts |
|---|---|
| `ListRight` | `TypeOK`, `ListOrder`, `NextDueIsEarliest` |
| `RdeTold` | `RdeInSync`, `RdeSession`, `StaleGuarded` |
| `Consistent` | `TimerHome`, `RdeTold`, `DemotionBalanced` |
| `NoDeadEnd` | `Guarded`, `Connected`, `UndemotePending` |
| `TransientsEnd` | `LeavesIdle`, `StaleEnds`, `DemotionEnds` |
| `InAgreement` | `TypeOK`, `QueueOfSession`, `Agreement` |
| `CleanedUpOnce` | `OneFlush`, `OrphansCovered` |
| `LockRight` | `TypeOK`, `SemaphoreBalanced`, `LockTimed` |
| `Reconnects` | `ClosedRetries`, `NoSocketReplaced` |
| `ReloadSafe` | `TypeOK`, `NoFatal`, `DumpsCounted`, `PeerHasRib` |
| `ConfigAgrees` | `PeersInSync`, `KeysLoaded`, `Settled` |
| `MatchesRight` | `TypeOK`, `MatchRight` |
| `NexthopsAgree` | `FlagsFollowNexthop`, `NexthopInSync` |
| `FibAgrees` | `KernelInSync`, `FibInSync` |
| `AdjOutRight` | `TypeOK`, `ExportRight` |
| `WaitsEnd` | `RefreshEnds`, `ThrottleEnds` |
| `TreeRight` | `LocksHeld`, `Collected` |
| `TableRight` | `OfOneTransmission`, `EqualIsSame`, and what lookups return |
| `StatesRight` | `CacheRight`, `VstateRight` |

Why these bounds are enough to be interesting: two families let one be kept and the other
dropped, or one come back and the other not. Three sessions let a late message of one
restart meet the next. The bound on messages limits only what the neighbor sends; the
processes' own messages are never held back; with 2 messages in every session
`graceful` also passes (9.5 million states, ten minutes). Ties between timers, and between
a timer and the clock, occur with offsets 0 to 2. `MAX_IDLE_HOLD` is 2 and the first hold
time 1, so doubling meets its limit. Two caches let one exchange begin while another holds
the semaphore. The paths of four peers are enough for MED inversions, which take two
neighbor ASes. Three entries with slices of one let a walk have something behind it,
something before it and a locked entry of another walk in its way. `adjout`
also passes with one budget of 2 changes, 2 sessions, a refresh, a reload and a
throttling together, for two attribute sets that both fit into a message (11 million
states). The walks of `rpki` do one route at a time.

Deadlock is checked in the timer and session runs. The other models spend budgets
(sessions, updates, kernel events, reloads) and may come to rest when they are spent.

### Fairness

`poll()` wakes the loop for the earliest timer and the timer queue starves none
(`DueIsServed`), so a timer that stays armed is served. A timer that is armed again
before it is due may never be. Therefore `Hold`, `SendHold` and `Keepalive`, which traffic
puts off, get no fairness at all. `IdleHold` and `RestartTimeout` get it unless the operator
clears the session for ever, or the session is lost for ever; `LeavesIdle` and
`StaleEnds` except the same. In GracefulRestart and Reconf all processes keep reading
their pipes, and in Reconf the RDE keeps running its walks. In RibDump the runner is
called in every round of the loop while there is a walk that is not throttled
(`rib_dump_pending()`), and a throttled control client reads on. Nothing is assumed of the
neighbor, of sessions or of the operator.

### Where code and documentation disagree

`v_partial_table` is a run: `peer_up()` takes the Adj-RIB-Out for loaded when nothing in the
session's parameters changed, but a session that went down during its first dump, which
runs in slices, has loaded only part of it. The next session is sent that part.
`PROJECT.json` quotes the lines.

The files below are further configurations in which TLC finds a counterexample. They
are kept beside the runs and document cases that the passing runs leave out by a
constant or an exception that is named where it is made.

| configuration (module) | property | what happens |
|---|---|---|
| `VFreshFlush` (MCSessionFSM) | `NoFreshFlush` | a reload to `restart no` while a neighbor restarts leaves the restart flags set; the timeout then flushes the new session's routes (`session_bgp.c:1343`) |
| `VDemoteReload` | `DemotionReturned` | removing `demote` by a reload leaves the counter raised, the new configuration being copied before the old group is used (`session.c:1940`) |
| `VRetry` | `RetriesConnect` | a refused connection after the restart dance of `session_accept()` leaves CONNECT without a timer (`session.c:749`) |
| `VClearEarly` | `TimersInitialised` | `neighbor clear` can reach a peer before `init_peer()` (`control.c:411`) |
| `VRefreshFlush` (MCGracefulRestart) | `FlushSparesRefreshed` | a route refresh that begins while the restart's clean-up is in the pipe loses routes not re-sent yet (`rde_peer.c:692`) |
| `v_closed_partial` (MCRtr) | `ClosedIsWhole` | a cache that closes after the activity timer took its lock keeps half a table, although "Reset cache after an error or if the connection is reset during a delta exchange" (`rtr_proto.c:1157`) |
| `v_version_floor` | `VersionFloor` | an error report lowers the version below `min-version` (`rtr_proto.c:499`) |
| `v_eorr` (MCAdjOut) | `RefreshAlwaysEnds` | without graceful restart a refresh begun with BoRR gets no EoRR (`rde_peer.c:620`) |
| `v_shared_lock` (MCRibDump) | `OneLock` | two walks that start at one entry share its lock bit (`rde_rib.c:60`) |
| `v_stale_aspa` (MCRpki) | `AlwaysChecked` | soft reconfiguration uses an outcome of older tables (`rde.c:4171`) |
| `v_unfiltered` | `AlwaysFiltered` | a reload that changes a role, or that meets newer tables, gives a route another state but filters it only if the rules or the mode changed too (`rde.c:4183`); the next revalidation finds the state as it should be and leaves it (`rde.c:4442`) |
| `v_dropped_table` | `LatestUsed` | tables that arrive during a walk are dropped and not asked for again (`rde.c:4511`) |

More need only a constant of a passing run changed, or another property checked in it:

- `reconf` with `FailsLate = TRUE` violates `NoFatal`: a reload that fails after
  `merge_config()` leaves its listeners in the parent's configuration, those that could be
  bound; the next one sends them as known ones, and the SE exits with
  "expected REINIT" (`session.c:1287`);
- `reconf` with `Configs <- OwnRib` violates `NoFatal` and `PeerHasRib`: a neighbor that
  leaves the configuration together with its RIB may still be known to the RDE when it
  drops the RIB (`rde.c:4006`);
- `ribdump` with `FreeBusy = TRUE` violates `FreedIsUnused`: a RIB is freed with entries
  still queued for evaluation (`rde_rib.c:202`);
- `ribfib` violates `LostNexthop`: a nexthop looked up again without finding a route stays
  reachable in the RDE (`kroute.c:2249`);
- `adjout` violates `SkipSafe`: a dump removes a route without a withdraw, which was still
  owed to the neighbor (`rde_adjout.c:576`): the prefix has changed since the session came
  up, or another walk got into the dump (`NeighborInSync` shows that nothing else is left);
- `adjout` violates `EorAlwaysAfterTable`: a refresh during the initial dump queues
  End-of-RIB before the table is complete (`rde_peer.c:614`);
- `ribfib` with `IfTracked = TRUE` violates `NexthopInSync`: an interface event does not
  reach nexthops whose route stays the same (`kroute.c:2249`);
- `ribfib` with `RouteAge = TRUE` violates `PreferenceOrder`: with `rde route-age evaluate` an
  unchanged update refreshes the age without moving the path (`rde_rib.c:957`);
- `rpki` with `Gens = 2` violates `CacheRight`: when the generation, eight bits in the
  code, has wrapped, a cached outcome looks current (`rde.c:4558`);
- `rpki` with `Announced <- PrependAnnounced`, `Confs <- PrependConfs` and `Boot <- PrependBoot`
  violates `CacheRight` and `VstateRight`: a route whose path the input filter changed takes the outcome of
  the received path along (`rde_rib.c:827`), and as objects are compared without it ("no
  need to check aspa_state or aspa_generation", `rde_rib.c:720`), a route announced with the
  changed path shares it and is given it by the next walk. Found by the proof of
  `StatesStayRight`, which needs `FiltersKeepOutcome`.

The constants that leave these cases out of the passing runs: in `session` no reload
and no failing allocation; in `session_faults` and `session_clone` reloads do not
change `restart` or `demote`; in Rtr `NoDataAnytime` (a No Data error during an exchange
leaks the semaphore) and `RetryOverlaps` (the parent answers later than the retry
interval, and the second socket replaces the first); in Reconf `FailsLate`; in Kroute
`IfTracked`; in Decision `RouteAge`; in RibDump `SharedStart` and `FreeBusy`; in Rpki `Gens`
and `Confs` (no filter that changes a path).
The properties with an exception in their text are `FlushSparesSession` (routes a
refresh has marked), `TableFresh` (exchanges that outlasted their activity timer),
`NexthopInSync` (nexthops without a route), `NeighborInSync` (of the prefixes a dump removed
without a message, those that changed since the session came up, and all of them when another
walk got into the dump), `ExportRight` (`unloaded`), `EorAfterTable` (`mixed`), `RefreshEnds`
(no graceful restart), `VstateRight` (`outdated`, and after a change of role the routes the
walk has still to come to) and `LocFollows` (`unfiltered`, and after a change of rules or mode
the routes the walk has still to come to).

The models show some more departures:

- a neighbor that is `down` starts when the interface it depends on comes up
  (`session.c:1382` does not look at `conf.down`);
- a `passive` neighbor connects after losing a connection in OPENSENT
  (`session_bgp.c:1666`), and a reload from passive to active leaves ACTIVE without a timer;
- nothing is demoted at start: `init_peer()` excludes `RECONF_REINIT`, which every peer
  from the parent has (`session.c:608`, `1259`);
- a new connection of a restarting neighbor ends ESTABLISHED without demotion
  (`session.c:749`);
- out of memory in `session_open()` or `session_keepalive()` leaves OPENSENT or OPENCONFIRM without
  a socket and with IdleHold running (`session_bgp.c:1599`, `1687`), which is why `TimerHome`
  and `NoDeadEnd` are checked without allocation failures only;
- a session with no family in common that restarts gracefully stays up in the RDE
  (`session.c:1071`);
- when `session_setup_socket()` fails, the closed descriptor stays in `p->fd`
  (`session.c:741`), the value "stale" of the model;
- the comment at `bgpd.c:1046` expects two DONE messages, the code counts three answers;
- a nexthop for which the parent finds no route at first gets no answer, and stays in lookup;
- an RTR session whose Expire timer fired during negotiation or an exchange may have no
  timer left.

One observation without a run: the reset of a peer in `PEER_ERR` that `peer_up()`
performs is not reached when the sessions share a family, because over the FIFO pipe a
down, stale or delete message always comes first.

## The proofs

Seven components have theorems, for every value of their constants. What TLC checks on a
small instance is there shown for any number of neighbors, sessions, messages in flight,
reloads and walks.

| theorem (module) | property | assumes |
|---|---|---|
| `TypeCorrect` (SessionFSM_proofs) | `TypeOK` | |
| `RdeSessionKept`, `StaleRoutesGuarded` | `RdeSession`, `StaleGuarded` | |
| `DependOnKept` | `DependKept` | |
| `RdeToldKept` | `RdeTold` | `CommonFamily` |
| `FlushesOnlyStale` | `NoFreshFlush` | `RestartKept` |
| `DemotionKept` | `DemotionBalanced` | `GroupKept` |
| `RecordsAgree` | `Consistent` | `Calm`, `CommonFamily`, `GroupKept` |
| `NeverStuck` | `NoDeadEnd` | `Calm`, `Settled` |
| `EngineImplementsContract` | `ImplementsPeerSession` | |
| `ListKept` (TimerQueue_proofs) | `ListRight` | |
| `ListImplementsMap` | `ImplementsTimerMap` | |
| `PipeLeads` (GracefulRestart_proofs) | the inductive invariant | |
| `AgreementKept`, `CleanedUp` | `InAgreement`, `CleanedUpOnce` | |
| `SessionSpared` | `FlushSparesSession` | |
| `SemaphoreKept`, `TableKept` (Rtr_proofs) | `LockRight`, `TableFresh` | `~NoDataAnytime` |
| `NothingPartial`, `RetryKept` | `PartialNotPublished`, `ClosedRetries` | `~NoDataAnytime` |
| `ReconnectsKept` | `Reconnects` | `~NoDataAnytime`, `~RetryOverlaps` |
| `ReloadIsSafe` (Reconf_proofs) | `ReloadSafe` | `~FailsLate`, `RibsStay`, `NoneApart` |
| `ConfigsAgree` | `ConfigAgrees` | the same |
| `TreeKept`, `EachVisitedOnce` (RibDump_proofs) | `TreeRight`, `EachOnce` | `~SharedStart` |
| `LocFollowsKept` (Rpki_proofs) | `LocFollows` | `NoneIsNoRoute` |
| `StatesStayRight` | `StatesRight` | always `TableRight` and `ValidationRight`; `NoWrap`, `FiltersKeepOutcome`, `NoneIsNoRoute`, `NoneIsNoObject` |
| `TablesOfOneTransmission` | `OfOneTransmission`, a part of `TableRight` | `OffersAreFinite` |

Beside these hypotheses the theorems use only the `ASSUME` of the component's module, which
gives the types of its constants. Some hypotheses only say what the constants stand for:

- `NoneApart`, `NoneIsNoRoute` and `NoneIsNoObject`: the value `None` is not also a record; a
  model value never is;
- `OffersAreFinite`: a transmission of the RTR process is a ROA table and finitely many ASPA
  sets.

The others leave out cases of the code in which the property fails:

- `~NoDataAnytime`, `~RetryOverlaps`, `~FailsLate`, `~SharedStart`, `RibsStay`,
  `CommonFamily` (explained below), `RestartKept` (no reload turns graceful restart on or
  off) and `GroupKept` (none changes the `demote` group): the departures above;
- `Calm`: no allocation fails, and no request reaches a peer before it is initialised. An
  allocation that fails drops to IDLE inside a handler that then goes on.
  `RdeTold` and the contract hold without `Calm` (run `session_faults`, and their
  theorems);
- `Settled`: a connection that was accepted can be used, and the configuration stays. A
  refused one leaves CONNECT without its timer (a departure above), and a reload that makes
  a passive peer active leaves it in ACTIVE without one;
- `FiltersKeepOutcome`: no input filter changes a path to one with another ASPA outcome.
  `prepend-neighbor` repeats the first AS, which validation skips; `prepend-self` and
  `as-override` may change it (a departure above);
- `NoWrap`: `rde_aspa_generation`, a byte, does not come round to zero. When it does, an
  object that was not looked at for that long passes for current.

**SessionFSM.** Most theorems follow from one inductive invariant, `Good`. It has three
layers because the handlers break and mend them at different moments. `Core` (types; the
engine's record of what the RDE knows is right; every stale family is on record with its
timeout running) holds after every operator. `Downed` (a known peer is ESTABLISHED or
SessionDown runs) is broken by `EnterIdle` until `session_down()` or
`session_graceful_restart()` has run. `Depend` is broken when the interface goes away until
`session_stop()` has run. None of the properties is inductive by itself: `RdeSession` needs
that the session engine's timers keep their types and that no operator stops SessionDown but
`session_up()`; `StaleGuarded` needs that a peer the RDE does not know has no stale
family, or re-adding it would bring back an unguarded one. There is one lemma per operator of
SessionFSM, in its order, and `NextGood` combines them, one step per action. `RdeInSync`, the
third part of `RdeTold`, needs `CommonFamily`: a neighbor that can agree on graceful
restart has a family in common with the configuration. `session_graceful_restart()` tells the
RDE of the end of a session by its families. All three runs satisfy it. The refinement of
PeerSession needs no hypothesis: an allocation that fails changes nothing the contract
speaks of.

`NoFreshFlush` and `DemotionBalanced` are conjuncts of `Core` under their hypotheses: `Fresh`
says that a family is RESTARTING on record only while its routes are stale, `Balanced` that
each carp group has been raised by what the peer has added to it. `RecordsAgree` and
`NeverStuck` rest on a second invariant, `Fine`: a timer runs only in a state that serves it
(`Homed`), every state but IDLE has the timer or the connection that leads out of it (`Led`),
and IDLE waits for a timer, the interface or the operator (`Waits`). `session_stop()` breaks
`Waits` until its caller has seen to the peer, which is why it is kept apart from the rest,
`Tended`. The proof also settled what a peer stopped by a prefix limit waits for: the RDE may
forget it (SessionDown) while it stays stopped, so what it waits for is the operator, whether
the RDE still knows it or not.

**TimerQueue.** `ListRight` is inductive with its own type. The work is in the lemmas about
lists: where `SelectInSeq` finds a position, and what inserting, removing and appending do to
every position of an ordered list and to the map it stands for.

**GracefulRestart.** The obstacle is the pipe, which may hold any number of messages. The
invariant (`Leads`) says there is a path through abstract views of the RDE, one step per
message in the pipe, from what the RDE is to what the engine takes it for. A handler of the
engine appends a step to the path, the RDE takes the first one off, and no step of the path
needs an induction over the pipe. `RdeRight` adds that queued updates are of the session and
that routes of another session are marked and kept; then agreement, one clean-up, and
what a flush spares are read off the view at the end of the path.

**Rtr.** The invariant `Inv` has a part `Engine`, which says that the semaphore is the number
of sessions that hold the lock, that the table is fresh, and of each session (`SessionOK`)
that it holds the lock only in an exchange or an error, with the activity timer running,
and that one with parts of an exchange but no lock has lost it to that timer, which is then
stopped. The last point is what `TableFresh` needs: without it a PDU that changes records
while nobody holds the semaphore would leave the table stale. `Pipe` says
that at most one IMSG_RECONF_DONE is on its way, and only after its configuration was read:
`RecvDone` would otherwise put no configuration in force. `Reading` says that a session whose
read buffer is still worked off after an error is in ERROR. Every handler changes one
session and moves the semaphore by the change of that session's lock (`HeldUpdate`);
so there is a lemma for each event of `rtr_fsm()` on one session, two for putting it back
(`QuietStep`, `RecalcStep`), and one for each action; `NextInv` combines them. `Reconnects`
needs `Sockets` and `Confs` besides: a request for a connection is in one place at most, in
the pipe to the parent, in its connect attempt or in the pipe back (`OnePlace`), none is there
for a session that has a connection, and ids are given out once, so nothing on its way
can reach a session that a reload in progress will start.

**Reconf.** `Handshake` divides a reload into three stages: the configuration is on its
way (`Load`), the SE has been told to switch (`Switch`), the other two have (`Finish`). Each
fixes what every pipe between the parent and a process may hold, and makes
`reconfpending` the number of processes that still owe an answer. The other half
concerns the pipe from SE to RDE, where session changes and the reload's messages mix.
`Known` and `Coming` say of every configuration of a neighbor that the RDE has, or that is in
this pipe, that it is current, or is followed by a message that replaces or deletes it in
time (`Fixed`): before the drain message for a neighbor that stays, at all for one that
goes. When the drain has come through nothing is out of date that will not be deleted, which
is what the RDE relies on in `rde_reload_done()`. `RibsStay` says that a neighbor does not leave
the configuration together with its RIB.

**RibDump.** The invariant adds to the locks what a walk knows (`WalkRight`): everything it
has visited lies before the entry it goes on with, and an entry it must visit is visited or
still ahead. The list of walks is a function from numbers that fall with age; one step of
`rib_dump_runner` serves one walk, and the C function is a number of such steps in a row.

**Rpki.** `RibRight` adds the shape of the two tables, and that a destination without a route in
the Adj-RIB-In has none in the Loc-RIB, to `LocFollows`; the second is what is left of a
route the walk of a reload comes to and finds gone. Every reload may bring other rules, another filter
mode and other roles. If it changes what the filter makes of a route, its walk has all
routes still to come to; a step of the walk settles one and passes no other
(`SoftMoves`). `StatesStayRight` divides
`StatesRight` between TLC and the prover. That a table holds the records it was made from
(`TableRight`) and that `aspa_validation` computes what the reference says (`ValidationRight`)
is about data, and stays with TLC. From the two it is proved that no interleaving of
updates, new tables, reloads and the revalidation walk leaves a stale state behind. The
invariant `StatesOk` says of every attribute object that its outcome is the expected one if
its generation is the current one (`CacheOk`), that the object of a route is there (`Held`),
and of every route the walk has passed that its two states are what the tables in force give
(`RouteOk`), but for those a reload gave the outcome of an earlier generation and those whose
peer's new role its walk has yet to bring them (`Excused`). For
`TablesOfOneTransmission` the invariant `PipeRight` pairs each end of a transmission in the pipe
with the last ROA table before it, in the pipe or received.

Only model-checked:

- all liveness: it rests on fairness, which the prover does not handle;
- the properties of RibFib (Decision and Rib sort and walk with recursive operators) and of
  AdjOut (folds over the queue), where a proof needs induction over data; so do
  `ValidationRight` and the rest of `TableRight` (what a lookup in the table returns, and when
  two tables count as equal), which compare recursive functions with their definition.

## Not modelled

- **Formats.** Parsing and encoding of BGP, RTR, MRT, routing socket and imsg messages, the
  configuration grammar and its printer, `bgpctl`, `bgplgd`: no behaviour over time. An
  outcome of a parser is an input of a model.
- **Filters, attributes, communities, flowspec, tries, AS sets, hash tables, bitmaps**
  (`rde_filter.c`, `rde_attr.c`, `rde_community.c`, `rde_trie.c`, `rde_sets.c`, `flowspec.c`, `chash.c`,
  `bitmap.c`): data structures without a protocol. A filter is a function constant in Rpki,
  of the rules in force, and a value `Deny` in AdjOut; a ROA table is a set of pairs.
- **Kernel dialogue** (`pfkey.c`, `pftable.c`, most of `kroute.c`'s message handling): pure I/O; its
  results are inputs.
- **Within the modelled parts**: several address families at once, add-path and
  evaluate-all, multipath kernel routes, another process that changes a route of bgpd's own
  priority (`kroute.c:3229`), `nexthop qualify via bgp`, VPN and EVPN tables,
  max-prefix limits, export none and default-route, roles in the capability
  negotiation (`session_bgp.c:1429` keeps a policy once set), templates together with
  their clones (`session.c:1630` and `1634`: the search for a free id, the pointer to the template), several peers in one carp group,
  `IMSG_SOCKET_TEARDOWN`, memory failure in `rtr_send_error()`.
- In Rpki the local AS, the origin of an empty path, is the same in all configurations.
- In AdjOut a reload that changes filters leaves every prefix that has a path with one, so a
  walk's rule of passing over empty entries is seen only where updates remove paths.
