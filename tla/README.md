# A TLA+ verification of wg-mix-ebpf

wg-mix-ebpf rewrites WireGuard packets in TC and XDP programs: it changes the
type word, mixes payload with XOR, and, in its FakeTCP profile, carries the
datagrams inside a fabricated TCP stream.  A Go daemon turns a configuration file
into a *control state*, loads the BPF objects, publishes a numbered *generation*
of policy in pinned maps, attaches the programs and keeps them attached; an nft
table, the *startup guard*, drops managed traffic while a generation is being
replaced.

This directory models the parts of that program that act concurrently, that can
fail half-way or that survive a crash, checks them with TLC on small instances,
and proves nine of the components with TLAPS for every value of their constants.
`PROJECT.json` is the index: components, runs, the mutants that show each property
to be sensitive to the code, the map from definitions to source lines, the hazards
of the code, the findings and the theorems.

## 1. Inventory

| part | source | module | state |
|---|---|---|---|
| generation gate (BPF word and barrier owner) | `bpf/wg_mix_faketcp.h`, `dataplane/faketcp_generation_barrier_linux.go` | `GenerationGate`, `GenerationGateProofs` | modelled, proved |
| FakeTCP engine and session fast path | `faketcp/engine.go`, `session_store.go`, `session_compare_delete.go`, BPF session code | `FakeTCPEngine`, `EngineLoop`, `FakeTCPEngineProofs` | modelled, proved |
| SYN admission | `faketcp/engine.go` | `SynAdmission` | modelled |
| event loop and its guard barrier | `faketcp/event_runtime.go`, `startup_guard_pause.go` | `EventRuntime` | modelled |
| controller | `faketcp/controller.go` | `Controller` | modelled |
| raw backend, once-only reinjection | `faketcp/raw_backend.go` | `RawBackend` | modelled |
| action checkpoints | `faketcp/action_recovery.go` | `ActionRecovery` | modelled |
| FakeTCP runtime build and teardown | `dataplane/experimental_*`, `faketcp_production_linux.go`, `faketcp_policy_linux.go` | `RuntimeBuild` | partly |
| XDP and TCX links of a runtime | `dataplane/faketcp_xdp_owner_linux.go`, `experimental_tcx_stage_linux.go` | `LinkStage` | modelled |
| classic TC filters of a runtime and their record | `dataplane/faketcp_classic_*` | `FilterStage` | modelled |
| FakeTCP supervisor | `dataplane/faketcp_supervisor.go` | `Supervisor`, `CoordinatorProofs` | modelled, proved |
| production coordinator | `dataplane/faketcp_production_coordinator.go` | `Coordinator`, `CoordinatorProofs` | modelled, proved |
| checksum backends, kernel module leases | `dataplane/faketcp_checksum_*`, `kernel/*` | `ChecksumBridge` | partly |
| daemon requests | `daemon/request.go`, `daemon.go` | `DaemonRequests`, `DaemonRequestsProofs` | modelled, proved |
| daemon reconcile loop | `daemon/daemon.go` | `DaemonReconcile` | modelled |
| startup guard | `guard/*`, `reconcile/reconcile.go` | `StartupGuard`, `StartupGuardProofs` | modelled, proved |
| lease and maintenance gate | `lockfile/*` | `LifecycleLocks`, `LifecycleLocksProofs` | partly, proved |
| exact-TCX apply and detach | `dataplane/loader_*`, `pin_*`, `tcx_*` | `OwnerTransaction`, `OwnerTransactionProofs` | modelled, proved |
| classic TC apply and detach | `dataplane/loader_*`, `pin_*`, `tc_*` | `ClassicTransaction`, `ClassicTransactionProofs` | modelled, proved |
| what both promise | the same | `GenerationCommit` | abstract specification |
| owner records, index, history, archive | `dataplane/pin_owner_*` | `OwnerRecords` | partly |
| install, uninstall, cleanup plan | `install/*` | `Install` | modelled |
| type word and XOR packet path | `bpf/wg_mix_tc.c` | `PacketPath`, `SegmentCodec` | partly |
| FakeTCP packet path | `bpf/wg_mix_faketcp*.h` | `FakeTCPPath`, `ControlBudget`, `SegmentCodec` | partly |
| configuration, control state, ABI | `config`, `control`, `abi` | (abstract values) | partly |
| engine router, packet parsing in Go, status | `faketcp/engine_router.go`, `packet.go`, `dataplane` | | not modelled |
| command line, providers, probes | `app`, `runtime`, `underlay`, `feature` | (clients of `DaemonRequests`) | partly |

`PROJECT.json` lists every part with its files and the reason where it is left
out.

## 2. How the parts interact

```
 commands --request/ack files--> daemon loop --> reconcile --> startup guard
     \                              |                |            | barrier
      lease + maintenance gate -----+                v            v
      install, uninstall                      coordinator --> supervisor
                                               |                  |
                                          plain loader      runtime build/close
                                               |                  |
                     owner records ---- transactions:       links, filters, checksum lease
                                         exact TCX,         event loop -> controller
                                         classic TC             |     -> engine -> session map
                                               |                +-> raw backend
                                               +---- BPF programs: packet path, generation gate,
                                                     session fast path, event budget, codec
```

Every module keeps one layer whole and reduces its neighbours to what they
promise.  `Coordinator` is a real composition: it extends `Supervisor`, and its
actions are the supervisor's steps together with those of the coordinator, and
`EngineLoop` extends `FakeTCPEngine` by the loop that calls it.
`OwnerTransaction` and `ClassicTransaction` are shown to implement the abstract
specification `GenerationCommit`, with the record, the control word and the phase
as the refinement mapping.  Elsewhere the promise that one module assumes is a
property of another: `RuntimeBuild` uses the gate as closed, open or sealed with
packets inside, which is what `GateQuiesces` and `GateSealIsFinal` prove of
`GenerationGate`; `Supervisor` uses `Pause` and `Run` as `EventRuntime` provides
them; `FakeTCPEngine` takes the verdict of the SYN limiter that `SynAdmission`
contains; `Controller` uses the ledger that `RawBackend` has in full;
`StartupGuard` and `DaemonRequests` rely on the exclusion of `LifecycleLocks`; the
transactions take a record as one atomic write, which `OwnerRecords` resolves into
file operations; `PacketPath` uses the order in which the transactions write maps,
tail calls and control word.

The parts that do not meet in one behaviour are checked several at a time.  An `MC`
module has them side by side with their constants and with variables of their own;
its variable `part` names the one that moves, the others stay in their initial
state, and the states of a run are the *sum*, not the product, of the states of its
parts.  An invariant of one part reads `part = "x" => X!Inv`; a progress property
has the fairness of its part as its hypothesis, `part = "x" /\ X!Fairness =>
X!Live`.  The assumptions on the constants of each instance are restated and
evaluated in the `MC` module.  One component of each `MC` module is *extended*
instead of instantiated: its properties are those of the component's own module, so
that the run checks, on a small instance, the very definitions that the theorems
state for all of them.  The other properties of an `MC` module are conjunctions of
what its parts promise about one question; the conjuncts are defined, and explained,
in the modules of the parts.

| module | extends | instances |
|---|---|---|
| `MCDaemon` | `StartupGuard` | `DaemonReconcile`, `LifecycleLocks` (hand-over), `DaemonRequests` (one client) |
| `MCOwnership` | `ClassicTransaction` | `Coordinator` with `Supervisor`, `LifecycleLocks` (everybody; one replaced file), `Install` (acts of others; reloads and reboots), `OwnerTransaction` (two slots; one slot whose device comes and goes), `OwnerRecords` (reboots; moved keys) |
| `MCEngine` | `FakeTCPEngine` (busy fast path) | `FakeTCPEngine` (more packets than the quotas admit; more flows), `SynAdmission`, `FakeTCPPath`, `ControlBudget`, `ChecksumBridge` |
| `MCSlowPath` | | `Controller`, `RawBackend` (three callers; two closers), `ActionRecovery`, `PacketPath`, `SegmentCodec` (bytes; stream; noise) |
| `MCProgress` | `GenerationGate` | `EngineLoop` with `FakeTCPEngine`, `Controller`, `RawBackend`, `ActionRecovery`, `OwnerTransaction`, `ClassicTransaction`, all small |
| `MCRuntime` | `Supervisor` | `RuntimeBuild`, `EventRuntime` (pauses; closes; stops), `LinkStage`, `FilterStage` |

`DaemonRequests` with two clients is checked directly, as are the modules of the
findings.

## 3. The modules

Each paragraph names the state, the actions and the abstractions.  A comment above
each definition says what it stands for; the exact lines are in the map.

**GenerationGate.**  The 64-bit word `faketcp_gen_gt.state` is a set of flags and
an in-flight count.  Loads, compare-and-swaps and fetch-and-subs are separate
steps.  A packet has an outer (`xdp`) and a nested (`event`) context.  The control
program's OPEN, CLOSE and ASSERT_CLOSED, the ring with the wake record and the
userspace owner (stage, activate, commit, close, retry) are the other actors.
`Contexts` has two entries per packet, and `MaxInflight` stands for the width of
the count.

**FakeTCPEngine.**  `sessions`, the four quota counters, the session map `fast` and
the fate of every captured packet.  Engine calls are atomic (they run under
`Engine.mu`), except that BPF programs interleave between the lookup, the claim
and the delete of one compare-delete and between the flows of one `Tick`.
Sequence numbers are reduced to "the acknowledgement matches or does not", time to
due or idle, a packet to one byte of the pending budget.

**EngineLoop.**  The event loop around one engine.  A store error of a packet or of a
tick makes Run return, so an uncertain delete is not retried by the next tick: the
daemon's health poll finds the runtime stopped, closes it with its session map, and a
later apply may build another (`Retire`, `Rebuild`).  `SessionsSettle` is stated of this
loop: Run ends behind an uncertain delete, a half-open session comes to an end, and a
delete under way is resolved or goes with the map.

**SynAdmission.**  Token buckets with exact refill arithmetic, the ledger of
sources with its LRU order, expiry and bounded pruning, and the half-open counts.
The assumption `SYNSourceLedgerTTL >= SYNBurstPerSource * SYNRateInterval` is
stronger than the one `newEngine` enforces (`TTL >= SYNRateInterval`): with a
shorter TTL a source can be forgotten before its bucket would have refilled, and
`SourceRate` would not hold.  The default options satisfy it.

**ControlBudget.**  The virtual-time cursor that limits control events.  Reading the
clock, loading the cursor and the compare-and-swap are separate steps of each CPU; a
swap lost `Attempts` times drops the event.  The per-flow map of last events is an
LRU map and may forget a flow at any time.

**FakeTCPPath.**  TC egress, XDP and TC ingress of one FakeTCP generation.  A lookup
returns an *element* of the preallocated session map, and userspace may delete the
session and give the element to another flow before the snapshot or the mutation
under the element's lock.  Tokens between two programs of one packet carry a nonce
and are in a per-CPU slot.  A session id stands for id, incarnation and immutable
projection.  What the code does leave open, and the properties therefore allow:
between lookup and snapshot a recycled element may belong to another flow, so that
receive progress is applied to that session while the packet itself is refused (a
control ACK has the same window); a token that its egress admission refused stays
until the next packet of that CPU clears it and is dropped; after a deactivation a
packet that XDP decoded passes TC undecoded, and WireGuard discards it.

**PacketPath.**  The plain programs read the control word once and then one map at a
time, while the loader publishes and prunes generations and an apply or a pruning may
be abandoned (`MaxAbandons`).  A payload is a row of units; each unit holds the set
of ciphers XORed onto it, so that a tail-call chain that loses a link or repeats one
is visible.  There is no RCU wait between the commit and the deletion of stale
entries: a packet that read the old generation may find it gone, which passes an
unmanaged packet and drops one whose profile or cipher is missing.  Recycling of
policy-map elements inside one packet is left out, as is outer GSO on plain UDP, which
`docs/compatibility.md` lists as not covered.

**SegmentCodec.**  The bytes: admission by the kernel module, type word and XOR of
every segment, rotation of the payload, sequence numbers and checksums; a network
that loses, duplicates, reorders and damages; XDP and TC ingress of the peer.  The
arithmetic is scaled (byte base 8, words 64, sequence numbers 4096, a header
difference of 4 and a type word of 2 bytes) and keeps its widths.  A refused packet is
a stutter.  XDP does not verify the TCP data checksum: damage is caught by the UDP
checksum carried over by differences, which is what `DatagramWhole` states.
`SegmentsAccepted` assumes an MTU the peer's length limit admits.  TCP segmentation and
the completion of a partial checksum are the kernel's and are external; TCP flags are
left out.

**ChecksumBridge.**  Leases of the kprobe module, the cookie in the collection's map,
the descriptor in `skb->cb` and the module's error counters.  Cookies are new each
time; 64 slots are scaled to two.  TC egress is not gated by the generation gate.  The
release of a TCX link waits for the programs, the deletion of a classic filter does
not (`waits`); then a packet may be inside the helper when the lease is closed, is
dropped, and its error makes other open leases report unhealthy.

**EventRuntime.**  One loop, callers of Pause and Resume, callers of Close, and two who
ask for a stop: a callback inside the loop and, once and at any moment, the
supervisor's `requestStop`.  A critical section of the mutex is one action; a waiter
that has read the `stateChanged` channel is in `asleep` until that channel is closed,
and a caller that finds a close of the reader under way waits for that attempt and
returns its result.

**Controller, RawBackend.**  Callers, `opMu`, admission counting, the permanent
failure mark and the joined Close of the controller; in the backend the claim,
follow, queue, write and Close protocol of `onceReinjector`.  `MaxStreams = 1` with
two CPUs exercises the bounded ledger.

**ActionRecovery.**  The write-ahead checkpoint, its revisioned compare-and-swap and
the recovery by a replacement controller.  The production constructors
`NewController` and `NewRoutedController` do not use this file; its contract is
checked on its own.  `MaxRevision` reaches the exhaustion of the counter.

**RuntimeBuild.**  `have` is what the build or the runtime still points to, `live`
what exists.  The tables `Needs*` give the order in which a pass may close owners.
Every constructor may fail and leave something behind (`*Leaves`), every close may
fail (`*Fails`).  The TC stage is the one of the production factory, TCX links or classic
filters (`backend`); the default factory of `experimental_tcx_stage_linux.go` is not
modelled.  The last four steps of a build run in the callback with which that stage
commits.  When they fail, the classic transaction takes its filters back at once
(`tcRollback`), before `cleanupUncommitted` closes the slow path, although the comment at
`experimental_runtime_linux.go:1311` says that no dataplane owner is detached before the
slow path is fenced.  Nobody has called Run by then.  `SlowPathFencedFirst` exempts this
one step and nothing else.  The gate is closed, open or sealed; the checksum stage is
always present; an error of the map update that selects the generation is taken as "not
applied".  Run, RequestStop, Pause and Resume of the runtime only refuse by the
same flags and are left to `EventRuntime` and `Supervisor`.

**LinkStage.**  Both link stages, `kind` tells which: probe, attach, prove again,
release in reverse.  Others attach to a hook, leave it or replace the program of our
link; devices vanish.  `Quarantined` names where the code refuses for good: a link
that runs another program, and an adopted XDP attachment whose inspection failed once
during a release (`liveFakeTCPXDPLink.Release` then reports nothing observed, and
`release` marks the attachment stale, although the comments of the interface and of
`Close` speak of a later retry).  An unverified link on a lost device never closes.

**FilterStage.**  The classic filters of a runtime and the record that names them,
over kills and reboots.  An inspection of a slot and the delete behind it are one
step, since netlink cannot compare and delete.  `Disowned` names the in-process case
that only a restart ends: a `Persist` that took effect and still returned an error
makes `Close` refuse "journal changed".  A record of an earlier boot whose slot
somebody uses waits until they leave.

**Supervisor, Coordinator.**  The call that holds `operationMu` and its position;
the runtime's goroutine ends and the context is cancelled between any two steps.
Runtime identities and lease tokens come from small pools and are reused once
nothing refers to them.  The pause revision is left out (under `operationMu` it
never differs from the expected one); a runtime without the pause contract is one
whose pause fails.  `CallsAfterCancel = FALSE` is the daemon, which only detaches
once its context has ended.  `DetachStale` with a FakeTCP state does nothing and is
left out.

**DaemonRequests.**  Every file operation of clients, daemon instances and the
clean-up worker of a bounded stop is a step.  `CreatedAt` comes from each client's
clock, so requests of one batch are served in any order.  Configuration paths
agree: a client that names another one is refused before it enqueues.  Pruning the
answers is one step; the code lists the directory once and unlinks file by file, so a
client that consumes an answer meanwhile can make it drop more than the excess.

**DaemonReconcile.**  `runOnce` with its three separate reads of the file, the
operator, the running system and lost attachments.  A content and its hash are one
value.

**StartupGuard.**  `startupGuardTxn` over the nft executor: the table, the owner
record, the attach state and the dataplane survive a kill, the runtime and its
barrier do not.  A failed command may have taken effect.  `GuardCommand` (the
command line's own guard operations) asks for "no daemon", approximated by "no
runtime and no barrier".

**LifecycleLocks.**  Open, flock, validate by inode and release of the maintenance
gate and the lease.  `torn` records that a file was replaced while an acquired lock
on it was in use; `Exclusive` is conditional on its absence, because nothing in a
flock protocol can detect that.  The operation lock of a run directory is taken
only under the lease and is left out; uninstall keeps the lease file.

**GenerationCommit.**  The promise of a transaction, with three variables: the
published generation, the one under way and its stage.  The decision is taken once;
a generation being undone is never published, a published one is never undone.
`MayKeep` says whether a detach may be called off, as the classic backend's may.

**OwnerTransaction.**  Exact TCX: the owner record, the pin directory, the program
stages, link pins, kernel links, control word and banks of data entries.  One step is
one durable effect; kill, cancellation and failure may fall between any two.  With
`MayLose` a device comes and goes.  Cleanup insists on every link being attached
(`RefuseDetached`), and a detached pin that already runs the desired program after a
crash between the persisted `ReplacesLinkID` and its rollback is refused for good;
`Settles` is therefore checked without the loss of devices, and the safety
properties with it.  The wrap of the 64-bit generation is not reached.

**ClassicTransaction.**  The same over clsact filters, which outlive the process and
are replaced in place: a failed apply puts back what it changed, a killed one is
carried to its end.  Three windows (`Wedged`), excepted from `Recoverable`, leave a state
that recovery refuses until a reboot archives the record: (a) `abortFailedOwnerApply`
removes the program stages before it persists *active*; (b) `rollbackOwnerDetachToActive` is killed while
filters or maps are partly restored in *unlinking_maps*; (c) `restoreCanonicalOwnerMaps`
is killed between pinning a canonical map and unlinking its retired name.  Also, an
Apply whose abort could not be persisted returns an error and is later rolled forward.
Others' filters, the adoption of legacy pins and the loss of devices are left out.

**OwnerRecords.**  Record, next file, index, history and archive of one pin path; each
file operation is a step, a crash may follow any of them, and a restart may be a
reboot or change the resource key.  `StoreReopens` excepts two cases in which the
store refuses: a crash between the creation and the sync of a `.next` file, which
leaves a torn file, and a key that changes while a record change is unfinished.  The
clock of the rotation is monotone.

**Install.**  The names that install and uninstall decide about, each absent, ours or
foreign; the write-ahead manifest, the quarantine of files and directories, stages,
and a stranger who acts on public names at any moment.  The daemon starts, reloads and is
stopped, and the host may restart, which empties the run and the pin directory.  Three
names of the program itself are none that the cleanup knows: `pinlocks` (the directory
`pin-locks` in the run directory, which every Apply and Detach creates, the detach of an
uninstall included), `records` (guard and pin owner in the state directory) and `ownermap`
(`owner_map` and the pinned TCX links).  While one of them is there every preflight
refuses; `UninstallAccepted` shows it.  `CanGoOn` is therefore about a command that has
passed its preflights: once an uninstall has begun to remove, or an install to publish,
a failure or a kill leaves a host on which the command is accepted again.  Stops that
need an operator and that `CanGoOn` excepts: a crash between rename and unlink in the run
directory, a stage or a quarantined file left in the configuration directory.  An initial
state is an installation without a manifest whose maps are pinned without `owner_map`,
the legacy layout that `classifyCanonicalPinDirectory` knows and `--adopt-existing` is
for; it is the one in which the pin directory is removed.  The replacement of the binary
checks and then renames; the binary is therefore not in `ForeignKept`.  A purge leaves
the binary, so that the next install needs `--adopt-existing`.  The OpenWrt layout is not
modelled.

## 4. The runs

States are distinct states; each run takes from a few seconds to about three and a
half minutes on two cores.

| run | module | states | what its properties show |
|---|---|---|---|
| `daemon` | `MCDaemon` | 72,539 | `GuardHolds`: a half-replaced dataplane is guarded over every failure and kill; `StatusIsTrue`: active, need_reload and the configuration a poll applies; `Converges`: the dataplane follows the system, lost attachments return, retries release the guard, uninstall gets the lease, a client its answer |
| `requests` | `DaemonRequests` | 2,162,377 | a reload and a stop against two daemons, kills and the one-shot path. `Serialized`: one process changes the dataplane, queue and history keep their limits; `AnswersHold`: a request runs at most once, where it was sent, and what a client is told is true; `DecisionIsFinal`: neither an acknowledgement nor a withdrawal is undone |
| `engine` | `MCEngine` | 884,666 | `CountersExact`: the counters that gate admission, and every captured packet in one place; `FastPathOwned`: sessions, tombstones and idle claims against BPF; `LimitsHold`: quotas, SYN rates and the event budget at their limits; `ServedByOwner`: a packet passes only for its own session and under a live lease |
| `slow_path` | `MCSlowPath` | 609,880 | `ActionsInOrder`: acknowledgement before release, nothing after a failure; `ClosedIsUnused`; `WrittenOnce`: one write per captured packet, in order, over duplicates, crashes and two controllers; `PacketsWhole`: over reloads a packet is rewritten whole or not at all, and a datagram sent as segments comes back with a checksum that tells damage |
| `runtime` | `MCRuntime` | 154,506 | `OwnedOnce`: nothing leaks, links and filters included; `ClosedInOrder`: teardown never goes under a packet, a poll or a loop, and never takes what is not ours; `SupervisorHolds`: one owner, and the barrier of the startup guard; `TeardownEnds`: builds, teardowns, pauses and calls end |
| `ownership` | `MCOwnership` | 654,835 | `CommitsOnce`, `PublishedIsWhole`, `Recoverable`: the classic transaction; `LinksAccounted`, `AppliedIsServed`: the exact-TCX one, and hitless replacement with both; `RecordsSurvive`: owner records over crashes and reboots; `Exclusive`: one process at a time and one core per scope; `ForeignKept`, `ManifestInOrder`, `MayRunAgain`: install and uninstall, the last for a command that began to change the host, the second for a command that began to change the host |
| `progress` | `MCProgress` | 57,056 | `PolicyWhileInside`, `QuiescedIsDrained`, `NeverPoisoned`: the generation gate; `SessionsSettle`: Run ends behind an uncertain delete, handshakes end, deletes resolve or go with the map; `CallsEnd`; `RecoveryFinishes`: checkpoints and both transactions are finished once faults stop |

Each run also checks the type invariants of its modules (those of `DaemonRequests` in
`daemon`).  Deadlock is checked in `ownership`, `guard_not_kept`, `guard_stop_leaves` and
`reconcile_late_failure`, which go on for ever.  The others may stop: a gate whose
generation is retired, a closed runtime, controller, backend or event loop, a client
that has its answer, a bounded clock or number of packets.

### Findings

Five runs are expected to be violated; each checks a statement of the documentation,
of a comment or of a test against the code.

* `reconcile_late_failure`: after a reload that failed behind `loader.Apply`, a poll
  of the reverted file reports active over another dataplane state.
* `guard_not_kept`: a reload that fails before `loader.Apply` removes the guard it
  has just applied.
* `guard_stop_leaves`: a stop that finds neither attach state nor underlays succeeds
  with the dataplane attached.
* `controller_flows`: two flows captured on one CPU whose handshakes end in the other
  order make the controller fail.
* `uninstall_refused`: an installation whose daemon has applied anything is refused by
  its own uninstall, for up to three reasons: `prepareRuntimeDirectoryPlan` does not know
  `pin-locks`, `prepareStateDirectoryPlan` neither `guard-owner.v2.json` nor `pin-owners`,
  and `preparePinDirectoryPlan` neither `owner_map` nor pinned TCX links.

One more disagreement has no run of its own: the classic TC rollback of section 3
(RuntimeBuild), which the passing property exempts.  Two more were met and are kept out of the passing runs by a constant.  A file saved
between the hash and the reload of one poll is applied by that poll, although
`docs/architecture.md:405` says that a poll only records such an edit
(`Environments` of `DaemonReconcile`: `StatusIsTrue` is checked where nobody saves
inside a pass, `Converges` also where they do).  And a call whose context ends inside
the coordinator makes it take the baseline for an experimental owner, so that a later
FakeTCP apply skips the baseline's detach (`CallsAfterCancel` of `Coordinator`); the
deployed daemon does not get there, since it only detaches once its context ended.

Not turned into runs because no text of the repository says otherwise, or because the
case is an exception that section 3 names: a best-effort or mode-none reload that
succeeds after a failed guarded one neither removes the guard nor reopens a held
barrier; a checkpoint of a foreign identity is never removed by `Recover`; a same-key
`Ensure` after `Run` ended by itself returns the run's error although it released the
owner; the factory keeps no owner to retry the failed close of a collection that no
build claimed; a `fakeTCPKprobeLease.Close` that failed once fails for ever, because the
file is closed by then.

### Bounds

Bounds are chosen so that the limit itself and one step beyond it are reached.

* Two of each contender (pausers, closers, callers, daemon instances, runtimes,
  scopes, slots, hooks, packets at the gate with two contexts each), three where a third
  changes the outcome: three callers at the backend (a writer, a duplicate and a
  successor), three flows for two sessions, three sources for a ledger of two, three
  sessions for two elements of the session map.
* Two maps are enough for the transactions: the owner map, which has to outlive the
  others, and one other.  Two generations use both tail-call banks; `PacketPath` has
  four, so that a bank is used again under a packet that read the one before.
* `MaxFaults`, `MaxCrash`, `MaxForeign` and `MaxActs` bound injected errors, kills and
  the acts of strangers: one beside crashes and overlapping controllers, up to three where
  a failure is to hit the work, its clean-up and the retry.  The transactions have no
  such bound: every step may fail or be the last.
* `CasAttempts = 2` lets a context lose a swap and give up; `RingCapacity = 1` loses a
  wake record; `ExistingLimit = 0` reaches the evidence limit of `Install` with one file.
* `MaxSessionID`, `MaxRevision`, `MaxTokens`, `MaxTime`, `MaxInode`, `MaxBoot`, `MaxSeq`,
  `MaxIndexSeq` and `MaxLink` bound counters that the code keeps in 64 bits, or
  identities that the kernel hands out; the guards stop at the bound, and where the code
  handles exhaustion the refusing path is modelled.
* `FakeTCPPath` has one CPU: CPUs share only the sessions and the packets between XDP and
  TC ingress, and userspace interleaves with each step of the one.
* The progress part of `daemon` has one client; its acknowledgement limit is large enough
  that pruning never removes an answer nobody has read.  With more than 512 unread answers
  a client may find its answer pruned and then waits for its own timeout.

No run uses symmetry.

### Fairness

Weak fairness is given to code that is running: a goroutine inside a call, a packet
program, the control program, a builder.  Strong fairness is given where the code
retries what the environment may make fail: the ticker of the loop, which a pause of the
startup guard holds back until it ends, the retransmission of a half-open handshake, `opMu` (Go's mutex is starvation-free), the reload retries of `StartupGuard` and
`DaemonReconcile`, and the directory listing of the request loop.  Strong fairness of
a successful outcome says that a command which is retried for ever does not fail for
ever.  The environment (operators, kills, faults, new requests, arriving packets) has
no fairness.  In `EngineLoop` store errors are not restricted at all, and a runtime whose
Run has ended is closed in the end: the health poll reaches it (a poll that sees an edited
file returns before the health check, so this needs the edit to be followed by a reload),
and the repeated Close succeeds.  Nothing says that a new runtime is built.
`RuntimeBuild` assumes that the holder of a shut-down runtime calls
Close again, as the supervisor's quarantine does; `HandoffCompletes` starts after the
service's stop, for which systemd is responsible.  `Settles` of the two transactions
starts when faults have stopped (`calm`) and has Apply or Detach called again, as the
poll does; `FailedCloses` and `RecordSettles` likewise have the coordinator retry.

## 5. What is proved

Eight modules hold the proofs, each of them for every value of the constants that the
named assumption allows.  Each rests on an inductive invariant, and the promised
property follows from it; the invariants were checked with TLC on small instances before
they were proved.

| module | assumptions | theorems |
|---|---|---|
| `GenerationGateProofs` | `GateAssumption` | `GateInvariant`, `TypeCorrect`, `GateNeverPoisoned`, `GateProtectsPolicy`, `GateQuiesces`, `GateWakeIsProof`, `GateSealIsFinal` |
| `FakeTCPEngineProofs` | `OptionsAssumption` | `EngineInvariant`, `EngineCountersExact`, `EngineFastPathOwned`, `EngineTypeCorrect` |
| `DaemonRequestsProofs` | `ConstantsAssumption` | `RequestsInvariant`, `RequestsSerialized`, `RequestsAnswersHold`, `RequestsDecisionIsFinal`, `RequestsTypeCorrect` |
| `StartupGuardProofs` | `ModesAssumption` | `GuardInvariant`, `GuardAlwaysHolds`, `GuardTypeCorrect` |
| `CoordinatorProofs` | `PoolAssumption`, `ScopeAssumption` | `SupervisorInvariant`, `SupervisorAlwaysHolds`, `SupervisorTypeCorrect`, `CoordinatorInvariant`, `CoordinatorExclusive`, `CoordinatorRetainsScope`, `CoordinatorBaselineAlone` |
| `LifecycleLocksProofs` | `ProcsAssumption` | `LocksInvariant`, `LocksExclusive`, `LocksHandoffClosed`, `LocksTypeCorrect` |
| `OwnerTransactionProofs` | `TransactionAssumption` | `OwnerInvariant`, `OwnerCommitsOnce`, `OwnerPublishesWhole`, `OwnerTypeCorrect` |
| `ClassicTransactionProofs` | `ClassicAssumption` | `ClassicInvariant`, `ClassicCommitsOnce`, `ClassicPublishesWhole`, `ClassicHitless`, `ClassicAppliedIsAttached`, `ClassicTypeCorrect`, `ClassicRecoverInvariant`, `ClassicRecoverable` |

`PROJECT.json` says what each establishes and which property of a run it states.

Most leaves cite `Zenon`: they are set and first-order reasoning, and arithmetic has leaves
of its own for the SMT solver.  This matters for the time a module takes, since the
translation to SMT becomes slower with each leaf that uses it.  For the same reason the
modules of the engine and of the requests bring in the library's cardinality theorems
only at the end: the lemmas before it take the few facts they need as the hypothesis
`FiniteFacts`, which `FiniteFactsHold` then proves.

**The gate.**  `MaxInflight` exceeds the number of contexts, as 2^60 - 1 exceeds the
number of CPUs times their nesting.  None of the properties is inductive by itself: the
essential strengthening is that the in-flight count of the word *equals* the number of
contexts that have entered and not left, and that the flags of the word, the binding
of the generation and the stage of the owner agree at every step of the control
program, including the value it has loaded and not yet swapped.  Cardinality lemmas
carry the count through each entry and exit.

**The engine.**  `EngineInv` has two halves.  `CountInv` says that each counter is the
size of the set it counts and that each held packet is in one place; the finiteness of
those sets is part of the invariant, since the constants may be infinite.  `FastInv` says
that a request under way (a claim, a delete, an idle check) only names lifetimes and
revisions the session map has had, so that a comparison that succeeds is about the
session it was meant for.

**Requests.**  `RequestsInv`: the holders of the lease are one process; the batch of a
daemon holds only its own requests, which nobody has carried out or answered; every
acknowledgement is true; and the daemon a client has chosen is over or is named by the
status file.  The last is what makes a request reach the daemon it was written for or
nobody.

**The startup guard.**  `GuardInv` adds to the three state properties what each field of
`startupGuardTxn` proves: an observed absence still holds, a validated dataplane is
valid, a guard that was absent at first had been lifted from a dirty dataplane, a fresh
barrier was open.  Beside it is what holds at each place of `reloadUnlocked`.  With the
fields alone the deferred failure handler, which decides by them whether to roll the
guard back and whether to resume the runtime, could not be shown to be right.

**Supervisor and coordinator.**  The place of the call under `operationMu` fixes whether
there is a current runtime and whether its Run has returned (`CallInv`); each phase of
the barrier says what the loop is doing (`BarrierInv`).  On top of that, the
coordinator's invariant says which supervisor call an operation has under way
(`LinkInv`), who may own a runtime (`OwnedInv`) and what was bound, detached and
recovered before (`ScopeInv`).  The proof for the coordinator uses the supervisor's steps
through a few facts about each and does not open them again.  Its theorems assume
`~CallsAfterCancel`, the daemon that only detaches after its context ended; without it
`CoresExclusive` is false (section 4).

**Locks.**  The place of a process fixes the locks it holds; two flocks of one name are on
different files; a validated lock is on the file its name leads to, unless `torn`.

**The transactions.**  `OwnerInv` and `ClassicInv` say which phases and steps of the record
go with each place of a call, what the record journals in each, which directory entries
go with it and which entries of the data maps and tail calls the published and the next
generation have.  `OwnerCommitsOnce` and `ClassicCommitsOnce` are the refinement of
`GenerationCommit`: initial states map to initial states, and each step, failures,
kills and recovery included, to a step or a stutter.  `RecoverInv` adds to the classic
invariant where each map and each stage must be for each step of the journal, and who
may be missing them; from it follows that recovery accepts whatever it finds outside the
three windows of section 3.

## 6. What is only model-checked

Liveness under fairness and ENABLED are out of the prover's reach: `Converges`,
`SessionsSettle`, `CallsEnd`, `RecoveryFinishes` and `TeardownEnds` stay with TLC.  So
does what needs induction over data: the LRU order and the refill of `SynAdmission`, the
tail-call chain of `PacketPath`, checkpoints of `ActionRecovery`, cleanup plans of
`Install`, the release order of `LinkStage`, and the checksum arithmetic of
`SegmentCodec`, which also uses bit operations that the prover does not know.
`RuntimeBuild`, `EventRuntime`, `Controller`, `RawBackend`, `OwnerRecords`, `FilterStage`,
`FakeTCPPath`, `ControlBudget` and `ChecksumBridge` are within reach and have no proofs
yet; neither have `Recoverable`, `OneLinkPerSlot`, `ProgramsStaged`, `ActiveIsAttached`
and `Hitless` of `OwnerTransaction`.

## 7. What is not modelled

The text of nft rules, JSON, log messages and status output; file permission and
symlink checks, which only refuse; the unsupported-platform stubs; the kernel's BPF
verifier and the TCP peer's stack, which appear as nondeterministic environments; time,
which appears as events (a timeout may happen) except in `SynAdmission` and
`ControlBudget`.  The routing table of the engine router is immutable after its
construction.  Packet parsing in Go and the ICMP checksum derivation are pure functions
of bytes.  The allocation of identifiers in the control state and the
adoption of legacy pins are left out.

## 8. Plan

1. Proofs of `OwnerTransaction`'s `Recoverable` and `OneLinkPerSlot`, of `RuntimeBuild`'s
   `LiveIsOwned`, of `EventRuntime`'s `HeldIsQuiet` and of `FilterStage`'s `RecordCovers`.
2. Control state: allocation of identifiers across reloads.
3. Adoption of legacy pins, and the OpenWrt layout of `Install`.
4. A composition of two engines that perform the handshake over a lossy network.
