# Formal model of DSP Idle Network

TLA+ models of the parts of DSP Idle Network whose correctness depends on
interleavings, crashes, retries and ordering, the TLC runs that check them, and
TLAPS proofs of their main invariants.  Every definition is translated from the
code; `PROJECT.json` maps each one to the lines it stands for.

## 1. Inventory

The program is a factory game that runs in a browser or PWA, in an Electron
desktop shell with a native (Rust) host process, and on Android, with an account
and cloud-save server.

| Component | Code | State it keeps | Operations | What is hard | What makes it correct |
|---|---|---|---|---|---|
| Native save store | `native/dsp-native-host/src/save_store.rs` | per slot: two superblocks, generation directories, content-addressed chunks, WAL; open transactions, manifest cache, unconfirmed publications | begin, put, commit, abort, recover, append, reconcile, compact | crash or I/O error between any two durable steps; media damage; retries | no acknowledged checkpoint or operation is lost, no silent rollback, always recoverable without damage |
| Exact-realtime lease | `native/dsp-native-host/src/exact_realtime_lease.rs` | one durable lease file: phase, pending tick or command, acknowledged position | prepare, activate, stage, acknowledge, pause, resume, rebind after restart | staging, WAL append, publication and acknowledgement are separate durable steps | while the lease exists `normal-main` changes only by its pending operation; that operation is applied once or not at all, and no restart refuses to adopt the lease |
| Core runtime | `native/dsp-native-host/src/core_runtime.rs` | sessions holding a simulation state, a dirty flag, an unconfirmed checkpoint | open, commit operation, checkpoint, reconcile, close | WAL append succeeds and the state install fails, or the reverse; idempotent replay | the session is at the acknowledged state or at the pending operation's result, never on a third branch |
| Desktop player-authority runtime | `desktop/native-player-authority-runtime.cjs` | phase, context (revision, generation, next sequence, second due), command queue | tick, command, undo, redo, pause, resume, retry, restart | time-outs of calls that did settle, a host that exits, commands behind a call in flight | every second is simulated once, a confirmed command stays, a stopped runtime runs again |
| Host protocol | `.../main.rs`, `protocol.rs`, `frame.rs` | stdin/stdout frames, one command at a time | decode, dispatch, reply | framing errors, size limits | one reply per request, in order |
| Simulation core | `native/dsp-native-core/src` | the game state | ticks and commands | determinism, numeric width | equal inputs give equal states |
| Game engine (TypeScript) | `src/game/*.ts` | the same state in the browser | ticks, commands, offline catch-up | equivalence with the native core | same |
| Browser save store | `src/game/localSaveStore.ts` | IndexedDB records, writer lease with a fencing token, per-key revisions, broadcast | claim, renew, take over, commit, queue an exit save, resolve a conflict, mirror | several tabs, lease expiry, suspended timers, messages out of order, a page killed in an exit | a confirmed save is continued, preserved beside the line, or given up by the player, never lost |
| Desktop shell | `desktop/*.cjs` | renderer and native-host processes, brokers, hand-off state | start, hand-off, command, projection, graceful close | renderer reload or host crash between two messages | one authority over a save at a time |
| Cloud API and payload store | `server/index.mjs`, `cloud-payload-store.mjs`, `cloud-quota.mjs` | SQLite state, payload rows and shared blobs, receipts, a mutation queue, reference counts in memory | upload with expected revision, restore, delete, prune, close | lost answers and repeated uploads, failed transactions, a death or a shutdown between steps | an operation takes effect once, whole, over the revision it names; every listed revision has its payload |
| Cloud client | `src/game/cloud.ts`, `App.tsx`, `GalaxyWorkspace.tsx` | a marker of the save its game goes back to, the metadata read last, a conflict | automatic and manual upload, confirmation, conflict, download, restore, delete | another device between any two of its requests; uploads without an answer | no save is overwritten that its player has not seen; what it takes for saved is saved |
| Upload scheduler | `server/upload-inspection-scheduler.mjs` | queue, slots, byte budget | acquire, run, cancel, close | an inspection can end in six ways, and at a shutdown | slots and bytes are returned exactly once, everything admitted or waiting ends |
| Release hand-off | `deploy/api-handoff-proxy.mjs`, `release-switch.mjs`, `api-active-entry.sh`, `api-writer-lock.sh`, systemd units | proxy mode and generation, request queue, switch journal, links, units, writer lock | forward, drain, hold, stop, start, publish, recover | status file read stale, crash of the switch in any phase, requests in flight | one writer at a time; no request lost or sent to a stopped writer; an interrupted switch is finished or undone |

Components interact through five seams: the host protocol (desktop shell to
native host), the native save slot (core runtime and lease over the store), the
browser store's hand-over to the native host, the cloud API's requests and
receipts (client and server), and the proxy's state and status files (release
switch and proxy).

## 2. Plan

1. `NativeSaveStore` with `DurableSlot` as its abstract specification, and
   `NativeSaveStoreProofs`: built.
2. `ApiHandoffProxy` and `ReleaseSwitch`, which composes the proxy with the
   switch, the units and systemd, and the proofs of both: built.
3. `PlayerAuthorityHost` (lease, core session and their use of the store),
   `PlayerAuthority`, which composes it with the desktop runtime, `PlayerLedger`
   as the abstract specification, and `PlayerAuthorityProofs`: built.
4. `LocalSaveStore` with `SaveLine` as its abstract specification, and
   `LocalSaveStoreProofs`: built.
5. `CloudSlot`, the promise of the cloud; `CloudSaves`, the server that
   implements it; `CloudSync`, the devices in front of it; `UploadScheduler`;
   `CloudSavesProofs`, `CloudSyncProofs`, `UploadSchedulerProofs`: built.
6. Left: the runtime recovery store (backups, snapshots and manual slots), the
   hand-off of the browser store to the native host, the cloud's account
   operations, macro sessions of the lease.

Theorems left: the invariants of the parts left under 6.  Every safety invariant and
action property of a run is stated by a theorem; liveness stays with TLC.

Two kinds of configuration stand beside each other.  The runs of `PROJECT.json`
are the regression suite; all pass but `local_confirmed`, which shows a finding.  The
others, named below as "by hand", either show a finding too (TLC reports the
violation) or check a further property on another instance (TLC passes).

Where the code leaves a hazard open, the model has it too: nothing in a run switches an
interleaving off.  The property that the hazard breaks then says which cases it
excepts, by a history variable that records them, and a configuration without the
exception shows the violation.  Run a configuration by hand with

    tlc -workers 2 -config <Name>.cfg <its MC module>

## 3. The native save store

`NativeSaveStore` models one logical slot.  Actions are the store's methods, cut
at their durable steps:

| Code | Actions |
|---|---|
| `begin_internal`, `put_batch`, `abort` | `BeginSave`, `PutRecord`, `RemoveRecord`, `AbortSave` |
| `commit_with_fault` | `CommitCheck` (base comparison, WAL repair, generation number), `CommitManifest`, `CommitPublish` (superblock, marker, cache), `CommitAck` (readback, WAL truncation), `CommitFails` (an error at any of these points) |
| `reconcile_uncertain_publication` | `Reconcile` |
| `append_wal_internal` | `AppendWal`, with its four outcomes: success, nothing, torn frame, complete frame without an answer |
| `recover`, `find_wal_command`, `read_wal` | `Recover`, `ReadWal` |
| `compact_cancellable`, `collect_unreferenced_chunks` | `CompactPlan`, `CompactRemove`, `CompactPlanSweep`, `CompactSweep`, `CompactEnds` |
| process end, `open` | `Crash` |
| the medium | `MediaDamage` |

A call runs alone, as in the code (`&mut self` behind the host's single command
loop and the root lock), so actions of one call interleave only with crashes,
errors and damage; transactions, on the other hand, interleave freely.

Data: a record's value is its chunk (content addressing), a superblock is the
manifest whose digest it carries, WAL entries are equal when their range and
command are.  A WAL file is its complete frames plus the state of its tail.  A
damaged manifest is taken to be undecodable.  A rename is taken to be durable
when it returns, which is what `MOVEFILE_WRITE_THROUGH` gives the shipped
(Windows) build.

`DurableSlot` is what a client relies on: a checkpoint replaced atomically and a
log that continues it.  The refinement mapping (`Slot`) is the newest
publication and the WAL entries past it (`ToReplay`).

### Runs

| Run | Bounds | Question |
|---|---|---|
| `store_publication` | 2 transactions, 1 key, 2 values, 4 generations, no WAL | the publication protocol: two transactions on one base, orphans, compaction and sweeping, each with crashes and errors |
| `store_journal` | 1 transaction, 2 commands, 2 WAL entries, revisions 0..2, 3 generations, truncation may fail | the WAL and checkpoint protocol, and refinement of `DurableSlot` |
| `store_damage` | 1 damage event to a superblock, manifest, chunk or frame | what recovery does about damage |

Why the bounds are enough: two superblocks alternate by parity, so four
generations reach every overwrite of a superblock by its second successor and
two orphans in between; two WAL entries give a covered and an active entry, an
entry past an unremoved one and a retry of either; two transactions give every
race on one base.  Time does not occur in the store.  The specification is a
safety specification: every call is synchronous and returns, so no fairness is
assumed and no liveness claimed.

One kind of damage is in the model and enabled by no run: `walCut`, which turns
acknowledged frames into a torn tail.  Nothing on the medium tells it from an
append the process did not finish, so `scan_wal` truncates it, and
`AckedOperationsRecoverable` fails as soon as the kind is enabled.  Checkpoints
past the journal occur in `SaveStoreStaleWal.cfg` only.

### Findings

* `SaveStoreStaleWal.cfg` (by hand; `save_store.rs:2325`): the chain check includes entries the checkpoint covers.
  When emptying a covered WAL fails twice, a valid append makes the log
  unreadable, although the failure is meant to be harmless maintenance.

### Proofs

`NativeSaveStoreProofs` proves, for every value of the constants and from
`BoundsAssumption` and `SentinelAssumption` only:

* `TypeCorrect == Spec => []TypeOK`, by one step per action (`NextTypeOK`).
* `NoSilentRollbackHolds == Spec => []NoSilentRollback`.  The property alone is
  not inductive: nothing in it says why an overwritten superblock does not
  matter.  `RollbackInv` adds that some superblock pins the acknowledged
  checkpoint (it names a manifest at least as new, or it was damaged, which a
  scan refuses), that the manifest a commit is about to publish is at least as
  new, and that a transaction's revision is at least its base's.  The step from
  a transaction to its manifest uses the property itself: the base equals a
  fresh scan's newest generation.

It proves what holds when, besides, the media damage nothing (`DamageKinds = {}`),
in two layers:

* `PublicationInvariant`: `PubInv` is inductive.  Beside the properties it
  implies (`PublishedGenerationsIntact`, `CacheIsNewest`), it says that the two
  superblocks are ordered and each is at its generation's parity (`Ordered`),
  what a commit between two durable steps may rely on (`Committing`: its
  manifest continues the newest publication, goes over the other superblock and
  is whole), that open transactions hold durable chunks (`Building`), and what a
  compaction may not touch (`Compacting`).  `GenerationsStayIntact` and
  `PublicationsFormALine` follow.
* `JournalInvariant`: `JournalInv` is inductive if, besides, checkpoints do not
  pass the journal (`~CheckpointAhead`; `SaveStoreStaleWal.cfg` shows why the
  assumption is needed).  The log is a chain of growing revisions (`Sorted`);
  the newest checkpoint, and the one a commit has checked and not yet published,
  fall on an operation's boundary inside the range the log covers (`Cuts`); and
  an acknowledged operation that left the file lies behind the checkpoint and
  before everything in the file (`Kept`).  The invariant has to speak of
  boundaries and not of the code's test (`ActiveContinues`): the test alone says
  nothing of a log the checkpoint covers whole.  `CutsContinue` and
  `ContinuesCuts` show that the test accepts exactly the boundaries.
  `SlotAlwaysRecovers`, `JournaledOperationsSurvive` and
  `JournaledOperationsFormALine` follow.

A third part proves, from both invariants,
`StoreImplementsSlot == DamageKinds = {} /\ ~CheckpointAhead /\ Spec =>
ImplementsDurableSlot`.  An append extends what is left to replay by one
operation that starts where the client is (`AppendReplays`, `ReachedIsHead`), a
truncation changes nothing a client sees (`ConvergedReplays`), a publication is
one `Checkpoint` that absorbs the operations it covers (`PublishCheckpoints`).
That a log has a first active entry is the least-number principle, from the
library's well-founded relations (`SmallestOf`).

Model-checked only: `AckedOperationsRecoverable` under damage (`store_damage`).

## 4. The release hand-off

A release of the cloud API is replaced without a lost request: the switch
(`release-switch.mjs`, a command an operator runs as root) tells the proxy in
front of the API to queue requests, stops the old API, starts the new one,
publishes it, and lets the proxy forward again.  Switch and proxy share two files
only: the switch writes the proxy's state, the proxy writes its status, and each
polls the other's.

### The proxy: `ApiHandoffProxy`

A handler of the event loop is one action; what lies between two handlers (a file
read, a file write, an answer, a timer, `setImmediate`) is where actions
interleave.

| Code | Actions |
|---|---|
| `createServer` handler, `queueRequest` | `Arrive` |
| hold timer, client gone | `HoldExpires`, `ClientAborts` |
| `forwardRequest`, `attempt` | `Forward` (in `Arrive` and `ApplyState`), `UpstreamAnswers`, `UpstreamFails`, `StaleSocket`, `RetryFires` |
| `applyState`, `flushQueued` | `ReadState`, `ApplyState` |
| `persistStatus` | `ReportLater` (in the others), `StatusTimer`, `WriteStatus`, `WriteStatusFails` |
| `start`, `close`, process end | `Start`, `Close`, `Refuse`, `Exit`, `Crash` |
| `setProxyMode` (the switch) | `PublishState` |

`phase` says where each request is.  `InFlight` are the requests with an upstream
and not settled: those that the counters should count.  A status is a value
captured at one moment and written later, in order, or lost.  `"unseen"`,
`"abandoned"` and `"leaked"` are the steps of a request whose client left without
the proxy noticing; the constant `UnseenAborts` says when that can happen.

### The switch: `ReleaseSwitch`

The switch is straight-line code, so its process is a plan, a sequence of steps
with one external effect each.  `EnsureProxy`, `SwitchTo` and `Recovery` build
the plans of `ensureProxy`, of the body of `runReleaseSwitch` and of its catch
block; `sw.marks` are its local flags.  `Step` executes the next step; a step may
throw before its effect (`Throws`), after it (`Returns`), or time out although
nothing is wrong, or because nothing can end it (`TimesOut`); an exception
replaces the plan by the recovery plan, and one in the recovery ends the process.
`SwitchDies`, `ProxyCrashes`, `ApiCrashes` and `HostReboots` happen between any
two steps.  `Run` is a run of the command: reconciliation of the journal with the
links and the state, or its refusal.  `Entry` is `api-active-entry.sh`: the unit
picks its release from the journal, if there is one.  The writer lock is "at most
one unit runs"; the loser exits 75, which systemd does not retry.

### Runs

| Run | Bounds | Question |
|---|---|---|
| `proxy` | 1 writer, 1 reader, queue of 1, 3 generations, 2 pending status writes, every unseen abort | an idle report is true when it is read; a held proxy drains unless a client left unnoticed |
| `switch_safety` | installed on the legacy unit, all targets, 1 writer, 1 reader, 1 fault, any late acknowledgement | no API stopped under a request, none serves unpublished, what runs is what is published |
| `switch_liveness` | installed on the active unit, 1 reader, 2 faults, any late acknowledgement | every interrupted switch is finished or undone until the installation is healthy, or the proxy ignores the recovery's state for good; and every request ends |

By hand: `ProxyCounts.cfg` (passes: without unseen aborts the counters are exact
and nothing is left queued in forward mode), and `ProxyLeak.cfg`,
`SwitchLateForward.cfg`, `SwitchBootUnit.cfg`, `SwitchPreparedJournal.cfg`, which
show the findings.

Why the bounds are enough: with modes in any order, three generations are any two
consecutive mode changes, and two pending status writes let a status outlive
the next one; that lateness does not matter beyond that is proved
(`IdleReportsHold`).  One request of each kind gives every race of a request with
a mode, since requests only meet in the counters and the queue's limit, which one
queued request reaches.  Two releases suffice because a later switch starts from a
state of the same kind as the first.  `MaxGeneration` is above what the faults allow
in the liveness run; in the safety runs it cuts behaviours off.

One fault puts an error, death or crash between any two steps of the switch, with
requests of both kinds in flight; the second, in `switch_liveness`, puts another
one into the recovery from it or into the next run.  For `StopsIdle` and the types
the number does not matter (proved).  For the other two it does, and
`switch_safety` claims them for one fault only.  With `MaxFaults = 2` TLC finds
`RunsPublished` violated, and on an installation on the legacy unit
`ServesPublished` as well: the second fault restarts a unit in a state that one of
the last two findings below left behind, either the legacy unit that a finished
migration did not disable, which a reboot starts on the half-published link, or
an API restarted while the journal says "prepared".  Both are therefore proved for an
installation on the active unit, `ServesPublished` with any number of faults and
`RunsPublished` up to the second one (below); the migration from the legacy unit, with one
fault, is what the run adds to the theorems.

### Fairness

Timers, polls and file writes complete; an upstream answers or fails what it was
sent, and a queued request's hold timer fires (the code bounds each); systemd
restarts the proxy (`Restart=on-failure`) and kills one that does not stop
(`TimeoutStopSec=90`); the switch process goes on; and, for the switch, the
operator repeats the command, which the runbook asks for.  Nothing is assumed of
clients, and a fault is never required.

A wait that is given up although the proxy still applies the state (`Throws` at a
wait) is one of the faults, whatever the mode.  When it is the wait for `forward`, the
recovery does not know that the state was published and gives its generation to
another one, which the proxy ignores (`Ignores`, `api-handoff-proxy.mjs:416-431`):
every later run then waits in vain until the proxy is restarted.  `Converges` names
this end, `Stuck`, beside the healthy one, and shows that there is no third.  A proxy
that crashes is started again with the published state, so `Stuck` is left by a
fault, and by nothing the command does.

### Findings

* `ProxyLeak.cfg` (`api-handoff-proxy.mjs:287`, `:311`): a client that leaves at the wrong moment, during the wait before a
  retry (`"retry"`) or for the answer (`"answer"`; restrict `UnseenAborts` to see
  each), is never counted out, so a held proxy never reports idle and no later switch,
  nor the recovery of this one, can pass its wait.  The second rests on a fact of
  Node.js (from version 16): a request read to its end emits neither `aborted`
  nor `error` when the client leaves.
* `SwitchLateForward.cfg` (`release-switch.mjs:843`): the recovery reuses a generation that was published and
  not acknowledged, and every later run waits for a state the proxy ignores: one fault
  refutes `Finishable`, that repeating the command removes the journal.
* `SwitchBootUnit.cfg` (`release-switch.mjs:890`): a migration finished by the next run never swaps the units
  that start at boot.
* `SwitchPreparedJournal.cfg` (`release-switch.mjs:1112`): an API that restarts while a switch that failed before
  the stop recovers comes up as the unpublished release.

### Proofs

`ApiHandoffProxyProofs` proves, for any requests, ports, queue limit and bounds:

* `ProxyTypeCorrect == Spec => []TypeOK`.
* `IdleReportsHold == Spec => []IdleReportsTrue`, what the switch relies on when it
  stops an API.  A status says nothing by itself: it was captured in the past.
  The invariant `ReportInv` adds what makes it current.  Counters never
  understate (`CountersCover`: with leaks they may overstate); every captured or
  written status is at most as new as the applied state, and of its mode when it
  is as new (`ReportsOrdered`, `SameGeneration`), so a status of the newest
  published generation was captured under a mode that admits no new request; and
  such a status that says idle is true (`ReportsTrue`), which no later step undoes.

`ReleaseSwitchProofs` proves, for any releases, targets, requests, late
acknowledgements and number of faults:

* `SwitchTypes == SwitchSpec => []SwitchTypeOK`.
* `StopsOnlyIdle == SwitchSpec => StopsIdle`, by an argument in three parts.
  - *The proxy* (`Wire`).  `ReportInv` does not hold behind the switch: a run that
    dies or fails before its acknowledgement leads to another state under the same
    generation.  What survives is that a hold is never replaced under its number
    (`HoldKept`), that whoever reported the newest hold is still in it
    (`HoldReported`), that after such a report come only others (`InOrder`), and
    that it is true (`HoldTrue`).  Hence `HoldAcknowledged`: once the status shows
    the published hold, the proxy holds, goes on holding, and its idle reports are
    true, a crash and a restart included (`Acked`).
  - *The plans* (`Runs`).  At each point of a plan stands a set of facts that the
    switch may rely on there: the last generation is acknowledged, it is a hold,
    the hold is acknowledged, nothing is in flight, the run has drained the proxy.
    `Effect` says what a step does to them and `Allowed` what it needs: a stop needs
    idleness, a mode other than hold an acknowledged generation (which is what
    keeps `HoldKept`), the marks of a stop the mark of the drain.  `EnsureProxyRuns`,
    `SwitchToRuns` and `RecoveryRuns` show that each of the three plans keeps these
    rules, the last one whichever step failed.
  - *The process* (`ProcessOK`).  The facts at its next step are true, whatever the
    proxy, systemd and the host do in between, and the rest of its plan runs from
    there.

* `AlwaysServesPublished`: if `Installed.unit = "active"`, `SwitchSpec => []ServesPublished`,
  with any number of faults.
* `RunsPublishedAfterFault`: if `Installed.unit = "active"`,
  `SwitchSpec => [](faults <= 1 => RunsPublished)`.
* `OnPublishedPort`: if `Installed.unit = "active"`, after any number of faults only the
  published release runs on the published port, a journal names it as one of its two places,
  and from "publishing" on nothing runs but the target.

The last three rest on a second invariant, `ReleaseInv`, proved on top of the first
(`SwitchInv`).  None of the properties is inductive: whether a step endangers them depends on
the journal, which decides what a restart would run, and on how far the plan is.

  - *The releases* (`ReleaseOK`).  The proxy, its state file and what it is reading hold or
    name the published port (`Routed`); what runs there is the published release
    (`Resolved`); the journal's base and target are on different ports, and one of them is
    published (`Journalled`); after "publishing" only the target runs (`Advanced`); without a
    journal, up to the second fault, nothing else runs (`Cleared`).
  - *The plans* (`Guides`).  A run works on two places, the release it came from and another
    one.  The facts at a point of a plan say which of the two is published, which one a start
    would run, which one alone may run, and that nothing is in flight.  `Admits` says what a
    step needs: the proxy is sent only to the published place; another place is published only
    when it alone runs or would run, behind an acknowledged hold with nothing in flight; the
    journal advances only when the new release alone runs, and is removed only when what is
    left running is the published release.  `EnsureProxyGuides`, `SwitchToGuides` and
    `RecoveryGuides` show that the three plans obey, the last one whichever step failed.
  - *The process* (`Guided`).  The facts at its next step are true.  It also carries the
    argument about one fault: between its first journal and the mark of the stop, a run
    without a fault has only the published release running and nothing about to start
    (`Unmoved`, `Calm`), so the recovery from the first fault may remove the journal.  After
    a crash of the API there, its restart may come up as the target, and the recovery from
    a second fault removes the journal beside it.

`ReleaseInv` was checked with TLC before it was proved (active unit, both kinds of target,
two faults, 1.4 million states).  Its hypotheses are needed: on the legacy unit two faults
refute `ServesPublished`, and `SwitchPreparedJournal.cfg` shows `RunsPublished` false with two.

Model-checked only: the exact counters (false with leaks), all liveness, and
`ServesPublished` and `RunsPublished` of the migration from the legacy unit.

### Abstractions

Slots are their ports.  The release id in the proxy's state, the switch state's
own generation number and the previous-release file only feed comparisons that
follow from the modelled ones.  Preflight, nginx, asset archiving, backup
evidence, the audit log and the backup window are calls that may throw, or a
start that fails.  A request succeeds if an API listens on its port.  Reboots are
orderly: files survive them, the status file included, although `/run` is not
kept (a stale file allows more behaviours than none).  `StartLimitBurst` is left
out.  The queue is a set: its order only decides the order of asynchronous
requests.

## 5. The player authority

When the Windows desktop plays `normal-main`, the native host is its only writer.
The desktop runtime keeps the clock and turns elapsed seconds and player actions
into one request at a time; the host settles each by a fixed sequence of durable
writes under a lease that survives both processes.

### The host: `PlayerAuthorityHost`

| Code | Actions |
|---|---|
| `commit_player_authority_tick_impl`, `..._command_impl`, pause and history calls | `Accept`, `Reject`, `AnswerDuplicate` |
| `stage_player_authority_*` (the lease) | `Stage` |
| `commit_operation_internal_with_prepared` | `AppendWal`, `Install` |
| `checkpoint_internal_with_commit`, `reconcile_uncertain_checkpoint_publication` | `Publish`, `Settle` |
| `write_player_authority_command_change_receipt` | `WriteReceipt` |
| `acknowledge_player_authority_tick`, end of the call | `Acknowledge`, `Finish` |
| an error before or after any durable write took effect | `JobFails` and the failing variants |
| `prepare_player_authority`, activation | `Entry` |
| process end, startup recovery, rebinding | `HostDies`, `Boot`, `Rebind` |
| the generic save commands, `open` | `GenericBegin`, `GenericCommit`, `Reopen` |

State: the durable half is `published` (the checkpoint), `wal`, `lease`
(`exact-realtime-lease-v2.json`) and `changes` (the change receipt); `draft` a
generic transaction; the volatile half `session`, `unproved`, the history stacks,
`bound` and `job`, the operation being settled.  A state of the factory is its
revision, its simulated seconds, the set of commands in force and the pause flag;
the simulation is a function of state and operation.

### The desktop: `PlayerAuthority`

Composes the host with the runtime's phases, context, queue and pipe: `Activate`,
`Submit`, `SettleDue`, `PauseGame`, `ResumeGame`, `Undo`, `HistoryStatus`,
`Retry`, `Timeout`; the pipe's `Begin`, `Turn`, `Repeat`, `Enter`, `EntryFails`,
`Done`, `Unavailable`; `Stops`, `Dies` and `Relaunch`; the clock.  A receipt and
the handler that takes it are one step.

`PlayerLedger` is what a player may rely on: a ledger of settled operations, each
entered once, in which a second of the clock is a simulated second.  The lease's
acknowledged position is the refinement mapping.

### Runs

| Run | Bounds | Question |
|---|---|---|
| `authority` | 2 commands, one of which the host refuses, batches of 2, 2 faults, queue of 1, revisions 0..3, 2 seconds, 1 undo or redo, under fairness | is the checkpoint always the acknowledged state or that with the pending operation; does the session ever fork; can a restart adopt the lease; do confirmed commands stay; does anybody else write; is the ledger implemented; does a pending operation settle; does a stopped runtime run again |

Two faults put an error, a time-out or a death between any two durable writes and
another one into the retry or the recovery.  Three revisions hold a batch, a
command behind it and what undoes it; two seconds are a full batch; the queue's limit is
met by one command.

### Fairness

Weak fairness of the pipe's and the host's steps (each is bounded code; calls time
out), weak fairness of `SettleDue` (the runtime's timer), and strong fairness of
`RelaunchStopped`: a runtime that stopped is started again, by
`prepareDurableRestart` or by the player; strong, because retries keep leaving
and re-entering that condition.  Nothing is assumed of player actions, of retries
or of faults.

### Findings (by hand)

* `AuthorityLostRedo.cfg` (`core_runtime.rs:2684`): after the second of two
  commands is undone, the reconciliation that closes the same call finds the first
  command's older revision on top of the stack and clears both stacks.  The undo
  cannot be redone.  The test at `core_runtime.rs:11079` asserts `can_redo` with
  one command only.
* `AuthorityLostSecond.cfg` (`native-player-authority-runtime.cjs:1202`): when an
  undo times out although the host settled it, the runtime stays active with its
  old context.  The next tick carries a sequence that is taken, is answered as a
  duplicate, and its second is counted but never simulated.

Two more observations.  A death between `prepare` and `activate` leaves a prepared
lease, on which the startup guard (`native-exact-realtime-startup-guard.cjs:78-94`)
shuts the desktop out (phase `"blocked"`).  A command queued behind an undo in
flight is refused for its stale base.

### Proofs

`PlayerAuthorityProofs`, for any commands and bounds, in two layers.

The host alone, with arbitrary requests, errors, deaths and generic writers:
`Bracketing`, `WalHoldsThePending`, `NoFork`, `Adoption` and `SingleWriter`.  None of the
five is inductive.  `IInv` says at which step of its sequence an operation is
(`Shape`, `Staged`), what each durable file may hold then (`Acked`, `Progress`),
that an idle host is settled or explained by the pending operation (`Quiet`), and
what the memory may hold (`Memory`).

Host and desktop: `AuthorityTypes`, `ConfirmedSurvive` and `LeaseIsALedger`.  The
invariant `AInv` adds to `IInv` what the host's records consist of and what may be
on its history stacks (`HInv`), what the desktop's do (`Desktop`), that the host
works on the request at the head of the pipe (`Serving`), and why a confirmed
command is in the factory (`Confirmed`): while nobody has clicked undo, no history
operation is pending or in hand, the acknowledged commands include the confirmed
ones, and a reply is about the operation acknowledged last.  The last of these is
what makes the confirmation true, and `Serving` is why a reply cannot be taken for
another request's.  In the refinement an acknowledgement of the pending operation
is one entry of the ledger (`AckingIsAnEntry`) and everything else a stutter.

Model-checked only: liveness.

### Abstractions

Digests and identities are equality of the records they cover.  Patches with
"expected previous" values are reduced to sets of commands.  Left out: macro
sessions and `pending_advance`, the replay of the last command, the persistence
boundary, the alignment of the history clock, generic WAL entries from before
the lease, catalogs, the experiment purpose of the lease.

## 6. The browser save store

Pages of one origin share one IndexedDB (the primary save with its revision
record, the writer lease with its fencing token, preserved conflicts) and one
`localStorage` mirror, which a page writes when it may be killed.  `LocalSaveStore`
cuts the code at its transactions; a readwrite transaction is one step.

| Code | Actions |
|---|---|
| `initializeIndexedDb` | `Start`, with `AppliesMirror` or `SetsMirrorAside` |
| `claimWriterLease` | `ClaimRead`, `ClaimDenied`, `ClaimWrite`, `ClaimDone` |
| `loadGame` | `Load` |
| `takeOverLocalSaveWriter` | `TakeOver`, `TakeDone` |
| `saveGameVerifiedWithWorkerProof`, `commitPayload` | `Save`, `ProofCommits`, `ProofFails`, `ProofSettles` |
| exit save, `enqueue`, `commitCoordinatedRecord` | `HideSave`, `Return`, `QueueCommits`, `QueueForks`, `QueueFails`, `QueueVerified` |
| `refreshAfterRemoteChange`, `renewWriterLease` | `Refresh`, `Heartbeat` |
| `resolveLocalSaveConflictDetailed` | `Resolve`, `ResWrite`, `ResFails`, `ResClean`, `Release` |
| `closeLocalSaveWriter`, the browser | `Close`, `Die`, `Tick` |

A save is the set of checkpoints whose progress it holds; one save continues
another when it contains it.  `SaveLine` is the promise: one line of progress,
which grows, and loses progress only to a copy preserved beside it or to a
decision of the player.  The primary save, the conflict records and the given-up
checkpoints are the refinement mapping.

The code leaves four windows open (`Windows`).  All are in the model; `hit` records
which were passed, and `overwritten` the checkpoints that a commit without a guard
replaced there.

* `"boot"` (`localSaveStore.ts:1770-1821`): a starting page reads lease, revision, save
  and mirror, awaits an import, and commits the mirror it read then (`copy`) with the
  revision it read then.  Whatever another page wrote in between is overwritten.
* `"resolving"` and `"refused"` (`:2071`): a page becomes primary to resolve a
  conflict while it plays its older game (`stale`).  Its autosave and its exit save
  are admitted, until it reloads, or, when the resolution was refused, for good.
* `"tie"` (`:898-920`): a lease is taken over and given back within the clock tick in
  which another page's claim has read it; the claim's write then takes a token that was
  already given out.

### Runs

| Run | Bounds | Question |
|---|---|---|
| `local_safety` | 2 tabs, leases of 1 tick, 4 turns (starts, take-overs, resolutions), 2 saves, 1 tick, 1 conflict, 1 fault, symmetry of tabs | is a confirmed save lost to anything but the player's choice and the two commits without a guard; does a primary page carry the primary save; is `SaveLine` implemented |
| `local_confirmed` | the same with 3 saves and no fault | is a confirmed save ever overwritten: yes, in the window `"boot"` |

Two pages are every race about one lease; the lease expires within the bound; two
saves give one that is confirmed and one that competes; four turns let both start, one
take over and start again, or fork and resolve.  What the bounds cut off is
what the proofs cover.  No fairness is assumed: a page may be frozen for ever.

What the properties except.  `AckedSavesSurvive` allows a confirmed checkpoint to be
lost only if it is in `overwritten`, which two kinds of commit write to: a mirror that is
stale or was disturbed, and a save of a stale page.  `PrimaryCarriesLine` excepts
a page that is resolving, a takeover the player asked for, and histories in which a
mirror was committed in the window `"boot"`.  `ImplementsSaveLine` holds for every
step up to the first window other than the tie.

The view of the run forgets what no step and no property reads: the caches of a page
that is not primary, and whether its game is stale when it has no save under way; a page
that has failed or is being left, once its saves are settled; messages about settled
conflicts, beyond that there is one; how long ago a lease expired, unless a claim began
earlier; which windows were passed beyond the three cases the properties tell apart
(`Passed`), and what in the histories no longer bears on `AckedSavesSurvive`
(`Outcome`).  At the last turn no page starts, takes over or resolves, so it also
forgets the mirror and the pages that are not primary.  Every value it drops is
set again, or fixed by the page's `pc`, before it is read, so two states it merges have
the same futures for the four properties.

### Findings

* `local_confirmed` (`localSaveStore.ts:1778`): a reloaded page judges its mirror,
  another page takes over and saves, the player is told so, and the mirror replaces that
  save.  `docs/RELEASE_HANDOFF_1.0.40.md:40` says that stale saves and emergency mirrors
  racing with a refresh can never overwrite a newer save that was confirmed.
  `LocalBoot.cfg` (by hand) shows that this window alone is enough.
* `LocalRefused.cfg` (by hand; `localSaveStore.ts:2071`): a page whose resolution of a
  conflict is refused because the save has moved on stays primary with its own
  older game and fresh caches; its next autosave overwrites the other page's
  confirmed save, against the same line of the document.

Observations without a violated claim: an exit save while an autosave is in
flight, or queued after a failed commit, preserves a conflict with the page's own
save; a starting page sets aside the mirror of a page that is alive; the copy a
conflict record keeps may be stale; the token may go back in the `"tie"` window.

### Proofs

`LocalSaveStoreProofs` proves, for any number of pages and without bounds, from
`LocalSaveAssumption` and `NoneIsNotAQueue`:

| Theorem | Statement |
|---|---|
| `PrimaryCarries` | `Spec => []("tie" \notin hit => PrimaryCarriesLine)` |
| `StoreImplementsLine` | `Spec /\ []("tie" \notin hit) => ImplementsSaveLine` |
| `AckedSurvive` | `Spec => [](Fenced => AckedSavesSurvive)` |
| `StoreTypes` | `Spec => []LocalTypeOK` |

`Fenced` says that neither of the two windows that break the fence itself, `"boot"` and
`"tie"`, was passed.  It is a condition on the history, not on the specification: the
saves of resolving and refused pages are inside the invariant.  TLC checks on two pages
what the theorems leave out: that a tie harms none of the properties, and that after a
disturbed mirror nothing but the overwritten save is lost.

The argument: a lease's token passes to another page only upwards (`Fence`), so a
save in flight that a transaction would still admit was sent under the current
lease (`Flight`), from a page whose game contains the primary save (`Carries`) or is
stale; caches are never ahead of the durable revision (`Known`); a conflict that is being
resolved is the one that was shown (`Picked`); a mirror that would be applied, in
`localStorage` or already read, carries the save it was judged against, unless
it is stale (`MirrorInv`, `Judged`).  `Bystander` shows that a step of
one page keeps what the invariant says of another, as that one cannot hold the
lease.

`LineStep` maps each step to a step of `SaveLine`, the commit of a stale save or mirror
apart (`StaleCommit`).  Such a commit loses exactly what it adds to `overwritten`
(`StaleCommitKeeps`), which gives `AckedSurvive`; and before any window is passed there
is none (`Tame`: no stale page has a save to commit and no mirror is of one), which
gives `StoreImplementsLine`.

In `StoreTypes` what is not plain is the
bound of the token: the invariant (`TypeInv`) says that the token and the pages that
have spent a turn and not yet written the lease (`Claiming`) together never exceed the
turns taken (`Budget`).

### Abstractions

Page identities are distinct among live pages.  One step each: clearing and
refilling the caches, the reads of `Start`, the reload and publication of a claim,
readback and publication of a take-over.  A closed page is gone.  A message is the
number of its conflict, or 0.  Left out: the native authority's lease and the
hand-over to it, the Android retry, deletion, import of legacy records, backups,
snapshots and slots.

## 7. The cloud

### The promise: `CloudSlot`

One save slot of one account: its history changes only by operations somebody asked
for, each whole and in one step, over the revision it names, an upload at most
once.

### The server: `CloudSaves`

| Code | Actions |
|---|---|
| `uploadCloudSaveWithOptions` | `Ask`, `AskAgain` |
| the request handler before and after its mutation, the connection | `Refuse`, `Enqueue`, `Cancel`, `Answer` (in the others) |
| `runAtomic` | `Start` |
| the PUT, DELETE and restore handlers | `Replay`, `Conflict`, `TurnDown`, `Put`, `Restore`, `Delete` |
| `commitMutation`, `commitCandidate`, `stageCloudSavePayload` | `Commit` (in the others), `CommitFails` |
| `close`, process end, `load` | `Close`, `Stop`, `Crash`, `Boot` |

A mutation works on a clone (`draft`) and remembers the generation it was taken
from; the commit writes state, payload rows and shared blobs in one SQLite
transaction.  `refs` are the reference counts in memory.  A lost delivery stays in
`sent`; a lost answer leaves `reply` as it is.

### The devices: `CloudSync`

Several devices of one account in front of `CloudSlot`, each with its marker, the
metadata it read last and the conflict it shows: automatic and manual upload
(`Sync`, `PutLands`, `Fails`), an upload without an answer (`TimesOut`,
`ConfirmRead`, `ConfirmReceipt`, `ReceiptReads`), metadata (`Look`, `Refreshes`,
`Refreshed`), conflicts (`ShowConflict`, `KeepLocal`, `UseCloud`), downloads,
restoration, deletion, play and reload.

Three things the clients do not allow for are in the model, and the properties name them.
The metadata read after an upload may be another device's save (`Refreshes`); `mistaken`
records it.  The receipt of an upload may be there and not be readable (`ReceiptReads`);
`unread` records it.  A slot that was deleted counts its revisions from one again; `made`,
the saves the slot has held, shows whether a number was given twice.

### The upload scheduler: `UploadScheduler`

`acquire`, `dispatch`, the abort listener, `releaseFactory` and `close` as one
action each; an inspection is a task that ends, in whatever way.

### Runs

| Run | Bounds | Question |
|---|---|---|
| `cloud_server` | 3 operations, one delivered twice, 2 contents, history of 2, 1 fault, symmetry | has every revision its payload; are the counts exact; is a client told the truth; is `CloudSlot` implemented |
| `cloud_sync` | 2 devices, 3 requests between them, 3 contents, history of 2, deletions, failing receipts and metadata of another device's save allowed | is a save ever overwritten that its player has not seen, but for a mistaken mark or a number given twice; is what a device takes for saved saved; is a conflict ever with one's own upload, but for an unreadable receipt |
| `upload_scheduler` | 3 compressed and 3 raw uploads, 2 slots, queue of 3, 10 bytes | do the limits hold; are slots and bytes returned exactly once; does everyone end |

Three operations on the server give a history that prunes, a shared blob and an
operation that outlives the save it was based on; the second delivery and the
fault fall at any point.  Three requests let a device act, the other build on it,
and the first one act again.  The overwrite by a number given twice takes four
requests; a search with four, cut off at depth 16 (ten million states), met no
violation, and `NeverBlind` proves the property for any number.  Two contents that differ and two that agree are what
sharing depends on; `cloud_sync` needs one content per device and one more.
Three uploads of each kind fill both slots, the budget and the queue.

By hand: `CloudShutdown.cfg` passes (`CurrentIsNewest`, `NoneOvertaken`,
`OnceOnly`, and that a server that is told to close does, under fairness), and so
does `UploadDrains.cfg` (no slot idle while an upload fits, shutdown ends).

### Fairness

`CloudFairness`: a queued mutation starts and a running one ends.  The queue is a
promise chain; the bodies a mutation reads are bounded by
`server.requestTimeout`, SQLite calls are synchronous.  `FairSchedSpec`: each
admitted inspection ends, which its own deadline bounds.  Clients, networks and
operators owe nothing.

### Findings (by hand)

* `CloudRefresh.cfg` (`App.tsx:13061`; also `GalaxyWorkspace.tsx:532`, `:787`):
  after a confirmed upload the client reads the metadata again and marks that as
  synchronized.  If another device saved in between, the marker names the other
  device's save, and the next automatic upload replaces it without a question
  (`PlayerChooses`).
* `CloudReborn.cfg` (`index.mjs:3896`, `:5628`): a deleted slot counts its
  revisions from one again; a request based on the old numbering, decided after
  another device uploaded as many times, replaces a save its device never saw, though
  nobody has marked another's save (`PlayerChoosesUnmistaken`, four requests).
* `CloudFalseConflict.cfg` (`cloud.ts:1162`): an upload that landed is reported as
  a conflict when its receipt cannot be read (`NeverWithItself`).
* `UploadFifo.cfg` (`upload-inspection-scheduler.mjs:253`): an upload that fits is
  admitted before an earlier, larger one; the test at
  `server/upload-inspection.test.mjs:183` and `docs/ARCHITECTURE.md:433` call the
  scheduler FIFO.

`docs/GAMEPLAY_SYSTEMS.md:317` (a conflict must be decided by the player) is what
the first two contradict.  The same line describes a retry of an unobserved
upload with the same expected revision; the client never makes one.

### Proofs

`CloudSavesProofs` proves for any operations, contents, limits and faults:
`ServerTypes`, `PayloadsAlwaysResolve`, `IndexAlwaysExact`, `RepliesTruthful`,
`LandsOnce`, `CurrentAlwaysNewest`, `NeverOvertaken`, and `ServerImplementsSlot`.  The
types (`Typed`) stand beside the invariant `CloudInv`, which has six parts: the slot's shape (`Sound`), the newest revision
on top (`CurrentIsNewest`), each delivery in one place (`Placed`), one mutation that
works on the published state (`Serial`, which makes a commit a step of `CloudSlot`),
an upload that landed has its receipt and its client is told so if anything
(`Settled`), tables and counts follow the history (`Stored`).  The counts rest on
`CountsAfterWrite`: inserting and deleting rows changes the number of rows of a
checksum by what the commit projects.

`CloudSyncProofs` proves for any devices, requests and contents:
`ConfirmedWereCommitted`, `NeverBlind` and `NeverDisputesItself`, each
`SyncSpec => ` the property of the run, without a further assumption.  The invariant `SyncInv` relates the slot
and the saves it ever held (`SlotOK`), what each request asks for (`AskedOK`) and what
each device believes (`DeviceOK`).  `NeverBlind` rests on the numbering: a request names
a revision under which the slot has held a save that the device knows, so when that
revision is the current one either the current save is that save, or the number was given
to both.

`UploadSchedulerProofs` proves for any uploads, sizes and limits:
`SchedulerKeepsLimits`, `SchedulerCountsExactly` and `NoSlotIsIdle`.  The
invariant `SchedInv` says that an upload is in one place (`Placed`), that the
counters are exact (`Counted`) and that nothing that waits fits (`Packed`).  That one
pass of `dispatch` re-establishes the last part is a fact about its recursion over
the queue; it and the sum of the reserved bytes are recursive functions on finite
sets, reasoned about by taking a smallest counterexample (`SmallestNumber`).

Model-checked only: that every upload is served, and the shutdown.

### Abstractions

One slot of one mode of one account.  A checksum names its content.  Receipts do
not expire (the code keeps 128 per user for seven days).  A SQLite transaction is
atomic and durable (`synchronous=NORMAL` may lose the last ones in a power
failure; the model's crash is the process's).  Left out: accounts and sessions,
export and import of accounts, leaderboard side effects, the periodic pruning of
histories, the legacy JSON upload without a request id, two syncs at a time in
one page.  The proxy of section 4 does not repeat requests that write.

## 8. Not modelled

See the components of `PROJECT.json`: each part that is left out is listed there
with its reason.  Parts of the save store outside the model: the statistics
sidecar and the authority catalogs (files beside the slot, replaced atomically
and discarded when invalid), exports, path and redirect validation, and disk
budgets (they appear as I/O errors).  Left by the plan: the runtime recovery store,
the hand-over of the browser's save to the native host, the cloud's account
operations.

The plan leaves out, for good, the simulation (native and TypeScript): it is a
deterministic function of large numeric states, which the repository tests
differentially, and presentation, packaging and reporting, which keep no state
that several actors share.  These are most of the repository's lines, so the
mapped share of the implementation stays small although the map covers the
protocols.

Hazards seen and covered by hand only or not at all: the damaged length of a WAL
frame (`save_store.rs:2310`, section 3), the history stacks
(`core_runtime.rs:2689`), a prepared lease (`core_runtime.rs:1405`), a history call
that failed but settled (`native-player-authority-runtime.cjs:1202`), the boot unit
(`release-switch.mjs:890`), reborn revisions (`index.mjs:5628`), the server's
shutdown (`index.mjs:6192`) and pruning by quota (`cloud-quota.mjs:168`).
