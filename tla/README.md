# TLA+ verification of rubbish

rubbish runs coding agents in Firecracker microVMs. This directory holds TLA+
models of the parts of it that are hard to get right: the session manager of
the `poc` server (slots, VMs, snapshots, persisted rows, recovery after a
restart), the dm-thin snapshot manager below it, the workflow engine above it,
the terminal server beside it, and the files on the host that they share; with
TLC configurations and proofs checked by TLAPS. Paths below are relative to
the repository (`src/` in `PROJECT.json`); "main.go" is `cmd/poc/main.go`.

## 1. Inventory

| component | state | operations | hard behaviour | what makes it correct | module |
|---|---|---|---|---|---|
| session state machine, `internal/session/statemachine.go` | the state of one session | `Transition`, with a hook | refused transitions whose error is only logged | boot's transitions are never refused | `SessionState` |
| session manager, main.go 128-1098 | `sessions` map, `usedSlots`, the `Session` objects | `Create`, `boot` (with the agent's run), `Stop`, `Restart`, `persistSession`, `loadFromDB`, `WaitForSession` | two goroutines per session; rows written outside the lock, their errors dropped; error paths that each list their own clean-up; a server that ends at any point | a slot has one owner; nothing leaks; a ready session is usable; recovery keeps what is alive | `SessionManager` |
| VM launcher and clean-up, `internal/vm` | Firecracker processes, TAP devices, sockets, one of each per slot | `Launch`, `WaitForSSH`, `Stop`, `WaitForVMDead`, `IsSocketAlive`, `CleanupOrphansExcept`, `DetachedVM` | a slot is an address: whoever runs there answers | one VM per slot | part of `SessionManager` |
| snapshot manager, `internal/compute/firecracker/snapshot.go` | volume counter in memory and in a file, session to volume map; the thin pool | `CreateSnapshot`, `DeleteSnapshot`, `newSnapshotManager` | every command may fail, its undo too; commands run outside the lock; the map is rebuilt from devices; the counter file is rewritten in place | no two sessions share a disk; no volume id is used twice | `SnapshotManager` |
| workflow engine, `internal/workflow/engine.go`, `run.go`, `harness.go` | stages of a workflow; a driver and worker goroutines | `SubmitWorkflow`, `run`, `runStage`, `Resume`, `RecoverInProgress`, the demo | concurrent read-modify-write of one workflow; usage limits, timeouts, resume; restarts | done means verified and merged; only verified branches are merged; one driver; no stage is lost | `WorkflowEngine` |
| workflow store, `internal/workflow/store.go` | workflows in memory and in one file | `Get`, `Upsert`, `Open` | copies that share the stage slice; failed saves | a copy is a copy | `WorkflowEngine` |
| output validator, `internal/workflow/validator.go` | none | `ValidatePlanOutput`, `ValidateImplementOutput`, the verdict | - | gates what is verified and merged | `WorkflowEngine` |
| branch merge, `internal/gitutil/merge.go` | branches of the remote | `MergeImplementBranches` | branches left out silently; failing push | merges what was verified | `WorkflowEngine` |
| JSON session store, `internal/sessionstore/jsonstore.go` | rows, favourites; one file, a copy of it in each of two processes | `Upsert`, `Delete`, `Get`, `List`, favourites, `save`, `reload` | memory changed before the save; a second process reading; a failed reload is silent | an acknowledged write stays; it behaves as a table | `JSONStore`, `RowStore` |
| PostgreSQL store, `internal/sessionstore/pgstore` | the same, in a database | the same, one statement each | an error whose statement commits after all | the promise of a store | `RowStore` (abstract) |
| profile store, `internal/profile/store.go` | tokens in a file; the last token of a request in another | `Load`, `Save`, merge in the PUT handler | two PUTs; a failed load | a PUT keeps the fields it leaves out | `Profile` |
| repository cache, `internal/gitutil/repocache.go` | bare repositories, a mutex per name, workspaces | `EnsureBareRepo`, `LocalClone`, `CleanupWorkspace` | fetch next to clone; half-made directories; git that outlives the server or never ends; two URLs of one name | a workspace is a whole clone; boots get past it | `RepoCache` |
| terminal server, `cmd/terminal`, `internal/terminal` | the hub of connections; a relay with two goroutines each | connect, dial, relay, notify at shutdown | a row that is stale when its slot is dialled; stalled browsers; two writers on a WebSocket | attached to the session's own VM; all told; relays end | `TerminalServer` |
| MCP server, `internal/mcp` | none | tools | - | shows the truth of rows and workflows | its read side in `SessionManager` and `WorkflowEngine` |
| HTTP API of the poc server, main.go | none of its own | handlers | - | - | requests of the modules above; favourites in `JSONStore`, PUT profile in `Profile` |
| `rubishd`, generated gRPC code, host scripts | none | - | - | - | not modelled |

**How they interact.** HTTP and MCP handlers call `Create`, `Stop` and
`Restart`. `Create` and `Restart` take a slot and start a boot goroutine; it
calls the repository cache, the snapshot manager and the launcher in turn and
moves the state machine, whose hook persists the session. For an agent role
the same goroutine runs `claude -p`, stores the result in the row and tears
the session down. `Stop` moves the state machine and tears down in a goroutine
of its own. On the next start `loadFromDB` rebuilds the map from the rows and
from the sockets that are still alive, and kills what no recovered session
owns; `RecoverInProgress` then starts a driver for each unfinished workflow.

The workflow engine lives in the same process. It creates sessions for its
stages and sees of them only what `WaitForSession` reads from the rows. The
terminal server is a process of its own: it reads the row of a session from
the store and dials the address of the slot named there, so rows are an
interface as well as a memory. Both processes have the JSON store open; only
the poc server writes it.

The hazards this brings, each at its line, are in `PROJECT.json`.

## 2. Plan

Done:

1. `SessionState`, `SessionManager`, `SnapshotManager`; their runs; type
   correctness of both, slot accounting, disk isolation and the counter proved.
2. `WorkflowEngine` (engine, store, validator, merge); its run and three
   violations.
3. `JSONStore` with the abstract `RowStore`, the refinement model-checked and
   proved; `Profile` and `RepoCache`.
4. `TerminalServer` beside a poc server reduced to its rows and VMs.
5. Proofs: beside types, slots, disks and the store, what sessions have on the
   host (`OneVMPerSlot`, `NothingLeaks`, `ReadyIsUsable`, `VMsStoppable`),
   their results and rows (`ResultDelivered`, `ResultKept`, `RowsMatch`),
   `KnownIsInUse`, tokens and checkouts (`TokensKept`, `NoHalfClone`),
   terminals (`TerminalsTold`, `OwnVM`), and all safety properties of the
   workflow engine, `StagesKept` included.
6. Proofs: the slot account and the host over any number of crashes and
   restarts of the server, and `RecoveryKeepsReady`.
7. The abstract `SlotLease`, and `SessionManager` shown to implement it, by TLC
   and by proof, with and without crashes.

Left, in this order:

8. A VM that survives its stop (`WaitForVMDead` gives up); engine and sessions
   composed for `RecoverInProgress` beside `loadFromDB`.
9. Refinement: an abstract disk service for `SnapshotManager`.

## 3. The modules

The modules whose names begin with MC are what TLC runs; the constants get
their values in the cfg files.

| module | extends | what it is |
|---|---|---|
| `SlotLease` | | abstract: what the session manager promises with the slots |
| `SessionState`, `SessionManager` | the former; instance of `SlotLease` | sessions of the poc server |
| `SnapshotManager` | | their disks |
| `WorkflowEngine` | | workflows over sessions |
| `TerminalServer` | | the second process |
| `RowStore` | | abstract: what a session store promises |
| `JSONStore` | instance of `RowStore` | the store in a file |
| `Profile`, `RepoCache` | `RepoCache` extends `Profile` | tokens and checkouts |
| `MCHostFiles` | `JSONStore`, `RepoCache`, `SnapshotManager` | the files and disks of the host |
| `SessionManagerProofs`, `SessionVMProofs`, `SessionRecoveryProofs` | each the one before, the first `SessionManager` | proofs: types and slots; VMs, disks and leases; the same across crashes |
| `SessionRowProofs` | `SessionManagerProofs` | proofs: recovery, results and rows, whatever is held up |
| `SnapshotManagerProofs`, `TerminalServerProofs`, `WorkflowEngineProofs` | the module they are named after | proofs |
| `HostFilesProofs` | `MCHostFiles`, `SnapshotManagerProofs` | proofs about the store, tokens, checkouts and all files together |

### SessionState

The eight states, `validTransitions` and the test of `Transition`. A ready
session can only go to stopping; stopped and failed are final.

### SessionManager

State and code:

| variable | code |
|---|---|
| `inMap`, `sess` | `SessionManager.sessions` and the `Session` objects, which goroutines keep after the id has left the map. `st` the state machine, `v` the VM handle (none, own, detached), `wsp` whether `workspacePath` is set, `err` and `res` the error and whether there is a result; `asked` is history: was the session asked to stop, and was a goroutine at work on it when it was asked to stop or restart |
| `usedSlots` | `SessionManager.usedSlots`; the local `liveSlots` while loading |
| `vms`, `taps`, `snaps`, `strays`, `workspaces` | processes as (session, slot), TAP devices by slot, by session the snapshots, those that could not be deleted, and the workspace directories |
| `rows` | the session store |
| `pc`, `pend` | the place of the boot and of the stop goroutine of each session, and the row that `persistSession` has built under the lock and not yet written |
| `cursor` | 0 while serving, else the row `loadFromDB` is at |

Actions and code: `Create`, `Restart`, `Stop`, `StopTerminal` are the requests
(`StopTerminal` is the branch of `Stop` for a session that is over). `Clone`,
`CreateSnapshot`, `InjectNetworkConfig`, `Launch`, `WaitForSSH`, `Setup` are
the blocking calls of `boot`, each with the transition that follows it and the
error path that starts at it; `FailRelease` and `FailTransition` are `fail()`.
`AgentUsageLimit`, `AgentError`, `AgentDone` are the three ends of `claude -p`,
told apart by `Outcome` from what `RunCapture` returns and `parseClaudeJSON`
makes of it; a finished agent may have no result at all.
The four teardowns (failing boot `f_`, usage limit `u_`, finished agent `d_`,
`Stop` `k_`) make the same calls in the order that `Order` lists: `StopVM`,
`DeleteSnapshot`, `freeSlot`, `MarkStopped`, `DropFromMap`, `DeleteRow`,
`CleanupWorkspace`. `Crash` ends the server, or the host; `LoadReady`,
`LoadMidway`, `LoadTerminal` are the cases of `loadFromDB`, and
`CleanupOrphans` its last call.

What is one step and what is not:

- A step is the code between two blocking calls or store writes. A transition
  and the building of its row are one step (the hook runs before anything
  blocks); the write of the row, `Upsert`, is a step of its own, since the
  lock has been released and another goroutine may write first.
- Where the code writes a row in the hook and again right after, the second
  row equals the first and the two writes are one.
- Stopping a VM, taking its TAP down and waiting until port 22 is closed is one
  step that succeeds. A `WaitForVMDead` that gives up is not modelled.
- `DeleteSnapshot` may fail; every caller drops the error and the snapshot
  manager forgets the session all the same, so that a stray stays behind.
- A write of the store may fail (`Stored`); its error is only logged. The row
  then stays as it was, or, with the JSON store, a later save writes it after
  all, which the model takes to happen at once.
- A reboot of the host empties the pool: `setup-storage.sh` makes it anew.
- The host may or may not refuse a second process in an occupied slot: both
  are behaviours of the model, and no property leans on a refusal.
- A session without a repository skips the clone and the mount.
- `StopAll` is a `Stop` of every session. What others see is an operator:
  `WaitForSession` on the row, `List` on the map, and the MCP tools
  `list_sessions`, `get_session` and `get_session_result` on the rows.
  `RowsMatch` and `ResultDelivered` are stated through them.
- Bounds: one boot goroutine and one `Stop` call per session at a time, and a
  `Restart` only after the session's previous boot goroutine has ended.
  Creation order is id order, which is the order `loadFromDB` reads rows in.

The environment is a set of constants, so that one module serves every
question: `Roles` and `Repos` (what is created), `Faults` (which blocking calls
fail, `"delete"` of a snapshot and `"store"` included), `Outcomes` (how agents
end), `StopMidRun` (may a user stop an agent session while it runs),
`MaxCrashes`, `MaxRestarts`, and `Stall`: with `Stall = FALSE` a goroutine that
is between two adjacent statements, or about to write its row, finishes that
before any other goroutine moves (a crash may still come in between); with
`Stall = TRUE` it may be overtaken. Each passing run names the environment in
which its claim holds; the violation runs show what happens outside it.

`SlotLease` is what all this amounts to on the host, without goroutines, rows
and error paths. A lease is a session with a slot. It is granted when neither
has another, within the `-slots` limit; its VM is powered on and off; it is
returned when nothing runs there. A server that ends loses the leases that have
no VM (`Lose`), the next one ends VMs (`Evict`, `Resume`) and grants nothing
before it serves. In `SessionManager` the leases are those of the sessions that
hold their slot and of the VMs (`Leases`), `up` is `vms`, and the mode is given
by `cursor`: `Create` and `Restart` grant, `Launch` powers on, the four
teardowns power off at `StopVM` and return at `freeSlot` or `fail()`, a crash
is `Lose`, a row found midway an `Evict`, `CleanupOrphans` the `Resume`, and
every other action leaves the leases alone.

### SnapshotManager

`next`, `known` and `counter` are `nextVolumeID`, the `sessions` map and the
counter file; `pool` and `dev` are the thin pool and the session devices, which
are external and modelled by what the code expects of `dmsetup`: it refuses to
create what exists and to delete a volume that is in use. Each command of
`CreateSnapshot` and `DeleteSnapshot` is an action; with `DMFails` each can
fail alone, undo commands too. The lock is held only while the counter is
written (`Unlocked`). The file is truncated and then written, so a write that
fails or is cut off leaves it as it was or empty. `NewSnapshotManager` is the
end of the server (or of the host) and `newSnapshotManager` with
`discoverState` in the next one; a device whose table cannot be read is
skipped. After a reboot the pool holds the base volume alone, because
`setup-storage.sh` (84-104) zeroes its metadata, and the counter file is kept.
`lost` is history: the volumes that a process found when it started on an
emptied counter file. No two creates run for one session, nor a create beside a
delete, because boot goroutines of one session follow each other and a stop is
accepted only after boot is through; two deletes may overlap.

### WorkflowEngine

One workflow and its goroutines: the driver of generation `g` (`run`,
`resumeRun` or the demo) and the workers it starts, each with the place it is
at (`pc`), its stage and the copy of the workflow it holds (`base`).

The store's copies are shallow, so a workflow is a header (`status`, the number
of an array, a length) and the arrays are in `heap`: `Get` copies the header,
`InPlace` writes through it, `appended` writes into the spare capacity or moves
to an array of its own, as Go's `append` does, and `Upsert` replaces the stored
header and then saves the file, which may fail with the memory changed. The
file is a value. Arrays nobody refers to are dropped. Capacities are those of
Go: `append` doubles them, and decoding the file gives powers of two
(`JSONCap`; beyond 16, which no run reaches, an array without spare room).

Every place of `WritePCs` is one `Get`, a change and one `Upsert`. `Stalled`
names the roles of goroutines that others may overtake in between; the others
do both in one step.

| actions | code |
|---|---|
| `StageStart`, `StageCreateSession`, `StageTimeout`, `StageRecordSession`, `StageSessionEnds`, `StageDone`, `markStageFailed` | `runStage` (485-585) and the session manager seen from it |
| `FindStage`, `ReloadOutput`, `AddImplementStages`, `FanOut`, `AcquireWorker`, `WorkerValidates`, `WorkerAddsVerify`, `WorkerNotesVerifySession`, `WorkerJudges`, `Join`, `AddMergeStage`, `MergeBranches`, `FinishWorkflow`, `failWorkflow` | `run` (140-430) and `executeNamedStage` |
| `Submit`, `SubmitRuns`, `Resume`, `ResumeFanOut`, `Restart` | `SubmitWorkflow` with its two saves, `Resume`, `resumeRun`; the end of the process, `Open` and `RecoverInProgress` |
| `InjectDemoWorkflow`, `DemoStart`, `DemoDone`, `DemoAddTasks`, `DemoFinish` | `InjectDemoWorkflow`, `runDemo` (767-880) |

Outputs of agents are records of what the validators test. Sessions are the
environment: one may be refused, end with any output, fail, or never end. A
stage's prompt is abstracted to whether it is a generated prompt or still the
bare description of a task. `Resume` looks at the stages and not at the status
of the workflow, as in the code; `earlyResumes` counts the calls that met a
workflow still queued or running, and `MaxEarly` bounds them. `trunk` is what
`MergeImplementBranches` has pushed.

### TerminalServer

The poc server is reduced to what the terminal server can see: rows and VMs by
slot (`BootDone`, `Stop`, `StopVM`, `StopDelete`, the order of
`SessionManager`), with a store write that may be lost since `persistSession`
only logs the error. A connection goes through `Connect` (the row is read),
`Upgrade` (registered with the hub), `Dial`, the relay with its second
goroutine `out` (`OutputBegins`, `OutputEnds`, `OutputEOF`, `LoopEnds`,
`Drained`) and `Return`. `Signal`, `NotifyBegins`, `NotifyEnds`, `Notified`,
`Exit` are the shutdown; `notifyReconnect` holds the hub's mutex from `Signal`
to `Notified`. A browser reads, stalls (a write to it blocks) or is gone. The
start of a write is an action of its own so that two writers can meet on one
connection: the library then may panic, in either of them. In
`notifyReconnect` or the copying goroutine that ends the process; a panic of
the handler is recovered by net/http and closes the connection.

### RowStore and JSONStore

`RowStore` is the abstract specification of `sessionstore.Store`, one row per
key, as PostgreSQL keeps it: a statement that returned an error may take effect
later (`doubt`), and a query that cannot reach the data shows no row that was
never submitted. `JSONStore` is the implementation in a file, open in two
processes: `Begin` changes the map in memory, `SaveDone` renames the temporary
file over the store, `SaveFails` leaves it, `Read` reloads first, `BlindRead`
is a call whose reload failed silently, `Reopen` the end of the poc process.
`WriteSession`, `PostFavorite`, `FavoriteSession`, `DeleteFavorite` and
`GetFavorites` are the callers. The refinement maps `rows` to the file,
`running` to the write under way and `doubt` to the rows that a failed save has
left in memory only.

### Profile and RepoCache

`Profile` has the profile file, the file of the last GitHub token and the PUT
handler: `PutLoad` (`Load`, whose error is dropped, and the merge) and
`PutSave`. `RepoCache` extends it with the checkout of a boot: the token is
resolved (`BootStart`), the mutex of the repository's name taken (`Ensure`),
the bare repository cloned or fetched (`CloneEnds`, `FetchEnds`), the workspace
cloned from it without the mutex (`LocalClone`), the token saved and the
workspace mounted (`Setup`). A directory exists from the start of its clone
(`"partial"`); git removes it when the clone fails. The service file has
`KillMode=process`, so a git command that is under way when the server ends
works on beside the next one, without the mutex (`OrphanEnds`); when the host
goes down with it, what git had made is left (`Crash`). `cut` is history: the
names whose clone was under way when the process ended. `SessionManager` has
the same boot in full with the checkout as one step.

## 4. What the runs check

| run | environment | result |
|---|---|---|
| `slots` | 2 sessions, 2 slots, both roles, four of boot's steps and the deletion of snapshots failing, all outcomes, `Stall`, fairness | passes, @slots@ states |
| `recovery` | 2 sessions, 2 slots, 2 ends of the server or host at any step, 1 restart, no repositories | passes, @recovery@ states |
| `workflow` | plans of 2 tasks or an invalid one, the demo of 3, accepted and rejected outputs, 2 workers, 1 resume of an ended workflow, 1 restart, 1 failing save, fairness | passes, @workflow@ states |
| `terminal` | 2 sessions, 1 slot, a connection to each session, 1 stop, 1 lost write, shutdown, fairness | passes, @terminal@ states |
| `host_files` | store: 1 session, 1 favourite, 1 fault of each kind; cache: 2 boots, 2 repositories of 1 name, 2 PUTs, 1 crash, fairness; snapshots: 2 callers, 2 sessions, ids 2 to 4, 2 starts, every command failing | passes, @host_files@ states |
| `usage_limit`, `stop_race`, `workspace_failure`, `stale_row`, `stage_lost`, `resume_incomplete`, `early_resume` | see section 6 | violated |

Properties of `slots`:

- `OneVMPerSlot`, `SlotsAccounted`: no slot has two VMs; `usedSlots` is exactly
  the set of slots that somebody has yet to give back, and no two sessions have
  the same. The slot is freed before the session leaves the map, so a new
  session may get it while the old one's teardown is still running.
- `NothingLeaks`: whoever has given its slot back has no VM, and no snapshot
  but one whose deletion it has tried and that has failed.
- `ReadyIsUsable`: a ready session has its own VM in its own slot, the network
  up, its snapshot and its workspace.
- `BootOwnsState`: nobody moves a session while it boots, so the unlocked
  writes of `sess.v` and `sess.bridge` have no reader yet.
- `ResultDelivered`: when boot is through with a finished agent, the row has
  what the agent printed, and `WaitForSession` and `get_session_result` return
  it.
- `BootSettles`, `StopCompletes` (liveness). The former is about boots that are
  not left waiting for git or for the commands in the guest for ever.

Properties of `recovery`, in addition: `VMsStoppable` (when requests are
accepted every VM belongs to a session of the map), `RowsMatch` (a resting
session's row, as the MCP tools show it, agrees with the map), the action
properties `RecoveryKeepsReady` (`loadFromDB` harms no session whose row is
ready and whose VM is alive, though it kills by slot number, unless a row
caught midway names the same slot) and `ResultKept` (the row of a finished
agent is never written again but by `Stop` or a `Restart`), and `LeasePromise`
(the refinement of `SlotLease`, which implies `OneVMPerSlot`). In this run
goroutines are not held up (`Stall = FALSE`) and store writes succeed;
`stale_row` is `RecoveryKeepsReady` without its exception, in a run in which
they may fail, and the theorems of `SessionRowProofs` are about both.

Properties of `workflow`:

- `DoneIsVerified`: a workflow that `get_workflow` shows as done, and that was
  not resumed, has implement stages, each followed by a passing verify stage,
  and a merge that is done, across failing saves and a restart.
- `MergedWasVerified`: no branch reaches the base branch without its verifier's
  pass, resumed or not.
- `OneDriver`: an unfinished workflow has exactly one driver, a finished one no
  goroutine at all.
- `NoStageLeftRunning`: within one life of the server a finished workflow shows
  no running stage.
- `StartedIsPersisted`: a stage that has a session is running in the file, so
  a restart never starts a second session for it.
- `PromptsOnceEnded`: without a restart no session works on a bare task
  description, which is what a pending implement stage has for input.
- `StagesKept` (action property): no step drops a stage or takes a done one
  back. Workers are not in `Stalled` in this run; `stage_lost` is the same
  property with them in it.
- `WorkflowSettles` (liveness): a workflow again and again has no goroutine, or
  one that waits for a verify session, the only stage without a deadline.

All but `TypeOK`, `DoneIsVerified` and `WorkflowSettles` end at the first
`Resume` of a workflow that has not ended (`earlyResumes = 0`), because from
then on two drivers are at work on it: `early_resume` has what follows. The run
itself has `MaxEarly = 0`: with such a call the state space is beyond what TLC
explores in minutes, and the properties say nothing after it.

Properties of `terminal`: `TerminalsTold` (a graceful exit has told every
terminal to reconnect that was still open), `OwnVM` (the VM a terminal is
attached to is its session's, unless the row has changed since it was read or
a write of it was lost), `ShutdownCompletes` and `RelayEnds` (liveness, except
while a stalled browser holds `notifyReconnect` up, which no deadline ends). A
process that ends in a panic of two writers is excepted by the first and the
last two.

Properties of `host_files`: `AckedIsStored` (an acknowledged write stays in the
file until the same key is written again), `StorePromise` (the refinement of
`RowStore`), `TokensKept` (a PUT does not wipe the token it leaves out, as long
as PUTs do not overlap and each can read the profile), `NoHalfClone` (nobody
clones from a repository that is being cloned; a name whose clone was under way
when the process ended is excepted), `CheckoutSettles` (liveness: a boot gets
its mutex and gets past the checkout, unless some git command never ends).
Of the snapshots: `DisksIsolated`, `NoCollision` (an id on its way to
`create_snap` is that of no volume, those found by a process that started on
an emptied counter file excepted) and `KnownIsInUse` (what `DeleteSnapshot`
would remove is what the session uses).

**Bounds.** Two sessions are enough for every pairwise conflict (two boots, a
boot and a stop, the old and the new owner of a slot); in `slots` there are as
many slots as sessions, and a slot freed by one session is taken by the other.
Two crashes let the second hit a recovery or what the first one left; a restart
needs a session that was stopped and found by `loadFromDB`. Volume ids 2 to 4
allow three creates, so that an id is drawn after one failed and another was
deleted (`MaxVolume = 5`). In `recovery` repositories are left out: a workspace
that a crash leaves behind makes the next clone of that session fail, and the
boot with it, by way of the path that `workspace_failure` is about. `MaxSlots =
1` in the violation runs makes the reuse of a slot immediate.

Two tasks give two workers beside each other and one verify stage per worker;
the capacities of the stage arrays go from 2 to 4 to 8, so appends both fill
spare capacity and move. One restart and one failing save may come at any step,
one resume at any after the end, in any order. Two connections, to two sessions
that have one slot, let the slot change hands between the look-up and the dial,
and one connection be told while the other stalls. The store needs two keys so
that the write of one can carry or lose that of the other, and one row beside
none, so that every value differs from its predecessor. Two boots contend for a
mutex, of one repository or of two with one name. `MCHostFiles` has the store,
the cache and the snapshots in one run; they share no variable, so each is
explored with the others at rest. Deadlock checking is off: a server without
requests may rest.

**Fairness.** `SessionManager`: weak fairness on every step of the boot
goroutine up to ready that is not in the hands of others, on every teardown
step and on loading: `WaitForSSH` gives up after 60 s, shutting a VM down is
given 8 s, `WaitForVMDead` 5 s, and the other calls are local commands. Nothing
is assumed of git (`repocache.go` runs it without a timeout) and of the
commands in the guest (`bridge.go` has no deadline), which `Remote` marks,
nothing of the agent, which may run for ever, and nothing of requests;
`BootSettles` is about boots that git and the guest answer again and again.
`WorkflowEngine`: weak fairness on what a goroutine does by itself (`Step`),
timers included, since the stages' contexts have deadlines; none on sessions,
which may never end, and none on calls of users. `TerminalServer`: weak
fairness on each goroutine (a connection's handler, its copying goroutine, main
with `notifyReconnect`); a closed connection is noticed; nothing of browsers,
of VM output, of the poc server or of the signal. `RepoCache`: strong fairness
on taking the mutex, which in Go starves nobody, and nothing else:
`CheckoutSettles` has as its premise that no git command runs for ever.

## 5. What is proved

All theorems hold for every value of the constants allowed by the assumptions
of the modules (`ConstantsAssumption`, `SnapshotAssumption`, `StoreAssumption`,
`BodyAssumption`, `CacheAssumption`, `TerminalAssumption`, `EngineAssumption`,
`NoValAssumption`), which state only types and that a value standing for
"nothing" is none of the others. Where a theorem needs more it says so in an
`ASSUME` of its own or in its premise, named below with the run that shows why.

- `SessionManagerProofs`: `TypeCorrect`, `Spec => []TypeOK`, crashes, restarts
  and stops of running agents included. `TypeOK` is not inductive: a row is
  built from a session that must have a state, so `TInv` adds that a session
  in the map or with a goroutine at work has a state machine (`Live`).
- In the same module, `SlotsSafe` (`[]SlotsAccounted`) and `BootUndisturbed`
  (`[]BootOwnsState`), for any number of sessions and slots (unlimited too),
  any faults, workspace failures included, and any stalls, in one life of the
  server without restarts and without stops of running agents (`OneLife`). The
  last condition is needed: with it dropped, TLC finds `SlotsAccounted`
  violated in the environment of `stop_race`. The inductive invariant `SInv`
  joins to `TInv` the ownership of a session, `Owner`: the place of a goroutine
  fixes the state of the session, and while the boot goroutine is at work the
  stop goroutine is not, nor the reverse. With it each step keeps, gives or
  takes the slot of one session (`KeepSlot`, `GiveSlot`, `TakeSlot`), and
  `SlotStep` shows once that any of the three preserves the account.
- `SnapshotManagerProofs`: `Isolation` (`[]DisksIsolated`) whatever command
  fails and even when the counter file was emptied: the pool's refusal of an
  existing id is what saves the disks. The invariant says that an id in a call
  was handed out once (`FreshIds`) and that a creating call owns its volume
  until the device is made (`OwnVolumes`). `CounterSafe` (`[]NoCollision`)
  holds for `BaseVol < 2` (the base volume is 0 or 1, below the first id); its
  invariant is that the counter, and the file unless it was emptied, are ahead
  of every volume of the pool but the `lost` ones. `TypeCorrect` is the third,
  `NotesAreInUse` (`KnownIsInUse`) the fourth, with no condition: a device is
  made for the volume that the call has noted or is about to note, and
  `discoverState` notes what the device shows.
- `HostFilesProofs`, the store: `AckedStays` (`[]AckedIsStored`) and
  `StoreRefines` (`StoreSpec => StorePromise`), for any keys, rows and numbers
  of faults. `AckedIsStored` alone is not inductive: a save writes the whole
  map, so the invariant `StoreInv` adds that what is acknowledged is in memory
  too (`AckedIsInMemory`), that the write under way is in memory
  (`SavingIsInMemory`), that everything in memory, in either process, was once
  submitted (`KeptWasTried`, needed for blind reads) and that without a file to
  read the terminal server knows of no row (`UnreadIsEmpty`, needed for its
  reads). The refinement has one lemma per action: `Begin` is a `Submit`, a
  save a `Write` that may let other rows in doubt surface with it, a failed
  save a `WriteFails`, a reload of the writer forgets what was in doubt, and
  re-opening is the end of the writing process.

- `SessionVMProofs` goes on from `SInv`. `SlotsHaveOneVM` (`OneVMPerSlot`),
  `NothingIsLeft` (`NothingLeaks`), `ReadyCanBeUsed` (`ReadyIsUsable`) and
  `VMsCanBeStopped` (`VMsStoppable`) hold for any number of sessions and slots
  under `OneLife` and `WorkspacesWork`: no checkout or mount fails. Snapshot
  deletions and store writes may fail. Without `WorkspacesWork` they are false
  (`workspace_failure`), without `OneLife` `stop_race` refutes `ReadyIsUsable`.
  None of them is inductive, because
  whether a session has a VM depends on the place of two goroutines: `HInv`
  says, place by place, that the VM is there, alone, in the session's slot with
  the TAP up, that the snapshot is there, and the workspace. That two sessions
  do not meet in one slot is `SlotsAccounted`.
  `LeasesKept` (`Spec => LeasePromise`) is the refinement of `SlotLease`, under
  `OneLife` and `WorkspacesWork`. One lemma per kind of step says that it
  touches one session (`LeaseMove`) and keeps `usedSlots`, takes that session's
  slot out or puts a free one in. Who holds a slot then follows from
  `SlotsAccounted` before and after (`HeldKept`, `HeldGiven`, `HeldTaken`): a
  slot that stays in use stays with its session, since nobody else moved. That
  a slot comes back without a VM is `VMOwner` after the step, and that a grant
  is within the pool follows from counting the holders (`AllocInPool`).
  `LeasesExclude` proves of `SlotLease` what its reader expects: no two leases
  are of one session or one slot, and a VM runs only on a lease.
- `SessionRowProofs` also goes on from `SInv`'s module, but has no condition on
  stalls, stops or crashes: `Stop` may come at any time, also while an agent
  ends, goroutines may be held up anywhere, and the server may end and recover
  any number of times. `ReadySurvivesRecovery` (the action property
  `RecoveryKeepsReady`) has no premise at all; lost store writes are included.
  Its invariant `Back` says that no goroutine is at work while `loadFromDB` is,
  and that every survivor it has passed is in the map with its slot marked, so
  that `CleanupOrphans` spares it; a row that is not midway kills nobody, and a
  midway row with the same slot is the exception (`Contested`) that `stale_row`
  is about. `ResultsAreDelivered` (`ResultDelivered`) and `ResultsAreKept`
  (`ResultKept`) need that store writes are not lost. `ResInv` follows the row
  of an agent from `AgentDone` on, through whatever `Stop`'s goroutine writes
  or deletes in between (`Staged`, `Kept`). `MapAndRowsAgree` (`RowsMatch`)
  needs besides that no agent meets its usage limit (`usage_limit`: such a
  session leaves the map, its row stays ready). Writes may be held up and
  overtaken; what `RowsMatch` itself excepts are sessions that were asked to
  stop or restart while one of their goroutines was at work, whose rows then
  really may disagree. `RowInv` relates the two views place by place while the
  server serves (`Told`) and row by row while `loadFromDB` runs (`Reread`).
- `SessionRecoveryProofs`: slots and the host over any number of lives of the
  server, which may end at any step, in the middle of a recovery too, alone or
  with the host, and may restart sessions: `SlotsAcrossCrashes`,
  `BootAcrossCrashes`, `VMsAcrossCrashes`, `UsableAcrossCrashes` and
  `StoppableAcrossCrashes`. They hold under `Recovers`: goroutines are not held
  up before they write a row, store writes are not lost and no agent meets its
  usage limit (`Orderly`), running agents are not stopped, no checkout fails,
  and sessions with a repository are not restarted. Each condition is needed: a
  row that is late or lost leaves two rows with one slot, of which `loadFromDB`
  kills one session's VM (`stale_row`); an agent at its usage limit leaves a
  ready row behind, a stopped one frees its slot twice (`stop_race`), and a
  restart that finds its old workspace fails with its VM running.
  `SInv`, `HInv` and `RInv` speak of goroutines, and after a crash there are
  none: what connects a VM with the session it belongs to is then only its
  row. So the invariant `RecInv` has, beside the former while the server
  serves (`cursor = 0`), a part that survives the crash, `RowsApart`: no two
  rows claim one slot. It is what makes loadFromDB right to kill whatever runs
  in the slot of a row that is midway, without looking whose it is. While
  loadFromDB runs, `Recovering` says that every VM still there has a row that
  leads to it (`Lasting`) and that the map holds what the rows below the
  cursor say (`Loaded`). The crash is the step from the former to the latter,
  `CleanupOrphans` the step back, and `RecoveryInvariant` the theorem.
  `LeasesAcrossCrashes` is `LeasePromise` in the same environment: while
  loadFromDB runs the leases are exactly the VMs, so that a crash is a `Lose`
  and a session that is taken back gets the lease it had.
  `NothingLeaks` is not among them: across a crash it is false, because the
  snapshots of sessions that recovery gives up stay on the host.
- `HostFilesProofs`, the rest: `TypesAndMutex`, `TokensAreKept` and
  `NoHalfClones`, for any sessions, repositories, PUTs and crashes, with git
  commands that outlive the server.
  `NoHalfClone` alone says nothing of the bare repository a boot is going to
  clone from: `CacheInv` adds that a partial repository is one whose mutex is
  held by the boot that clones it, or one whose clone was under way when the
  process ended (`PartialIsLocked`, `CloningIsPartial`, `HolderAtWork`,
  `OrphanIsCut`), and that a boot past the mutex has found a whole one
  (`FoundIsWhole`). `ProfileInv` adds that what a PUT has loaded is
  what the file still holds (`LoadedIsFresh`). `FilesTyped` (`MCTypeOK`) is
  about all the files and disks together, as `MCHostFiles` composes them.
- `TerminalServerProofs`: `TerminalTypes`, `AllTerminalsTold`
  (`TerminalsTold`) and the action property `TerminalsReachOwnVM` (`OwnVM`),
  for any sessions, slots and connections. The invariant adds that a terminal
  open at the signal waits to be told, has been told or is gone
  (`NoneForgotten`), and that a row that says ready is true unless a write was
  lost (`ReadyRowIsTrue`).
- `WorkflowEngineProofs`: every safety property of the run `workflow`, for any
  number of workers, tasks, resumes, restarts and failing saves: `EngineTypes`,
  `OneDriverAtATime`, `SessionsArePersisted`, `OnlyPromptsRun`,
  `NothingLeftRunning`, `OnlyVerifiedIsMerged`, `DoneWasVerified`, and
  `StagesAreKept` (the action property `StagesKept`). They have two premises,
  which the code does not enforce. The first is of the behaviour,
  `NobodyOvertaken`: whoever writes the workflow back writes it over the header
  that it has read (an overtaking that leaves the header as it was, as between
  resumed stages that write in place, is no matter). `stage_lost` is a
  behaviour without it, and the theorems say that nothing else can lose a
  stage, or let a branch be merged or a workflow be done without its verify
  stage. The second ends the claims at the first `Resume` of a workflow that
  has not ended, which starts a second driver beside the first
  (`early_resume`); it is part of the properties, or of the theorem
  (`EngineTypes`); `DoneIsVerified` is about workflows that were never resumed.
  The proof has two layers. The first deals with Go's slices: an array with a
  length is read as a table from stage ids to stages (`Table`, `tab`, `ftab`),
  and lemmas say what writing in place, appending (into spare room or into a
  grown array), resetting, saving and opening do to it (`SlicePut`,
  `SliceAppend`, `SliceMap`, `ResumeEffect`...). From there on nothing mentions
  arrays. In the second, the invariant `Inv` has a part for each concern: the
  memory is well formed (`MemInv`); the table grows in order (`TabInv`); file
  and memory agree unless a save failed (`Synced`); all goroutines belong to
  one driver, which waits while it has workers (`ThrInv`); a header read by
  `Get` is still the stored one (`HeldInv`, where `NobodyOvertaken` is used);
  what each goroutine relies on at each of its places (`LocalInv`); a running
  stage has a goroutine (`RunInv`), a stage with a session is running in the
  file (`PersistInv`), bare tasks only wait (`PromptInv`), and merged is
  verified (`TrunkInv`). A step of one goroutine is then shown to change only
  its own stage (`StepShape`), which is why the others' parts of `LocalInv`
  survive. `Inv` was checked with TLC, in the environment of `workflow`, before
  it was proved.

Every invariant, every action property and both refinements that a passing run
checks are stated by a theorem, under the premises named above. Only
model-checked: liveness (`BootSettles`, `StopCompletes`, `WorkflowSettles`,
`ShutdownCompletes`, `RelayEnds`, `CheckoutSettles`), which is out of the
prover's reach, as is `ENABLED`.

## 6. Findings

- `usage_limit`: on a usage limit the code goes from ready to failed, which
  `validTransitions` refuses; the error is logged, everything is torn down, and
  the row stays ready: `WaitForSession` never sees `ErrUsageLimit`, which a
  test's comment promises (`cmd/poc/session_noninteractive_test.go:42`).
- `stop_race`: `Stop` while the agent works, then the end of the agent: its
  clean-up runs a second time and takes down the TAP and the slot of the
  session that has got the slot since. The error path of the same function
  avoids this, with a comment that says why (main.go:652).
- `workspace_failure`: a workspace that cannot be mounted fails the session and
  frees its slot while the VM runs on and the snapshot stays.
- `stale_row`: a boot fails and frees its slot, the write of its failed row is
  lost (its error is only logged), and another session becomes ready in the
  slot. After a restart `loadFromDB` finds the old row midway and stops
  whatever runs in its slot: the ready session, which the comment at
  main.go:1001 says is reconnected. With PostgreSQL one failing statement is
  enough; with the JSON store, whose saves write all rows of its memory, a read
  has to reload the file before the next save.
- `stage_lost`: two workers read the workflow, each appends its verify stage
  and writes its copy back; the later write takes the other's stage out of the
  workflow. The comment at `engine.go:483` says that fresh copies avoid such
  races; they are copies of the struct that share its stages, and no lock spans
  a `Get` and its `Upsert`.
- `resume_incomplete`: a resumed workflow is done when its failed stages have
  run: an implement stage that is resumed after a usage limit is not validated,
  verified or merged, although `resume_workflow` says it continues the workflow
  (`internal/mcp/tools.go:191`, `engine.go:604`).
- `early_resume`: `Resume` does not look at the status of the workflow. Called
  while the workflow is at work and one of its stages has failed, it starts a
  second driver, and that one runs every pending stage with an input: also an
  implement stage that still waits for its worker, with the bare task
  description as its prompt, although the comment at `engine.go:599` says that
  the prompt of a resumed stage was already generated. `OneDriver` is false
  from then on, too. The page offers the button for failed workflows alone; the
  HTTP and MCP calls take any.

## 7. Not modelled

Pages, the JSON-RPC dispatch of MCP, `rubishd`, host scripts and generated code
have no state of their own. Text (prompts, output, configuration, parsing of
`dmsetup` tables) is abstracted to what the control flow makes of it. Not in
the models although the code has it:

- a VM that survives its stop (`WaitForVMDead` gives up after 5 s), sockets
  without a process, several concurrent `Stop` calls for one session;
- a server that runs without a store;
- a host that loses power between the write and the rename of a file: the code
  does not sync, and the model of the file takes a rename as durable;
- the SQL, the pool and the migrations of the PostgreSQL store;
- the engine composed with the session manager: a session that `loadFromDB`
  has recovered for a stage whose driver is gone runs on unobserved.
