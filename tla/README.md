# Verification of SnipeSpotter

SnipeSpotter is a Windows service that keeps one computer's Snipe-IT records true: it
discovers the machine and its monitors, plans what Snipe-IT has to be told, and carries
the plan out over HTTPS, on a schedule and on request of a command line that talks to it
over a named pipe. What makes it hard is that every mutation is remote and not
transactional, that the process may end between any two steps, and that status, schedule,
settings and commands are handled by different tasks. The modules here are translated from
the Rust source and stand beside it; a line such as `service.rs:849` means
`src/spotter-svc/src/service.rs`, other crates are named.

## 1. Inventory

| Component | State it keeps | Operations | What is hard about it |
|---|---|---|---|
| operation journal (`operation_journal.rs`) | `operations.jsonl`, quarantine marker | append, load, recover, guard, commit, compact | torn appends, order of records, the file is the only evidence of unfinished remote work |
| sync engine (`sync_engine.rs`) | the candidate state of the running plan | prepare, mutate, observe, replay | a failure or the end of the process between request, record and save |
| command owner (`service.rs`) | state in memory and `state.toml`, settings and `settings.toml` | trigger_sync, force_checkin, set_config, set_token, startup recovery | replay before new work; two copies of the state; a change of server under pending work |
| command loop (`fsm.rs`) | queue of 32, sync claim, completed generation | enqueue, coalesce, cancel, handle, complete | the claim is shared by all callers and released by another task |
| scheduler (`scheduler.rs`) | armed deadline | arm, disarm, enqueue, await completion | settings may change while it waits for a sync; another caller's sync may be the one in flight |
| status publisher (`status_publisher.rs`, `status.rs`) | two watch channels and a generation | activate, publish, project | a reader combines two snapshots written by two tasks |
| pipe server (`ipc_server.rs`) | JoinSet of at most 16 sessions | accept, refuse, read, answer, drain | reaping, deadlines, clients that leave, shutdown while the owner is busy |
| service lifecycle (`service.rs`, `mutex.rs` of spotter-win32, `lib.rs` of spotter-cli) | process phase, SCM status, named mutex, stop signal | start, recover, serve, stop, unwind; install, uninstall | Stopped is reported before the process lets go; administrators race |
| monitor planning (`sync.rs`, `monitors.rs` of spotter-core) | known monitors: asset, absence, check-out | diff, plan, force | what a long sequence of syncs, absences and missed lookups adds up to |
| gathering (`gather.rs`, `discovery.rs`, `smbios.rs` of spotter-core) | none | look up serials and taxonomies | a failure must not be taken for a missing asset, nor the other way round |
| Snipe-IT client (`snipeit_client.rs`, `snipeit/mod.rs` of spotter-core) | none | requests with deadlines, paged search, mutations | pages that shift while they are read, replies of something in between |
| atomic writer (`atomic_file.rs`) | destination, temporaries and their owner sidecars | write, recover leftovers | the end of the process at every step, reused process ids |
| state store (`state_io.rs`, `state.rs` of spotter-core) | `state-hmac-key.bin`, `state.toml` | load or draw the key, verify, sign, save | a start that ends between key and state; records of an earlier release |
| settings (`config_io.rs`, `owner_ports.rs`, `config.rs` and `ipc.rs` of spotter-core) | settings in memory and in `settings.toml`, the client built from them | load, validate, update, save, rebuild the client | three copies that a failed save leaves apart; two parsers of one address |
| status command line (`lib.rs` of spotter-cli, `pipe.rs` of spotter-win32) | a worker thread and a timer per run | authenticate the server, write, read, give up | processes end and pids are reused between two queries; the exit code when the timer fires |
| DPAPI, ACLs, elevation, logging, build helper, installer, hardware qualification service | none of the product's | - | wrappers of the operating system or separate programs |

How they interact. Sessions of the pipe server and the scheduler are callers of the
command loop, which hands one command at a time to the command owner. The owner gathers,
plans, and drives the sync engine, which writes the journal and calls Snipe-IT; state,
settings, journal compaction and marker go through the atomic writer. A start reads
journal, key and state in that order and replays what is pending before the pipe exists.
The command line reaches the owner through a session, after it has asked the system who
serves the pipe. The owner and the loop tell the publisher about status, the publisher
tells the scheduler about settings. The service manager starts and stops the process
through the lifecycle code; the mutex keeps a second process out.

What makes each correct:

- journal: it never loses evidence of unfinished work, and what `load` computes is a
  function of the complete records, in order.
- engine and owner: every mutation is on file before it is made; no effect is forgotten or
  invented; replay precedes new work and goes to the server the work was prepared for;
  unfinished work is finished once failures cease, if the process runs and the server does
  not refuse it.
- loop, scheduler, publisher: the claim always belongs to somebody who will release it; an
  answered sync completes; no reader is shown a deadline that is used up, or of settings
  that a save answered before it asked has replaced.
- pipe server: the limit holds, nobody waits behind a busy session, an answer means that
  the command was handled, shutdown ends.
- lifecycle: one writer of the data directory, an accepted stop takes effect, an uninstall
  that succeeds has removed the service.
- planning: Snipe-IT and the entries agree over any history, a plan settles, a monitor is
  not taken back early; serials that share an asset disturb no other.
- gathering and client: a search skips nothing that was there all along and ends in time;
  only the server's word makes an asset missing, and an Ok was carried out.
- atomic writer: a reader finds complete bytes or, after a replacement that failed
  half-way, nothing; never a mixture; leftovers stay collectable.
- state store: what a start established on the server is forgotten by no later failure,
  and a state stays verifiable by the key on file.
- settings and command line: an acknowledged update is not undone, the client is of the
  settings in force, a restart accepts what was saved; exit codes are true and a command
  reaches nobody but the service.

`PROJECT.json` lists the components with what is left out of each, and the hazards at the
line where they bite.

## 2. Modules

| Module | Stands for | Notes |
|---|---|---|
| `OperationJournal` | the abstract journal: phase, order and snapshot of each operation, how the file ends, the marker | abstract specification; used by `CommandOwner`, implemented by `JournalFile` |
| `JournalFile` | the file, line by line: the fold `pending_with_evidence` with its map of positions, append, recovery, compaction | refines `OperationJournal` |
| `StartupRecovery` | starts of the configured service on the files earlier processes left | EXTENDS `JournalFile` |
| `JournalEvidence` | what the lines are evidence of, read declaratively: the refinement mapping and the reference of the fold | EXTENDS `StartupRecovery` |
| `JournalEvidenceInvariant`, `JournalEvidence_proofs` | the inductive invariant of the three, and the proofs | |
| `CommandOwner` | owner, engine, server, settings, disk | one action per durable write or remote call, each with its failure |
| `CommandOwnerInvariant`, `CommandOwner_proofs` | its inductive invariant, and the proofs | |
| `CommandLoop` | `FsmHandle` and the loop task | composed by the next |
| `AutomaticSync` | scheduler, publisher and handlers around the loop | EXTENDS `CommandLoop` |
| `StatusReader`, `AutomaticSync_proofs` | a session that asks for the status, in two reads, and the proofs of the three | EXTENDS `AutomaticSync` |
| `PipeServer` | accept loop, sessions, their clients, drain | composed by the next |
| `ServiceLifecycle`, `ServiceLifecycle_proofs` | processes, mutex, service manager, install and uninstall, each process with its pipe server | EXTENDS `PipeServer` |
| `RemoteClient` | replies and what the client makes of them, the paged search | composed by the next |
| `Gathering`, `Gathering_proofs` | discovery, lookups, taxonomy and the mutating calls | EXTENDS `RemoteClient` |
| `MonitorPlan`, `MonitorPlan_proofs` | plan_sync, diff_monitors, forced check-in over time | takes what `Gathering` yields as input |
| `ServiceSettings` | settings in memory, on disk, and the client built from them | composed by the next; its theorems hold of the service alone too |
| `Configuration`, `Configuration_proofs` | command lines and the processes that answer them | EXTENDS `ServiceSettings` |
| `AtomicFile`, `AtomicFile_proofs` | one destination and its leftovers | |

`MC*` modules only name model values and small sets. Operators marked as mutants in the
modules are plausible mistakes, each used to see that a property is able to fail; no
specification uses them.

### CommandOwner

State: `pc`, `cmd`, `todo`, `done`, `op`, `cur`, `final` are the position in `service.rs`
and `sync_engine.rs`; `mem`/`disk` the state in memory and in `state.toml`;
`identity`/`settings` the active settings and the file; `remote` what the server holds;
`phase`, `before`, `snap`, `tail`, `defect`, `marker` the journal. A sync is
`BeginCommand` (recovery of the journal's last line, load), then `Replay` of each pending
operation, `Save`, `Commit` per operation, `CompactJournal`, `PlanSync`, then per
operation `Prepare` - `Mutate` - `Observe`, again `Save`, `Commit`, `CompactJournal`.
Every one has its failing sibling, and `Crash` may come before any. An operation id is its
kind, asset, target and status (`operation_id`); target and status are fixed by the
identity, so kind and asset are left. The plan itself is an arbitrary choice here (of what
presence allows); `MonitorPlan` says which plans are made. A request that fails may or may
not have taken effect (`MutateFails`). `refused` are the operations that the server
answers with an error whenever it is asked, until it relents (`Refuse`, `Relent`); the
command gives up at the first of them (`MutateRefused`), so such an operation on file
holds back everything.

### JournalFile

A file is a sequence of lines; a line parses or not and carries at most one record; the
last line ends with a newline or does not, and then is complete or torn. The fold is the
code's: a pending vector and a map of positions in it, entries removed from the middle and
the positions behind them moved up (`Renumber`); a position that led outside the vector
would refuse the file. `JournalEvidence`
reads the same file declaratively (the last record of each id, the position of its
preparation) into `view`, under which the file is shown to implement `OperationJournal`;
`view` is a function of the lines (`Shown`), a variable only so that TLC reads each file
once.

### StartupRecovery

`pc` is the position of a start: `before`, while `Earlier` lets earlier processes write
any journal, torn or malformed; `admitted`, `keyed`, `recovering`, `replayed`, `commit`,
`serving`. `key`, `state` and the journal are the files, `held`, `mem` and `todo` the
memory, which `Ends` forgets at every step. A signature is the key that made it; a state
is the operations it reflects and the assets it knows. A record of an earlier release
carries no candidate (`Bare`): its operation is applied to the loaded state, if that knows
the asset (`ApplyEntry`), where a record with a candidate replaces the state (`Adopted`);
an `Unreadable` record does not decode. Assumed: one release wrote all that is pending,
since each recovers what is on file before it adds to it; a candidate reflects whatever
was prepared before it; operators remove state or key only while the service is down.

### CommandLoop, AutomaticSync and StatusReader

The mutex-guarded claim is one step, every await is a step boundary, and each store of the
loop that another task reads (claim, completion, response) is a step of its own. The
scheduler's selects are actions; a deadline passes whenever one is armed. A status request
passes the queue by and clones the status watch (`ReadStatus`), then the schedule watch
(`ReadSchedule`); all of the rest may happen in between. `NextSyncShown` is what it would
answer at any moment of that. Handlers of the owner are
`SyncStarts`, `SaveSettings`, `ActivateScheduler` and `HandlerEnds`. An interval of zero
hours cannot occur (validation admits 1 to 168).

### PipeServer and ServiceLifecycle

`accept` is the position of the accept loop, `conn` each session's, `owner` what became of
the command, `client` what the command line at the other end knows. Connections that end
stand for new ones. The session deadlines are the failing alternatives of the read and
write; the client's thirty seconds are `ClientGivesUp`. `AcceptLoopFails` is an error of
the pipe API, which drops the JoinSet. In `ServiceLifecycle` each process runs
`run_service`: mutex, load, recovery, Running, serve, Stopped, unwinding, exit. The
service manager is external and modelled by the calls made to it: a start is refused while
the service is not stopped or is marked for deletion, a stop is accepted only while
Running, a marked service goes when it is stopped and nobody holds a handle of it, and the
manager notices the end of a process that did not report Stopped. `Crash` may end a
process at any moment. Registrations are numbered, so that an uninstall can be asked about
the one it opened.

### RemoteClient and Gathering

A reply is a status and a kind of body, as far as the parsers tell them apart (`Decoded`);
an answer is `ok` or the `SnipeItError` of the caller. The list that is searched is a
sequence that others add to and remove from between the pages (`SomeoneAdds`,
`SomeoneRemoves`); a page is cut from the list as it is when the server answers. The clock
advances while headers or a body are awaited, the deadline is looked at where the code
looks at it: before a page and while headers are awaited. It is assumed that a server
gives no shorter page than it was asked for while there are more rows
(`ServerAssumption`), as Snipe-IT's own limit is above the code's 100. `Gathering` walks
through the computer and its monitors as `gather_sync` does. `wrong` says that the base
URL leads to a server without this API, whose every answer is 404; `denied` is the history
of what the server really said. The three mutating calls follow a gather and start with
the read the ports make; the server carries a call out at any time after it was sent, also
when the client no longer waits. Of the wire models ids and names are kept.

### MonitorPlan

`entries` is `known_monitors`, `ours` what Snipe-IT holds as checked out to the computer.
Plans are carried out whole (CommandOwner interrupts them). `seen` is how each serial
fares in a sync: absent, repeated, missed by the lookup, found but unresolved, or resolved
(where "unresolved" stands for a missing computer as for a missing taxonomy). A serial
leads to a fixed asset or, in a lookup that misses, to none; two serials may lead to the
same asset, since the server's answer is not compared with the serial asked for
(`Shared`). A plan with two operations of one id does not take place (`UniqueOperations`).

### ServiceSettings and Configuration

The settings kept are address, token and check-out status, the three that decide whether
the service is configured; the check-in status is taken as set. An address is the parts
that `validate_snipeit_url` and `Url::parse` look at, so that their disagreement is a
value and not an assumption. A ciphertext stands for its plaintext. `Apply` is an update
whose save succeeds, `Refuse` one that leaves file and memory, `RefuseAfterReplacing` one
whose save fails after the file was replaced, `EndAfterReplacing` a process that ends
there. In `Configuration` the worker thread of a command line opens the pipe, asks for the
server's pid, holds its process, compares account and image, checks that it is alive,
writes and reads; the timer's thread may give up before any of them (`TimesOut`) and the
process may exit. Process n is the n-th that served the endpoint, and its pid is the one
it got, so a pid names the last process that had it. Processes of another kind (a console
run, an image that is not the registered one) serve the same endpoint. Assumed: at most
one process serves it at a time, and what the service manager has registered does not
change.

### AtomicFile

One destination, the names `<destination>.tmp.<pid>.<nonce>` and their owner sidecars. A
replacement takes place (`Replace`), does not (`Fails`), or fails after it removed the
destination (`ReplacePartly`: `ReplaceFileW` without a backup name, whose documentation
names that outcome), after which the error path removes the temporary as well. One
service at a time (`SingleWriter` of ServiceLifecycle); which other programs hold a
process id changes while the service is down; reading a sidecar succeeds.

## 3. Runs

| Run | Question | Bounds, and why they are enough |
|---|---|---|
| `owner` | safety of owner, engine and journal, change of server, progress | a monitor and the computer, two identities: a monitor under both kinds of operation, replay of mixed phases before new work; two disturbances: a crash during the recovery of a crash, a torn append followed by a failing recovery, a refusal met by a replay. More monitors are left to the theorems |
| `journal_file` | fold, refinement, starts | two ids, two keys, three kinds of candidate, six lines: both ids through their whole life, every illegal order of a shorter file, compaction in the middle; any number of starts, crashes and failures |
| `sync` | claim, generations, completion, rearming, what a reader of status and schedule is shown | a session, the scheduler and a reader, queue of one (a full queue is a matter of one request), two generations, one save (before, between or after the two reads), one cancelled caller, one panic |
| `lifecycle` | one writer, stop, removal, pipe | two processes (an old and a new), two clients for one session slot, one command line, two registrations; other administrators are played by `OperatorStops` and by starts; that others uninstall and reinstall at the same time is left to the theorems, which hold for any number of command lines |
| `gather` | search, lookups, mutations | a computer and a monitor with makers and models of one name; pages of one row, lists of three, two edits: a list that grows before and behind the page; a deadline of two against a request timeout of one |
| `plan` | agreement, settling, no early check-in | three monitors, two of which share an asset, so that plans are refused and assets pass to and fro; threshold of one hour over hours 0 to 2: an absence that ends just before, at and after the threshold |
| `configuration` | exit codes, authentication, updates, client, file | two command lines, two processes, two commands; every settings file that an earlier process may have left, so that two commands make a configured service incomplete and complete it with another address, and a failed save or a restart falls in between. Three addresses (two that both parsers take, one that only the first takes), one token: what distinguishes an account is its address |
| `atomic_file` | complete bytes or none, leftovers | two process ids, two nonces, three writes: reuse of a dead service's id and of a name |

These pass. Four runs state what a document says and are violated by what the code does:

| Run | Statement | What happens |
|---|---|---|
| `owner_reprepare` | records always follow Prepared, RemoteOutcomeObserved, StateCommitted (`operation_journal.rs:95`) | a commit that is not followed by its compaction leaves a terminal record; when the same operation is planned again before another compaction, its Prepared follows it, and `load` refuses the file from then on. `owner` checks, and a theorem says, that this is the only way (`CorruptedOnlyByReprepare`) |
| `owner_settings_fault` | identity changes are refused while pending evidence exists (`operator-guide.md:89`) | a save that fails after the replacement leaves the new identity in the file; work prepared before the restart is replayed under it afterwards |
| `sync_rearm` | saving unrelated settings never resets the deadline (`operator-guide.md:106`) | every activation advances the generation and re-arms |
| `pipe_excess` | 16 active sessions, excess connections closed (`architecture.md:198`) | sessions that have ended count until reaped, and the connection that causes the reaping is closed although none is active |

Bounds: `MaxDisturbances` limits crashes, failures and outside edits together; `MaxSyncs`,
`MaxCancels`, `MaxPanics`, `MaxSaves` the events of the loop; `MaxLines` the file,
`MaxNow` the clock, `MaxWrites` the writes, `MaxRegistrations` the creations; `MaxListed`,
`MaxChanges` and `MaxStructures` a list, its edits and the firmware table; `MaxStarts` and
`MaxCommands` the processes and command lines. `PageSize`, `MaxPages` and `MaxRows` are
100, 100 and 10 000 in the code. `MaxActive` is 16 in the code and one here, the capacity
32 and one: limits are met sooner.

Deadlock is checked except in `journal_file` (the file may reach `MaxLines`) and
`pipe_excess` (the process exits).

Fairness, and why the code justifies it:

- `CommandOwner`: weak fairness of beginning a sync in a running process and of the steps
  of a running command. The scheduler keeps submitting, and every remote call has a
  timeout. No fairness of starts (neither installer nor `install` sets a recovery action,
  so a process that has ended may stay down) and none of success: a request may be refused
  for ever, and `PendingResolved` excepts that, a process that is down and a journal that
  is closed. Failures, crashes and administrators are bounded, not fair.
- `AutomaticSync`: weak fairness of the loop, publisher and scheduler tasks and of
  deadlines; strong fairness of a caller that waits for room, since tokio's channel grants
  permits in the order they were asked for. The liveness properties except runs with a
  panic or a cancelled caller (`Disturbed`), after which the code promises nothing. A
  reader has no fairness.
- `ServiceLifecycle`: weak fairness of the accept loop and its drain (which never wait on
  a session), of each process (the calls of run_service return, the drop of the runtime
  included) and of each command line that has begun (it polls with a deadline). No
  fairness of sessions, owner, starts, the removal of a marked service or of operators.

## 4. Proofs

TLAPS proves the following for every value of the constants that the named assumptions
admit.

**CommandOwner** (`OwnerAssumption`). `IInv == TypeOK /\ Evidence /\ Control`. The
promises are not inductive: that no effect is lost after a replay needs that the snapshots
in the journal are ordered and each tells the outcome of the operations before its own
(`PendingOrder`, `SnapshotsAgree`), and that a save finds what the plan said (`Control`:
`ReplayKnows` while replaying, `PlanKnows` while executing a plan). `Evidence` is what
survives a crash, `Control` what the running command adds, so a crash is proved by
dropping `Control`. From it: `EffectsKept`, `EffectsReal`, `PendingDisjoint`,
`EvidenceSound`, `NeverGlued`, `MemoryCurrent`, and the action properties
`MutationsOnFile`, `RecoveryBeforeWork` and `OnlyReprepareCorrupts`: since the invariant
gives the phase an outcome or a commit finds, only a preparation can be out of order, and
only of an id that is not pending. `MemoryCurrent` speaks of every state of a running
process, inside a command as between two: a monitor that memory and `state.toml` tell
differently has an operation on file. `OwnerWritesTheJournal` shows that every step of the
owner is one of `OperationJournal`, or none. Of the server the work belongs to, two things
are proved with the faults of the settings save that `owner_settings_fault` shows:
`OneIdentity` (all that is on file was prepared for one server) and `IdentityPinned`
(pending work comes to belong to another server than the configured one only when it is
prepared, with nothing else pending, while file and memory of the settings disagree).

**AtomicFile** (`AtomicFileAssumption`). The invariant ties `pc` to the files of the name
in flight and the destination to the content before and of the last write, or to nothing:
`TypeCorrect`, `NeverMixedHolds`. That the destination is old or new is not true of a
replacement that fails half-way; `OnlyPartialReplacementBreaks` says that no other step
breaks it. `RecoveryInv` follows each leftover that a recovery listed: it is gone,
or still collectable and still to be visited in the pass that is under way. From it:
`LeftoversStayCollectable`, `RecoveryCollects`.

**PipeServer and ServiceLifecycle** (`PipeAssumption`, `LifecycleAssumption`). `PipeInv`
adds to the promises that a listening loop has room for one session (`RoomForOne`, which
is what `Accept` needs) and that a response exists only for a handled command
(`Unanswered`). `LifecycleInv` adds that a process which has neither reported Stopped nor
failed is the one the manager knows, under the installed registration (`CurrentProcess`),
and that registrations are numbered upwards (`TargetsKnown`). The mutex is given only
while no process holds a handle of it, which gives `OneWriter`; a process the manager does
not know cannot serve, which gives `RemovalComplete`. Also `SessionsStayBounded`,
`AnswersTrue`, `LifecycleTyped`.

**CommandLoop and AutomaticSync** (`LoopAssumption`, `IntervalsAssumption`). `LoopInv`
says that a standing claim is in exactly one place, with its generation (`OneClaim`), that
generations complete in the order of their claims (`InOrder`), and that a request on its
way is the only one of its caller (`OneRequest`), without which an answer could release a
caller that has gone on. `PublisherInv` relates the two watches to what the scheduler has
taken of them (`TakenInv`, `ShownInv`), stage by stage of an activation (`StageInv`,
`PublishedInv`), and the status a reader has cloned to the generation it was of. From
them: `ClaimsLive`, `NextSyncTrue` (of the reader's two steps), `InOrderCompletion`,
`TypeCorrect`, for any number of callers, any capacity, intervals, saves, cancellations
and panics.

**MonitorPlan** (`PlanAssumption`). `PlanInv` adds to `NothingStranded` that an entry has
the asset of its serial or none (`OwnAssets`) and that a monitor was seen before it is
counted absent (`SeenBefore`): `NeverStranded`, `PlansSettle`, `CheckinsWait`, for any
relation of serials to assets. An asset that is not shared is planned for by its own
serial only (`PlannedAlone`). `NeverStranded` is agreement, no more: an entry that has
lost its asset number is still recorded as checked out, and brings nothing back until a
lookup succeeds.

**Gathering** (`ClientAssumption`, `ServerAssumption`, `GatherAssumption`). While a search
goes on, a row that was listed all along is read or behind what was asked for (`Ahead`),
since additions only push rows back; the clock is bounded by when the request was sent
(`ClockInv`): `SearchSkipsNothing`, `SearchIsBounded`, `GatherTypeOK`. That a server
without this API never gives a page (`AnsweredInv`) and what an answer says of the reply
behind it (`WhatAnswersSay`) give `MissingWasAnswered` and `OkMeansApplied`.

**ServiceSettings and Configuration** (`SettingsAssumption`, `ConfigurationAssumption`).
`SettingsInv` relates memory, file and client to what was acknowledged (`NothingYet`
while there is no file), of the service alone (`SettingsAlone`) as under command lines; `ClientInv` says, for each step of a worker thread, what it has
established of the process at the other end and what became of the command: `ExitCodes`,
`CommandsReachTheService`, `UpdatesKept`, `ClientIsCurrent`, `FileIsStartable`,
`ConfigurationTypeOK`.

**JournalFile, StartupRecovery and JournalEvidence** (`FileAssumption`,
`StartupAssumption`), for any ids, candidates, keys and length of file.
`FoldIsReference` says what the fold of `pending_with_evidence` computes: it succeeds
exactly when every id went through its phases in order (`InPhaseOrder`), and its pending
vector then holds the uncommitted ids in the order of their preparations, each with what
its last record says, although entries are removed from the middle and the map of positions
is renumbered; on the way each id's position is shown to be that of its entry. The library's induction theorems take an operator as a parameter and cannot be
used here, so the induction over the records is one over a set of lengths: the set of
those at which the claim fails has no least member (`LeastNumber`, `Induction`,
`SeqInduction`, `Iteration`).

`RecoveryInv` (`RecoveryInvariant`) is what makes `RecoveredIsKept` inductive. It says
that between the gate of `recover_journal` and the compaction the journal is clean and
folds (`Gated`); that what is left to replay is the tail of what the fold returns, the rest
having its outcome on file (`Replaying`); that what is committed is all that is pending and
is reflected by the saved state (`Committing`); and that recovered work which is no longer
pending was prepared before everything that is (`InOrder`), without which the candidate of
a later operation could replace a state by one that forgets it. From it:
`RecoveredStaysKept`. `StartupWritesTheFile` shows that a start uses the file through the
operations of `JournalFile` and no other. `KeyHeld` (a start holds the key on file from the
moment it has one) gives `StateStaysVerifiable`.

`FileImplementsEvidence` is the refinement: for each way an append ends, for a recovery and
for a compaction, what the step does to the view of the lines is the matching step of
`OperationJournal`, the records of the file being in phase order exactly while `defect` is
none. `FoldAlwaysMeetsReference` states the fold of the lines in force. Together with
`OwnerWritesTheJournal` the owner and the file meet at one specification, so what is
proved of the owner's evidence is about the lines that `append`, `recover_journal` and
`compact` write.

Only model-checked: the properties under fairness (`PendingResolved`,
`AnsweredSyncCompletes`, `SchedulerResumes`, `ConfiguredGetsScheduled`,
`ConnectionDecided`, `StopHonoured`, `CommandReturns`), since liveness and ENABLED are out
of the prover's reach. Every other property of the passing runs is a theorem.

## 5. Not modelled, and abstractions to know

- Between modules, what one takes from another is its promise: to `CommandOwner` a request
  succeeds, fails, is refused or takes effect unseen (`Gathering` says when an Ok is true)
  and a save leaves the old or the new file: the missing destination of `ReplacePartly`
  stays within `AtomicFile`, and a state, settings or journal file lost that way is not
  followed further. To `MonitorPlan` a lookup finds the asset of a serial or none;
  to `Configuration` the owner's handling of an update is one step.
- JSON, TOML, SMBIOS bytes, the HMAC and DPAPI themselves; the fields of statuses,
  responses and rows that guard nothing; the ranges of the polling, logging and monitor
  settings.
- The hardware qualification service (a separate test-bench program), logging, the build
  helper, installer and scripts, ACLs and elevation, and the parsing of arguments: pure or
  I/O, with no state of the product.
- `arm_on_settings_change` of the scheduler, which only tests call.
- `plan_system_update` compares fields; CommandOwner takes its outcome as an arbitrary
  patch.
- A successful uninstall may precede the end of the old process that still unwinds (the
  code waits for Stopped and for the registration, not for the process);
  `UninstallComplete` speaks of serving processes.
- `MonitorPlan` gives a serial one asset for good: an asset that is renumbered, or whose
  serial is moved to another, is left out.
- Other processes on the pipe are console runs and images that are not registered; a run
  of the registered image under LocalSystem outside the service manager is left out, and
  would pass the checks of the command line.

Observed while modelling, and not the subject of a run:

- A recovered operation restores the whole snapshot entry of its monitor, the absence
  included, over one saved as present (`sync_engine.rs:626`, `operator-guide.md:133`).
- A request that joins a sync in flight is answered at once (`fsm.rs:158`), where
  `operator-guide.md:190` reads as if it waited.
- A replacement is asked for without a backup name: when it fails half-way the destination
  is gone, and the error path removes the temporary that holds the new bytes
  (`atomic_file.rs:660`, `atomic_file.rs:321`), where `architecture.md:73` and
  `operator-guide.md:318` promise the complete old or the complete new content.
- A status clones two watches one after the other (`fsm.rs:115`): when a save is carried
  out between the two, both clones carry the generation before it, and the deadline of a
  generation that is stale by then is shown, where `architecture.md:65` says it is
  suppressed. `NextSyncIsTrue` says that this is the only way.
- After a panic of the handler the scheduler waits for a completion that cannot come
  (`fsm.rs:258`, `scheduler.rs:107`).
- Shutdown drops the handler in progress and the queue with the runtime
  (`service.rs:849`), where `architecture.md:71` says queued handlers are never cancelled.
- The body of a page is read outside the sixty-second deadline (`snipeit_client.rs:285`,
  `operator-guide.md:192`): a search may last the timeout of one request longer, which is
  what `SearchBounded` states and what is proved.
- Exit code 2 is described as the service not running (`operator-guide.md:244`); it is
  also what a busy pipe and a server that fails the identity checks give
  (`lib.rs:508`, `lib.rs:1095` of spotter-cli).
- An operation that the server refuses for good ends every later command at its replay,
  the replay of the others behind it included (`sync_engine.rs:570`).
- One lookup that misses overwrites the asset number of a checked-out monitor
  (`sync.rs:185` of spotter-core): while it stays absent it is checked in neither
  automatically nor by force.
- Of two serials that lead to one asset, both reported while neither is recorded as
  checked out makes every sync refused (`sync_engine.rs:303`), and so does both absent and
  recorded as checked out past the threshold, with `checkin --all`
  refused too while `checkin` of one serial works; one reported and one absent takes the
  asset out and back in again.
- A record of an earlier release whose asset the state does not know makes every start
  refuse it again (`sync_engine.rs:709`).
- A startup recovery that fails ends the process before the pipe exists
  (`service.rs:736`), so the token cannot be replaced through it (`operator-guide.md:89`).
- An immediate start after Stopped may be refused by the mutex (`service.rs:849`), and a
  pipe that cannot be created leaves the service Running without one
  (`ipc_server.rs:257`).

## 6. Plan

Done, in this order: OperationJournal, JournalFile, CommandOwner with its proofs;
CommandLoop and AutomaticSync; MonitorPlan; AtomicFile with proofs; PipeServer and
ServiceLifecycle with proofs; RemoteClient and Gathering with proofs; ServiceSettings and
Configuration with proofs; StartupRecovery; the proofs of CommandLoop, AutomaticSync and
MonitorPlan and of the recovery of AtomicFile; JournalEvidence and the proofs of the fold,
of the refinement, of the starts and of the owner's use of the journal.

What is left, should the code move there:

1. `ServiceLifecycle`: runtime arguments that are refused, and calls of the manager that
   fail one by one.
2. `MonitorPlan`: the field comparison of `plan_system_update`.
3. `CommandOwner` and `StartupRecovery` after a replacement that failed half-way: a state
   or journal file that is missing.
4. One composition of `StartupRecovery` with `CommandOwner`, for releases that alternate
   on one data directory.
