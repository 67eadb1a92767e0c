----------------------------- MODULE CommandOwner -----------------------------
(***************************************************************************)
(* The single owner of the mutating commands: CommandOwner of service.rs   *)
(* driving sync_engine.rs over the operation journal, the signed state     *)
(* file, the settings file and the Snipe-IT server, from process start to  *)
(* crash and back.  Commands are serialized, so the owner is one process;  *)
(* the other actors are the server and its administrator, the disk, and    *)
(* whatever kills the process.                                             *)
(*                                                                         *)
(* Each variable below is written at the same points of the code as the    *)
(* file or field it stands for, so a crash between two writes is a step.   *)
(***************************************************************************)
EXTENDS Naturals

CONSTANTS
    Monitors,           \* monitors this computer has ever reported
    Computer,           \* the computer's own asset
    Identities,         \* complete url/status-id settings
    NoIdentity,         \* blank settings: the service is unconfigured
    ReplaceFaults,      \* a settings save may fail after replacing the file
    MaxDisturbances     \* bound: crashes, failures and outside edits together

ASSUME OwnerAssumption ==
    /\ Computer \notin Monitors
    /\ NoIdentity \notin Identities
    /\ ReplaceFaults \in BOOLEAN
    /\ MaxDisturbances \in Nat

VARIABLES
    pc, cmd, recovering,       \* where the owner is, in which command
    todo, done, op,            \* operations left, finished, being executed
    cur, final,                \* execute_plan's running state and its goal
    mem, disk,                 \* persisted_state in memory, state.toml
    identity, settings,        \* active settings, settings.toml
    remote,                    \* what the server holds for each asset
    refused,                   \* operations it answers with an error, as long as it likes
    phase, before, snap, tail, defect, marker,   \* the journal
    disturbances,              \* disturbances so far
    effect,                    \* history: value last established per asset
    origin                     \* history: identity an operation was prepared under

Assets == Monitors \cup {Computer}

\* An operation id is its kind, asset, target and status; target and status are
\* fixed by the identity, so one id per kind and asset remains.
Operations == [kind : {"patch"}, asset : {Computer}]
                \cup [kind : {"checkout", "checkin"}, asset : Monitors]

Patch       == [kind |-> "patch", asset |-> Computer]
Checkout(m) == [kind |-> "checkout", asset |-> m]
Checkin(m)  == [kind |-> "checkin", asset |-> m]

\* ServiceState: monitors recorded as checked out, as absent, and the last result.
ServiceStates == [out : SUBSET Monitors, absent : SUBSET Monitors,
                  result : {"none", "ok", "failed"}]

EmptyState == [out |-> {}, absent |-> Monitors, result |-> "none"]

Journal == INSTANCE OperationJournal
             WITH Ops <- Operations, Candidates <- ServiceStates, NoCandidate <- EmptyState

Pending == Journal!Pending

journal == <<phase, before, snap, tail, defect, marker>>
stores == <<disk, settings, remote, refused, effect>>
work   == <<pc, cmd, recovering, todo, done, op, cur, final>>
vars   == <<work, mem, identity, stores, journal, disturbances, origin>>

PcValues == {"down", "idle", "next", "mutate", "observe", "commit", "plan", "fail"}

\* Every variable keeps its type: the owner's, the stores' and the journal's.
TypeOK ==
    /\ pc \in PcValues
    /\ cmd \in {"none", "startup", "sync", "checkin"}
    /\ recovering \in BOOLEAN
    /\ todo \in SUBSET Operations /\ done \in SUBSET Operations /\ op \in Operations
    /\ cur \in ServiceStates /\ final \in ServiceStates
    /\ mem \in ServiceStates /\ disk \in ServiceStates
    /\ identity \in Identities \cup {NoIdentity}
    /\ settings \in Identities \cup {NoIdentity}
    /\ remote \in [Assets -> {"ours", "none", "other"}]
    /\ refused \in SUBSET Operations
    /\ Journal!JournalTypeOK
    /\ disturbances \in Nat
    /\ effect \in [Assets -> {"unset", "ours", "none"}]
    /\ origin \in [Operations -> Identities \cup {NoIdentity}]

Init ==
    /\ pc = "down" /\ cmd = "none" /\ recovering = FALSE
    /\ todo = {} /\ done = {} /\ op = Patch
    /\ cur = EmptyState /\ final = EmptyState
    /\ mem = EmptyState /\ disk = EmptyState
    /\ identity = NoIdentity /\ settings = NoIdentity
    /\ remote \in [Assets -> {"none", "other"}] /\ refused = {}
    /\ Journal!JournalInit
    /\ disturbances = 0
    /\ effect = [a \in Assets |-> "unset"]
    /\ origin = [x \in Operations |-> NoIdentity]

-----------------------------------------------------------------------------
(* Helpers of the actions                                                  *)

\* The value an operation establishes; patch_is_applied, checkout_is_applied
\* and checkin_is_applied compare the server's asset with it.
Target(x) == IF x.kind = "checkin" THEN "none" ELSE "ours"

\* Mutant of Transition: an entry that moves stays checked out.
TransitionKeepingCheckout(s, x) ==
    IF x.kind = "checkout" THEN [s EXCEPT !.out = @ \cup {x.asset}] ELSE s

\* apply_monitor_transition: the entry of one monitor moves to the plan's goal.
Transition(s, x) ==
    IF x.kind = "patch"
      THEN s
      ELSE [s EXCEPT
             !.out = IF x.kind = "checkout" THEN @ \cup {x.asset} ELSE @ \ {x.asset},
             !.absent = IF x.asset \in final.absent THEN @ \cup {x.asset} ELSE @ \ {x.asset}]

\* execute_plan runs the patch, then the check-outs, then the check-ins.
RunsBefore(x, y) ==
    \/ x.kind = y.kind
    \/ x.kind = "patch"
    \/ x.kind = "checkout" /\ y.kind = "checkin"

NextInPlan == {x \in todo : \A y \in todo : RunsBefore(x, y)}

Disturb ==
    /\ disturbances < MaxDisturbances
    /\ disturbances' = disturbances + 1

\* The owner forgets the command it was running and goes to p.
Quiesce(p) ==
    /\ pc' = p
    /\ cmd' = "none" /\ recovering' = FALSE
    /\ todo' = {} /\ done' = {} /\ op' = Patch
    /\ cur' = EmptyState /\ final' = EmptyState

\* The command returns an error: startup exits the process, a failed sync first
\* saves a failure record, every other command just answers.
Abort ==
    Quiesce(CASE cmd = "startup" -> "down"
              [] cmd = "sync" /\ ~recovering -> "fail"
              [] OTHER -> "idle")

\* The same for a SavedCandidateError, which saves no failure record.
AbortSaved == Quiesce(IF cmd = "startup" THEN "down" ELSE "idle")

BeginRecovery(c) ==
    /\ pc' = "next" /\ cmd' = c /\ recovering' = TRUE
    /\ todo' = Pending /\ done' = {}
    /\ UNCHANGED <<op, cur, final>>

\* Recovery is over: startup serves commands, a command plans its own work.
EndRecovery ==
    IF cmd = "startup"
      THEN Quiesce("idle")
      ELSE /\ pc' = "plan" /\ recovering' = FALSE /\ todo' = {} /\ done' = {}
           /\ UNCHANGED <<cmd, op, cur, final>>

JournalRefuses == Journal!RecoverBlocked /\ UNCHANGED disturbances
JournalGateFails == Journal!RecoverFailed /\ Disturb

-----------------------------------------------------------------------------
(* Process start and the beginning of a command                            *)

Start ==
    /\ pc = "down"
    /\ Journal!RecoverClean
    /\ mem' = disk /\ identity' = settings
    /\ IF settings = NoIdentity THEN Quiesce("idle") ELSE BeginRecovery("startup")
    /\ UNCHANGED <<stores, disturbances, origin>>

\* Mutant of BeginCommand: without the recovery.
BeginCommandAtOnce(c) ==
    /\ pc = "idle" /\ identity # NoIdentity
    /\ Journal!RecoverClean
    /\ pc' = "plan" /\ cmd' = c
    /\ UNCHANGED <<recovering, todo, done, op, cur, final>>
    /\ UNCHANGED <<mem, identity, stores, disturbances, origin>>

BeginCommand(c) ==
    /\ pc = "idle"
    /\ identity # NoIdentity
    /\ Journal!RecoverClean
    /\ BeginRecovery(c)
    /\ UNCHANGED <<mem, identity, stores, disturbances, origin>>

\* Startup exits, or the command or identity change answers with an error.
JournalRefused ==
    /\ pc \in {"down", "idle"}
    /\ JournalRefuses \/ JournalGateFails
    /\ UNCHANGED <<work, mem, identity, stores, origin>>

-----------------------------------------------------------------------------
(* recover_pending and execute_plan: one operation after another           *)

Replay(x) ==
    /\ pc = "next" /\ recovering
    /\ x \in Journal!Oldest(todo)
    /\ op' = x /\ pc' = "mutate"
    /\ UNCHANGED <<cmd, recovering, todo, done, cur, final>>
    /\ UNCHANGED <<mem, identity, stores, journal, disturbances, origin>>

\* Mutant of Prepare: the record is left to be written after the request.
PrepareLater(x) ==
    /\ pc = "next" /\ ~recovering
    /\ x \in NextInPlan
    /\ op' = x /\ pc' = "mutate"
    /\ UNCHANGED <<cmd, recovering, todo, done, cur, final>>
    /\ UNCHANGED <<mem, identity, stores, journal, disturbances, origin>>

Prepare(x) ==
    /\ pc = "next" /\ ~recovering
    /\ x \in NextInPlan
    /\ Journal!AppendOk(x, "prepared", Transition(cur, x))
    /\ origin' = [origin EXCEPT ![x] = identity]
    /\ op' = x /\ pc' = "mutate"
    /\ UNCHANGED <<cmd, recovering, todo, done, cur, final>>
    /\ UNCHANGED <<mem, identity, stores, disturbances>>

PrepareFails(x) ==
    /\ pc = "next" /\ ~recovering
    /\ x \in NextInPlan
    /\ Journal!AppendTorn(x, "prepared", Transition(cur, x))
    /\ origin' = [origin EXCEPT ![x] = identity]
    /\ Disturb
    /\ Abort
    /\ UNCHANGED <<mem, identity, stores>>

\* Mutant of Establish: an asset assigned elsewhere passes for applied.
EstablishUnlessAssigned ==
    IF remote[op.asset] = "other"
      THEN UNCHANGED <<remote, effect>>
      ELSE /\ remote' = [remote EXCEPT ![op.asset] = Target(op)]
           /\ effect' = [effect EXCEPT ![op.asset] = Target(op)]

Establish ==
    /\ remote' = [remote EXCEPT ![op.asset] = Target(op)]
    /\ effect' = [effect EXCEPT ![op.asset] = Target(op)]

\* Mutant of Mutate: a reconciled outcome is recorded whether or not it is on file.
MutateRecordingAgain ==
    /\ pc = "mutate"
    /\ Establish
    /\ pc' = "observe"
    /\ UNCHANGED <<cmd, recovering, todo, done, op, cur, final>>
    /\ UNCHANGED <<mem, identity, disk, settings, refused, journal, disturbances, origin>>

\* GET, and PATCH or POST unless the server already holds the target value.
\* An outcome that is already on file is not recorded twice.  What the server
\* refuses to do is not asked of it when it is done already.
Mutate ==
    /\ pc = "mutate"
    /\ op \in refused => remote[op.asset] = Target(op)
    /\ Establish
    /\ IF phase[op] = "observed"
         THEN /\ pc' = "next" /\ op' = Patch
              /\ todo' = todo \ {op} /\ done' = done \cup {op}
         ELSE pc' = "observe" /\ UNCHANGED <<op, todo, done>>
    /\ UNCHANGED <<cmd, recovering, cur, final>>
    /\ UNCHANGED <<mem, identity, disk, settings, refused, journal, disturbances, origin>>

\* The server answers with an error, to the look-up or to the request, and will
\* do so again: a deleted asset, a rejected field.  replay_one and execute_plan
\* give up the whole command at the first such answer.
MutateRefused ==
    /\ pc = "mutate"
    /\ op \in refused
    /\ Abort
    /\ UNCHANGED <<mem, identity, stores, journal, disturbances, origin>>

\* The server cannot be reached, or applies the request and the answer is lost.
MutateFails ==
    /\ pc = "mutate"
    /\ Establish \/ UNCHANGED <<remote, effect>>
    /\ Disturb
    /\ Abort
    /\ UNCHANGED <<mem, identity, disk, settings, refused, journal, origin>>

Observe ==
    /\ pc = "observe"
    /\ Journal!AppendOk(op, "observed", snap[op])
    /\ pc' = "next" /\ op' = Patch
    /\ todo' = todo \ {op} /\ done' = done \cup {op}
    /\ cur' = IF recovering THEN cur ELSE snap[op]
    /\ UNCHANGED <<cmd, recovering, final>>
    /\ UNCHANGED <<mem, identity, stores, disturbances, origin>>

ObserveFails ==
    /\ pc = "observe"
    /\ Journal!AppendTorn(op, "observed", snap[op])
    /\ Disturb
    /\ Abort
    /\ UNCHANGED <<mem, identity, stores, origin>>

-----------------------------------------------------------------------------
(* Signed state, terminal records, compaction                              *)

\* Mutant of NothingPending: recovery may be skipped altogether.
SkipRecovery ==
    /\ pc = "next" /\ recovering /\ done = {}
    /\ EndRecovery
    /\ UNCHANGED <<mem, identity, stores, journal, disturbances, origin>>

\* recover_owner_state returns before the save when nothing was pending.
NothingPending ==
    /\ pc = "next" /\ recovering /\ todo = {} /\ done = {}
    /\ EndRecovery
    /\ UNCHANGED <<mem, identity, stores, journal, disturbances, origin>>

\* Mutant of SaveCandidates: the recovered snapshots are not applied.
SaveUnrecovered == IF recovering THEN {mem} ELSE {final}

\* Recovered snapshots are applied in Prepared order, so the last one wins.
SaveCandidates ==
    IF recovering THEN {snap[x] : x \in Journal!Newest(done)} ELSE {final}

ReadyToSave == pc = "next" /\ todo = {} /\ (recovering => done # {})

\* Mutant of Save: the recovered operations are not committed.
SaveWithoutCommit ==
    /\ ReadyToSave
    /\ disk' \in SaveCandidates /\ mem' = disk'
    /\ pc' = "commit" /\ todo' = IF recovering THEN {} ELSE done
    /\ UNCHANGED <<cmd, recovering, done, op, cur, final>>
    /\ UNCHANGED <<identity, settings, remote, refused, effect, journal, disturbances, origin>>

Save ==
    /\ ReadyToSave
    /\ disk' \in SaveCandidates /\ mem' = disk'
    /\ pc' = "commit" /\ todo' = done
    /\ UNCHANGED <<cmd, recovering, done, op, cur, final>>
    /\ UNCHANGED <<identity, settings, remote, refused, effect, journal, disturbances, origin>>

\* The replacement fails before or after state.toml was replaced.
SaveFails ==
    /\ ReadyToSave
    /\ disk' \in SaveCandidates \cup {disk}
    /\ Disturb
    /\ Abort
    /\ UNCHANGED <<mem, identity, settings, remote, refused, effect, journal, origin>>

Commit(x) ==
    /\ pc = "commit"
    /\ x \in Journal!Oldest(todo)
    /\ Journal!AppendOk(x, "committed", EmptyState)
    /\ todo' = todo \ {x}
    /\ UNCHANGED <<pc, cmd, recovering, done, op, cur, final>>
    /\ UNCHANGED <<mem, identity, stores, disturbances, origin>>

CommitFails(x) ==
    /\ pc = "commit"
    /\ x \in Journal!Oldest(todo)
    /\ Journal!AppendTorn(x, "committed", EmptyState)
    /\ Disturb
    /\ AbortSaved
    /\ UNCHANGED <<mem, identity, stores, origin>>

CompactJournal ==
    /\ pc = "commit" /\ todo = {}
    /\ Journal!Compact
    /\ IF recovering THEN EndRecovery ELSE Quiesce("idle")
    /\ UNCHANGED <<mem, identity, stores, disturbances, origin>>

\* The journal is found Corrupt, or its replacement fails before or after.
CompactFails ==
    /\ pc = "commit" /\ todo = {}
    /\ \/ JournalRefuses
       \/ (Journal!Compact \/ UNCHANGED journal) /\ Disturb
    /\ AbortSaved
    /\ UNCHANGED <<mem, identity, stores, origin>>

-----------------------------------------------------------------------------
(* Planning                                                                *)

StartPlan(goal, base, ops) ==
    /\ final' = goal /\ cur' = base
    /\ todo' = ops /\ pc' = "next"
    /\ UNCHANGED <<cmd, recovering, done, op>>
    /\ UNCHANGED <<mem, identity, stores, journal, disturbances, origin>>

\* gather_sync and plan_sync.  Monitors without a resolved asset or taxonomy are
\* not checked out, and policy, chassis and threshold decide which monitors that
\* were already absent are checked in.
PlanSync(present, outs, ins, patches) ==
    /\ pc = "plan" /\ cmd = "sync"
    /\ outs \subseteq present \ mem.out
    /\ ins \subseteq (mem.out \cap mem.absent) \ present
    /\ patches \subseteq (IF remote[Computer] = "ours" THEN {} ELSE {Patch})
    /\ StartPlan([out |-> (mem.out \cup outs) \ ins, absent |-> Monitors \ present,
                  result |-> "ok"],
                 [mem EXCEPT !.result = "ok"],
                 patches \cup {Checkout(m) : m \in outs} \cup {Checkin(m) : m \in ins})

\* Discovery, decryption or a lookup on the server fails.
GatherFails ==
    /\ pc = "plan" /\ cmd = "sync"
    /\ Disturb
    /\ Abort
    /\ UNCHANGED <<mem, identity, stores, journal, origin>>

Eligible == mem.out \cap mem.absent

\* force_checkin of one serial, or of every eligible monitor.
PlanCheckin(ins) ==
    /\ pc = "plan" /\ cmd = "checkin"
    /\ ins # {}
    /\ ins = Eligible \/ \E m \in Eligible : ins = {m}
    /\ StartPlan([mem EXCEPT !.out = @ \ ins], mem, {Checkin(m) : m \in ins})

\* A serial was named that is unknown, present, unmapped or checked in already,
\* or no monitor is eligible.
NothingToCheckin ==
    /\ pc = "plan" /\ cmd = "checkin"
    /\ Eligible = {} \/ Monitors \ Eligible # {}
    /\ Quiesce("idle")
    /\ UNCHANGED <<mem, identity, stores, journal, disturbances, origin>>

FailureRecord == [mem EXCEPT !.result = "failed"]

SaveFailure ==
    /\ pc = "fail"
    /\ disk' = FailureRecord /\ mem' = FailureRecord
    /\ Quiesce("idle")
    /\ UNCHANGED <<identity, settings, remote, refused, effect, journal, disturbances, origin>>

SaveFailureFails ==
    /\ pc = "fail"
    /\ disk' \in {disk, FailureRecord}
    /\ Disturb
    /\ Quiesce("idle")
    /\ UNCHANGED <<mem, identity, settings, remote, refused, effect, journal, origin>>

-----------------------------------------------------------------------------
(* Settings, the administrator, the end of the process                     *)

\* Mutant of SetIdentity: the guard does not look for pending evidence.
SetIdentityUnguarded(i) ==
    /\ pc = "idle"
    /\ i \in Identities \ {identity}
    /\ Journal!RecoverClean
    /\ settings' = i /\ identity' = i
    /\ UNCHANGED <<work, mem, disk, remote, refused, effect, disturbances, origin>>

\* set_config of a url or status id, behind guard_remote_identity_change.
\* Another server holds its own assets.
SetIdentity(i) ==
    /\ pc = "idle"
    /\ i \in Identities \ {identity}
    /\ Journal!RecoverClean
    /\ Pending = {}
    /\ settings' = i /\ identity' = i
    /\ remote' \in [Assets -> {"ours", "none", "other"}]
    /\ UNCHANGED <<work, mem, disk, refused, effect, disturbances, origin>>

\* The guard meets pending evidence; it may still have repaired the newline.
IdentityRefused ==
    /\ pc = "idle"
    /\ Journal!RecoverClean
    /\ Pending # {}
    /\ UNCHANGED <<work, mem, identity, stores, disturbances, origin>>

SetIdentityFails(i) ==
    /\ pc = "idle"
    /\ i \in Identities \ {identity}
    /\ Journal!RecoverClean
    /\ Pending = {}
    /\ settings' \in {settings} \cup (IF ReplaceFaults THEN {i} ELSE {})
    /\ Disturb
    /\ UNCHANGED <<work, mem, identity, disk, remote, refused, effect, origin>>

AdminEdit(a, v) ==
    /\ v # remote[a]
    /\ remote' = [remote EXCEPT ![a] = v]
    /\ Disturb
    /\ UNCHANGED <<work, mem, identity, disk, settings, refused, effect, journal, origin>>

\* The server turns against an operation, for good or until it relents; the
\* service is none the wiser before it asks.
Refuse(x) ==
    /\ pc = "mutate" /\ op = x
    /\ x \notin refused
    /\ refused' = refused \cup {x}
    /\ Disturb
    /\ UNCHANGED <<work, mem, identity, disk, settings, remote, effect, journal, origin>>

Relent(x) ==
    /\ x \in refused
    /\ refused' = refused \ {x}
    /\ UNCHANGED <<work, mem, identity, disk, settings, remote, effect, journal,
                   disturbances, origin>>

\* A crash, or a service stop that drops the command at an await.
Crash ==
    /\ pc # "down"
    /\ Disturb
    /\ Quiesce("down")
    /\ UNCHANGED <<mem, identity, stores, journal, origin>>

-----------------------------------------------------------------------------
Begin == Start \/ \E c \in {"sync", "checkin"} : BeginCommand(c)

Work ==
    \/ \E x \in Operations : Replay(x) \/ Prepare(x) \/ Commit(x)
    \/ Mutate \/ MutateRefused \/ Observe
    \/ NothingPending \/ Save \/ CompactJournal
    \/ \E present, outs, ins \in SUBSET Monitors, patches \in SUBSET {Patch} :
          PlanSync(present, outs, ins, patches)
    \/ \E ins \in SUBSET Monitors : PlanCheckin(ins)
    \/ NothingToCheckin
    \/ SaveFailure

Failure ==
    \/ \E x \in Operations : PrepareFails(x) \/ CommitFails(x)
    \/ MutateFails \/ ObserveFails \/ SaveFails \/ CompactFails
    \/ GatherFails \/ SaveFailureFails \/ JournalRefused \/ Crash

Outside ==
    \/ \E i \in Identities : SetIdentity(i) \/ SetIdentityFails(i)
    \/ IdentityRefused
    \/ \E a \in Assets, v \in {"ours", "none", "other"} : AdminEdit(a, v)
    \/ \E x \in Operations : Refuse(x) \/ Relent(x)

Next == Begin \/ Work \/ Failure \/ Outside

Spec == Init /\ [][Next]_vars

\* The scheduler keeps submitting syncs, and a running command keeps running: every
\* request is answered or times out.  Nothing starts a process that has ended (no
\* recovery action is installed), and no request is ever bound to succeed.
FairSpec == Spec /\ WF_vars(BeginCommand("sync")) /\ WF_vars(Work)

-----------------------------------------------------------------------------
(* What the command owner promises                                         *)

Unresolved(a) == \E x \in Pending : x.asset = a

\* A mutation the service made is never forgotten: whatever fails and whenever
\* the process dies, either state.toml records a monitor as the service last left
\* it, or the journal still holds an operation on it (execute_plan writes Prepared
\* before the request, commit_after_state_save follows the save).
NoLostEffect ==
    \A m \in Monitors :
       \/ effect[m] = "ours" => m \in disk.out
       \/ Unresolved(m)

\* Nor is one invented: a monitor that state.toml records as checked out, and that
\* the service did not leave so, still has an operation on file that says so.
NoPhantomCheckout ==
    \A m \in Monitors : effect[m] # "ours" /\ m \in disk.out => Unresolved(m)

\* Two pending operations never concern the same asset, so replaying them in any
\* order leaves the same result on the server (recover_before_new_work).
NoConflictingPending ==
    \A x, y \in Pending : x.asset = y.asset => x = y

\* A RemoteOutcomeObserved record is never ahead of the server: the service did
\* establish that value and has established no other on the asset since.
ObservedWasApplied ==
    \A x \in Pending : phase[x] = "observed" => effect[x.asset] = Target(x)

\* However appends, crashes and recoveries interleave, no record is ever written
\* onto the unfinished line of an earlier one (append trusts recover_journal to
\* have closed the last line).
NoGluedRecord == defect # "malformed"

\* Whenever the service runs, in the middle of a command too, memory and state.toml
\* record a monitor alike unless an operation on it is still on file (persisted_state
\* is assigned where the file is saved, and a save that fails keeps its evidence).
MemoryMatchesDisk ==
    pc # "down" =>
       \A m \in Monitors : Unresolved(m) \/ (m \in mem.out <=> m \in disk.out)

\* Pending operations are only ever replayed against the server and status ids
\* they were prepared for (guard_remote_identity_change).
PinnedIdentity == \A x \in Pending : origin[x] = settings

\* The operations on file were all prepared for one server and its status ids: a
\* replay that meets the right one for the first meets it for all
\* (guard_remote_identity_change, recover_before_new_work).
PreparedTogether == \A x, y \in Pending : origin[x] = origin[y]

\* The service writes to an asset only under an operation that is on file for it
\* with that very target.
WriteAhead ==
    [][\A a \in Assets :
         effect'[a] # effect[a] =>
            \E x \in Pending : x.asset = a /\ Target(x) = effect'[a]]_vars

\* New work is prepared only while everything else on file belongs to the same
\* plan and has been applied: pending evidence of earlier commands comes first.
RecoveryFirst ==
    [][Pending' \subseteq Pending \/ Pending \subseteq done]_vars

\* Over all failures, crashes and replays of mixed phases, the service's own records
\* leave the order that load accepts in one way only: an operation is prepared again
\* whose terminal record was written and never compacted (commit_after_state_save,
\* recover_owner_state).
CorruptedOnlyByReprepare ==
    [][defect = "none" /\ defect' # "none" =>
          \E x \in Operations : phase[x] = "committed" /\ phase'[x] = "prepared"]_vars

\* While the process runs and the disk serves, an operation on file is resolved
\* sooner or later, by whatever commands come: unless the journal is closed for the
\* operator, or the server refuses one of the operations on file, which holds back
\* all of them (recover_pending gives up at the first, before any is saved).
PendingResolved ==
    \A x \in Operations :
       x \in Pending ~> \/ x \notin Pending
                        \/ pc = "down"
                        \/ ~Journal!Clean
                        \/ Pending \cap refused # {}

-----------------------------------------------------------------------------
(* What the documentation says and the code does not do                    *)

\* operation_journal.rs and architecture.md: the service's own records always
\* follow Prepared, RemoteOutcomeObserved, StateCommitted.
NeverSelfCorrupt == defect # "sequence"

=============================================================================
