--------------------------- MODULE ServiceLifecycle ---------------------------
(***************************************************************************)
(* The life of the service: processes that the service control manager     *)
(* starts and stops (service.rs, mutex.rs), each with the pipe server      *)
(* while it serves, and the command line that registers and removes the    *)
(* service (lib.rs of spotter-cli).  The manager itself is external and    *)
(* modelled by the calls made to it.                                       *)
(***************************************************************************)
EXTENDS PipeServer

CONSTANTS
    Processes,        \* process slots; one that has ended stands for a new one
    Nobody,           \* no process
    Admins,           \* command lines that install and uninstall
    MaxRegistrations  \* bound: registrations created

ASSUME LifecycleAssumption ==
    /\ Nobody \notin Processes
    /\ MaxRegistrations \in Nat \ {0}

VARIABLES
    proc,    \* how far each process is in run_service
    launch,  \* the registration each process was started for
    scm,     \* the manager: registration, deletion mark, status, process
    signal,  \* the shutdown channel of the process that serves
    asked,   \* history: a stop was accepted and neither reported nor ended
    admin    \* each command line: its step and the registration it opened

scmVars  == <<scm, signal, asked>>
lifeVars == <<proc, launch, scm, signal, asked, admin>>
allVars  == <<vars, lifeVars>>

Registrations == 0 .. MaxRegistrations  \* 0 for none

\* Steps of a command line that has nothing to do.
AtRest == {"idle", "removed", "installed", "failed"}

\* Steps at which it holds a handle of the service.
Holding == {"opened", "stopping", "waiting", "deleting", "describing"}

\* Every variable keeps its type.
LifecycleTypeOK ==
    /\ TypeOK
    /\ proc \in [Processes -> {"none", "starting", "refused", "loading", "recovering",
                               "serving", "unwinding", "exiting"}]
    /\ launch \in [Processes -> Registrations]
    /\ scm \in [installed : Registrations, created : Registrations, marked : BOOLEAN,
                status : {"stopped", "pending", "running"},
                process : Processes \cup {Nobody}]
    /\ signal \in [sent : BOOLEAN, listening : BOOLEAN]
    /\ asked \in BOOLEAN
    /\ admin \in [Admins -> [pc : AtRest \cup Holding \cup {"removing", "creating"},
                             target : Registrations]]

Silence == [sent |-> FALSE, listening |-> FALSE]

LifecycleInit ==
    /\ accept = "exited" /\ unreaped = 0 /\ shutdown = FALSE
    /\ conn = [c \in Connections |-> "away"]
    /\ owner = [c \in Connections |-> "none"]
    /\ client = [c \in Connections |-> "idle"]
    /\ proc = [p \in Processes |-> "none"]
    /\ launch = [p \in Processes |-> 0]
    /\ scm = [installed |-> 1, created |-> 1, marked |-> FALSE, status |-> "stopped",
              process |-> Nobody]
    /\ signal = Silence
    /\ asked = FALSE
    /\ admin = [a \in Admins |-> [pc |-> "idle", target |-> 0]]

Goto(p, step) == proc' = [proc EXCEPT ![p] = step]

\* Phases in which a process has the mutex, and with it the data directory.
Owns == {p \in Processes : proc[p] \in {"loading", "recovering", "serving", "unwinding"}}

\* The name exists while any process has a handle, one that is refused included.
MutexExists == \E p \in Processes : p \in Owns \/ proc[p] = "refused"

-----------------------------------------------------------------------------
(* A process: run_service                                                  *)

\* StartService
Launch(p) ==
    /\ proc[p] = "none"
    /\ scm.installed # 0 /\ ~scm.marked /\ scm.status = "stopped"
    /\ Goto(p, "starting")
    /\ launch' = [launch EXCEPT ![p] = scm.installed]
    /\ scm' = [scm EXCEPT !.status = "pending", !.process = p]
    /\ UNCHANGED <<vars, signal, asked, admin>>

\* Mutant of AcquireMutex: the guard is not kept, and closes its handle at once.
AcquireAndDrop(p) ==
    /\ proc[p] = "starting"
    /\ Goto(p, IF \E q \in Processes : proc[q] = "refused" THEN "refused" ELSE "loading")
    /\ UNCHANGED <<vars, launch, scmVars, admin>>

AcquireMutex(p) ==
    /\ proc[p] = "starting"
    /\ Goto(p, IF MutexExists THEN "refused" ELSE "loading")
    /\ UNCHANGED <<vars, launch, scmVars, admin>>

\* The data directory, settings, journal gate, state, and the control handler.
Load(p) ==
    /\ proc[p] = "loading"
    /\ Goto(p, "recovering")
    /\ UNCHANGED <<vars, launch, scmVars, admin>>

\* An error returns from run_service: its locals are dropped.
LoadFails(p) ==
    /\ proc[p] \in {"loading", "recovering"}
    /\ Goto(p, "unwinding")
    /\ UNCHANGED <<vars, launch, scmVars, admin>>

\* Recovery is over: Running is reported, and the accept loop begins.
ReportRunning(p) ==
    /\ proc[p] = "recovering"
    /\ Goto(p, "serving")
    /\ scm' = [scm EXCEPT !.status = "running"]
    /\ signal' = Silence
    /\ accept' = Fresh.accept /\ conn' = Fresh.conn /\ unreaped' = Fresh.unreaped
    /\ owner' = Fresh.owner /\ shutdown' = Fresh.shutdown
    /\ client' = [c \in Connections |-> "idle"]
    /\ UNCHANGED <<launch, asked, admin>>

\* The blocking thread reaches its recv.
Listen(p) ==
    /\ proc[p] = "serving" /\ ~signal.listening
    /\ signal' = [signal EXCEPT !.listening = TRUE]
    /\ UNCHANGED <<vars, proc, launch, scm, asked, admin>>

TakeSignal(p) ==
    /\ proc[p] = "serving" /\ signal.listening /\ signal.sent
    /\ RequestShutdown
    /\ UNCHANGED lifeVars

ReportStopped(p) ==
    /\ proc[p] = "serving" /\ accept = "done"
    /\ Goto(p, "unwinding")
    /\ scm' = [scm EXCEPT !.status = "stopped"]
    /\ asked' = FALSE
    /\ UNCHANGED <<vars, launch, signal, admin>>

\* The accept loop had failed, which is seen only now; or Stopped is not reported.
ServeFails(p) ==
    /\ proc[p] = "serving"
    /\ accept = "done" \/ (accept = "failed" /\ shutdown)
    /\ Goto(p, "unwinding")
    /\ UNCHANGED <<vars, launch, scmVars, admin>>

\* The runtime is dropped once the handler reaches an await, the mutex last.
Unwind(p) ==
    /\ proc[p] = "unwinding"
    /\ Exit
    /\ Goto(p, "exiting")
    /\ UNCHANGED <<launch, scmVars, admin>>

\* The handle of a mutex that existed is closed.
CloseRefused(p) ==
    /\ proc[p] = "refused"
    /\ Goto(p, "exiting")
    /\ UNCHANGED <<vars, launch, scmVars, admin>>

\* The manager notices the end of a process that has not reported Stopped.
Ended(p) ==
    /\ Goto(p, "none")
    /\ launch' = [launch EXCEPT ![p] = 0]
    /\ scm' = IF scm.process = p THEN [scm EXCEPT !.status = "stopped", !.process = Nobody]
              ELSE scm
    /\ asked' = (asked /\ scm.process # p)

ProcessEnds(p) ==
    /\ proc[p] = "exiting"
    /\ Ended(p)
    /\ UNCHANGED <<vars, signal, admin>>

\* Killed: the operating system closes its pipe and its mutex.
Crash(p) ==
    /\ proc[p] # "none"
    /\ IF p \in Owns THEN Exit ELSE UNCHANGED vars
    /\ Ended(p)
    /\ UNCHANGED <<signal, admin>>

ProcessStep(p) ==
    \/ AcquireMutex(p) \/ Load(p) \/ LoadFails(p) \/ ReportRunning(p)
    \/ Listen(p) \/ TakeSignal(p) \/ ReportStopped(p) \/ ServeFails(p)
    \/ Unwind(p) \/ CloseRefused(p) \/ ProcessEnds(p)

-----------------------------------------------------------------------------
(* The service control manager                                             *)

\* Mutant of StopControl: a channel without a place, which drops the signal of
\* a stop that comes before the receiver waits for it.
StopControlRendezvous ==
    /\ scm.status = "running"
    /\ signal' = [signal EXCEPT !.sent = @ \/ signal.listening]
    /\ asked' = TRUE

\* register_controls: a stop, accepted only while Running, takes the one place.
StopControl ==
    /\ scm.status = "running"
    /\ signal' = [signal EXCEPT !.sent = TRUE]
    /\ asked' = TRUE

\* Somebody else stops the service.
OperatorStops ==
    /\ StopControl
    /\ UNCHANGED <<vars, proc, launch, scm, admin>>

\* A service marked for deletion goes when it is stopped and no handle is open.
Purge ==
    /\ scm.marked /\ scm.status = "stopped"
    /\ \A a \in Admins : admin[a].pc \notin Holding
    /\ scm' = [scm EXCEPT !.installed = 0, !.marked = FALSE]
    /\ UNCHANGED <<vars, proc, launch, signal, asked, admin>>

-----------------------------------------------------------------------------
(* spotter-cli service uninstall                                           *)

Proceed(a, step) == admin' = [admin EXCEPT ![a].pc = step]

OpenForUninstall(a) ==
    /\ admin[a].pc \in AtRest
    /\ admin' = [admin EXCEPT ![a] =
                    [pc |-> IF scm.installed = 0 THEN "failed" ELSE "opened",
                     target |-> scm.installed]]
    /\ UNCHANGED <<vars, proc, launch, scmVars>>

QueryStatus(a) ==
    /\ admin[a].pc = "opened"
    /\ Proceed(a, IF scm.status = "stopped" THEN "deleting" ELSE "stopping")
    /\ UNCHANGED <<vars, proc, launch, scmVars>>

StopService(a) ==
    /\ admin[a].pc = "stopping"
    /\ StopControl
    /\ Proceed(a, "waiting")
    /\ UNCHANGED <<vars, proc, launch, scm>>

\* Not running any more, or not yet: the manager refuses the control.
StopRefused(a) ==
    /\ admin[a].pc = "stopping" /\ scm.status # "running"
    /\ Proceed(a, "failed")
    /\ UNCHANGED <<vars, proc, launch, scmVars>>

\* wait_for_service_state
AwaitStopped(a) ==
    /\ admin[a].pc = "waiting" /\ scm.status = "stopped"
    /\ Proceed(a, "deleting")
    /\ UNCHANGED <<vars, proc, launch, scmVars>>

\* Delete, then drop the handle; one already marked cannot be deleted.
Delete(a) ==
    /\ admin[a].pc = "deleting"
    /\ Proceed(a, IF scm.marked THEN "failed" ELSE "removing")
    /\ scm' = [scm EXCEPT !.marked = TRUE]
    /\ UNCHANGED <<vars, proc, launch, signal, asked>>

\* Mutant of AwaitRemoved: a service that can be opened but is marked counts as gone.
AwaitMarked(a) ==
    /\ admin[a].pc = "removing" /\ (scm.installed = 0 \/ scm.marked)
    /\ Proceed(a, "removed")
    /\ UNCHANGED <<vars, proc, launch, scmVars>>

\* wait_for_service_removed
AwaitRemoved(a) ==
    /\ admin[a].pc = "removing" /\ scm.installed = 0
    /\ Proceed(a, "removed")
    /\ UNCHANGED <<vars, proc, launch, scmVars>>

\* Mutant of WaitExpires: the wait for Stopped has no deadline.
RemovalExpires(a) ==
    /\ admin[a].pc = "removing" /\ scm.installed # 0
    /\ Proceed(a, "failed")
    /\ UNCHANGED <<vars, proc, launch, scmVars>>

\* Ninety seconds, looked at after the condition itself.
WaitExpires(a) ==
    /\ \/ admin[a].pc = "waiting" /\ scm.status # "stopped"
       \/ admin[a].pc = "removing" /\ scm.installed # 0
    /\ Proceed(a, "failed")
    /\ UNCHANGED <<vars, proc, launch, scmVars>>

-----------------------------------------------------------------------------
(* spotter-cli service install                                             *)

OpenForInstall(a) ==
    /\ admin[a].pc \in AtRest
    /\ Proceed(a, IF scm.installed = 0 THEN "creating" ELSE "failed")
    /\ UNCHANGED <<vars, proc, launch, scmVars>>

\* The manager refuses a name that exists by now.
Create(a) ==
    /\ admin[a].pc = "creating"
    /\ scm.installed # 0 \/ scm.created < MaxRegistrations
    /\ IF scm.installed # 0 THEN Proceed(a, "failed") /\ UNCHANGED scm
       ELSE /\ Proceed(a, "describing")
            /\ scm' = [scm EXCEPT !.installed = scm.created + 1, !.created = @ + 1]
    /\ UNCHANGED <<vars, proc, launch, signal, asked>>

\* set_description may fail; the registration stays.
Describe(a) ==
    /\ admin[a].pc = "describing"
    /\ \E result \in {"installed", "failed"} : Proceed(a, result)
    /\ UNCHANGED <<vars, proc, launch, scmVars>>

\* A command line that has begun.
AdminStep(a) ==
    \/ QueryStatus(a) \/ StopService(a) \/ StopRefused(a) \/ AwaitStopped(a)
    \/ Delete(a) \/ AwaitRemoved(a) \/ WaitExpires(a)
    \/ Create(a) \/ Describe(a)

-----------------------------------------------------------------------------

LifecycleNext ==
    \/ PipeStep /\ UNCHANGED lifeVars
    \/ \E p \in Processes : Launch(p) \/ ProcessStep(p) \/ Crash(p)
    \/ OperatorStops \/ Purge
    \/ \E a \in Admins : OpenForUninstall(a) \/ OpenForInstall(a) \/ AdminStep(a)

LifecycleSpec == LifecycleInit /\ [][LifecycleNext]_allVars

\* The accept loop and its drain never wait on a session; a process that runs
\* gets on with run_service, whose calls return; the command line polls.
LifecycleFairness ==
    /\ WF_allVars(ServerStep /\ UNCHANGED lifeVars)
    /\ WF_allVars(DrainStep /\ UNCHANGED lifeVars)
    /\ \A p \in Processes : WF_allVars(ProcessStep(p))
    /\ \A a \in Admins : WF_allVars(AdminStep(a))

FairLifecycle == LifecycleSpec /\ LifecycleFairness

-----------------------------------------------------------------------------
(* Properties                                                              *)

\* At most one process uses the data directory: Stopped is reported before the
\* runtime is dropped, so the next process may start while the last one still
\* runs its handler, and only the mutex keeps it out (service.rs 683, 849).
SingleWriter == \A p, q \in Owns : p = q

\* An uninstall that succeeded has removed the registration it opened, whoever
\* registers or starts the service meanwhile, and no process of it serves
\* (operator-guide.md 225-227).
UninstallComplete ==
    \A a \in Admins : admin[a].pc = "removed" =>
        /\ scm.installed # admin[a].target
        /\ \A p \in Processes :
              proc[p] \in {"starting", "loading", "recovering", "serving"} =>
                 launch[p] # admin[a].target

\* A stop the handler accepted is followed by Stopped or the end of the process,
\* however early it comes and whatever the sessions and the owner do.
StopHonoured == asked ~> ~asked

\* Every install and uninstall returns, though the service may hang or the
\* registration may never go; creation stops at the bound.
CommandReturns ==
    \A a \in Admins :
        admin[a].pc \notin AtRest ~>
           admin[a].pc \in AtRest \cup {"creating"}

=============================================================================
