----------------------------- MODULE AutomaticSync -----------------------------
(***************************************************************************)
(* Automatic synchronization: the scheduler task (scheduler.rs) arming a   *)
(* deadline from the latest settings, the publisher (status_publisher.rs)  *)
(* telling it about settings and readers about status, and the owner's     *)
(* handlers (service.rs) publishing, all around the loop of CommandLoop.   *)
(* Deadlines pass at any moment while one is armed.                        *)
(***************************************************************************)
EXTENDS CommandLoop

CONSTANTS
    Intervals,  \* polling intervals, in 1..168 hours
    MaxSaves    \* bound: settings saves that activate

ASSUME IntervalsAssumption == Intervals \subseteq Nat \ {0} /\ Intervals # {} /\ MaxSaves \in Nat

VARIABLES
    settings,  \* the part of controller.settings that scheduling depends on
    active,    \* controller.state is not Unconfigured
    stage,     \* how far startup or the handler in hand has come
    input,     \* the ScheduleInput watch
    seen,      \* generation of the input the scheduler has taken
    status,    \* the published status snapshot
    schedule,  \* the published schedule snapshot
    sched      \* the scheduler task

publisherVars == <<settings, active, stage, input, status>>
schedulerVars == <<seen, schedule, sched>>
allVars == <<loopVars, publisherVars, schedulerVars>>

Generations == 0 .. MaxSaves + 1
Settings == [configured : BOOLEAN, interval : Intervals]
Statuses == [configured : BOOLEAN, gen : Generations]
Blank == [configured |-> FALSE, gen |-> 0]

\* The types of the publisher's and the scheduler's variables.
ScheduleTypeOK ==
    /\ settings \in Settings /\ active \in BOOLEAN
    /\ stage \in {"boot", "booted", "none", "syncing", "saved", "activated"}
    /\ input \in [configured : BOOLEAN, interval : Intervals \cup {0}, gen : Generations]
    /\ seen \in Generations
    /\ status \in Statuses
    /\ schedule \in [gen : Generations, next : BOOLEAN]
    /\ sched \in [pc : {"top", "arming", "disarming", "unconfigured", "armed", "due", "enqueue",
                        "sending", "answer", "awaiting", "stopped"},
                  gen : Generations, latest : Intervals \cup {0},
                  interval : Intervals \cup {0}, target : 0 .. MaxSyncs]

\* Every variable keeps its type, the queue its capacity.
AutomaticTypeOK == LoopTypeOK /\ ScheduleTypeOK

\* The process after StatusPublisher::new, before the startup activation.
AutomaticInit ==
    /\ LoopInit
    /\ settings \in Settings
    /\ active = settings.configured
    /\ stage = "boot"
    /\ input = [configured |-> FALSE, interval |-> 0, gen |-> 0]
    /\ seen = 0
    /\ status = Blank
    /\ schedule = [gen |-> 0, next |-> FALSE]
    /\ sched = [pc |-> "top", gen |-> 0, latest |-> 0, interval |-> 0, target |-> 0]

-----------------------------------------------------------------------------
(* Publication                                                             *)

Publish == status' = [configured |-> active', gen |-> input'.gen]

ActivateConfiguration ==
    input' = [configured |-> active, interval |-> settings.interval, gen |-> input.gen + 1]

StartupActivation ==
    /\ stage = "boot"
    /\ ActivateConfiguration
    /\ stage' = "booted"
    /\ UNCHANGED <<loopVars, settings, active, status, schedulerVars>>

StartupPublication ==
    /\ stage = "booted"
    /\ stage' = "none"
    /\ UNCHANGED <<loopVars, settings, active, input, schedulerVars>>
    /\ Publish

-----------------------------------------------------------------------------
(* The owner's handlers, as far as publication goes                        *)

Handling(cmd) == loop.pc = "handling" /\ loop.req.cmd = cmd

\* One saved field changes the interval, completes or breaks the identity, or
\* does neither.
SavedSettings ==
    {s \in Settings : s.interval = settings.interval \/ s.configured = settings.configured}

\* set_config and set_token: the settings are saved and in force; readers are
\* told before the generation moves.
SaveSettings ==
    /\ Handling("save") /\ stage = "none"
    /\ input.gen <= MaxSaves
    /\ settings' \in SavedSettings
    /\ active' = settings'.configured
    /\ stage' = "saved"
    /\ UNCHANGED <<loopVars, input, schedulerVars>>
    /\ Publish

ActivateScheduler ==
    /\ stage = "saved"
    /\ ActivateConfiguration
    /\ stage' = "activated"
    /\ UNCHANGED <<loopVars, settings, active, status, schedulerVars>>

\* trigger_sync on a configured service publishes Syncing ...
SyncStarts ==
    /\ Handling("sync") /\ stage = "none"
    /\ settings.configured
    /\ active' = TRUE
    /\ stage' = "syncing"
    /\ UNCHANGED <<loopVars, settings, input, schedulerVars>>
    /\ Publish

\* ... and ends Idle, in Error, or Unconfigured when the server refuses the
\* token.  Recovery may fail before Syncing, with the same two outcomes.
SyncEnds ==
    /\ Handling("sync")
    /\ IF settings.configured THEN active' \in BOOLEAN ELSE UNCHANGED active

\* A forced check-in fails its recovery in the same two ways; every other
\* command, and a save refused or activated, leaves the rest alone.
OtherEnds ==
    \/ Handling("other") /\ settings.configured /\ active' \in BOOLEAN
    \/ Handling("other") /\ UNCHANGED active
    \/ Handling("save") /\ stage # "saved" /\ UNCHANGED active

\* Every command ends with publish_snapshot.
HandlerEnds ==
    /\ SyncEnds \/ OtherEnds
    /\ HandlerReturns
    /\ stage' = "none"
    /\ UNCHANGED <<settings, input, schedulerVars>>
    /\ Publish

HandlerDies ==
    /\ HandlerPanics
    /\ stage' = "none"
    /\ UNCHANGED <<settings, active, input, status, schedulerVars>>

-----------------------------------------------------------------------------
(* run_scheduler.  Its two halves do the same thing from different         *)
(* variables: take the latest input, arm, wait, enqueue, await completion. *)

Step(pc) == sched' = [sched EXCEPT !.pc = pc]

TakeInput ==
    /\ sched.pc = "top"
    /\ seen' = input.gen
    /\ sched' = [sched EXCEPT !.pc = IF input.configured THEN "arming" ELSE "disarming",
                              !.gen = input.gen,
                              !.latest = IF input.configured THEN input.interval ELSE 0]
    /\ UNCHANGED <<loopVars, publisherVars, schedule>>

\* Unconfigured: no deadline stands, and readers are told so.
Disarm ==
    /\ sched.pc = "disarming"
    /\ schedule' = [gen |-> sched.gen, next |-> FALSE]
    /\ sched' = [sched EXCEPT !.pc = "unconfigured", !.interval = 0]
    /\ UNCHANGED <<loopVars, publisherVars, seen>>

\* A whole interval from now, whatever was armed before.
Arm ==
    /\ sched.pc = "arming"
    /\ schedule' = [gen |-> sched.gen, next |-> TRUE]
    /\ sched' = [sched EXCEPT !.pc = "armed", !.interval = sched.latest]
    /\ UNCHANGED <<loopVars, publisherVars, seen>>

\* Mutant of InputChanged: an unconfigured scheduler is not woken.
InputChangedWhileArmed ==
    /\ sched.pc = "armed"
    /\ input.gen # seen
    /\ Step("top")
    /\ UNCHANGED <<loopVars, publisherVars, seen, schedule>>

InputChanged ==
    /\ sched.pc \in {"armed", "unconfigured"}
    /\ input.gen # seen
    /\ Step("top")
    /\ UNCHANGED <<loopVars, publisherVars, seen, schedule>>

DeadlinePasses ==
    /\ sched.pc = "armed"
    /\ sched' = [sched EXCEPT !.pc = "due", !.interval = 0]
    /\ UNCHANGED <<loopVars, publisherVars, seen, schedule>>

\* Mutant of ClearNextSync: the projection stays up while the sync is queued.
KeepNextSync ==
    /\ sched.pc = "due"
    /\ Step("enqueue")
    /\ UNCHANGED <<loopVars, publisherVars, seen, schedule>>

ClearNextSync ==
    /\ sched.pc = "due"
    /\ schedule' = [gen |-> sched.gen, next |-> FALSE]
    /\ Step("enqueue")
    /\ UNCHANGED <<loopVars, publisherVars, seen>>

EnqueueClaims ==
    /\ sched.pc = "enqueue"
    /\ Claim(Automatic)
    /\ sched' = [sched EXCEPT !.pc = "sending", !.target = nextGen']
    /\ UNCHANGED <<publisherVars, seen, schedule>>

EnqueueCoalesces ==
    /\ sched.pc = "enqueue"
    /\ Coalesce(Automatic)
    /\ sched' = [sched EXCEPT !.pc = "awaiting", !.target = slot]
    /\ UNCHANGED <<publisherVars, seen, schedule>>

EnqueueSends ==
    /\ sched.pc = "sending"
    /\ Send(Automatic)
    /\ Step("answer")
    /\ UNCHANGED <<publisherVars, seen, schedule>>

EnqueueFails ==
    /\ sched.pc = "sending"
    /\ SendFails(Automatic)
    /\ Step("stopped")
    /\ UNCHANGED <<publisherVars, seen, schedule>>

\* The response, or its cancellation, is awaited and then ignored.
TakeAnswer ==
    /\ sched.pc = "answer"
    /\ caller[Automatic].pc = "idle"
    /\ Step("awaiting")
    /\ UNCHANGED <<loopVars, publisherVars, seen, schedule>>

\* Mutant of AwaitCompletion: only a generation still to come wakes the waiter.
AwaitExactChange ==
    /\ sched.pc = "awaiting"
    /\ completed > sched.target
    /\ Step("top")
    /\ UNCHANGED <<loopVars, publisherVars, seen, schedule>>

\* The handle keeps a sender of the completion watch, so it never closes here.
AwaitCompletion ==
    /\ sched.pc = "awaiting"
    /\ completed >= sched.target
    /\ Step("top")
    /\ UNCHANGED <<loopVars, publisherVars, seen, schedule>>

-----------------------------------------------------------------------------
(* The system                                                              *)

\* Sessions are served once the startup activation is out.
ClientStep(c) ==
    /\ stage \notin {"boot", "booted"}
    /\ Claim(c) \/ Coalesce(c) \/ Ask(c, "save") \/ Ask(c, "other")

SendStep(c) == Send(c) \/ SendFails(c)

LoopStep == Receive \/ ClearClaim \/ Complete \/ Respond

PublisherStep ==
    StartupActivation \/ StartupPublication \/ ActivateScheduler \/ HandlerEnds

SchedulerStep ==
    \/ TakeInput \/ Disarm \/ Arm \/ InputChanged
    \/ ClearNextSync \/ EnqueueClaims \/ EnqueueCoalesces \/ EnqueueFails
    \/ TakeAnswer \/ AwaitCompletion

Next ==
    \/ /\ \/ \E c \in Clients : ClientStep(c) \/ SendStep(c) \/ Cancel(c)
          \/ LoopStep
       /\ UNCHANGED <<publisherVars, schedulerVars>>
    \/ PublisherStep
    \/ SaveSettings
    \/ SyncStarts
    \/ HandlerDies
    \/ SchedulerStep
    \/ EnqueueSends
    \/ DeadlinePasses

Spec == AutomaticInit /\ [][Next]_allVars

\* Tasks that are ready run, handlers return (every remote call has a timeout),
\* deadlines pass, and the channel grants its room in the order it was asked for.
Fairness ==
    /\ WF_allVars(LoopStep /\ UNCHANGED <<publisherVars, schedulerVars>>)
    /\ WF_allVars(PublisherStep)
    /\ WF_allVars(SchedulerStep)
    /\ SF_allVars(EnqueueSends)
    /\ WF_allVars(DeadlinePasses)
    /\ \A c \in Clients :
         SF_allVars(SendStep(c) /\ UNCHANGED <<publisherVars, schedulerVars>>)

FairSpec == Spec /\ Fairness

-----------------------------------------------------------------------------
(* Properties                                                              *)

\* project_status: whether a response made of this status has a next_sync.
Projects(snapshot) ==
    snapshot.configured /\ snapshot.gen = schedule.gen /\ schedule.next

InFlight == sched.pc \in {"enqueue", "sending", "answer", "awaiting"}

\* An automatic synchronization never leaves the scheduler waiting: once its
\* request is on the way it comes back to a deadline or an unconfigured wait.
SchedulerResumes ==
    sched.pc \in {"sending", "answer", "awaiting"} ~>
        (sched.pc \in {"armed", "unconfigured"} \/ Disturbed)

\* A configured service shows its next attempt or is making it: the scheduler
\* sleeps through no change of its input (scheduler.rs 123-168, 188-222).
ConfiguredGetsScheduled ==
    status.configured ~>
        (Projects(status) \/ InFlight \/ sched.pc = "due" \/ ~status.configured \/ Disturbed)

\* operator-guide.md:106: "saving unrelated settings or the same value again
\* never resets the deadline".
UnrelatedSaveKeepsDeadline ==
    [][Arm => sched.latest # sched.interval]_allVars

=============================================================================
