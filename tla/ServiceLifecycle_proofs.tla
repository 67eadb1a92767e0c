----------------------- MODULE ServiceLifecycle_proofs -----------------------
(***************************************************************************)
(* One writer, complete removals, bounded sessions and true answers, for   *)
(* every set of processes, command lines and connections.                  *)
(***************************************************************************)
EXTENDS ServiceLifecycle, FiniteSetTheorems, TLAPS

-----------------------------------------------------------------------------
(* What each step of the pipe server keeps, for any limit on sessions.     *)

\* A place is free from the moment the loop decides to listen.
RoomForOne == accept = "listening" => Cardinality(Active) + unreaped < MaxActive

\* A response exists only for a command that is committed or asks nothing of the
\* owner, and a session under way belongs to a client that has no answer yet.
Unanswered ==
    \A c \in Connections :
        /\ conn[c] = "writing" => owner[c] = "handled"
        /\ conn[c] # "away" => client[c] # "answered"

PipeInv == TypeOK /\ SessionsBounded /\ RoomForOne /\ AnsweredWasCommitted /\ Unanswered

Bounded == SessionsBounded /\ RoomForOne
Truthful == AnsweredWasCommitted /\ Unanswered

(* Sets of connections can be counted.                                     *)
LEMMA Countable ==
  ASSUME NEW S \in SUBSET Connections
  PROVE  IsFiniteSet(S) /\ Cardinality(S) \in Nat
  BY FS_Subset, FS_CardinalityType, PipeAssumption

(* Sessions that go without being left in the JoinSet make room.           *)
LEMMA FewerSessions ==
  ASSUME Bounded, TypeOK, Active' \subseteq Active, unreaped' \in 0 .. unreaped,
         accept' = "listening" => accept = "listening"
  PROVE  Bounded'
<1>1. Active \in SUBSET Connections
  BY DEF Active
<1>2. Cardinality(Active') <= Cardinality(Active) /\ Cardinality(Active') \in Nat
  BY <1>1, Countable, FS_Subset
<1>3. Cardinality(Active) \in Nat
  BY <1>1, Countable
<1> QED
  BY <1>2, <1>3, PipeAssumption DEF Bounded, SessionsBounded, RoomForOne, TypeOK

(* A session that ends is counted until it is reaped.                      *)
LEMMA OneSessionEnds ==
  ASSUME Bounded, TypeOK, NEW c \in Active, Active' = Active \ {c}, Ends(c),
         UNCHANGED accept
  PROVE  Bounded' /\ unreaped' \in 0 .. MaxActive
<1>1. Active \in SUBSET Connections
  BY DEF Active
<1>2. Cardinality(Active') = Cardinality(Active) - 1
  BY <1>1, Countable, FS_RemoveElement
<1>3. Cardinality(Active) \in Nat /\ Cardinality(Active') \in Nat
  BY <1>1, Countable
<1> QED
  BY <1>2, <1>3, PipeAssumption DEF Bounded, SessionsBounded, RoomForOne, TypeOK, Ends

(* The accept loop: a place is looked for before it is given away.         *)
LEMMA ServerBounded ==
  ASSUME TypeOK, Bounded, ServerStep \/ AcceptLoopFails
  PROVE  Bounded' /\ TypeOK'
<1> USE PipeAssumption
<1>a. Active \in SUBSET Connections
  BY DEF Active
<1>b. IsFiniteSet(Active) /\ Cardinality(Active) \in Nat
  BY <1>a, Countable
<1>1. ASSUME Choose PROVE Bounded' /\ TypeOK'
  <2>1. Active' = Active
    BY <1>1 DEF Choose, Active
  <2> QED
    BY <1>1, <1>b, <2>1 DEF Choose, Full, Bounded, SessionsBounded, RoomForOne, TypeOK
<1>2. ASSUME NEW c \in Connections, Accept(c) PROVE Bounded' /\ TypeOK'
  <2>1. Active' = Active \cup {c} /\ c \notin Active
    BY <1>2 DEF Accept, Active, TypeOK
  <2>2. Cardinality(Active') = Cardinality(Active) + 1
    BY <2>1, <1>b, FS_AddElement
  <2> QED
    BY <1>2, <1>b, <2>2 DEF Accept, Bounded, SessionsBounded, RoomForOne, TypeOK
<1>3. ASSUME NEW c \in Connections, Refuse(c) PROVE Bounded' /\ TypeOK'
  <2>1. Active' = Active
    BY <1>3 DEF Refuse, Close, Active, TypeOK
  <2>2. TypeOK'
    BY <1>3 DEF Refuse, Close, TypeOK
  <2> QED
    BY <1>3, <1>b, <2>1, <2>2 DEF Refuse, Bounded, SessionsBounded, RoomForOne, TypeOK
<1>4. ASSUME StopAccepting PROVE Bounded' /\ TypeOK'
  <2>1. Active' = Active
    BY <1>4 DEF StopAccepting, Close, Active, Connecting, TypeOK
  <2>2. TypeOK'
    BY <1>4 DEF StopAccepting, Close, TypeOK
  <2> QED
    BY <1>4, <1>b, <2>1, <2>2 DEF StopAccepting, Bounded, SessionsBounded, RoomForOne, TypeOK
<1>5. ASSUME AcceptLoopFails PROVE Bounded' /\ TypeOK'
  <2>1. Active' \subseteq Active
    BY <1>5 DEF AcceptLoopFails, Close, Active, TypeOK
  <2>2. TypeOK'
    BY <1>5 DEF AcceptLoopFails, Close, TypeOK
  <2>3. unreaped' \in 0 .. unreaped /\ accept' # "listening"
    BY <1>5 DEF AcceptLoopFails, TypeOK
  <2> QED
    BY <2>1, <2>2, <2>3, FewerSessions
<1> QED
  BY <1>1, <1>2, <1>3, <1>4, <1>5 DEF ServerStep

(* Sessions and their clients: an end is counted, all else leaves the sum. *)
LEMMA SessionBounded ==
  ASSUME TypeOK, Bounded, NEW c \in Connections, SessionStep(c)
  PROVE  Bounded' /\ TypeOK'
<1> USE PipeAssumption
<1>1. ASSUME ReadFails(c) \/ AskFails(c) \/ WriteResponse(c) \/ WriteFails(c) PROVE Bounded' /\ TypeOK'
  <2>1. c \in Active /\ Active' = Active \ {c}
    BY <1>1 DEF ReadFails, AskFails, WriteResponse, WriteFails, Close, Active, TypeOK
  <2>2. Ends(c) /\ UNCHANGED accept
    BY <1>1 DEF ReadFails, AskFails, WriteResponse, WriteFails
  <2>3. Bounded' /\ unreaped' \in 0 .. MaxActive
    BY <2>1, <2>2, OneSessionEnds
  <2> QED
    BY <1>1, <2>3 DEF ReadFails, AskFails, WriteResponse, WriteFails, Close, TypeOK
<1>2. ASSUME \/ Connect(c) \/ OpenFails(c) \/ ClientGivesUp(c)
             \/ ReadRequest(c) \/ AnswerAtOnce(c) \/ OwnerCommits(c) \/ TakeResponse(c)
      PROVE  Bounded' /\ TypeOK'
  <2>1. Active' = Active
    BY <1>2 DEF Connect, OpenFails, ClientGivesUp, ReadRequest, AnswerAtOnce, OwnerCommits,
                TakeResponse,
                Active, TypeOK
  <2>2. UNCHANGED <<accept, unreaped>>
    BY <1>2 DEF Connect, OpenFails, ClientGivesUp, ReadRequest, AnswerAtOnce, OwnerCommits,
                TakeResponse
  <2>3. TypeOK'
    BY <1>2 DEF Connect, OpenFails, ClientGivesUp, ReadRequest, AnswerAtOnce, OwnerCommits,
                TakeResponse, TypeOK
  <2> QED
    BY <2>1, <2>2, <2>3 DEF Bounded, SessionsBounded, RoomForOne
<1> QED
  BY <1>1, <1>2 DEF SessionStep

(* The drain, the signal that starts it and the end of the runtime.        *)
LEMMA ShutdownBounded ==
  ASSUME TypeOK, Bounded, DrainStep \/ RequestShutdown \/ Exit
  PROVE  Bounded' /\ TypeOK'
<1>1. TypeOK'
  <2>1. 0 \in 0 .. MaxActive
    BY PipeAssumption
  <2>2. ASSUME DrainStep \/ RequestShutdown PROVE TypeOK'
    BY <2>2 DEF DrainStep, Drained, DrainExpires, RequestShutdown, Close, TypeOK
  <2>3. ASSUME Exit PROVE TypeOK'
    BY <2>1, <2>3 DEF Exit, Close, TypeOK
  <2> QED
    BY <2>2, <2>3
<1>2. Active' \subseteq Active
  <2>1. ASSUME DrainStep \/ RequestShutdown PROVE Active' \subseteq Active
    BY <2>1 DEF DrainStep, Drained, DrainExpires, RequestShutdown, Close, Active, TypeOK
  <2>2. ASSUME Exit PROVE Active' \subseteq Active
    BY <2>2 DEF Exit, Close, Active
  <2> QED
    BY <2>1, <2>2
<1>3. unreaped' \in 0 .. unreaped /\ (accept' = "listening" => accept = "listening")
  BY PipeAssumption DEF DrainStep, Drained, DrainExpires, RequestShutdown, Exit, TypeOK
<1> QED
  BY <1>1, <1>2, <1>3, FewerSessions

(* No step answers a client whose command is not committed.                *)
LEMMA StaysTruthful ==
  ASSUME TypeOK, Truthful, PipeStep \/ RequestShutdown \/ Exit
  PROVE  Truthful'
<1> USE DEF Truthful, AnsweredWasCommitted, Unanswered, TypeOK
<1>1. ASSUME ServerStep \/ AcceptLoopFails PROVE Truthful'
  BY <1>1 DEF ServerStep, Choose, Accept, Refuse, StopAccepting, AcceptLoopFails, Close
<1>2. ASSUME DrainStep \/ RequestShutdown \/ Exit PROVE Truthful'
  BY <1>2 DEF DrainStep, Drained, DrainExpires, RequestShutdown, Exit, Close
<1>3. ASSUME NEW c \in Connections, SessionStep(c) PROVE Truthful'
  <2>1. ASSUME Connect(c) \/ OpenFails(c) \/ ClientGivesUp(c) PROVE Truthful'
    BY <2>1 DEF Connect, OpenFails, ClientGivesUp
  <2>2. ASSUME ReadRequest(c) \/ AnswerAtOnce(c) \/ OwnerCommits(c) \/ TakeResponse(c) PROVE Truthful'
    BY <2>2 DEF ReadRequest, AnswerAtOnce, OwnerCommits,
                TakeResponse
  <2>3. ASSUME ReadFails(c) \/ AskFails(c) \/ WriteResponse(c) \/ WriteFails(c) PROVE Truthful'
    BY <2>3 DEF ReadFails, AskFails, WriteResponse, WriteFails, Close
  <2> QED
    BY <1>3, <2>1, <2>2, <2>3 DEF SessionStep
<1> QED
  BY <1>1, <1>2, <1>3 DEF PipeStep

(* Every step of the pipe server, and every step that ends it, keeps the   *)
(* invariant.                                                              *)
LEMMA PipeKeepsInv ==
  ASSUME PipeInv, PipeStep \/ RequestShutdown \/ Exit
  PROVE  PipeInv'
<1>1. TypeOK /\ Bounded /\ Truthful
  BY DEF PipeInv, Bounded, Truthful
<1>2. Bounded' /\ TypeOK'
  BY <1>1, ServerBounded, SessionBounded, ShutdownBounded DEF PipeStep
<1>3. Truthful'
  BY <1>1, StaysTruthful
<1> QED
  BY <1>2, <1>3 DEF PipeInv, Bounded, Truthful

(* An accept loop that has only begun, or none, satisfies it.              *)
LEMMA FreshInv ==
  ASSUME accept \in {"choose", "exited"}, conn = [c \in Connections |-> "away"], unreaped = 0,
         owner = [c \in Connections |-> "none"], client = [c \in Connections |-> "idle"],
         shutdown \in BOOLEAN
  PROVE  PipeInv
<1>1. Active = {}
  BY DEF Active
<1>2. Cardinality(Active) = 0
  BY <1>1, FS_EmptySet
<1> QED
  BY <1>2, PipeAssumption DEF PipeInv, TypeOK, SessionsBounded, RoomForOne,
                              AnsweredWasCommitted, Unanswered

-----------------------------------------------------------------------------
(* What each step of the lifecycle keeps.                                  *)

Live == {"starting", "refused", "loading", "recovering", "serving"}

\* A process that has neither reported Stopped nor failed is the one the manager
\* knows, under the registration that is installed.
CurrentProcess ==
    \A p \in Processes : proc[p] \in Live =>
        /\ scm.process = p /\ scm.status # "stopped"
        /\ scm.installed # 0 /\ launch[p] = scm.installed

Uninstalling == {"opened", "stopping", "waiting", "deleting", "removing", "removed"}

\* What a command line opened was registered by then.
TargetsKnown ==
    /\ scm.installed <= scm.created
    /\ \A a \in Admins :
          /\ admin[a].target <= scm.created
          /\ admin[a].pc \in Uninstalling => admin[a].target # 0
          /\ admin[a].pc = "removed" => scm.installed # admin[a].target

LifeInv == LifecycleTypeOK /\ SingleWriter /\ CurrentProcess /\ TargetsKnown

LifecycleInv == PipeInv /\ LifeInv

(* The manager's part of the type invariant.                               *)
LifeTypes ==
    /\ proc \in [Processes -> {"none", "starting", "refused", "loading", "recovering",
                               "serving", "unwinding", "exiting"}]
    /\ launch \in [Processes -> Registrations]
    /\ scm \in [installed : Registrations, created : Registrations, marked : BOOLEAN,
                status : {"stopped", "pending", "running"},
                process : Processes \cup {Nobody}]
    /\ signal \in [sent : BOOLEAN, listening : BOOLEAN]
    /\ asked \in BOOLEAN
    /\ admin \in [Admins -> [pc : AtRest \cup Holding \cup {"removing", "creating"},
                             target : Registrations]]

Others == SingleWriter /\ CurrentProcess /\ TargetsKnown

(* The two halves of the type invariant.                                   *)
LEMMA TypesSplit == LifecycleTypeOK <=> TypeOK /\ LifeTypes
  BY DEF LifecycleTypeOK, LifeTypes

(* The parts the steps are proved to keep make up the invariant.           *)
LEMMA PartsKept ==
  ASSUME PipeInv', LifeTypes', Others'
  PROVE  LifecycleInv'
<1>1. LifecycleTypeOK'
  BY DEF PipeInv, LifecycleTypeOK, LifeTypes
<1> QED
  BY <1>1 DEF LifecycleInv, LifeInv, Others

(* The initial state satisfies the invariant.                              *)
LEMMA InitLifecycle == LifecycleInit => LifecycleInv
<1> SUFFICES ASSUME LifecycleInit PROVE LifecycleInv
  OBVIOUS
<1>1. PipeInv
  BY FreshInv DEF LifecycleInit
<1>2. LifeTypes
  <2>1. 0 \in Registrations /\ 1 \in Registrations
    BY LifecycleAssumption DEF Registrations
  <2>2. "idle" \in AtRest
    BY DEF AtRest
  <2> QED
    BY <2>1, <2>2 DEF LifecycleInit, LifeTypes, Silence
<1>3. Others
  BY DEF LifecycleInit, Others, SingleWriter, Owns, CurrentProcess, Live, TargetsKnown,
         Uninstalling
<1> QED
  BY <1>1, <1>2, <1>3, TypesSplit DEF LifecycleInv, LifeInv, Others, PipeInv

(* A process that only moves on, without taking the mutex or a new place   *)
(* with the manager.                                                       *)
LEMMA ProcessMovesOn ==
  ASSUME LifeTypes, Others, NEW p \in Processes, NEW step, Goto(p, step),
         step \in Live => proc[p] \in Live,
         step \in {"loading", "recovering", "serving", "unwinding"} => p \in Owns,
         UNCHANGED <<launch, admin>>,
         scm'.process = scm.process /\ scm'.installed = scm.installed
            /\ scm'.created = scm.created,
         scm'.status = "stopped" => scm.status = "stopped"
  PROVE  Others'
<1>1. SingleWriter'
  BY DEF Others, SingleWriter, Owns, Goto, LifeTypes
<1>2. CurrentProcess'
  BY DEF Others, CurrentProcess, Goto, LifeTypes, Live
<1>3. TargetsKnown'
  BY DEF Others, TargetsKnown
<1> QED
  BY <1>1, <1>2, <1>3 DEF Others

(* A process leaves the manager's list, or the manager's list is stopped.  *)
LEMMA ProcessStops ==
  ASSUME LifeTypes, Others, NEW p \in Processes, NEW step, Goto(p, step),
         step \notin Live, step = "unwinding" => p \in Owns, UNCHANGED admin,
         \A q \in Processes \ {p} : launch'[q] = launch[q],
         scm' = scm \/ scm.process = p,
         scm'.installed = scm.installed /\ scm'.created = scm.created
  PROVE  Others'
<1>1. SingleWriter'
  BY DEF Others, SingleWriter, Owns, Goto, LifeTypes, Live
<1>2. CurrentProcess'
  BY DEF Others, CurrentProcess, Goto, LifeTypes
<1>3. TargetsKnown'
  BY DEF Others, TargetsKnown
<1> QED
  BY <1>1, <1>2, <1>3 DEF Others

(* Steps of a process keep the manager's part of the types.                *)
LEMMA ProcessTypes ==
  ASSUME LifeTypes, NEW p \in Processes, Launch(p) \/ ProcessStep(p) \/ Crash(p)
  PROVE  LifeTypes'
<1> USE DEF LifeTypes, Goto
<1>1. ASSUME Launch(p) PROVE LifeTypes'
  BY <1>1 DEF Launch
<1>2. ASSUME AcquireMutex(p) \/ Load(p) \/ LoadFails(p) \/ ServeFails(p) \/ CloseRefused(p)
      PROVE  LifeTypes'
  BY <1>2 DEF AcquireMutex, Load, LoadFails, ServeFails, CloseRefused, scmVars
<1>3. ASSUME ReportRunning(p) PROVE LifeTypes'
  BY <1>3 DEF ReportRunning, Silence
<1>6. ASSUME ReportStopped(p) PROVE LifeTypes'
  BY <1>6 DEF ReportStopped
<1>4. ASSUME Listen(p) \/ TakeSignal(p) \/ Unwind(p) PROVE LifeTypes'
  BY <1>4 DEF Listen, TakeSignal, Unwind, scmVars, lifeVars
<1>5. ASSUME ProcessEnds(p) \/ Crash(p) PROVE LifeTypes'
  <2>1. Ended(p) /\ UNCHANGED <<signal, admin>>
    BY <1>5 DEF ProcessEnds, Crash
  <2>5. launch' \in [Processes -> Registrations]
    BY <2>1, LifecycleAssumption DEF Ended, Registrations
  <2>2. scm' \in [installed : Registrations, created : Registrations, marked : BOOLEAN,
                  status : {"stopped", "pending", "running"}, process : Processes \cup {Nobody}]
    BY <2>1 DEF Ended
  <2>3. asked' \in BOOLEAN
    BY <2>1 DEF Ended
  <2>4. proc' \in [Processes -> {"none", "starting", "refused", "loading", "recovering",
                                 "serving", "unwinding", "exiting"}]
    BY <2>1 DEF Ended
  <2> QED
    BY <2>1, <2>2, <2>3, <2>4, <2>5
<1> QED
  BY <1>1, <1>2, <1>3, <1>4, <1>5, <1>6 DEF ProcessStep

(* The first process after a stop is the manager's only one.               *)
LEMMA LaunchStep ==
  ASSUME LifeTypes, Others, NEW p \in Processes, Launch(p)
  PROVE  Others'
<1>1. \A q \in Processes : proc[q] \notin Live
  BY DEF Launch, Others, CurrentProcess
<1>2. CurrentProcess'
  BY <1>1 DEF Launch, CurrentProcess, Goto, LifeTypes, Live
<1>3. SingleWriter' /\ TargetsKnown'
  BY DEF Launch, Others, SingleWriter, Owns, Goto, LifeTypes, TargetsKnown
<1> QED
  BY <1>2, <1>3 DEF Others

(* The mutex is given only while no process has a handle of it.            *)
LEMMA AcquireStep ==
  ASSUME LifeTypes, Others, NEW p \in Processes, AcquireMutex(p)
  PROVE  Others'
<1>1. SingleWriter'
  BY DEF AcquireMutex, MutexExists, Others, SingleWriter, Owns, Goto, LifeTypes
<1>2. CurrentProcess' /\ TargetsKnown'
  BY DEF AcquireMutex, Others, CurrentProcess, TargetsKnown, Goto, LifeTypes, Live, scmVars
<1> QED
  BY <1>1, <1>2 DEF Others

(* Every other step of a process.                                          *)
LEMMA ProcessOthers ==
  ASSUME LifeTypes, Others, NEW p \in Processes, ProcessStep(p) \/ Crash(p)
  PROVE  Others'
<1>1. ASSUME AcquireMutex(p) PROVE Others'
  BY <1>1, AcquireStep
<1>2. ASSUME Load(p) PROVE Others'
  BY <1>2, ProcessMovesOn DEF Load, Owns, Live, scmVars
<1>3. ASSUME ReportRunning(p) PROVE Others'
  <2>1. /\ scm'.process = scm.process /\ scm'.installed = scm.installed
        /\ scm'.created = scm.created /\ scm'.status = "running"
    BY <1>3 DEF ReportRunning, LifeTypes
  <2>2. Goto(p, "serving") /\ proc[p] \in Live /\ p \in Owns /\ UNCHANGED <<launch, admin>>
    BY <1>3 DEF ReportRunning, Live, Owns
  <2> QED
    BY <2>1, <2>2, ProcessMovesOn
<1>4. ASSUME Listen(p) \/ TakeSignal(p) PROVE Others'
  BY <1>4 DEF Listen, TakeSignal, lifeVars, Others, SingleWriter, Owns, CurrentProcess,
              TargetsKnown
<1>5. ASSUME ReportStopped(p) PROVE Others'
  <2>1. scm.process = p
    BY <1>5 DEF ReportStopped, Others, CurrentProcess, Live
  <2>2. scm'.installed = scm.installed /\ scm'.created = scm.created
    BY <1>5 DEF ReportStopped, LifeTypes
  <2>3. Goto(p, "unwinding") /\ p \in Owns /\ UNCHANGED <<launch, admin>>
    BY <1>5 DEF ReportStopped, Owns
  <2> QED
    BY <2>1, <2>2, <2>3, ProcessStops DEF Live
<1>6. ASSUME LoadFails(p) \/ ServeFails(p) PROVE Others'
  <2>1. Goto(p, "unwinding") /\ p \in Owns /\ UNCHANGED <<launch, admin, scm>>
    BY <1>6 DEF LoadFails, ServeFails, Owns, scmVars
  <2> QED
    BY <2>1, ProcessStops DEF Live
<1>7. ASSUME Unwind(p) \/ CloseRefused(p) PROVE Others'
  <2>1. Goto(p, "exiting") /\ UNCHANGED <<launch, admin, scm>>
    BY <1>7 DEF Unwind, CloseRefused, scmVars
  <2> QED
    BY <2>1, ProcessStops DEF Live
<1>8. ASSUME ProcessEnds(p) \/ Crash(p) PROVE Others'
  <2>1. Goto(p, "none") /\ UNCHANGED admin /\ (scm' = scm \/ scm.process = p)
    BY <1>8 DEF ProcessEnds, Crash, Ended
  <2>3. \A q \in Processes \ {p} : launch'[q] = launch[q]
    BY <1>8 DEF ProcessEnds, Crash, Ended, LifeTypes
  <2>2. scm'.installed = scm.installed /\ scm'.created = scm.created
    BY <1>8 DEF ProcessEnds, Crash, Ended, LifeTypes
  <2> QED
    BY <2>1, <2>2, <2>3, ProcessStops DEF Live
<1> QED
  BY <1>1, <1>2, <1>3, <1>4, <1>5, <1>6, <1>7, <1>8 DEF ProcessStep

(* The pipe while a process steps: it begins afresh, ends, or is told.     *)
LEMMA ProcessPipe ==
  ASSUME PipeInv, NEW p \in Processes, Launch(p) \/ ProcessStep(p) \/ Crash(p)
  PROVE  PipeInv'
<1>1. ASSUME UNCHANGED vars PROVE PipeInv'
  BY <1>1 DEF vars, PipeInv, TypeOK, SessionsBounded, RoomForOne, Active,
              AnsweredWasCommitted, Unanswered
<1>2. ASSUME ReportRunning(p) PROVE PipeInv'
  <2>1. /\ accept' = "choose" /\ conn' = [c \in Connections |-> "away"] /\ unreaped' = 0
        /\ owner' = [c \in Connections |-> "none"] /\ shutdown' = FALSE
        /\ client' = [c \in Connections |-> "idle"]
    BY <1>2 DEF ReportRunning, Fresh
  <2>2. Active' = {}
    BY <2>1 DEF Active
  <2>3. Cardinality(Active') = 0
    BY <2>2, FS_EmptySet
  <2>4. TypeOK'
    <3>1. 0 \in 0 .. MaxActive
      BY PipeAssumption
    <3>2. /\ [c \in Connections |-> "away"]
                \in [Connections -> {"away", "connecting", "reading", "asking", "writing"}]
          /\ [c \in Connections |-> "none"]
                \in [Connections -> {"none", "queued", "handled"}]
          /\ [c \in Connections |-> "idle"] \in [Connections -> {"idle", "waiting", "answered"}]
      OBVIOUS
    <3> QED
      BY <2>1, <3>1, <3>2 DEF TypeOK
  <2>5. SessionsBounded' /\ RoomForOne'
    BY <2>1, <2>3, PipeAssumption DEF SessionsBounded, RoomForOne
  <2>6. AnsweredWasCommitted' /\ Unanswered'
    BY <2>1 DEF AnsweredWasCommitted, Unanswered
  <2> QED
    BY <2>4, <2>5, <2>6 DEF PipeInv
<1>3. ASSUME Exit \/ RequestShutdown PROVE PipeInv'
  BY <1>3, PipeKeepsInv
<1> QED
  BY <1>1, <1>2, <1>3 DEF Launch, ProcessStep, Crash, AcquireMutex, Load, LoadFails, Listen,
       TakeSignal, ReportStopped, ServeFails, Unwind, CloseRefused, ProcessEnds

Steps == AtRest \cup Holding \cup {"removing", "creating"}

(* One command line moves on; the others and its target stay.              *)
LEMMA Proceeds ==
  ASSUME LifeTypes, NEW a \in Admins, NEW step \in Steps, Proceed(a, step)
  PROVE  /\ admin' \in [Admins -> [pc : Steps, target : Registrations]]
         /\ admin'[a].pc = step /\ admin'[a].target = admin[a].target
         /\ \A b \in Admins \ {a} : admin'[b] = admin[b]
  BY DEF LifeTypes, Proceed, Steps

(* The manager's own steps.                                                *)
LEMMA ManagerStep ==
  ASSUME LifeTypes, Others, OperatorStops \/ Purge
  PROVE  UNCHANGED vars /\ LifeTypes' /\ Others'
<1>1. UNCHANGED <<vars, proc, launch, admin>>
  BY DEF OperatorStops, Purge
<1>2. ASSUME OperatorStops PROVE LifeTypes' /\ Others'
  BY <1>2 DEF OperatorStops, StopControl, LifeTypes, Others, SingleWriter, Owns,
              CurrentProcess, TargetsKnown
<1>3. ASSUME Purge PROVE LifeTypes' /\ Others'
  <2>1. 0 \in Registrations /\ scm.created \in Nat /\ 0 <= scm.created
    BY LifecycleAssumption DEF Registrations, LifeTypes
  <2>2. LifeTypes'
    BY <1>3, <2>1 DEF LifeTypes, Purge
  <2>3. scm'.installed = 0 /\ scm'.created = scm.created
    BY <1>3 DEF Purge, LifeTypes
  <2>4. SingleWriter' /\ CurrentProcess'
    BY <1>1, <1>3 DEF Others, SingleWriter, Owns, CurrentProcess, Purge
  <2>5. TargetsKnown'
    BY <1>1, <2>1, <2>3 DEF Others, TargetsKnown, Uninstalling
  <2> QED
    BY <2>2, <2>4, <2>5 DEF Others
<1> QED
  BY <1>1, <1>2, <1>3

(* The command lines.                                                      *)
LEMMA CommandTypes ==
  ASSUME LifeTypes, NEW a \in Admins,
         OpenForUninstall(a) \/ OpenForInstall(a) \/ AdminStep(a)
  PROVE  LifeTypes'
<1>2. ASSUME OpenForUninstall(a) PROVE LifeTypes'
  BY <1>2 DEF LifeTypes, OpenForUninstall, Holding, AtRest, scmVars
<1>3. ASSUME QueryStatus(a) \/ StopRefused(a) \/ AwaitStopped(a) \/ AwaitRemoved(a)
             \/ WaitExpires(a) \/ OpenForInstall(a) \/ Describe(a)
      PROVE  LifeTypes'
  <2>1. PICK step \in Steps : Proceed(a, step)
    BY <1>3 DEF QueryStatus, StopRefused, AwaitStopped, AwaitRemoved, WaitExpires,
                OpenForInstall, Describe, Steps, Holding, AtRest
  <2>2. UNCHANGED <<proc, launch, scm, signal, asked>>
    BY <1>3 DEF QueryStatus, StopRefused, AwaitStopped, AwaitRemoved, WaitExpires,
                OpenForInstall, Describe, scmVars
  <2> QED
    BY <2>1, <2>2, Proceeds DEF LifeTypes, Steps
<1>4. ASSUME StopService(a) PROVE LifeTypes'
  <2>1. Proceed(a, "waiting") /\ "waiting" \in Steps
    BY <1>4 DEF StopService, Steps, Holding
  <2>2. UNCHANGED <<proc, launch, scm>> /\ signal' \in [sent : BOOLEAN, listening : BOOLEAN]
           /\ asked' \in BOOLEAN
    BY <1>4 DEF StopService, StopControl, LifeTypes
  <2> QED
    BY <2>1, <2>2, Proceeds DEF LifeTypes, Steps
<1>5. ASSUME Delete(a) PROVE LifeTypes'
  <2>1. PICK step \in Steps : Proceed(a, step)
    BY <1>5 DEF Delete, Steps, AtRest
  <2>2. UNCHANGED <<proc, launch, signal, asked>> /\ scm' = [scm EXCEPT !.marked = TRUE]
    BY <1>5 DEF Delete
  <2> QED
    BY <2>1, <2>2, Proceeds DEF LifeTypes, Steps
<1>6. ASSUME Create(a) PROVE LifeTypes'
  <2>1. PICK step \in Steps : Proceed(a, step)
    BY <1>6 DEF Create, Steps, AtRest, Holding
  <2>2. UNCHANGED <<proc, launch, signal, asked>>
    BY <1>6 DEF Create
  <2>3. \/ scm' = scm
        \/ scm' = [scm EXCEPT !.installed = scm.created + 1, !.created = @ + 1]
              /\ scm.created < MaxRegistrations
    BY <1>6 DEF Create
  <2>4. scm' \in [installed : Registrations, created : Registrations, marked : BOOLEAN,
                  status : {"stopped", "pending", "running"}, process : Processes \cup {Nobody}]
    <3>1. scm.created < MaxRegistrations => scm.created + 1 \in Registrations
      BY LifecycleAssumption DEF LifeTypes, Registrations
    <3> QED
      BY <2>3, <3>1 DEF LifeTypes
  <2> QED
    BY <2>1, <2>2, <2>4, Proceeds DEF LifeTypes, Steps
<1> QED
  BY <1>2, <1>3, <1>4, <1>5, <1>6 DEF AdminStep

(* A command line moves no process, and what it opened was registered      *)
(* before whatever is registered next: the numbers go up.                  *)
LEMMA CommandOthers ==
  ASSUME LifeTypes, Others, NEW a \in Admins,
         OpenForUninstall(a) \/ OpenForInstall(a) \/ AdminStep(a)
  PROVE  Others'
<1> USE LifecycleAssumption DEF LifeTypes, Proceed, Registrations
<1>1. SingleWriter'
  BY DEF OpenForUninstall, OpenForInstall, AdminStep, QueryStatus, StopService, StopRefused,
         AwaitStopped, Delete, AwaitRemoved, WaitExpires, Create, Describe, Others,
         SingleWriter, Owns
<1>2. CurrentProcess'
  <2>1. ASSUME UNCHANGED <<proc, launch, scm>> PROVE CurrentProcess'
    BY <2>1 DEF Others, CurrentProcess
  <2>2. ASSUME Create(a) PROVE CurrentProcess'
    BY <2>2 DEF Create, Others, CurrentProcess
  <2>3. ASSUME Delete(a) PROVE CurrentProcess'
    BY <2>3 DEF Delete, Others, CurrentProcess
  <2> QED
    BY <2>1, <2>2, <2>3 DEF OpenForUninstall, OpenForInstall, AdminStep,
         QueryStatus, StopService, StopRefused, AwaitStopped, AwaitRemoved, WaitExpires,
         Describe, scmVars
<1>3. TargetsKnown'
  <2> USE DEF Others, TargetsKnown, Uninstalling
  <2>3. ASSUME OpenForUninstall(a) \/ OpenForInstall(a) PROVE TargetsKnown'
    BY <2>3 DEF OpenForUninstall, OpenForInstall, scmVars
  <2>4. ASSUME QueryStatus(a) \/ StopService(a) \/ StopRefused(a) \/ AwaitStopped(a)
               \/ Delete(a) \/ WaitExpires(a) \/ Describe(a)
        PROVE  TargetsKnown'
    BY <2>4 DEF QueryStatus, StopService, StopRefused, AwaitStopped, Delete, WaitExpires,
                Describe, scmVars
  <2>5. ASSUME AwaitRemoved(a) PROVE TargetsKnown'
    BY <2>5 DEF AwaitRemoved, scmVars
  <2>6. ASSUME Create(a), scm.installed # 0 PROVE TargetsKnown'
    BY <2>6 DEF Create
  <2>7. ASSUME Create(a), scm.installed = 0 PROVE TargetsKnown'
    <3>1. scm'.installed = scm.created + 1 /\ scm'.created = scm.created + 1
      BY <2>7 DEF Create
    <3>2. Proceed(a, "describing") /\ "describing" \in Steps
      BY <2>7 DEF Create, Steps, Holding
    <3>3. /\ admin'[a].pc = "describing" /\ admin'[a].target = admin[a].target
          /\ \A b \in Admins \ {a} : admin'[b] = admin[b]
      BY <3>2, Proceeds
    <3>4. scm.created \in Nat /\ \A b \in Admins : admin[b].target \in Nat
      OBVIOUS
    <3>5. \A b \in Admins : admin'[b].target = admin[b].target
      BY <3>3
    <3>6. \A b \in Admins : admin'[b].target # scm'.installed
                            /\ admin'[b].target <= scm'.created
      BY <3>1, <3>4, <3>5
    <3>7. \A b \in Admins : admin'[b].pc \in Uninstalling => admin'[b].target # 0
      BY <3>3
    <3> QED
      BY <3>1, <3>4, <3>6, <3>7
  <2> QED
    BY <2>3, <2>4, <2>5, <2>6, <2>7 DEF AdminStep
<1> QED
  BY <1>1, <1>2, <1>3 DEF Others

(* No step leaves the invariant.                                           *)
LEMMA NextKeepsInv ==
  ASSUME LifecycleInv, [LifecycleNext]_allVars
  PROVE  LifecycleInv'
<1>1. PipeInv /\ LifeTypes /\ Others
  BY TypesSplit DEF LifecycleInv, LifeInv, Others
<1>2. SUFFICES PipeInv' /\ LifeTypes' /\ Others'
  BY PartsKept
<1>3. ASSUME PipeStep, UNCHANGED lifeVars PROVE PipeInv' /\ LifeTypes' /\ Others'
  BY <1>1, <1>3, PipeKeepsInv DEF lifeVars, LifeTypes, Others, SingleWriter, Owns,
     CurrentProcess, TargetsKnown
<1>4. ASSUME NEW p \in Processes, Launch(p) \/ ProcessStep(p) \/ Crash(p)
      PROVE  PipeInv' /\ LifeTypes' /\ Others'
  <2>1. Others'
    BY <1>1, <1>4, LaunchStep, ProcessOthers
  <2> QED
    BY <1>1, <1>4, <2>1, ProcessPipe, ProcessTypes
<1>5. ASSUME UNCHANGED vars PROVE PipeInv'
  BY <1>1, <1>5 DEF vars, PipeInv, TypeOK, SessionsBounded, RoomForOne, Active,
                    AnsweredWasCommitted, Unanswered
<1>6. ASSUME OperatorStops \/ Purge PROVE PipeInv' /\ LifeTypes' /\ Others'
  BY <1>1, <1>5, <1>6, ManagerStep
<1>7. ASSUME NEW a \in Admins, OpenForUninstall(a) \/ OpenForInstall(a) \/ AdminStep(a)
      PROVE  PipeInv' /\ LifeTypes' /\ Others'
  <2>1. UNCHANGED vars
    BY <1>7 DEF OpenForUninstall, OpenForInstall, AdminStep, QueryStatus, StopService,
       StopRefused, AwaitStopped, Delete, AwaitRemoved, WaitExpires, Create, Describe
  <2> QED
    BY <1>1, <1>5, <1>7, <2>1, CommandTypes, CommandOthers
<1>8. ASSUME UNCHANGED allVars PROVE PipeInv' /\ LifeTypes' /\ Others'
  <2>1. UNCHANGED vars /\ UNCHANGED lifeVars
    BY <1>8 DEF allVars
  <2> QED
    BY <1>1, <1>5, <2>1 DEF lifeVars, LifeTypes, Others, SingleWriter, Owns, CurrentProcess,
       TargetsKnown
<1> QED
  BY <1>3, <1>4, <1>6, <1>7, <1>8 DEF LifecycleNext

(* The invariant is one of the specification.                              *)
THEOREM InvariantHolds == LifecycleSpec => []LifecycleInv
<1>1. LifecycleInit => LifecycleInv
  BY InitLifecycle
<1>2. LifecycleInv /\ [LifecycleNext]_allVars => LifecycleInv'
  BY NextKeepsInv
<1> QED
  BY <1>1, <1>2, PTL DEF LifecycleSpec

(* The variables keep their types, for any number of processes,            *)
(* connections and command lines.                                          *)
THEOREM LifecycleTyped == LifecycleSpec => []LifecycleTypeOK
<1>1. LifecycleInv => LifecycleTypeOK
  BY DEF LifecycleInv, LifeInv
<1> QED
  BY <1>1, InvariantHolds, PTL

(* Never two processes with the data directory, however stops, crashes,    *)
(* early Stopped reports and new starts fall (service.rs 683, 849).        *)
THEOREM OneWriter == LifecycleSpec => []SingleWriter
<1>1. LifecycleInv => SingleWriter
  BY DEF LifecycleInv, LifeInv
<1> QED
  BY <1>1, InvariantHolds, PTL

(* An uninstall that succeeds has removed its registration and stopped the *)
(* processes of it, whatever other command lines do (operator-guide.md     *)
(* 225-227).                                                               *)
THEOREM RemovalComplete == LifecycleSpec => []UninstallComplete
<1>1. LifecycleInv => UninstallComplete
  BY DEF LifecycleInv, LifeInv, CurrentProcess, TargetsKnown, UninstallComplete, Live
<1> QED
  BY <1>1, InvariantHolds, PTL

(* The sessions never exceed the limit, through restarts and shutdowns     *)
(* (ipc_server.rs 234-272).                                                *)
THEOREM SessionsStayBounded == LifecycleSpec => []SessionsBounded
<1>1. LifecycleInv => SessionsBounded
  BY DEF LifecycleInv, PipeInv
<1> QED
  BY <1>1, InvariantHolds, PTL

(* A command line that has an answer has had its command committed, though *)
(* the process may have stopped or crashed since (lib.rs 381-400,          *)
(* ipc_server.rs 68-123).                                                  *)
THEOREM AnswersTrue == LifecycleSpec => []AnsweredWasCommitted
<1>1. LifecycleInv => AnsweredWasCommitted
  BY DEF LifecycleInv, PipeInv
<1> QED
  BY <1>1, InvariantHolds, PTL

=============================================================================
