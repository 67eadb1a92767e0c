----------------------------- MODULE StatusReader -----------------------------
(***************************************************************************)
(* A session that asks for the status (fsm.rs request_status) while        *)
(* everything of AutomaticSync goes on: outside the queue it clones the    *)
(* status watch and then the schedule watch, and anything may happen       *)
(* between the two.                                                        *)
(***************************************************************************)
EXTENDS AutomaticSync

VARIABLE reader  \* the request: whether it is under way, the status it has cloned

readVars == <<allVars, reader>>

NoReader == [reading |-> FALSE, status |-> Blank]

\* The reader keeps its type.
ReaderTypeOK == reader \in [reading : BOOLEAN, status : Statuses]

\* The first read.  While the status says unconfigured it is answered without a
\* next synchronization whatever the schedule says: such requests are left out.
ReadStatus ==
    /\ stage \notin {"boot", "booted"}
    /\ ~reader.reading /\ status.configured
    /\ reader' = [reading |-> TRUE, status |-> status]
    /\ UNCHANGED allVars

\* The schedule is cloned and the response is what the two project.
ReadSchedule ==
    /\ reader.reading
    /\ reader' = NoReader
    /\ UNCHANGED allVars

ReadNext ==
    \/ Next /\ UNCHANGED reader
    \/ ReadStatus
    \/ ReadSchedule

ReadInit == AutomaticInit /\ reader = NoReader

ReadSpec == ReadInit /\ [][ReadNext]_readVars

\* The tasks go on as they do without the reader, who may leave at any time.
FairReadSpec == ReadSpec /\ Fairness

-----------------------------------------------------------------------------
(* Properties                                                              *)

\* What the request answers if it reads the schedule now.
NextSyncShown == reader.reading /\ Projects(reader.status)

\* "While an automatic sync is in flight, `next_sync` is absent"
\* (operator-guide.md:106): a reader that takes the schedule between the
\* enqueue and the completion shows none, whenever it took the status.
HiddenInFlight == InFlight => ~NextSyncShown

\* Unless a save came between its two reads, or the loop died in one, what a
\* reader shows is a deadline that stands, taken from the interval in force.
ShownIsInForce ==
    NextSyncShown /\ reader.status.gen = input.gen /\ stage # "saved" /\ loop.pc # "dead" =>
        /\ sched.pc \in {"armed", "due"}
        /\ sched.gen = input.gen
        /\ sched.latest = settings.interval

\* A save that has been answered is in every status cloned since, so the
\* deadline of an earlier generation is shown to nobody who asks after it.
SavesAreSeen ==
    loop.pc = "recv" /\ stage = "none" => status.gen = input.gen

\* What a status says of the next synchronization is never a deadline that has
\* been used up, nor of settings replaced by a save answered before the request,
\* although settings, status and schedule are written by two tasks and read in
\* two steps.
NextSyncIsTrue == HiddenInFlight /\ ShownIsInForce /\ SavesAreSeen

=============================================================================
