----------------------------- MODULE Configuration -----------------------------
(***************************************************************************)
(* Settings changed from the command line: spotter-cli (lib.rs) opens the  *)
(* service's pipe, authenticates the process at its other end (pipe.rs of  *)
(* spotter-win32), writes one command and reads one answer, while a timer  *)
(* in another thread gives up on it; the service's processes come and go.  *)
(*                                                                         *)
(* At most one process serves the endpoint at a time.  Process n is the    *)
(* n-th that did; a pid is the process it was given to last.               *)
(***************************************************************************)
EXTENDS ServiceSettings

CONSTANTS
    Clients,      \* runs of the command line; one that ended stands for a new one
    MaxStarts,    \* bound: processes that serve the endpoint
    MaxCommands   \* bound: commands of all clients

ASSUME ConfigurationAssumption == MaxStarts \in Nat \ {0} /\ MaxCommands \in Nat

VARIABLES
    server,   \* the process that serves the endpoint, 0 for none
    starts,   \* processes so far
    kind,     \* what each process is to the service control manager
    client,   \* the command line, its worker thread and its command
    issued    \* commands so far

vars == <<settingsVars, server, starts, kind, client, issued>>

Processes == 1 .. MaxStarts

\* The registered service; a process of another account, of a console run; one
\* whose image is not the registered one, left from before a registration.
Kinds == {"service", "console", "moved"}

\* Steps of exchange_named_pipe in the worker thread.
Authenticating == {"opened", "named", "held", "known"}
Steps == {"ready", "opening", "trusted", "written", "gone"} \cup Authenticating

\* step is the worker's; told, what recv_timeout returned; pipe, the process at
\* the pipe's other end; held, the one the query's process handle refers to; fate,
\* what became of the command.
ClientRecords ==
    [step : Steps, told : {"waiting", "ok", "failed", "unavailable"},
     update : Updates, pipe : 0 .. MaxStarts, held : 0 .. MaxStarts,
     fate : {"unsent", "sent", "applied", "refused", "lost"}]

\* Every variable keeps its type.
TypeOK ==
    /\ SettingsTypeOK
    /\ starts \in 0 .. MaxStarts /\ server \in 0 .. starts
    /\ running <=> server # 0
    /\ kind \in [Processes -> Kinds]
    /\ client \in [Clients -> ClientRecords]
    /\ issued \in 0 .. MaxCommands

Fresh(u) == [step |-> "ready", told |-> "waiting", update |-> u, pipe |-> 0, held |-> 0,
             fate |-> "unsent"]

\* The update of a run that has not begun.
NoUpdate == [field |-> "url", value |-> Blank]

Init ==
    /\ SettingsInit
    /\ server = 0 /\ starts = 0
    /\ kind = [p \in Processes |-> "service"]
    /\ client = [c \in Clients |-> Fresh(NoUpdate)]
    /\ issued = 0

-----------------------------------------------------------------------------
(* The command line                                                        *)

Becomes(c, r) == client' = [client EXCEPT ![c] = r]

\* The worker reaches its next step.
Goto(c, step) == Becomes(c, [client[c] EXCEPT !.step = step])

\* The worker's result, unless the timer was first: exit_code makes it 0, 1 or 2.
Ends(c, result) ==
    Becomes(c, [client[c] EXCEPT !.step = "gone", !.held = 0,
                                 !.told = IF @ = "waiting" THEN result ELSE @])

ClientStep == UNCHANGED <<settingsVars, server, starts, kind, issued>>

\* dispatch: elevated, the field validated, the token read.
Begin(c, u) ==
    /\ client[c].step = "ready"
    /\ issued < MaxCommands
    /\ Accepted(u.field, u.value)
    /\ issued' = issued + 1
    /\ Becomes(c, [Fresh(u) EXCEPT !.step = "opening"])
    /\ UNCHANGED <<settingsVars, server, starts, kind>>

\* Not elevated, an invalid value, no token on a terminal or over 16 KiB of it.
RefusedLocally(c) ==
    /\ client[c].step = "ready"
    /\ Ends(c, "failed")
    /\ ClientStep

\* The process has exited; another run takes its place.
Again(c) ==
    /\ client[c].step = "gone"
    /\ issued < MaxCommands
    /\ Becomes(c, Fresh(NoUpdate))
    /\ ClientStep

Open(c) ==
    /\ client[c].step = "opening"
    /\ server # 0
    /\ Becomes(c, [client[c] EXCEPT !.step = "opened", !.pipe = server])
    /\ ClientStep

\* No pipe, or no free instance of it: ServiceUnavailable.
OpenFails(c) ==
    /\ client[c].step = "opening"
    /\ Ends(c, "unavailable")
    /\ ClientStep

\* GetNamedPipeServerProcessId: the pid of the pipe's process.
NameServer(c) ==
    /\ client[c].step = "opened"
    /\ Goto(c, "named")
    /\ ClientStep

\* OpenProcess, and the first GetExitCodeProcess: the pid's process, or the one its
\* pid was given to meanwhile.
HoldServer(c) ==
    /\ client[c].step = "named"
    /\ server # 0
    /\ Becomes(c, [client[c] EXCEPT !.step = "held", !.held = server])
    /\ ClientStep

\* The token of the process is LocalSystem's, whether it has ended or not.
IsLocalSystem(p) == kind[p] # "console"

\* query_image_path, and query_service_binary_path: where the process's program is,
\* and the one the manager has registered, both without links and aliases.
ImageOf(p) == IF kind[p] = "moved" THEN "elsewhere" ELSE "installed"
RegisteredImage == "installed"

IsRegisteredImage(p) == ImageOf(p) = RegisteredImage

\* Mutant of CheckIdentity: the account is not looked at.
CheckImageOnly(c) ==
    /\ client[c].step = "held"
    /\ IsRegisteredImage(client[c].held)
    /\ Goto(c, "known")
    /\ ClientStep

CheckIdentity(c) ==
    /\ client[c].step = "held"
    /\ IsLocalSystem(client[c].held) /\ IsRegisteredImage(client[c].held)
    /\ Goto(c, "known")
    /\ ClientStep

\* GetExitCodeProcess once more; the handles of the query are closed.
CheckAlive(c) ==
    /\ client[c].step = "known"
    /\ client[c].held = server
    /\ Becomes(c, [client[c] EXCEPT !.step = "trusted", !.held = 0])
    /\ ClientStep

\* A query fails, a check refuses, or the privilege is missing.
AuthenticationFails(c) ==
    /\ client[c].step \in Authenticating
    /\ Ends(c, "unavailable")
    /\ ClientStep

\* The request is serialized and written; the pipe breaks with its process.
Write(c) ==
    /\ client[c].step = "trusted"
    /\ client[c].pipe = server
    /\ Becomes(c, [client[c] EXCEPT !.step = "written", !.fate = "sent"])
    /\ ClientStep

\* It is over 64 KiB, or the pipe is broken.
WriteFails(c) ==
    /\ client[c].step = "trusted"
    /\ Ends(c, "failed")
    /\ ClientStep

\* The answer's line: Ok, or Error, which dispatch turns into a failure.
Read(c) ==
    /\ client[c].step = "written"
    /\ client[c].fate \in {"applied", "refused"}
    /\ Ends(c, IF client[c].fate = "applied" THEN "ok" ELSE "failed")
    /\ ClientStep

\* The stream ends before a whole line of at most 64 KiB.
ReadFails(c) ==
    /\ client[c].step = "written"
    /\ Ends(c, "failed")
    /\ ClientStep

\* Mutant of TimesOut: taken for a service that does not run.
TimesOutAsUnavailable(c) ==
    /\ client[c].step \notin {"ready", "gone"}
    /\ client[c].told = "waiting"
    /\ Becomes(c, [client[c] EXCEPT !.told = "unavailable"])
    /\ ClientStep

\* recv_timeout: main prints the error while the worker goes on.
TimesOut(c) ==
    /\ client[c].step \notin {"ready", "gone"}
    /\ client[c].told = "waiting"
    /\ Becomes(c, [client[c] EXCEPT !.told = "failed"])
    /\ ClientStep

\* main returns, and the worker ends with the process.
Exit(c) ==
    /\ client[c].step \notin {"ready", "gone"}
    /\ client[c].told # "waiting"
    /\ Ends(c, "failed")
    /\ ClientStep

-----------------------------------------------------------------------------
(* The service's end of the pipe                                           *)

Received(c) == client[c].fate = "sent" /\ client[c].pipe = server

Answered(c, fate) ==
    /\ Becomes(c, [client[c] EXCEPT !.fate = fate])
    /\ UNCHANGED <<server, starts, kind, issued>>

HandledWell(c) ==
    /\ Received(c)
    /\ Apply(client[c].update)
    /\ Answered(c, "applied")

HandledBadly(c) ==
    /\ Received(c)
    /\ \/ Refuse(client[c].update)
       \/ RefuseAfterReplacing(client[c].update)
    /\ Answered(c, "refused")

\* The session is over its limit, late or shut down before the command is queued.
Dropped(c) ==
    /\ Received(c)
    /\ UNCHANGED settingsVars
    /\ Answered(c, "lost")

\* Commands that a process had and did not answer end with it.
Lost == [c \in Clients |-> IF Received(c) THEN [client[c] EXCEPT !.fate = "lost"] ELSE client[c]]

ProcessStarts(k) ==
    /\ starts < MaxStarts
    /\ Start
    /\ starts' = starts + 1 /\ server' = starts + 1
    /\ kind' = [kind EXCEPT ![starts + 1] = k]
    /\ UNCHANGED <<client, issued>>

ProcessFails ==
    /\ StartFails
    /\ UNCHANGED <<server, starts, kind, client, issued>>

ProcessEnds ==
    /\ \/ End
       \/ \E c \in Clients : Received(c) /\ EndAfterReplacing(client[c].update)
    /\ server' = 0
    /\ client' = Lost
    /\ UNCHANGED <<starts, kind, issued>>

Next ==
    \/ \E c \in Clients :
         \/ \E u \in Updates : Begin(c, u)
         \/ RefusedLocally(c) \/ Again(c)
         \/ Open(c) \/ OpenFails(c)
         \/ NameServer(c) \/ HoldServer(c) \/ CheckIdentity(c) \/ CheckAlive(c)
         \/ AuthenticationFails(c)
         \/ Write(c) \/ WriteFails(c) \/ Read(c) \/ ReadFails(c)
         \/ TimesOut(c) \/ Exit(c)
         \/ HandledWell(c) \/ HandledBadly(c) \/ Dropped(c)
    \/ \E k \in Kinds : ProcessStarts(k)
    \/ ProcessFails \/ ProcessEnds

Spec == Init /\ [][Next]_vars

-----------------------------------------------------------------------------
(* Properties                                                              *)

\* What an exit code says is true, whatever the timer, the service's processes
\* and the worker thread did: 0, that the update took effect; 2, that no byte of
\* the command was written, nor will be.
ExitCodeIsTrue ==
    \A c \in Clients :
      /\ client[c].told = "ok" => client[c].fate = "applied"
      /\ client[c].told = "unavailable" =>
           client[c].fate = "unsent" /\ client[c].step = "gone"

\* A command reaches no process but the registered service, though processes end
\* and pids are reused between the checks.
ReachesTheService ==
    \A c \in Clients : client[c].fate # "unsent" => kind[client[c].pipe] = "service"

=============================================================================
