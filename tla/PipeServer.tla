------------------------------ MODULE PipeServer ------------------------------
(***************************************************************************)
(* The named-pipe server (ipc_server.rs): the accept loop with its bounded *)
(* JoinSet of sessions, one command per session, and the shutdown that     *)
(* drains the sessions and then lets the service process end (service.rs). *)
(***************************************************************************)
EXTENDS Naturals, FiniteSets

CONSTANTS
    Connections,  \* client connections; one that has ended stands for a new one
    MaxActive     \* MAX_ACTIVE_PIPE_SESSIONS

ASSUME PipeAssumption == IsFiniteSet(Connections) /\ MaxActive \in Nat \ {0}

VARIABLES
    accept,    \* the accept loop
    conn,      \* each connection: its session's progress
    unreaped,  \* sessions that have ended and are still in the JoinSet
    owner,     \* what became of each connection's command
    client,    \* what the command line at the other end knows
    shutdown   \* the cancellation token

vars == <<accept, conn, unreaped, owner, client, shutdown>>

\* Every variable keeps its type, and no more ended sessions than the limit are
\* left in the JoinSet.
TypeOK ==
    /\ accept \in {"choose", "listening", "refusing", "draining", "done", "failed", "exited"}
    /\ conn \in [Connections -> {"away", "connecting", "reading", "asking", "writing"}]
    /\ unreaped \in 0 .. MaxActive
    /\ owner \in [Connections -> {"none", "queued", "handled"}]
    /\ client \in [Connections -> {"idle", "waiting", "answered"}]
    /\ shutdown \in BOOLEAN

\* The accept loop as it begins.
Fresh ==
    [accept |-> "choose", conn |-> [c \in Connections |-> "away"], unreaped |-> 0,
     owner |-> [c \in Connections |-> "none"], shutdown |-> FALSE]

Init ==
    /\ accept = Fresh.accept
    /\ conn = Fresh.conn
    /\ unreaped = Fresh.unreaped
    /\ owner = Fresh.owner
    /\ shutdown = Fresh.shutdown
    /\ client = [c \in Connections |-> "idle"]

Active     == {c \in Connections : conn[c] \in {"reading", "asking", "writing"}}
Connecting == {c \in Connections : conn[c] = "connecting"}

Full == Cardinality(Active) + unreaped >= MaxActive

\* The pipes of S close; their clients read the end of the stream.
Close(S) ==
    /\ conn' = [c \in Connections |-> IF c \in S THEN "away" ELSE conn[c]]
    /\ client' = [c \in Connections |->
                     IF c \in S /\ client[c] = "waiting" THEN "idle" ELSE client[c]]

-----------------------------------------------------------------------------
(* The accept loop                                                         *)

Choose ==
    /\ accept = "choose"
    /\ accept' = IF shutdown THEN "draining" ELSE IF Full THEN "refusing" ELSE "listening"
    /\ unreaped' = IF accept' = "refusing" THEN 0 ELSE unreaped
    /\ UNCHANGED <<conn, owner, client, shutdown>>

Accept(c) ==
    /\ accept = "listening"
    /\ conn[c] = "connecting"
    /\ accept' = "choose"
    /\ conn' = [conn EXCEPT ![c] = "reading"]
    /\ UNCHANGED <<unreaped, owner, client, shutdown>>

\* Mutant of Refuse: at the limit, connections wait for a session to end.
RefuseWhenSettled(c) ==
    /\ accept = "refusing"
    /\ conn[c] = "connecting" /\ Cardinality(Active) < MaxActive
    /\ accept' = "choose"
    /\ Close({c})
    /\ UNCHANGED <<unreaped, owner, shutdown>>

Refuse(c) ==
    /\ accept = "refusing"
    /\ conn[c] = "connecting"
    /\ accept' = "choose"
    /\ Close({c})
    /\ UNCHANGED <<unreaped, owner, shutdown>>

\* The listening instance is dropped, with the client it may have.
StopAccepting ==
    /\ accept \in {"listening", "refusing"}
    /\ shutdown
    /\ accept' = "draining"
    /\ Close(Connecting)
    /\ UNCHANGED <<unreaped, owner, shutdown>>

\* A pipe instance cannot be created or connected: the loop returns, and its
\* JoinSet aborts the sessions it still holds.
AcceptLoopFails ==
    /\ accept \in {"choose", "listening", "refusing"}
    /\ accept' = "failed"
    /\ Close(Connections)
    /\ unreaped' = 0
    /\ UNCHANGED <<owner, shutdown>>

-----------------------------------------------------------------------------
(* One session: serve_one, and the command line it serves                  *)

Ends(c) ==
    unreaped' = IF accept \in {"draining", "done"} THEN unreaped ELSE unreaped + 1

\* There is one listening instance at a time.
Connect(c) ==
    /\ conn[c] = "away" /\ client[c] # "waiting"
    /\ accept \in {"listening", "refusing"} /\ Connecting = {}
    /\ conn' = [conn EXCEPT ![c] = "connecting"]
    /\ owner' = [owner EXCEPT ![c] = "none"]
    /\ client' = [client EXCEPT ![c] = "waiting"]
    /\ UNCHANGED <<accept, unreaped, shutdown>>

\* Without one the open fails, and the command line does not try again.
OpenFails(c) ==
    /\ conn[c] = "away" /\ client[c] # "waiting"
    /\ accept \notin {"listening", "refusing"} \/ Connecting # {}
    /\ owner' = [owner EXCEPT ![c] = "none"]
    /\ client' = [client EXCEPT ![c] = "idle"]
    /\ UNCHANGED <<accept, conn, unreaped, shutdown>>

\* The server is not who it should be, or thirty seconds are over.
ClientGivesUp(c) ==
    /\ client[c] = "waiting"
    /\ client' = [client EXCEPT ![c] = "idle"]
    /\ UNCHANGED <<accept, conn, unreaped, owner, shutdown>>

ReadRequest(c) ==
    /\ conn[c] = "reading"
    /\ conn' = [conn EXCEPT ![c] = "asking"]
    /\ owner' = [owner EXCEPT ![c] = "queued"]
    /\ UNCHANGED <<accept, unreaped, client, shutdown>>

\* FsmHandle::request itself answers a status, from the published snapshots, and a
\* synchronization that joins one in flight.
AnswerAtOnce(c) ==
    /\ conn[c] = "reading"
    /\ conn' = [conn EXCEPT ![c] = "writing"]
    /\ owner' = [owner EXCEPT ![c] = "handled"]
    /\ UNCHANGED <<accept, unreaped, client, shutdown>>

\* Five seconds, a disconnect, or a line that is no request.
ReadFails(c) ==
    /\ conn[c] = "reading"
    /\ Close({c}) /\ Ends(c)
    /\ UNCHANGED <<accept, owner, shutdown>>

\* The owner handles a command to the end, whoever still waits for it.
OwnerCommits(c) ==
    /\ owner[c] = "queued"
    /\ accept # "exited"
    /\ owner' = [owner EXCEPT ![c] = "handled"]
    /\ UNCHANGED <<accept, conn, unreaped, client, shutdown>>

\* Mutant of TakeResponse: the request is acknowledged once it is queued.
TakeAcknowledgement(c) ==
    /\ conn[c] = "asking"
    /\ conn' = [conn EXCEPT ![c] = "writing"]
    /\ UNCHANGED <<accept, unreaped, owner, client, shutdown>>

TakeResponse(c) ==
    /\ conn[c] = "asking"
    /\ owner[c] = "handled"
    /\ conn' = [conn EXCEPT ![c] = "writing"]
    /\ UNCHANGED <<accept, unreaped, owner, client, shutdown>>

\* The command loop is gone, or the response is longer than a line may be.
AskFails(c) ==
    /\ conn[c] = "asking"
    /\ Close({c}) /\ Ends(c)
    /\ UNCHANGED <<accept, owner, shutdown>>

\* The answer is written to whoever still reads it.
WriteResponse(c) ==
    /\ conn[c] = "writing"
    /\ conn' = [conn EXCEPT ![c] = "away"]
    /\ client' = [client EXCEPT ![c] = IF @ = "waiting" THEN "answered" ELSE @]
    /\ Ends(c)
    /\ UNCHANGED <<accept, owner, shutdown>>

\* The client is gone, or does not read for five seconds.
WriteFails(c) ==
    /\ conn[c] = "writing"
    /\ Close({c}) /\ Ends(c)
    /\ UNCHANGED <<accept, owner, shutdown>>

SessionStep(c) ==
    \/ Connect(c) \/ OpenFails(c) \/ ClientGivesUp(c)
    \/ ReadRequest(c) \/ AnswerAtOnce(c) \/ ReadFails(c)
    \/ OwnerCommits(c) \/ TakeResponse(c) \/ AskFails(c)
    \/ WriteResponse(c) \/ WriteFails(c)

-----------------------------------------------------------------------------
(* Shutdown                                                                *)

RequestShutdown ==
    /\ ~shutdown
    /\ shutdown' = TRUE
    /\ UNCHANGED <<accept, conn, unreaped, owner, client>>

Drained ==
    /\ accept = "draining"
    /\ Active = {}
    /\ accept' = "done"
    /\ UNCHANGED <<conn, unreaped, owner, client, shutdown>>

\* The drain window is over: the sessions left are aborted.
DrainExpires ==
    /\ accept = "draining"
    /\ Active # {}
    /\ accept' = "done"
    /\ Close(Active)
    /\ UNCHANGED <<unreaped, owner, shutdown>>

\* The runtime of the service is dropped with every task it still has and the
\* queue of commands.
Exit ==
    /\ accept' = "exited"
    /\ Close(Connections)
    /\ owner' = [c \in Connections |-> IF owner[c] = "queued" THEN "none" ELSE owner[c]]
    /\ unreaped' = 0 /\ shutdown' = FALSE

ServerStep == Choose \/ StopAccepting \/ (\E c \in Connections : Accept(c) \/ Refuse(c))

DrainStep == Drained \/ DrainExpires

PipeStep ==
    \/ ServerStep \/ AcceptLoopFails \/ DrainStep
    \/ \E c \in Connections : SessionStep(c)

Next ==
    \/ PipeStep
    \/ RequestShutdown
    \/ (accept = "done" \/ (accept = "failed" /\ shutdown)) /\ Exit

Spec == Init /\ [][Next]_vars

-----------------------------------------------------------------------------
(* Properties                                                              *)

\* Sessions that hold a pipe, ended or not, never exceed the limit: nothing a
\* client does grows the JoinSet (ipc_server.rs 234-272).
SessionsBounded == Cardinality(Active) + unreaped <= MaxActive

\* A client that connects is accepted or closed at once, though every session
\* may be waiting on a handler; only shutdown leaves it without an answer.
ConnectionDecided ==
    \A c \in Connections : conn[c] = "connecting" ~> (conn[c] # "connecting" \/ shutdown)

\* A command line that printed an answer has had its command handled to the end,
\* unless it asked for a status or joined a synchronization: no abort, timeout,
\* shutdown or restart turns into an answer (lib.rs 381-400 and 488-543,
\* ipc_server.rs 68-123, fsm.rs 303-334).
AnsweredWasCommitted ==
    \A c \in Connections : client[c] = "answered" => owner[c] = "handled"

\* architecture.md:198: the loop "keeps at most 16 concurrently active sessions
\* and promptly closes excess connections": one is closed only in excess.
OnlyExcessClosed ==
    [][\A c \in Connections : Refuse(c) => Cardinality(Active) >= MaxActive]_vars

=============================================================================
