------------------------------ MODULE CommandLoop ------------------------------
(***************************************************************************)
(* The bounded command queue in front of the owner (fsm.rs): callers of    *)
(* FsmHandle, the claim that coalesces synchronizations, the loop that     *)
(* hands one command at a time to the owner's handler, and the retained    *)
(* generation that says which synchronization completed last.              *)
(*                                                                         *)
(* The claim is taken under a mutex, the send and the response are awaits: *)
(* each is a step, as is every store of the loop another thread can see.   *)
(***************************************************************************)
EXTENDS Naturals, Sequences, SequencesExt

CONSTANTS
    Clients,     \* IPC sessions, each with at most one request
    Automatic,   \* the scheduler's own use of the handle
    Nobody,      \* the caller of a request whose caller is gone
    Capacity,    \* of the channel
    MaxSyncs,    \* bound: generations allocated
    MaxCancels,  \* bound: callers dropped while they wait
    MaxPanics    \* bound: handlers that panic

ASSUME LoopAssumption ==
    /\ Automatic \notin Clients /\ Nobody \notin Clients \cup {Automatic}
    /\ Capacity \in Nat \ {0}
    /\ MaxSyncs \in Nat /\ MaxCancels \in Nat /\ MaxPanics \in Nat

VARIABLES
    slot,       \* pending_generation, 0 for None
    nextGen,    \* next_sync_generation
    completed,  \* completed_sync_generation
    queue,      \* requests accepted by the channel
    loop,       \* the loop task: its step and the request it holds
    caller,     \* each caller: its step and its request
    told,       \* history: generation of the last sync each caller was answered for
    cancels, panics

loopVars == <<slot, nextGen, completed, queue, loop, caller, told, cancels, panics>>

Callers  == Clients \cup {Automatic}
Commands == {"sync", "save", "other"}
Requests == [from : Callers \cup {Nobody}, cmd : Commands, gen : 0 .. MaxSyncs]

NoRequest == [from |-> Nobody, cmd |-> "other", gen |-> 0]
Request(c) == [from |-> c, cmd |-> caller[c].cmd, gen |-> caller[c].gen]
AtRest == [pc |-> "idle", cmd |-> "other", gen |-> 0]

\* Every variable of the loop keeps its type; the channel holds its capacity.
LoopTypeOK ==
    /\ slot \in 0 .. MaxSyncs /\ nextGen \in 0 .. MaxSyncs /\ completed \in 0 .. MaxSyncs
    /\ queue \in Seq(Requests) /\ Len(queue) <= Capacity
    /\ loop \in [pc : {"recv", "handling", "handled", "cleared", "finished", "dead"},
                 req : Requests]
    /\ caller \in [Callers -> [pc : {"idle", "sending", "waiting"},
                               cmd : Commands, gen : 0 .. MaxSyncs]]
    /\ told \in [Callers -> 0 .. MaxSyncs]
    /\ cancels \in 0 .. MaxCancels /\ panics \in 0 .. MaxPanics

LoopInit ==
    /\ slot = 0 /\ nextGen = 0 /\ completed = 0
    /\ queue = <<>>
    /\ loop = [pc |-> "recv", req |-> NoRequest]
    /\ caller = [c \in Callers |-> AtRest]
    /\ told = [c \in Callers |-> 0]
    /\ cancels = 0 /\ panics = 0

-----------------------------------------------------------------------------
(* enqueue_with_generation                                                 *)

\* No sync is pending: allocate a generation and publish it under the lock.
Claim(c) ==
    /\ slot = 0
    /\ caller[c].pc = "idle"
    /\ nextGen < MaxSyncs
    /\ nextGen' = nextGen + 1
    /\ slot' = nextGen'
    /\ caller' = [caller EXCEPT ![c] = [pc |-> "sending", cmd |-> "sync", gen |-> nextGen']]
    /\ UNCHANGED <<completed, queue, loop, told, cancels, panics>>

\* A sync is pending: the caller gets its generation and an answer at once.
Coalesce(c) ==
    /\ slot # 0
    /\ caller[c].pc = "idle"
    /\ told' = [told EXCEPT ![c] = slot]
    /\ UNCHANGED <<slot, nextGen, completed, queue, loop, caller, cancels, panics>>

Ask(c, cmd) ==
    /\ caller[c].pc = "idle"
    /\ caller' = [caller EXCEPT ![c] = [pc |-> "sending", cmd |-> cmd, gen |-> 0]]
    /\ UNCHANGED <<slot, nextGen, completed, queue, loop, told, cancels, panics>>

\* The channel has room: from here on the loop owns the claim.
Send(c) ==
    /\ caller[c].pc = "sending"
    /\ loop.pc # "dead"
    /\ Len(queue) < Capacity
    /\ queue' = Append(queue, Request(c))
    /\ caller' = [caller EXCEPT ![c].pc = "waiting"]
    /\ UNCHANGED <<slot, nextGen, completed, loop, told, cancels, panics>>

\* The receiver is gone: the claim guard is dropped armed.
SendFails(c) ==
    /\ caller[c].pc = "sending"
    /\ loop.pc = "dead"
    /\ slot' = IF caller[c].cmd = "sync" THEN 0 ELSE slot
    /\ caller' = [caller EXCEPT ![c] = AtRest]
    /\ UNCHANGED <<nextGen, completed, queue, loop, told, cancels, panics>>

\* Mutant of CancelSend: there is no claim guard.
CancelSendKeepingClaim(c) ==
    /\ caller[c].pc = "sending"
    /\ UNCHANGED <<slot, queue, loop>>

\* The caller's future is dropped before the channel took the request.
CancelSend(c) ==
    /\ caller[c].pc = "sending"
    /\ slot' = IF caller[c].cmd = "sync" THEN 0 ELSE slot
    /\ UNCHANGED <<queue, loop>>

\* ... or after: the request stays, its answer goes nowhere.
CancelWait(c) ==
    LET Orphan(r) == IF r.from = c THEN [r EXCEPT !.from = Nobody] ELSE r
    IN  /\ caller[c].pc = "waiting"
        /\ queue' = [i \in DOMAIN queue |-> Orphan(queue[i])]
        /\ loop' = [loop EXCEPT !.req = Orphan(@)]
        /\ UNCHANGED slot

Cancel(c) ==
    /\ cancels < MaxCancels
    /\ cancels' = cancels + 1
    /\ CancelSend(c) \/ CancelWait(c)
    /\ caller' = [caller EXCEPT ![c] = AtRest]
    /\ UNCHANGED <<nextGen, completed, told, panics>>

-----------------------------------------------------------------------------
(* The loop task                                                           *)

Receive ==
    /\ loop.pc = "recv"
    /\ queue # <<>>
    /\ loop' = [pc |-> "handling", req |-> Head(queue)]
    /\ queue' = Tail(queue)
    /\ UNCHANGED <<slot, nextGen, completed, caller, told, cancels, panics>>

HandlerReturns ==
    /\ loop.pc = "handling"
    /\ loop' = [loop EXCEPT !.pc = "handled"]
    /\ UNCHANGED <<slot, nextGen, completed, queue, caller, told, cancels, panics>>

\* The task dies with its request and its receiver: every response sender it
\* could reach is dropped, the claim is not.
HandlerPanics ==
    /\ loop.pc = "handling"
    /\ panics < MaxPanics
    /\ panics' = panics + 1
    /\ loop' = [pc |-> "dead", req |-> NoRequest]
    /\ queue' = <<>>
    /\ caller' = [c \in Callers |-> IF caller[c].pc = "waiting" THEN AtRest ELSE caller[c]]
    /\ UNCHANGED <<slot, nextGen, completed, told, cancels>>

ClearClaim ==
    /\ loop.pc = "handled"
    /\ loop.req.cmd = "sync"
    /\ loop' = [loop EXCEPT !.pc = "cleared"]
    /\ slot' = 0
    /\ UNCHANGED <<nextGen, completed, queue, caller, told, cancels, panics>>

\* Mutant of Complete: the generation is not published.
CompleteSilently ==
    /\ loop.pc = "cleared"
    /\ loop' = [loop EXCEPT !.pc = "finished"]
    /\ UNCHANGED <<slot, nextGen, completed, queue, caller, told, cancels, panics>>

Complete ==
    /\ loop.pc = "cleared"
    /\ loop' = [loop EXCEPT !.pc = "finished"]
    /\ completed' = loop.req.gen
    /\ UNCHANGED <<slot, nextGen, queue, caller, told, cancels, panics>>

Respond ==
    /\ loop.pc = "finished" \/ (loop.pc = "handled" /\ loop.req.cmd # "sync")
    /\ loop' = [pc |-> "recv", req |-> NoRequest]
    /\ caller' = [c \in Callers |-> IF c = loop.req.from THEN AtRest ELSE caller[c]]
    /\ told' = [c \in Callers |->
                  IF c = loop.req.from /\ loop.req.cmd = "sync" THEN loop.req.gen ELSE told[c]]
    /\ UNCHANGED <<slot, nextGen, completed, queue, cancels, panics>>

-----------------------------------------------------------------------------
(* Properties of the loop                                                  *)

\* Generations of the synchronizations somebody still has to run, by place.
Sending  == {caller[c].gen : c \in {d \in Callers : caller[d].pc = "sending"
                                                      /\ caller[d].cmd = "sync"}}
Queued   == {queue[i].gen : i \in {j \in DOMAIN queue : queue[j].cmd = "sync"}}
InHand   == IF loop.req.cmd = "sync" /\ loop.pc \in {"handling", "handled"}
              THEN {loop.req.gen} ELSE {}

\* A claim stands exactly while one synchronization carries it that has not
\* completed: nobody coalesces onto work that will not run or has run, and two
\* synchronizations never wait behind one another (fsm.rs 148-181, 308-317).
ClaimIsLive ==
    loop.pc # "dead" =>
        /\ Sending \cup Queued \cup InHand = {slot} \ {0}
        /\ slot # 0 => completed < slot

\* Generations complete in the order they were claimed, whatever the callers
\* that claimed them did since, so waiting for `>= target` is enough
\* (wait_for_sync_generation).
CompletedInOrder == [][completed' >= completed /\ completed' <= nextGen']_loopVars

\* The loop's task has died of a panic, or a caller was cancelled: a claim may
\* then never be queued.
Disturbed == loop.pc = "dead" \/ cancels > 0

\* Whoever was answered for a synchronization, coalesced or not, sees it
\* complete: the handler runs it and the retained generation reaches it.
AnsweredSyncCompletes ==
    \A c \in Callers, g \in 1 .. MaxSyncs :
        told[c] = g ~> (completed >= g \/ Disturbed)

=============================================================================
