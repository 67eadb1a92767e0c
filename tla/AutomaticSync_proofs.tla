------------------------- MODULE AutomaticSync_proofs -------------------------
(***************************************************************************)
(* Theorems about the command loop and the scheduler around it, for any    *)
(* number of sessions, any capacity, any intervals and any number of       *)
(* synchronizations, saves, cancelled callers and panics.                  *)
(***************************************************************************)
EXTENDS StatusReader, TLAPS

-----------------------------------------------------------------------------
(* The invariant of the loop                                               *)

\* The three places a claim can be in: with the caller that claimed it, in the
\* channel, in the loop's hand.
Sends(c) == caller[c].pc = "sending" /\ caller[c].cmd = "sync"
Waits(i) == queue[i].cmd = "sync"
Held     == loop.req.cmd = "sync" /\ loop.pc \in {"handling", "handled"}

Places == 1 .. Len(queue)

\* A standing claim is in one place, with its generation, and nothing else is.
OneClaim ==
    loop.pc # "dead" =>
      /\ \A c \in Callers : Sends(c) =>
            /\ slot # 0 /\ caller[c].gen = slot /\ ~Held
            /\ \A d \in Callers : Sends(d) => d = c
            /\ \A i \in Places : ~Waits(i)
      /\ \A i \in Places : Waits(i) =>
            /\ slot # 0 /\ queue[i].gen = slot /\ ~Held
            /\ \A j \in Places : Waits(j) => j = i
      /\ Held => slot # 0 /\ loop.req.gen = slot
      /\ slot # 0 => \/ Held
                     \/ \E c \in Callers : Sends(c)
                     \/ \E i \in Places : Waits(i)

\* Generations complete in the order of their claims.
InOrder ==
    /\ slot <= nextGen /\ completed <= nextGen
    /\ loop.pc # "dead" /\ slot # 0 => completed < slot
    /\ loop.pc = "cleared" =>
         /\ completed < loop.req.gen /\ loop.req.gen <= nextGen
         /\ slot # 0 => loop.req.gen < slot

\* A request on its way is the only one of a caller that waits for it.
OneRequest ==
    /\ loop.req.from \in Callers =>
         /\ caller[loop.req.from].pc = "waiting"
         /\ \A i \in Places : queue[i].from # loop.req.from
    /\ \A i \in Places : queue[i].from \in Callers =>
         /\ caller[queue[i].from].pc = "waiting"
         /\ \A j \in Places : queue[j].from = queue[i].from => j = i

LoopInv == LoopTypeOK /\ OneClaim /\ InOrder /\ OneRequest

\* Everything the steps below have to look at.
USE DEF Sends, Waits, Held, Places

-----------------------------------------------------------------------------
(* Steps of the callers                                                    *)

\* The invariant survives Claim.
LEMMA ClaimKeeps ==
    ASSUME LoopInv, NEW c \in Callers, Claim(c)
    PROVE  LoopInv'
<1>1. /\ slot = 0 /\ slot' = nextGen + 1 /\ nextGen' = nextGen + 1 /\ nextGen + 1 \in 1 .. MaxSyncs
      /\ UNCHANGED <<completed, queue, loop, told, cancels, panics>>
      /\ caller' = [caller EXCEPT ![c] = [pc |-> "sending", cmd |-> "sync", gen |-> nextGen + 1]]
  BY LoopAssumption DEF LoopInv, LoopTypeOK, Claim
<1>2. LoopTypeOK'
  BY <1>1 DEF LoopInv, LoopTypeOK, Commands
<1>3. /\ caller'[c] = [pc |-> "sending", cmd |-> "sync", gen |-> nextGen + 1]
      /\ \A d \in Callers \ {c} : caller'[d] = caller[d]
  BY <1>1 DEF LoopInv, LoopTypeOK
<1>4. OneClaim'
  BY <1>1, <1>3 DEF LoopInv, OneClaim
<1>5. InOrder'
  <2>1. /\ nextGen \in Nat /\ completed \in Nat /\ completed <= nextGen
        /\ loop.req.gen \in Nat
        /\ loop.pc = "cleared" => completed < loop.req.gen /\ loop.req.gen <= nextGen
    BY LoopAssumption DEF LoopInv, InOrder, LoopTypeOK, Requests
  <2>2. QED BY <1>1, <2>1 DEF InOrder
<1>6. OneRequest'
  BY <1>1, <1>3 DEF LoopInv, OneRequest, Claim
<1>7. QED BY <1>2, <1>4, <1>5, <1>6 DEF LoopInv

\* The invariant survives Coalesce.
LEMMA CoalesceKeeps ==
    ASSUME LoopInv, NEW c \in Callers, Coalesce(c)
    PROVE  LoopInv'
BY DEF LoopInv, LoopTypeOK, OneClaim, InOrder, OneRequest, Coalesce

\* The invariant survives Ask.
LEMMA AskKeeps ==
    ASSUME LoopInv, NEW c \in Callers, NEW cmd \in {"save", "other"}, Ask(c, cmd)
    PROVE  LoopInv'
<1>1. /\ caller[c].pc = "idle"
      /\ UNCHANGED <<slot, nextGen, completed, queue, loop, told, cancels, panics>>
      /\ caller' = [caller EXCEPT ![c] = [pc |-> "sending", cmd |-> cmd, gen |-> 0]]
  BY DEF Ask
<1>2. LoopTypeOK'
  BY <1>1, LoopAssumption DEF LoopInv, LoopTypeOK, Commands
<1>3. /\ caller'[c] = [pc |-> "sending", cmd |-> cmd, gen |-> 0]
      /\ \A d \in Callers \ {c} : caller'[d] = caller[d]
  BY <1>1 DEF LoopInv, LoopTypeOK
<1>4. OneClaim' /\ OneRequest'
  BY <1>1, <1>3 DEF LoopInv, OneClaim, OneRequest
<1>5. InOrder'
  BY <1>1 DEF LoopInv, InOrder
<1>6. QED BY <1>2, <1>4, <1>5 DEF LoopInv

\* The invariant survives Send.
LEMMA SendKeeps ==
    ASSUME LoopInv, NEW c \in Callers, Send(c)
    PROVE  LoopInv'
<1> DEFINE r == Request(c)
<1>1. /\ caller[c].pc = "sending" /\ Len(queue) < Capacity
      /\ queue' = Append(queue, r) /\ caller' = [caller EXCEPT ![c].pc = "waiting"]
      /\ UNCHANGED <<slot, nextGen, completed, loop, told, cancels, panics>>
  BY DEF Send
<1>2. r \in Requests /\ r.from = c /\ r.cmd = caller[c].cmd /\ r.gen = caller[c].gen
  BY DEF LoopInv, LoopTypeOK, Request, Requests
<1> HIDE DEF r
<1>3. /\ queue \in Seq(Requests) /\ Len(queue) \in Nat /\ Len(queue') = Len(queue) + 1
      /\ queue'[Len(queue) + 1] = r /\ \A i \in 1 .. Len(queue) : queue'[i] = queue[i]
      /\ queue' \in Seq(Requests) /\ Len(queue') <= Capacity
  BY <1>1, <1>2, LoopAssumption DEF LoopInv, LoopTypeOK
<1>4. /\ caller'[c].pc = "waiting" /\ caller'[c].cmd = caller[c].cmd
      /\ caller'[c].gen = caller[c].gen
      /\ \A d \in Callers \ {c} : caller'[d] = caller[d]
      /\ caller' \in [Callers -> [pc : {"idle", "sending", "waiting"}, cmd : Commands,
                                  gen : 0 .. MaxSyncs]]
  BY <1>1 DEF LoopInv, LoopTypeOK
<1>5. LoopTypeOK'
  BY <1>1, <1>3, <1>4 DEF LoopInv, LoopTypeOK
<1>6. OneClaim'
  BY <1>1, <1>2, <1>3, <1>4 DEF LoopInv, OneClaim
<1>7. InOrder'
  BY <1>1 DEF LoopInv, InOrder
<1>8. OneRequest'
  BY <1>1, <1>2, <1>3, <1>4 DEF LoopInv, OneRequest
<1>9. QED BY <1>5, <1>6, <1>7, <1>8 DEF LoopInv

\* The invariant survives SendFails.
LEMMA SendFailsKeeps ==
    ASSUME LoopInv, NEW c \in Callers, SendFails(c)
    PROVE  LoopInv'
<1>1. /\ caller[c].pc = "sending" /\ loop.pc = "dead"
      /\ slot' \in {0, slot} /\ caller' = [caller EXCEPT ![c] = AtRest]
      /\ UNCHANGED <<nextGen, completed, queue, loop, told, cancels, panics>>
  BY DEF SendFails
<1>2. /\ caller'[c] = AtRest /\ \A d \in Callers \ {c} : caller'[d] = caller[d]
  BY <1>1 DEF LoopInv, LoopTypeOK
<1>3. LoopTypeOK'
  BY <1>1, LoopAssumption DEF LoopInv, LoopTypeOK, AtRest, Commands
<1>4. OneClaim' /\ InOrder'
  BY <1>1, LoopAssumption DEF LoopInv, LoopTypeOK, OneClaim, InOrder
<1>5. OneRequest'
  BY <1>1, <1>2 DEF LoopInv, OneRequest
<1>6. QED BY <1>3, <1>4, <1>5 DEF LoopInv

\* The caller of a request that nobody waits for any more is Nobody.
LEMMA CancelKeeps ==
    ASSUME LoopInv, NEW c \in Callers, Cancel(c)
    PROVE  LoopInv'
<1>1. /\ caller' = [caller EXCEPT ![c] = AtRest] /\ cancels' \in 0 .. MaxCancels
      /\ UNCHANGED <<nextGen, completed, told, panics>>
  BY LoopAssumption DEF Cancel, LoopInv, LoopTypeOK
<1>2. /\ caller'[c] = AtRest /\ \A d \in Callers \ {c} : caller'[d] = caller[d]
      /\ caller' \in [Callers -> [pc : {"idle", "sending", "waiting"}, cmd : Commands,
                                  gen : 0 .. MaxSyncs]]
  BY <1>1, LoopAssumption DEF LoopInv, LoopTypeOK, AtRest, Commands
<1>3. CASE CancelSend(c)
  <2>1. /\ caller[c].pc = "sending" /\ UNCHANGED <<queue, loop>>
        /\ slot' = IF caller[c].cmd = "sync" THEN 0 ELSE slot
    BY <1>3 DEF CancelSend
  <2>2. LoopTypeOK'
    BY <1>1, <1>2, <2>1, LoopAssumption DEF LoopInv, LoopTypeOK
  <2>3. OneClaim'
    BY <1>1, <1>2, <2>1 DEF LoopInv, OneClaim, AtRest
  <2>4. InOrder'
    BY <1>1, <2>1, LoopAssumption DEF LoopInv, LoopTypeOK, InOrder
  <2>5. OneRequest'
    BY <1>1, <1>2, <2>1 DEF LoopInv, OneRequest
  <2>6. QED BY <2>2, <2>3, <2>4, <2>5 DEF LoopInv
<1>4. CASE CancelWait(c)
  <2> DEFINE Orphan(r) == IF r.from = c THEN [r EXCEPT !.from = Nobody] ELSE r
  <2>1. /\ caller[c].pc = "waiting" /\ slot' = slot
        /\ queue' = [i \in DOMAIN queue |-> Orphan(queue[i])]
        /\ loop' = [loop EXCEPT !.req = Orphan(@)]
    BY <1>4 DEF CancelWait
  <2>2. ASSUME NEW r \in Requests
        PROVE  /\ Orphan(r) \in Requests /\ Orphan(r).cmd = r.cmd /\ Orphan(r).gen = r.gen
               /\ Orphan(r).from = IF r.from = c THEN Nobody ELSE r.from
    BY DEF Requests
  <2> HIDE DEF Orphan
  <2>3. /\ Len(queue) \in Nat /\ Len(queue') = Len(queue) /\ queue' \in Seq(Requests)
        /\ \A i \in 1 .. Len(queue) : queue[i] \in Requests /\ queue'[i] = Orphan(queue[i])
    BY <2>1, <2>2 DEF LoopInv, LoopTypeOK
  <2>4. \A i \in 1 .. Len(queue) :
          /\ queue'[i].cmd = queue[i].cmd /\ queue'[i].gen = queue[i].gen
          /\ queue'[i].from = IF queue[i].from = c THEN Nobody ELSE queue[i].from
    BY <2>2, <2>3
  <2>5. /\ loop'.pc = loop.pc /\ loop'.req.cmd = loop.req.cmd /\ loop'.req.gen = loop.req.gen
        /\ loop'.req.from = IF loop.req.from = c THEN Nobody ELSE loop.req.from
        /\ loop' \in [pc : {"recv", "handling", "handled", "cleared", "finished", "dead"},
                      req : Requests]
    BY <2>1, <2>2 DEF LoopInv, LoopTypeOK
  <2>6. LoopTypeOK'
    BY <1>1, <1>2, <2>1, <2>3, <2>5 DEF LoopInv, LoopTypeOK
  <2>7. OneClaim'
    <3>1. \A d \in Callers : Sends(d)' <=> Sends(d)
      BY <1>2, <2>1 DEF AtRest
    <3>2. \A d \in Callers : Sends(d) => caller'[d] = caller[d]
      BY <1>2, <2>1
    <3>3. (Held' <=> Held) /\ \A i \in Places : Waits(i)' <=> Waits(i)
      BY <2>4, <2>5
    <3>4. Places' = Places /\ slot' = slot
      BY <2>1, <2>3
    <3>5. QED BY <1>1, <2>4, <2>5, <3>1, <3>2, <3>3, <3>4 DEF LoopInv, OneClaim
  <2>8. InOrder'
    BY <1>1, <2>1, <2>5 DEF LoopInv, InOrder
  <2>9. OneRequest'
    BY <1>2, <2>3, <2>4, <2>5, LoopAssumption DEF LoopInv, OneRequest, Callers
  <2>10. QED BY <2>6, <2>7, <2>8, <2>9 DEF LoopInv
<1>5. QED BY <1>3, <1>4 DEF Cancel

-----------------------------------------------------------------------------
(* Steps of the loop                                                       *)

\* The invariant survives Receive.
LEMMA ReceiveKeeps ==
    ASSUME LoopInv, Receive
    PROVE  LoopInv'
<1>1. /\ loop.pc = "recv" /\ queue # <<>>
      /\ loop' = [pc |-> "handling", req |-> Head(queue)] /\ queue' = Tail(queue)
      /\ UNCHANGED <<slot, nextGen, completed, caller, told, cancels, panics>>
  BY DEF Receive
<1>2. /\ queue \in Seq(Requests) /\ Len(queue) \in Nat \ {0} /\ Head(queue) = queue[1]
      /\ queue' \in Seq(Requests) /\ Len(queue') = Len(queue) - 1
      /\ \A i \in 1 .. Len(queue') : queue'[i] = queue[i + 1]
      /\ queue[1] \in Requests
  BY <1>1 DEF LoopInv, LoopTypeOK
<1>3. LoopTypeOK'
  BY <1>1, <1>2, LoopAssumption DEF LoopInv, LoopTypeOK
<1>4. OneClaim'
  <2>1. /\ loop'.pc = "handling" /\ loop'.req = queue[1] /\ ~Held /\ loop.pc # "dead"
    BY <1>1, <1>2
  <2>2. Held' <=> Waits(1)
    BY <2>1
  <2>3. \A i \in 1 .. Len(queue') : i + 1 \in 1 .. Len(queue) /\ (Waits(i)' <=> Waits(i + 1))
    BY <1>2
  <2>4. \A i \in 2 .. Len(queue) : i - 1 \in 1 .. Len(queue') /\ i = (i - 1) + 1
    BY <1>2
  <2>5. 1 \in 1 .. Len(queue)
    BY <1>2
  <2>6. \A c \in Callers : Sends(c) => ~Waits(1) /\ \A i \in 1 .. Len(queue') : ~Waits(i)'
    BY <2>1, <2>3, <2>5 DEF LoopInv, OneClaim
  <2>7. ASSUME NEW i \in 1 .. Len(queue'), Waits(i)'
        PROVE  /\ slot # 0 /\ queue'[i].gen = slot /\ ~Waits(1)
               /\ \A j \in 1 .. Len(queue') : Waits(j)' => j = i
    BY <1>2, <2>1, <2>3, <2>5, <2>7 DEF LoopInv, OneClaim
  <2>8. Waits(1) => slot # 0 /\ queue[1].gen = slot
    BY <2>1, <2>5 DEF LoopInv, OneClaim
  <2>9. ASSUME slot # 0, ~Waits(1), \A c \in Callers : ~Sends(c)
        PROVE  \E i \in 1 .. Len(queue') : Waits(i)'
    <3>1. PICK i \in 1 .. Len(queue) : Waits(i)
      BY <2>1, <2>9 DEF LoopInv, OneClaim
    <3>2. i \in 2 .. Len(queue)
      BY <1>2, <2>9, <3>1
    <3>3. QED BY <1>2, <2>3, <2>4, <3>1, <3>2
  <2>10. QED BY <1>1, <2>1, <2>2, <2>6, <2>7, <2>8, <2>9 DEF OneClaim, LoopInv
<1>5. InOrder'
  BY <1>1 DEF LoopInv, InOrder
<1>6. OneRequest'
  BY <1>1, <1>2 DEF LoopInv, OneRequest
<1>7. QED BY <1>3, <1>4, <1>5, <1>6 DEF LoopInv

\* The invariant survives HandlerReturns.
LEMMA HandlerReturnsKeeps ==
    ASSUME LoopInv, HandlerReturns
    PROVE  LoopInv'
<1>1. /\ loop.pc = "handling" /\ loop'.pc = "handled" /\ loop'.req = loop.req
      /\ loop' \in [pc : {"recv", "handling", "handled", "cleared", "finished", "dead"},
                    req : Requests]
      /\ UNCHANGED <<slot, nextGen, completed, queue, caller, told, cancels, panics>>
  BY DEF HandlerReturns, LoopInv, LoopTypeOK
<1>2. LoopTypeOK' /\ OneClaim' /\ InOrder' /\ OneRequest'
  BY <1>1 DEF LoopInv, LoopTypeOK, OneClaim, InOrder, OneRequest
<1>3. QED BY <1>2 DEF LoopInv

\* The invariant survives HandlerPanics.
LEMMA HandlerPanicsKeeps ==
    ASSUME LoopInv, HandlerPanics
    PROVE  LoopInv'
<1>1. /\ loop' = [pc |-> "dead", req |-> NoRequest] /\ queue' = <<>>
      /\ caller' = [c \in Callers |-> IF caller[c].pc = "waiting" THEN AtRest ELSE caller[c]]
      /\ panics' \in 0 .. MaxPanics
      /\ UNCHANGED <<slot, nextGen, completed, told, cancels>>
  BY LoopAssumption DEF HandlerPanics, LoopInv, LoopTypeOK
<1>2. NoRequest \in Requests /\ NoRequest.from \notin Callers /\ AtRest.gen = 0
  BY LoopAssumption DEF NoRequest, Requests, Commands, Callers, AtRest
<1>3. LoopTypeOK'
  BY <1>1, <1>2, LoopAssumption DEF LoopInv, LoopTypeOK, AtRest, Commands
<1>4. Len(queue') = 0
  BY <1>1
<1>5. OneClaim' /\ InOrder' /\ OneRequest'
  BY <1>1, <1>2, <1>4 DEF LoopInv, OneClaim, InOrder, OneRequest
<1>6. QED BY <1>3, <1>5 DEF LoopInv

\* The invariant survives ClearClaim.
LEMMA ClearClaimKeeps ==
    ASSUME LoopInv, ClearClaim
    PROVE  LoopInv'
<1>1. /\ loop.pc = "handled" /\ loop.req.cmd = "sync" /\ slot' = 0
      /\ loop'.pc = "cleared" /\ loop'.req = loop.req
      /\ loop' \in [pc : {"recv", "handling", "handled", "cleared", "finished", "dead"},
                    req : Requests]
      /\ UNCHANGED <<nextGen, completed, queue, caller, told, cancels, panics>>
  BY DEF ClearClaim, LoopInv, LoopTypeOK
<1>2. loop.req.gen = slot /\ slot # 0 /\ completed < slot /\ slot <= nextGen
  BY <1>1 DEF LoopInv, OneClaim, InOrder
<1>3. LoopTypeOK'
  BY <1>1, LoopAssumption DEF LoopInv, LoopTypeOK
<1>4. OneClaim'
  BY <1>1 DEF LoopInv, OneClaim
<1>5. InOrder' /\ OneRequest'
  BY <1>1, <1>2, LoopAssumption DEF LoopInv, LoopTypeOK, InOrder, OneRequest
<1>6. QED BY <1>3, <1>4, <1>5 DEF LoopInv

\* The invariant survives Complete.
LEMMA CompleteKeeps ==
    ASSUME LoopInv, Complete
    PROVE  LoopInv'
<1>1. /\ loop.pc = "cleared" /\ completed' = loop.req.gen
      /\ loop'.pc = "finished" /\ loop'.req = loop.req
      /\ loop' \in [pc : {"recv", "handling", "handled", "cleared", "finished", "dead"},
                    req : Requests]
      /\ UNCHANGED <<slot, nextGen, queue, caller, told, cancels, panics>>
  BY DEF Complete, LoopInv, LoopTypeOK
<1>2. loop.req.gen \in 0 .. MaxSyncs
  BY DEF LoopInv, LoopTypeOK, Requests
<1>3. LoopTypeOK'
  BY <1>1, <1>2 DEF LoopInv, LoopTypeOK
<1>4. OneClaim' /\ InOrder' /\ OneRequest'
  BY <1>1 DEF LoopInv, OneClaim, InOrder, OneRequest
<1>5. QED BY <1>3, <1>4 DEF LoopInv

\* The invariant survives Respond.
LEMMA RespondKeeps ==
    ASSUME LoopInv, Respond
    PROVE  LoopInv'
<1>1. /\ loop.pc \in {"finished", "handled"} /\ ~Held
      /\ loop' = [pc |-> "recv", req |-> NoRequest]
      /\ caller' = [c \in Callers |-> IF c = loop.req.from THEN AtRest ELSE caller[c]]
      /\ told' = [c \in Callers |->
                    IF c = loop.req.from /\ loop.req.cmd = "sync" THEN loop.req.gen ELSE told[c]]
      /\ UNCHANGED <<slot, nextGen, completed, queue, cancels, panics>>
  BY DEF Respond
<1>2. NoRequest \in Requests /\ NoRequest.from \notin Callers /\ AtRest.gen = 0
  BY LoopAssumption DEF NoRequest, Requests, Commands, Callers, AtRest
<1>3. LoopTypeOK'
  BY <1>1, <1>2, LoopAssumption DEF LoopInv, LoopTypeOK, AtRest, Commands, Requests
<1>4. \A c \in Callers : (Sends(c)' <=> Sends(c)) /\ (Sends(c) => caller'[c] = caller[c])
  BY <1>1 DEF LoopInv, OneRequest, AtRest
<1>5. OneClaim'
  BY <1>1, <1>4 DEF LoopInv, OneClaim
<1>6. InOrder'
  BY <1>1 DEF LoopInv, InOrder
<1>7. OneRequest'
  BY <1>1, <1>2 DEF LoopInv, OneRequest
<1>8. QED BY <1>3, <1>5, <1>6, <1>7 DEF LoopInv

-----------------------------------------------------------------------------
(* The invariant of the publisher and the scheduler                        *)

\* Before the startup activation nobody has asked for anything, and the
\* scheduler has nothing to arm.
BootInv ==
    stage = "boot" =>
      /\ input.gen = 0 /\ ~input.configured
      /\ loop.pc = "recv" /\ queue = <<>> /\ \A c \in Callers : caller[c].pc = "idle"
      /\ sched.pc \in {"top", "disarming", "unconfigured"}

\* A save is under way only while the loop handles it.
StageInv ==
    /\ stage \in {"saved", "activated"} => loop.pc = "handling" /\ loop.req.cmd = "save"
    /\ stage = "saved" => input.gen <= MaxSaves

\* Between the steps of an activation, status and input are of one generation
\* and the input has the interval of the settings.
PublishedInv ==
    loop.pc # "dead" =>
      /\ stage \notin {"booted", "activated"} => status.gen = input.gen
      /\ stage \notin {"boot", "saved"} => input.interval = settings.interval

\* What the scheduler knows of the input it has taken.
TakenInv ==
    /\ input.configured => input.interval \in Intervals
    /\ seen = sched.gen /\ sched.gen <= input.gen
    /\ sched.gen = input.gen =>
         sched.latest = IF input.configured THEN input.interval ELSE 0
    /\ sched.pc \in {"arming", "armed", "due"} => sched.latest # 0

\* A deadline that stands in the schedule is the scheduler's own, or of an
\* earlier generation.
ShownInv ==
    schedule.next =>
      /\ sched.pc \in {"top", "arming", "disarming", "armed", "due"}
      /\ sched.pc \in {"armed", "due"} => schedule.gen = sched.gen
      /\ sched.pc = "top" => schedule.gen < input.gen
      /\ sched.pc \in {"arming", "disarming"} => schedule.gen < sched.gen

PublisherInv == ScheduleTypeOK /\ BootInv /\ StageInv /\ PublishedInv /\ TakenInv /\ ShownInv

\* The inductive invariant.
SyncInv == LoopInv /\ PublisherInv

USE DEF publisherVars, schedulerVars, Statuses, Blank

\* A step of the callers and the loop that leaves a save in hand alone.
LEMMA LoopMoves ==
    ASSUME PublisherInv, UNCHANGED <<publisherVars, schedulerVars>>, stage # "boot",
           loop'.pc # "dead" => loop.pc # "dead",
           stage \in {"saved", "activated"} =>
             loop'.pc = loop.pc /\ loop'.req.cmd = loop.req.cmd
    PROVE  PublisherInv'
BY DEF PublisherInv, ScheduleTypeOK, BootInv, StageInv, PublishedInv, TakenInv, ShownInv

-----------------------------------------------------------------------------
(* Steps of the publisher and the handlers                                 *)

\* Activating a configuration keeps the schedule's type (activate_configuration).
LEMMA ActivationTypes ==
    ASSUME ScheduleTypeOK, input.gen <= MaxSaves, ActivateConfiguration
    PROVE  /\ input' \in [configured : BOOLEAN, interval : Intervals \cup {0},
                          gen : Generations]
           /\ input'.gen = input.gen + 1 /\ input'.interval = settings.interval
           /\ input'.interval \in Intervals
BY IntervalsAssumption DEF ScheduleTypeOK, ActivateConfiguration, Generations, Settings

\* The invariant survives StartupActivation.
LEMMA StartupActivationKeeps ==
    ASSUME PublisherInv, StartupActivation
    PROVE  PublisherInv'
<1>1. /\ stage = "boot" /\ stage' = "booted" /\ ActivateConfiguration /\ input.gen <= MaxSaves
      /\ UNCHANGED <<loopVars, settings, active, status, schedulerVars>>
  BY IntervalsAssumption DEF StartupActivation, PublisherInv, BootInv
<1>2. /\ input'.gen = input.gen + 1 /\ input'.interval = settings.interval
      /\ input'.interval \in Intervals /\ input.gen \in Nat
      /\ input' \in [configured : BOOLEAN, interval : Intervals \cup {0}, gen : Generations]
  BY <1>1, ActivationTypes DEF PublisherInv, ScheduleTypeOK, Generations
<1>3. ScheduleTypeOK'
  BY <1>1, <1>2 DEF PublisherInv, ScheduleTypeOK
<1>4. BootInv' /\ StageInv' /\ PublishedInv'
  BY <1>1, <1>2 DEF BootInv, StageInv, PublishedInv
<1>5. TakenInv' /\ ShownInv'
  BY <1>1, <1>2 DEF PublisherInv, ScheduleTypeOK, Generations, TakenInv, ShownInv
<1>6. QED BY <1>3, <1>4, <1>5 DEF PublisherInv

\* The invariant survives ActivateScheduler.
LEMMA ActivateSchedulerKeeps ==
    ASSUME PublisherInv, ActivateScheduler
    PROVE  PublisherInv'
<1>1. /\ stage = "saved" /\ stage' = "activated" /\ ActivateConfiguration
      /\ input.gen <= MaxSaves
      /\ UNCHANGED <<loopVars, settings, active, status, schedulerVars>>
  BY DEF ActivateScheduler, PublisherInv, StageInv
<1>2. /\ input'.gen = input.gen + 1 /\ input'.interval = settings.interval
      /\ input'.interval \in Intervals /\ input.gen \in Nat
      /\ input' \in [configured : BOOLEAN, interval : Intervals \cup {0}, gen : Generations]
  BY <1>1, ActivationTypes DEF PublisherInv, ScheduleTypeOK, Generations
<1>3. ScheduleTypeOK'
  BY <1>1, <1>2 DEF PublisherInv, ScheduleTypeOK
<1>4. BootInv' /\ StageInv' /\ PublishedInv'
  BY <1>1, <1>2 DEF PublisherInv, BootInv, StageInv, PublishedInv, loopVars
<1>5. TakenInv' /\ ShownInv'
  BY <1>1, <1>2 DEF PublisherInv, ScheduleTypeOK, Generations, TakenInv, ShownInv
<1>6. QED BY <1>3, <1>4, <1>5 DEF PublisherInv

\* The snapshot that is published has the generation of the input.
LEMMA PublishTypes ==
    ASSUME ScheduleTypeOK, active' \in BOOLEAN, input' = input, Publish
    PROVE  /\ status' \in [configured : BOOLEAN, gen : Generations]
           /\ status'.gen = input.gen
BY DEF ScheduleTypeOK, Publish

\* The invariant survives StartupPublication.
LEMMA StartupPublicationKeeps ==
    ASSUME PublisherInv, StartupPublication
    PROVE  PublisherInv'
<1>1. /\ stage = "booted" /\ stage' = "none" /\ Publish
      /\ UNCHANGED <<loopVars, settings, active, input, schedulerVars>>
  BY DEF StartupPublication
<1>2. /\ status' \in [configured : BOOLEAN, gen : Generations] /\ status'.gen = input.gen
  BY <1>1, PublishTypes DEF PublisherInv, ScheduleTypeOK
<1>3. QED BY <1>1, <1>2 DEF PublisherInv, ScheduleTypeOK, BootInv, StageInv, PublishedInv,
                            TakenInv, ShownInv, loopVars

\* The invariant survives SaveSettings.
LEMMA SaveSettingsKeeps ==
    ASSUME PublisherInv, SaveSettings
    PROVE  PublisherInv'
<1>1. /\ loop.pc = "handling" /\ loop.req.cmd = "save" /\ stage = "none" /\ stage' = "saved"
      /\ input.gen <= MaxSaves /\ settings' \in Settings /\ active' \in BOOLEAN /\ Publish
      /\ UNCHANGED <<loopVars, input, schedulerVars>>
  BY DEF SaveSettings, Handling, SavedSettings, Settings
<1>2. /\ status' \in [configured : BOOLEAN, gen : Generations] /\ status'.gen = input.gen
  BY <1>1, PublishTypes DEF PublisherInv
<1>3. QED BY <1>1, <1>2 DEF PublisherInv, ScheduleTypeOK, BootInv, StageInv, PublishedInv,
                            TakenInv, ShownInv, loopVars

\* The invariant survives SyncStarts.
LEMMA SyncStartsKeeps ==
    ASSUME PublisherInv, SyncStarts
    PROVE  PublisherInv'
<1>1. /\ stage = "none" /\ stage' = "syncing" /\ active' \in BOOLEAN /\ Publish
      /\ UNCHANGED <<loopVars, settings, input, schedulerVars>>
  BY DEF SyncStarts
<1>2. /\ status' \in [configured : BOOLEAN, gen : Generations] /\ status'.gen = input.gen
  BY <1>1, PublishTypes DEF PublisherInv
<1>3. QED BY <1>1, <1>2 DEF PublisherInv, ScheduleTypeOK, BootInv, StageInv, PublishedInv,
                            TakenInv, ShownInv, loopVars

\* The invariant survives HandlerEnds.
LEMMA HandlerEndsKeeps ==
    ASSUME PublisherInv, HandlerEnds
    PROVE  PublisherInv'
<1>1. /\ stage \notin {"boot", "saved"} /\ stage' = "none" /\ loop.pc = "handling"
      /\ active' \in BOOLEAN /\ Publish
      /\ UNCHANGED <<settings, input, schedulerVars>>
  BY DEF HandlerEnds, SyncEnds, OtherEnds, HandlerReturns, Handling, PublisherInv, BootInv,
         StageInv, ScheduleTypeOK
<1>2. /\ status' \in [configured : BOOLEAN, gen : Generations] /\ status'.gen = input.gen
  BY <1>1, PublishTypes DEF PublisherInv
<1>3. QED BY <1>1, <1>2 DEF PublisherInv, ScheduleTypeOK, BootInv, StageInv, PublishedInv,
                            TakenInv, ShownInv

\* The invariant survives HandlerDies.
LEMMA HandlerDiesKeeps ==
    ASSUME PublisherInv, HandlerDies
    PROVE  PublisherInv'
<1>1. /\ stage' = "none" /\ loop'.pc = "dead"
      /\ UNCHANGED <<settings, active, input, status, schedulerVars>>
  BY DEF HandlerDies, HandlerPanics
<1>2. QED BY <1>1 DEF PublisherInv, ScheduleTypeOK, BootInv, StageInv, PublishedInv,
                      TakenInv, ShownInv

-----------------------------------------------------------------------------
(* Steps of the scheduler                                                  *)

SchedulerPCs ==
    {"top", "arming", "disarming", "unconfigured", "armed", "due", "enqueue", "sending",
     "answer", "awaiting", "stopped"}

SchedulerRecords ==
    [pc : SchedulerPCs, gen : Generations, latest : Intervals \cup {0},
     interval : Intervals \cup {0}, target : 0 .. MaxSyncs]

\* The scheduler moves from one step to another, and is not seen to by others.
LEMMA StepTypes ==
    ASSUME ScheduleTypeOK, NEW pc \in SchedulerPCs, Step(pc)
    PROVE  /\ sched' \in SchedulerRecords /\ sched'.pc = pc
           /\ sched'.gen = sched.gen /\ sched'.latest = sched.latest
BY DEF ScheduleTypeOK, SchedulerPCs, SchedulerRecords, Step

\* The invariant survives TakeInput.
LEMMA TakeInputKeeps ==
    ASSUME PublisherInv, TakeInput
    PROVE  PublisherInv'
<1>1. /\ sched.pc = "top" /\ seen' = input.gen
      /\ UNCHANGED <<loopVars, publisherVars, schedule>>
      /\ sched' \in SchedulerRecords
      /\ sched'.pc = IF input.configured THEN "arming" ELSE "disarming"
      /\ sched'.gen = input.gen
      /\ sched'.latest = IF input.configured THEN input.interval ELSE 0
  BY DEF TakeInput, PublisherInv, ScheduleTypeOK, SchedulerPCs, SchedulerRecords
<1>2. ScheduleTypeOK'
  BY <1>1 DEF PublisherInv, ScheduleTypeOK, SchedulerPCs, SchedulerRecords
<1>3. BootInv' /\ StageInv' /\ PublishedInv'
  BY <1>1 DEF PublisherInv, BootInv, StageInv, PublishedInv, loopVars
<1>4. TakenInv' /\ ShownInv'
  BY <1>1, IntervalsAssumption
     DEF PublisherInv, ScheduleTypeOK, Generations, TakenInv, ShownInv
<1>5. QED BY <1>2, <1>3, <1>4 DEF PublisherInv

\* The invariant survives Disarm.
LEMMA DisarmKeeps ==
    ASSUME PublisherInv, Disarm
    PROVE  PublisherInv'
<1>1. /\ sched.pc = "disarming" /\ sched'.pc = "unconfigured"
      /\ sched'.gen = sched.gen /\ sched'.latest = sched.latest
      /\ sched' \in SchedulerRecords /\ schedule' = [gen |-> sched.gen, next |-> FALSE]
      /\ UNCHANGED <<loopVars, publisherVars, seen>>
  BY DEF Disarm, PublisherInv, ScheduleTypeOK, SchedulerPCs, SchedulerRecords
<1>2. ScheduleTypeOK'
  BY <1>1 DEF PublisherInv, ScheduleTypeOK, SchedulerPCs, SchedulerRecords
<1>3. QED BY <1>1, <1>2 DEF PublisherInv, BootInv, StageInv, PublishedInv, TakenInv, ShownInv,
                            loopVars

\* The invariant survives Arm.
LEMMA ArmKeeps ==
    ASSUME PublisherInv, Arm
    PROVE  PublisherInv'
<1>1. /\ sched.pc = "arming" /\ sched'.pc = "armed"
      /\ sched'.gen = sched.gen /\ sched'.latest = sched.latest
      /\ sched' \in SchedulerRecords /\ schedule' = [gen |-> sched.gen, next |-> TRUE]
      /\ UNCHANGED <<loopVars, publisherVars, seen>>
  BY DEF Arm, PublisherInv, ScheduleTypeOK, SchedulerPCs, SchedulerRecords
<1>2. ScheduleTypeOK'
  BY <1>1 DEF PublisherInv, ScheduleTypeOK, SchedulerPCs, SchedulerRecords
<1>3. QED BY <1>1, <1>2 DEF PublisherInv, BootInv, StageInv, PublishedInv, TakenInv, ShownInv,
                            loopVars

\* The invariant survives InputChanged.
LEMMA InputChangedKeeps ==
    ASSUME PublisherInv, InputChanged
    PROVE  PublisherInv'
<1>1. /\ sched.pc \in {"armed", "unconfigured"} /\ input.gen # seen
      /\ sched' \in SchedulerRecords /\ sched'.pc = "top"
      /\ sched'.gen = sched.gen /\ sched'.latest = sched.latest
      /\ UNCHANGED <<loopVars, publisherVars, seen, schedule>>
  BY StepTypes DEF InputChanged, PublisherInv, SchedulerPCs
<1>2. ScheduleTypeOK'
  BY <1>1 DEF PublisherInv, ScheduleTypeOK, SchedulerPCs, SchedulerRecords
<1>3. stage # "boot"
  BY <1>1 DEF PublisherInv, BootInv, TakenInv, ScheduleTypeOK, Generations
<1>4. BootInv' /\ StageInv' /\ PublishedInv' /\ TakenInv'
  BY <1>1, <1>3 DEF PublisherInv, BootInv, StageInv, PublishedInv, TakenInv, loopVars
<1>5. ShownInv'
  BY <1>1 DEF PublisherInv, TakenInv, ShownInv, ScheduleTypeOK, Generations
<1>6. QED BY <1>2, <1>4, <1>5 DEF PublisherInv

\* The invariant survives Deadline.
LEMMA DeadlineKeeps ==
    ASSUME PublisherInv, DeadlinePasses
    PROVE  PublisherInv'
<1>1. /\ sched.pc = "armed" /\ sched'.pc = "due"
      /\ sched'.gen = sched.gen /\ sched'.latest = sched.latest
      /\ sched' \in SchedulerRecords
      /\ UNCHANGED <<loopVars, publisherVars, seen, schedule>>
  BY DEF DeadlinePasses, PublisherInv, ScheduleTypeOK, SchedulerPCs, SchedulerRecords
<1>2. ScheduleTypeOK'
  BY <1>1 DEF PublisherInv, ScheduleTypeOK, SchedulerPCs, SchedulerRecords
<1>3. QED BY <1>1, <1>2 DEF PublisherInv, BootInv, StageInv, PublishedInv, TakenInv, ShownInv,
                            loopVars

\* The invariant survives ClearNextSync.
LEMMA ClearNextSyncKeeps ==
    ASSUME PublisherInv, ClearNextSync
    PROVE  PublisherInv'
<1>1. /\ sched.pc = "due" /\ sched'.pc = "enqueue"
      /\ sched'.gen = sched.gen /\ sched'.latest = sched.latest
      /\ sched' \in SchedulerRecords /\ schedule' = [gen |-> sched.gen, next |-> FALSE]
      /\ UNCHANGED <<loopVars, publisherVars, seen>>
  BY StepTypes DEF ClearNextSync, PublisherInv, SchedulerPCs
<1>2. ScheduleTypeOK'
  BY <1>1 DEF PublisherInv, ScheduleTypeOK, SchedulerPCs, SchedulerRecords
<1>3. QED BY <1>1, <1>2 DEF PublisherInv, BootInv, StageInv, PublishedInv, TakenInv, ShownInv,
                            loopVars

\* A step of a scheduler whose deadline has been used up and taken from view.
LEMMA InFlightMoves ==
    ASSUME PublisherInv, UNCHANGED <<publisherVars, seen, schedule>>,
           InFlight, sched' \in SchedulerRecords,
           sched'.gen = sched.gen, sched'.latest = sched.latest,
           sched'.pc \in {"enqueue", "sending", "answer", "awaiting", "stopped", "top"},
           loop'.pc # "dead" => loop.pc # "dead",
           stage \in {"saved", "activated"} =>
             loop'.pc = loop.pc /\ loop'.req.cmd = loop.req.cmd
    PROVE  PublisherInv'
<1>1. ScheduleTypeOK'
  BY DEF PublisherInv, ScheduleTypeOK, SchedulerPCs, SchedulerRecords
<1>2. stage # "boot" /\ ~schedule.next
  BY DEF PublisherInv, BootInv, ShownInv, InFlight
<1>3. QED BY <1>1, <1>2 DEF PublisherInv, BootInv, StageInv, PublishedInv, TakenInv, ShownInv

\* The scheduler's requests are steps of the loop too.
LEMMA EnqueueKeeps ==
    ASSUME SyncInv, EnqueueClaims \/ EnqueueCoalesces \/ EnqueueSends \/ EnqueueFails
    PROVE  SyncInv'
<1>1. Automatic \in Callers /\ nextGen \in Nat /\ slot \in 0 .. MaxSyncs
      /\ ScheduleTypeOK
  BY DEF Callers, SyncInv, LoopInv, LoopTypeOK, PublisherInv
<1>2. CASE EnqueueClaims
  <2>1. LoopInv'
    BY <1>1, <1>2, ClaimKeeps DEF EnqueueClaims, SyncInv
  <2>2. nextGen' \in 0 .. MaxSyncs
    BY <2>1 DEF LoopInv, LoopTypeOK
  <2>3. PublisherInv'
    BY <1>1, <1>2, <2>2, InFlightMoves
       DEF EnqueueClaims, Claim, SyncInv, InFlight, ScheduleTypeOK, SchedulerPCs,
           SchedulerRecords
  <2>4. QED BY <2>1, <2>3 DEF SyncInv
<1>3. CASE EnqueueCoalesces
  <2>1. LoopInv'
    BY <1>1, <1>3, CoalesceKeeps DEF EnqueueCoalesces, SyncInv
  <2>2. PublisherInv'
    BY <1>1, <1>3, InFlightMoves
       DEF EnqueueCoalesces, Coalesce, SyncInv, InFlight, ScheduleTypeOK, SchedulerPCs,
           SchedulerRecords
  <2>3. QED BY <2>1, <2>2 DEF SyncInv
<1>4. CASE EnqueueSends
  <2>1. LoopInv'
    BY <1>1, <1>4, SendKeeps DEF EnqueueSends, SyncInv
  <2>2. PublisherInv'
    BY <1>1, <1>4, StepTypes, InFlightMoves
       DEF EnqueueSends, Send, SyncInv, InFlight, SchedulerPCs
  <2>3. QED BY <2>1, <2>2 DEF SyncInv
<1>5. CASE EnqueueFails
  <2>1. LoopInv'
    BY <1>1, <1>5, SendFailsKeeps DEF EnqueueFails, SyncInv
  <2>2. PublisherInv'
    BY <1>1, <1>5, StepTypes, InFlightMoves
       DEF EnqueueFails, SendFails, SyncInv, InFlight, SchedulerPCs
  <2>3. QED BY <2>1, <2>2 DEF SyncInv
<1>6. QED BY <1>2, <1>3, <1>4, <1>5

\* The invariant survives Await.
LEMMA AwaitKeeps ==
    ASSUME PublisherInv, TakeAnswer \/ AwaitCompletion
    PROVE  PublisherInv'
<1>1. ScheduleTypeOK
  BY DEF PublisherInv
<1>2. QED BY <1>1, StepTypes, InFlightMoves
             DEF TakeAnswer, AwaitCompletion, InFlight, SchedulerPCs, loopVars

-----------------------------------------------------------------------------
(* The theorems                                                            *)

\* A step that leaves the loop alone keeps the loop's invariant.
LEMMA LoopStays ==
    ASSUME LoopInv, UNCHANGED loopVars
    PROVE  LoopInv'
BY DEF loopVars, LoopInv, LoopTypeOK, OneClaim, InOrder, OneRequest

\* The invariant holds at the start of the service.
LEMMA InitialState ==
    ASSUME AutomaticInit
    PROVE  SyncInv
<1>1. NoRequest \in Requests /\ NoRequest.from \notin Callers /\ AtRest.gen = 0
  BY LoopAssumption DEF NoRequest, Requests, Commands, Callers, AtRest
<1>2. LoopTypeOK
  BY <1>1, LoopAssumption DEF AutomaticInit, LoopInit, LoopTypeOK, AtRest, Commands
<1>3. Len(queue) = 0
  BY DEF AutomaticInit, LoopInit
<1>4. OneClaim /\ InOrder /\ OneRequest
  BY <1>1, <1>3 DEF AutomaticInit, LoopInit, OneClaim, InOrder, OneRequest, AtRest, NoRequest
<1>5. ScheduleTypeOK
  BY LoopAssumption, IntervalsAssumption
     DEF AutomaticInit, ScheduleTypeOK, Generations, Settings
<1>6. BootInv /\ StageInv /\ PublishedInv /\ TakenInv /\ ShownInv
  BY <1>3 DEF AutomaticInit, LoopInit, BootInv, StageInv, PublishedInv, TakenInv, ShownInv,
              AtRest
<1>7. QED BY <1>2, <1>4, <1>5, <1>6 DEF SyncInv, LoopInv, PublisherInv

\* Steps of a session: none before the activation, and none takes a save in hand
\* away from the loop.
LEMMA SessionKeeps ==
    ASSUME SyncInv, NEW c \in Clients, ClientStep(c) \/ SendStep(c) \/ Cancel(c),
           UNCHANGED <<publisherVars, schedulerVars>>
    PROVE  SyncInv'
<1>1. c \in Callers
  BY DEF Callers
<1>2. LoopInv'
  BY <1>1, ClaimKeeps, CoalesceKeeps, AskKeeps, SendKeeps, SendFailsKeeps, CancelKeeps
     DEF ClientStep, SendStep, SyncInv
<1>3. stage # "boot"
  BY <1>1 DEF ClientStep, SendStep, Send, SendFails, Cancel, CancelSend, CancelWait, SyncInv,
              PublisherInv, BootInv
<1>4. loop'.pc = loop.pc /\ loop'.req.cmd = loop.req.cmd
  <2>1. CASE Cancel(c)
    BY <2>1 DEF Cancel, CancelSend, CancelWait, SyncInv, LoopInv, LoopTypeOK, Requests
  <2>2. CASE ClientStep(c) \/ SendStep(c)
    BY <2>2 DEF ClientStep, SendStep, Claim, Coalesce, Ask, Send, SendFails
  <2>3. QED BY <2>1, <2>2
<1>5. PublisherInv'
  BY <1>3, <1>4, LoopMoves DEF SyncInv
<1>6. QED BY <1>2, <1>5 DEF SyncInv

\* A step of the loop alone keeps the whole invariant.
LEMMA LoopStepKeeps ==
    ASSUME SyncInv, LoopStep, UNCHANGED <<publisherVars, schedulerVars>>
    PROVE  SyncInv'
<1>1. LoopInv'
  BY ReceiveKeeps, ClearClaimKeeps, CompleteKeeps, RespondKeeps DEF LoopStep, SyncInv
<1>2. stage \notin {"boot", "saved", "activated"} /\ loop.pc # "dead"
  BY DEF LoopStep, Receive, ClearClaim, Complete, Respond, SyncInv, PublisherInv, BootInv,
         StageInv
<1>3. PublisherInv'
  BY <1>2, LoopMoves DEF SyncInv
<1>4. QED BY <1>1, <1>3 DEF SyncInv

\* Claims, generations, settings and snapshots stay related as SyncInv says,
\* whatever callers, loop, owner and scheduler do in between (fsm.rs,
\* scheduler.rs, status_publisher.rs).
THEOREM InvariantHolds == Spec => []SyncInv
<1>1. AutomaticInit => SyncInv
  BY InitialState
<1>2. SyncInv /\ [Next]_allVars => SyncInv'
  <2> SUFFICES ASSUME SyncInv, [Next]_allVars PROVE SyncInv'
    OBVIOUS
  <2>1. ASSUME UNCHANGED loopVars, PublisherInv' PROVE SyncInv'
    BY <2>1, LoopStays DEF SyncInv
  <2>2. ASSUME NEW c \in Clients, ClientStep(c) \/ SendStep(c) \/ Cancel(c),
               UNCHANGED <<publisherVars, schedulerVars>>
        PROVE  SyncInv'
    BY <2>2, SessionKeeps
  <2>3. CASE LoopStep /\ UNCHANGED <<publisherVars, schedulerVars>>
    BY <2>3, LoopStepKeeps
  <2>4. CASE StartupActivation \/ StartupPublication \/ ActivateScheduler
    BY <2>1, <2>4, StartupActivationKeeps, StartupPublicationKeeps, ActivateSchedulerKeeps
       DEF StartupActivation, StartupPublication, ActivateScheduler, SyncInv
  <2>5. CASE HandlerEnds
    BY <2>5, HandlerEndsKeeps, HandlerReturnsKeeps DEF HandlerEnds, SyncInv
  <2>6. CASE SaveSettings \/ SyncStarts
    BY <2>1, <2>6, SaveSettingsKeeps, SyncStartsKeeps DEF SaveSettings, SyncStarts, SyncInv
  <2>7. CASE HandlerDies
    BY <2>7, HandlerDiesKeeps, HandlerPanicsKeeps DEF HandlerDies, SyncInv
  <2>8. CASE TakeInput \/ Disarm \/ Arm \/ InputChanged
    BY <2>1, <2>8, TakeInputKeeps, DisarmKeeps, ArmKeeps, InputChangedKeeps
       DEF TakeInput, Disarm, Arm, InputChanged, SyncInv
  <2>9. CASE DeadlinePasses \/ ClearNextSync
    BY <2>1, <2>9, DeadlineKeeps, ClearNextSyncKeeps
       DEF DeadlinePasses, ClearNextSync, SyncInv
  <2>10. CASE EnqueueClaims \/ EnqueueCoalesces \/ EnqueueSends \/ EnqueueFails
    BY <2>10, EnqueueKeeps
  <2>11. CASE TakeAnswer \/ AwaitCompletion
    BY <2>1, <2>11, AwaitKeeps DEF TakeAnswer, AwaitCompletion, SyncInv
  <2>12. CASE UNCHANGED allVars
    <3>1. UNCHANGED <<publisherVars, schedulerVars>> /\ UNCHANGED loopVars
      BY <2>12 DEF allVars
    <3>2. PublisherInv'
      BY <3>1 DEF SyncInv, PublisherInv, ScheduleTypeOK, BootInv, StageInv, PublishedInv,
                  TakenInv, ShownInv, loopVars
    <3>3. QED BY <2>1, <3>1, <3>2
  <2>13. QED BY <2>2, <2>3, <2>4, <2>5, <2>6, <2>7, <2>8, <2>9, <2>10, <2>11, <2>12
                DEF Next, PublisherStep, SchedulerStep
<1>3. QED BY <1>1, <1>2, PTL DEF Spec

\* Every reachable state is well typed and the channel holds its capacity.
THEOREM TypeCorrect == Spec => []AutomaticTypeOK
<1>1. SyncInv => AutomaticTypeOK
  BY DEF SyncInv, LoopInv, PublisherInv, AutomaticTypeOK
<1>2. QED BY <1>1, InvariantHolds, PTL

\* A claim stands exactly while somebody has the synchronization to run.
THEOREM ClaimsLive == Spec => []ClaimIsLive
<1>1. ASSUME SyncInv PROVE ClaimIsLive
  <2> SUFFICES ASSUME loop.pc # "dead"
               PROVE  /\ Sending \cup Queued \cup InHand = {slot} \ {0}
                      /\ slot # 0 => completed < slot
    BY DEF ClaimIsLive
  <2>1. OneClaim /\ (slot # 0 => completed < slot) /\ DOMAIN queue = 1 .. Len(queue)
    BY <1>1 DEF SyncInv, LoopInv, InOrder, LoopTypeOK
  <2>2. \A g \in Sending \cup Queued \cup InHand : slot # 0 /\ g = slot
    BY <2>1 DEF OneClaim, Sending, Queued, InHand
  <2>3. slot # 0 => slot \in Sending \cup Queued \cup InHand
    <3>1. Held => loop.req.gen \in InHand
      BY DEF InHand
    <3>2. \A c \in Callers : Sends(c) => caller[c].gen \in Sending
      BY DEF Sending
    <3>3. \A i \in 1 .. Len(queue) : Waits(i) => queue[i].gen \in Queued
      BY <2>1 DEF Queued
    <3>4. QED BY <2>1, <3>1, <3>2, <3>3 DEF OneClaim
  <2>4. QED BY <2>1, <2>2, <2>3
<1>2. QED BY <1>1, InvariantHolds, PTL

\* A deadline that is shown is not in use, and unless a save came between the two
\* reads it is that of the settings in force; a save answered before is never
\* missed.
THEOREM NextSyncTrue == ReadSpec => []NextSyncIsTrue
<1>1. ASSUME SyncInv PROVE NextSyncIsTrue
  <2>1. HiddenInFlight
    BY <1>1 DEF HiddenInFlight, InFlight, NextSyncShown, Projects, SyncInv, PublisherInv, ShownInv
  <2>2. ASSUME NextSyncShown, reader.status.gen = input.gen, stage # "saved", loop.pc # "dead"
        PROVE  /\ sched.pc \in {"armed", "due"} /\ sched.gen = input.gen
               /\ sched.latest = settings.interval
    <3>1. schedule.next /\ schedule.gen = input.gen
      BY <2>2 DEF NextSyncShown, Projects
    <3>2. input.gen \in Nat /\ sched.gen \in Nat /\ sched.gen <= input.gen
      BY <1>1 DEF SyncInv, PublisherInv, ScheduleTypeOK, Generations, TakenInv
    <3>3. sched.pc \in {"armed", "due"} /\ sched.gen = input.gen
      BY <1>1, <3>1, <3>2 DEF SyncInv, PublisherInv, ShownInv
    <3>4. stage # "boot"
      BY <1>1, <3>3 DEF SyncInv, PublisherInv, BootInv
    <3>5. input.interval = settings.interval
      BY <1>1, <2>2, <3>4 DEF SyncInv, PublisherInv, PublishedInv
    <3>6. QED BY <1>1, <3>3, <3>5 DEF SyncInv, PublisherInv, TakenInv
  <2>3. SavesAreSeen
    BY <1>1 DEF SavesAreSeen, SyncInv, PublisherInv, PublishedInv
  <2>4. QED BY <2>1, <2>2, <2>3 DEF NextSyncIsTrue, ShownIsInForce
<1>2. [ReadNext]_readVars => [Next]_allVars
  BY DEF ReadNext, ReadStatus, ReadSchedule, readVars
<1>3. QED BY <1>1, <1>2, InvariantHolds, PTL DEF ReadInit, ReadSpec, Spec

\* Synchronizations complete in the order they were claimed.
THEOREM InOrderCompletion == Spec => CompletedInOrder
<1>1. ASSUME SyncInv, SyncInv', [Next]_allVars
      PROVE  completed' >= completed /\ completed' <= nextGen'
  <2>1. completed' <= nextGen' /\ completed \in Nat
    BY <1>1 DEF SyncInv, LoopInv, InOrder, LoopTypeOK
  <2>2. completed' = completed \/ Complete
    BY <1>1 DEF Next, PublisherStep, SchedulerStep, ClientStep, SendStep, LoopStep, allVars,
                loopVars, Claim, Coalesce, Ask, Send, SendFails, Cancel, Receive, ClearClaim,
                Respond, StartupActivation, StartupPublication, ActivateScheduler, HandlerEnds,
                HandlerReturns, SaveSettings, SyncStarts, HandlerDies, HandlerPanics,
                TakeInput, Disarm, Arm, InputChanged, ClearNextSync, EnqueueClaims,
                EnqueueCoalesces, EnqueueSends, EnqueueFails, TakeAnswer, AwaitCompletion,
                DeadlinePasses
  <2>3. Complete => completed' >= completed
    BY <1>1, <2>1 DEF Complete, SyncInv, LoopInv, InOrder, LoopTypeOK, Requests
  <2>4. QED BY <2>1, <2>2, <2>3
<1>2. QED BY <1>1, InvariantHolds, PTL DEF Spec, CompletedInOrder

=============================================================================
