-------------------------- MODULE CommandOwner_proofs --------------------------
(***************************************************************************)
(* Theorems about CommandOwner, for any monitors, identities and number of *)
(* disturbances: its types, that IInv is inductive, and the safety         *)
(* properties that follow.  Lemmas say what one append, one journal gate   *)
(* and one mutation do to the Evidence; then come the actions.             *)
(***************************************************************************)
EXTENDS CommandOwnerInvariant, TLAPS

RecordPhases == {"prepared", "observed", "committed"}

-----------------------------------------------------------------------------
(* Types                                                                   *)

\* One appended record, whole or torn, keeps the journal's evidence well typed.
LEMMA AppendTypes ==
    ASSUME Journal!JournalTypeOK, NEW x \in Operations, NEW p \in RecordPhases,
           NEW c \in ServiceStates, EmptyState \in ServiceStates,
           Journal!AppendOk(x, p, c) \/ Journal!AppendTorn(x, p, c)
    PROVE  Journal!JournalTypeOK'
<1>1. Journal!FoldOrder(x, p) \in [Operations -> SUBSET Operations]
  BY DEF Journal!JournalTypeOK, Journal!FoldOrder, Journal!Pending, RecordPhases
<1>2. ASSUME Journal!Fold(x, p, c)
      PROVE  /\ phase' \in [Operations -> Journal!Phases]
             /\ before' \in [Operations -> SUBSET Operations]
             /\ snap' \in [Operations -> ServiceStates]
             /\ defect' \in Journal!Defects
  <2>1. CASE Journal!FoldLegal(x, p, c)
    BY <1>1, <2>1 DEF Journal!JournalTypeOK, Journal!FoldLegal, Journal!Phases, RecordPhases
  <2>2. CASE Journal!FoldIllegal(x, p, c)
    BY <1>1, <2>2 DEF Journal!JournalTypeOK, Journal!FoldIllegal, Journal!Phases,
                      Journal!Defects, RecordPhases
  <2>3. QED BY <1>2, <2>1, <2>2 DEF Journal!Fold
<1>3. CASE Journal!AppendOk(x, p, c)
  BY <1>2, <1>3 DEF Journal!JournalTypeOK, Journal!AppendOk, Journal!Glue, Journal!Tails,
                    Journal!Defects
<1>4. CASE Journal!AppendTorn(x, p, c)
  BY <1>2, <1>4 DEF Journal!JournalTypeOK, Journal!AppendTorn, Journal!Tails, Journal!Defects
<1>5. QED BY <1>3, <1>4

\* Neither do the journal gate and the compaction.
LEMMA GateTypes ==
    ASSUME Journal!JournalTypeOK,
           \/ Journal!RecoverClean \/ Journal!RecoverBlocked
           \/ Journal!RecoverFailed \/ Journal!Compact
    PROVE  Journal!JournalTypeOK'
BY DEF Journal!JournalTypeOK, Journal!RecoverClean, Journal!RecoverBlocked,
       Journal!RecoverFailed, Journal!Compact, Journal!Tails, Journal!Phases, Journal!Pending

\* The state of a fresh installation is a service state.
LEMMA EmptyStateType == EmptyState \in ServiceStates
BY DEF EmptyState, ServiceStates

WorkTypes ==
    /\ pc \in PcValues
    /\ cmd \in {"none", "startup", "sync", "checkin"}
    /\ recovering \in BOOLEAN
    /\ todo \in SUBSET Operations /\ done \in SUBSET Operations /\ op \in Operations
    /\ cur \in ServiceStates /\ final \in ServiceStates

\* Whatever a command does in memory keeps its own variables well typed.
LEMMA QuiesceTypes ==
    ASSUME NEW p \in PcValues, Quiesce(p)
    PROVE  WorkTypes'
BY EmptyStateType DEF Quiesce, WorkTypes, Patch, Operations

\* An abandoned command leaves well-typed bookkeeping.
LEMMA AbortTypes ==
    ASSUME Abort \/ AbortSaved
    PROVE  WorkTypes'
<1>1. CASE Abort
  <2>1. PICK p \in {"down", "fail", "idle"} : Quiesce(p)
    BY <1>1 DEF Abort
  <2>2. QED BY <2>1, QuiesceTypes DEF PcValues
<1>2. CASE AbortSaved
  <2>1. PICK p \in {"down", "idle"} : Quiesce(p)
    BY <1>2 DEF AbortSaved
  <2>2. QED BY <2>1, QuiesceTypes DEF PcValues
<1>3. QED BY <1>1, <1>2

\* Recovering the journal's last line keeps its type.
LEMMA RecoveryTypes ==
    ASSUME TypeOK,
           \/ EndRecovery
           \/ \E c \in {"startup", "sync", "checkin"} : BeginRecovery(c)
    PROVE  WorkTypes'
<1>1. CASE cmd = "startup" /\ EndRecovery
  BY <1>1, QuiesceTypes DEF EndRecovery, PcValues
<1>2. CASE cmd # "startup" /\ EndRecovery
  BY <1>2 DEF EndRecovery, TypeOK, WorkTypes, PcValues
<1>3. CASE \E c \in {"startup", "sync", "checkin"} : BeginRecovery(c)
  BY <1>3 DEF BeginRecovery, TypeOK, WorkTypes, PcValues, Pending, Journal!Pending
<1>4. QED BY <1>1, <1>2, <1>3

\* A candidate state is one of the recorded snapshots or the goal of the plan.
LEMMA CandidateTypes ==
    ASSUME TypeOK
    PROVE  /\ SaveCandidates \subseteq ServiceStates
           /\ FailureRecord \in ServiceStates
           /\ \A x \in Operations : Transition(cur, x) \in ServiceStates
<1>1. SaveCandidates \subseteq ServiceStates
  BY DEF TypeOK, Journal!JournalTypeOK, SaveCandidates, Journal!Newest
<1>2. FailureRecord \in ServiceStates
  BY DEF TypeOK, FailureRecord, ServiceStates
<1>3. ASSUME NEW x \in Operations
      PROVE  Transition(cur, x) \in ServiceStates
  <2>1. CASE x.kind = "patch"
    BY <2>1 DEF Transition, TypeOK
  <2>2. CASE x.kind # "patch"
    <3>1. x.asset \in Monitors
      BY <2>2 DEF Operations
    <3>2. QED BY <2>2, <3>1 DEF Transition, TypeOK, ServiceStates
  <2>3. QED BY <2>1, <2>2
<1>4. QED BY <1>1, <1>2, <1>3

\* TypeOK is an inductive invariant of the command owner.
LEMMA TypeStep ==
    ASSUME TypeOK, [Next]_vars
    PROVE  TypeOK'
<1> USE EmptyStateType
<1>1. CASE Begin
  <2>1. CASE Start
    <3>1. Journal!JournalTypeOK'
      BY <2>1, GateTypes DEF Start, TypeOK
    <3>2. WorkTypes'
      BY <2>1, QuiesceTypes, RecoveryTypes DEF Start, PcValues
    <3>3. QED BY <2>1, <3>1, <3>2 DEF Start, TypeOK, WorkTypes, stores
  <2>2. ASSUME NEW c \in {"sync", "checkin"}, BeginCommand(c)
        PROVE  TypeOK'
    <3>1. Journal!JournalTypeOK' /\ WorkTypes'
      BY <2>2, GateTypes, RecoveryTypes DEF BeginCommand, TypeOK
    <3>2. QED BY <2>2, <3>1 DEF BeginCommand, TypeOK, WorkTypes, stores
  <2>3. QED BY <1>1, <2>1, <2>2 DEF Begin
<1>2. CASE Work
  <2>1. ASSUME NEW x \in Operations, Replay(x) PROVE TypeOK'
    BY <2>1 DEF Replay, TypeOK, PcValues, stores, journal, Journal!JournalTypeOK
  <2>2. ASSUME NEW x \in Operations, Prepare(x) PROVE TypeOK'
    <3>1. Journal!JournalTypeOK'
      BY <2>2, CandidateTypes, AppendTypes DEF Prepare, TypeOK, RecordPhases
    <3>2. QED BY <2>2, <3>1 DEF Prepare, TypeOK, PcValues, stores
  <2>3. ASSUME NEW x \in Operations, Commit(x) PROVE TypeOK'
    <3>1. Journal!JournalTypeOK'
      BY <2>3, AppendTypes DEF Commit, TypeOK, RecordPhases
    <3>2. QED BY <2>3, <3>1 DEF Commit, TypeOK, stores
  <2>4. CASE Mutate
    <3>1. op \in Operations /\ op.asset \in Assets /\ Target(op) \in {"ours", "none"}
      BY DEF TypeOK, Operations, Assets, Target
    <3>2. /\ remote' \in [Assets -> {"ours", "none", "other"}]
          /\ effect' \in [Assets -> {"unset", "ours", "none"}]
      BY <2>4, <3>1 DEF Mutate, Establish, TypeOK
    <3>3. WorkTypes'
      BY <2>4 DEF Mutate, TypeOK, WorkTypes, PcValues, Patch, Operations
    <3>4. QED BY <2>4, <3>2, <3>3 DEF Mutate, TypeOK, WorkTypes, journal, Journal!JournalTypeOK
  <2>5. CASE Observe
    <3>1. op \in Operations /\ snap[op] \in ServiceStates
      BY DEF TypeOK, Journal!JournalTypeOK
    <3>2. Journal!JournalTypeOK'
      BY <2>5, <3>1, AppendTypes DEF Observe, TypeOK, RecordPhases
    <3>3. WorkTypes'
      BY <2>5, <3>1 DEF Observe, TypeOK, WorkTypes, PcValues, Patch, Operations
    <3>4. QED BY <2>5, <3>2, <3>3 DEF Observe, TypeOK, WorkTypes, stores
  <2>6. CASE NothingPending
    <3>1. WorkTypes'
      BY <2>6, RecoveryTypes DEF NothingPending
    <3>2. QED BY <2>6, <3>1 DEF NothingPending, TypeOK, WorkTypes, stores, journal,
                                Journal!JournalTypeOK
  <2>7. CASE Save
    BY <2>7, CandidateTypes DEF Save, TypeOK, PcValues, journal, Journal!JournalTypeOK
  <2>8. CASE CompactJournal
    <3>1. WorkTypes'
      BY <2>8, RecoveryTypes, QuiesceTypes DEF CompactJournal, PcValues
    <3>2. Journal!JournalTypeOK'
      BY <2>8, GateTypes DEF CompactJournal, TypeOK
    <3>3. QED BY <2>8, <3>1, <3>2 DEF CompactJournal, TypeOK, WorkTypes, stores
  <2>9. ASSUME NEW present \in SUBSET Monitors, NEW outs \in SUBSET Monitors,
               NEW ins \in SUBSET Monitors, NEW patches \in SUBSET {Patch},
               PlanSync(present, outs, ins, patches)
        PROVE  TypeOK'
    <3>1. /\ [out |-> (mem.out \cup outs) \ ins, absent |-> Monitors \ present,
              result |-> "ok"] \in ServiceStates
          /\ [mem EXCEPT !.result = "ok"] \in ServiceStates
      BY DEF TypeOK, ServiceStates
    <3>2. patches \cup {Checkout(m) : m \in outs} \cup {Checkin(m) : m \in ins}
            \in SUBSET Operations
      BY DEF Operations, Patch, Checkout, Checkin
    <3>3. WorkTypes'
      BY <2>9, <3>1, <3>2 DEF PlanSync, StartPlan, TypeOK, WorkTypes, PcValues
    <3>4. QED BY <2>9, <3>3 DEF PlanSync, StartPlan, TypeOK, WorkTypes, stores, journal,
                                Journal!JournalTypeOK
  <2>10. ASSUME NEW ins \in SUBSET Monitors, PlanCheckin(ins)
         PROVE  TypeOK'
    <3>1. [mem EXCEPT !.out = @ \ ins] \in ServiceStates
      BY DEF TypeOK, ServiceStates
    <3>2. {Checkin(m) : m \in ins} \in SUBSET Operations
      BY DEF Operations, Checkin
    <3>3. WorkTypes'
      BY <2>10, <3>1, <3>2 DEF PlanCheckin, StartPlan, TypeOK, WorkTypes, PcValues
    <3>4. QED BY <2>10, <3>3 DEF PlanCheckin, StartPlan, TypeOK, WorkTypes, stores, journal,
                                 Journal!JournalTypeOK
  <2>11. CASE NothingToCheckin
    <3>1. WorkTypes'
      BY <2>11, QuiesceTypes DEF NothingToCheckin, PcValues
    <3>2. QED BY <2>11, <3>1 DEF NothingToCheckin, TypeOK, WorkTypes, stores, journal,
                                 Journal!JournalTypeOK
  <2>12. CASE SaveFailure
    <3>1. WorkTypes'
      BY <2>12, QuiesceTypes DEF SaveFailure, PcValues
    <3>2. QED BY <2>12, <3>1, CandidateTypes DEF SaveFailure, TypeOK, WorkTypes, journal,
                                 Journal!JournalTypeOK
  <2>13. CASE MutateRefused
    <3>1. WorkTypes'
      BY <2>13, AbortTypes DEF MutateRefused
    <3>2. QED BY <2>13, <3>1 DEF MutateRefused, TypeOK, WorkTypes, stores, journal,
                                 Journal!JournalTypeOK
  <2>14. QED BY <1>2, <2>1, <2>2, <2>3, <2>4, <2>5, <2>6, <2>7, <2>8, <2>9, <2>10, <2>11,
                <2>12, <2>13 DEF Work
<1>3. CASE Failure
  <2> USE DEF Disturb
  <2>1. ASSUME NEW x \in Operations, PrepareFails(x) PROVE TypeOK'
    <3>1. Journal!JournalTypeOK' /\ WorkTypes'
      BY <2>1, CandidateTypes, AppendTypes, AbortTypes DEF PrepareFails, TypeOK, RecordPhases
    <3>2. QED BY <2>1, <3>1 DEF PrepareFails, TypeOK, WorkTypes, stores
  <2>2. ASSUME NEW x \in Operations, CommitFails(x) PROVE TypeOK'
    <3>1. Journal!JournalTypeOK' /\ WorkTypes'
      BY <2>2, AppendTypes, AbortTypes DEF CommitFails, TypeOK, RecordPhases
    <3>2. QED BY <2>2, <3>1 DEF CommitFails, TypeOK, WorkTypes, stores
  <2>3. CASE MutateFails
    <3>1. op \in Operations /\ op.asset \in Assets /\ Target(op) \in {"ours", "none"}
      BY DEF TypeOK, Operations, Assets, Target
    <3>2. /\ remote' \in [Assets -> {"ours", "none", "other"}]
          /\ effect' \in [Assets -> {"unset", "ours", "none"}]
      BY <2>3, <3>1 DEF MutateFails, Establish, TypeOK
    <3>3. WorkTypes'
      BY <2>3, AbortTypes DEF MutateFails
    <3>4. QED BY <2>3, <3>2, <3>3 DEF MutateFails, TypeOK, WorkTypes, journal,
                                      Journal!JournalTypeOK
  <2>4. CASE ObserveFails
    <3>1. op \in Operations /\ snap[op] \in ServiceStates
      BY DEF TypeOK, Journal!JournalTypeOK
    <3>2. Journal!JournalTypeOK' /\ WorkTypes'
      BY <2>4, <3>1, AppendTypes, AbortTypes DEF ObserveFails, TypeOK, RecordPhases
    <3>3. QED BY <2>4, <3>2 DEF ObserveFails, TypeOK, WorkTypes, stores
  <2>5. CASE SaveFails
    <3>1. WorkTypes'
      BY <2>5, AbortTypes DEF SaveFails
    <3>2. QED BY <2>5, <3>1, CandidateTypes DEF SaveFails, TypeOK, WorkTypes, journal,
                                                Journal!JournalTypeOK
  <2>6. CASE CompactFails
    <3>1. WorkTypes'
      BY <2>6, AbortTypes DEF CompactFails
    <3>2. Journal!JournalTypeOK' /\ disturbances' \in Nat
      <4>1. CASE JournalRefuses
        BY <4>1, GateTypes DEF JournalRefuses, TypeOK
      <4>2. CASE Journal!Compact /\ Disturb
        BY <4>2, GateTypes DEF TypeOK
      <4>3. CASE UNCHANGED journal /\ Disturb
        BY <4>3 DEF journal, TypeOK, Journal!JournalTypeOK
      <4>4. QED BY <2>6, <4>1, <4>2, <4>3 DEF CompactFails
    <3>3. QED BY <2>6, <3>1, <3>2 DEF CompactFails, TypeOK, WorkTypes, stores
  <2>7. CASE GatherFails
    <3>1. WorkTypes'
      BY <2>7, AbortTypes DEF GatherFails
    <3>2. QED BY <2>7, <3>1 DEF GatherFails, TypeOK, WorkTypes, stores, journal,
                                Journal!JournalTypeOK
  <2>8. CASE SaveFailureFails
    <3>1. WorkTypes'
      BY <2>8, QuiesceTypes DEF SaveFailureFails, PcValues
    <3>2. QED BY <2>8, <3>1, CandidateTypes DEF SaveFailureFails, TypeOK, WorkTypes, journal,
                                                Journal!JournalTypeOK
  <2>9. CASE JournalRefused
    <3>1. Journal!JournalTypeOK' /\ disturbances' \in Nat
      BY <2>9, GateTypes DEF JournalRefused, JournalRefuses, JournalGateFails, TypeOK
    <3>2. QED BY <2>9, <3>1 DEF JournalRefused, TypeOK, work, stores
  <2>10. CASE Crash
    <3>1. WorkTypes'
      BY <2>10, QuiesceTypes DEF Crash, PcValues
    <3>2. QED BY <2>10, <3>1 DEF Crash, TypeOK, WorkTypes, stores, journal,
                                 Journal!JournalTypeOK
  <2>11. QED BY <1>3, <2>1, <2>2, <2>3, <2>4, <2>5, <2>6, <2>7, <2>8, <2>9, <2>10 DEF Failure
<1>4. CASE Outside
  <2> USE DEF Disturb
  <2>1. ASSUME NEW i \in Identities, SetIdentity(i) \/ SetIdentityFails(i)
        PROVE  TypeOK'
    <3>1. Journal!JournalTypeOK'
      BY <2>1, GateTypes DEF SetIdentity, SetIdentityFails, TypeOK
    <3>2. QED BY <2>1, <3>1 DEF SetIdentity, SetIdentityFails, TypeOK, work
  <2>2. CASE IdentityRefused
    <3>1. Journal!JournalTypeOK'
      BY <2>2, GateTypes DEF IdentityRefused, TypeOK
    <3>2. QED BY <2>2, <3>1 DEF IdentityRefused, TypeOK, work, stores
  <2>3. ASSUME NEW a \in Assets, NEW v \in {"ours", "none", "other"}, AdminEdit(a, v)
        PROVE  TypeOK'
    BY <2>3 DEF AdminEdit, TypeOK, work, journal, Journal!JournalTypeOK
  <2>4. ASSUME NEW x \in Operations, Refuse(x) \/ Relent(x)
        PROVE  TypeOK'
    BY <2>4 DEF Refuse, Relent, TypeOK, work, journal, Journal!JournalTypeOK
  <2>5. QED BY <1>4, <2>1, <2>2, <2>3, <2>4 DEF Outside
<1>5. CASE UNCHANGED vars
  BY <1>5 DEF vars, work, stores, journal, TypeOK, Journal!JournalTypeOK
<1>6. QED BY <1>1, <1>2, <1>3, <1>4, <1>5 DEF Next

\* The initial state is well typed.
LEMMA TypeInit == Init => TypeOK
<1> SUFFICES ASSUME Init PROVE TypeOK
  OBVIOUS
<1>1. Journal!JournalTypeOK
  BY EmptyStateType DEF Init, Journal!JournalInit, Journal!JournalTypeOK, Journal!Phases,
                        Journal!Tails, Journal!Defects
<1>2. WorkTypes
  BY EmptyStateType DEF Init, WorkTypes, PcValues, Operations, Patch
<1>3. remote \in [Assets -> {"ours", "none", "other"}] /\ refused \in SUBSET Operations
  BY DEF Init
<1>4. /\ mem \in ServiceStates /\ disk \in ServiceStates
      /\ identity \in Identities \cup {NoIdentity}
      /\ settings \in Identities \cup {NoIdentity}
      /\ disturbances \in Nat
  BY EmptyStateType DEF Init
<1>5. /\ effect \in [Assets -> {"unset", "ours", "none"}]
      /\ origin \in [Operations -> Identities \cup {NoIdentity}]
  BY DEF Init
<1>6. QED BY <1>1, <1>2, <1>3, <1>4, <1>5 DEF TypeOK, WorkTypes

\* Every variable of the command owner keeps its type (CommandOwner of service.rs).
THEOREM TypeCorrect == Spec => []TypeOK
<1>1. QED BY TypeInit, TypeStep, PTL DEF Spec

-----------------------------------------------------------------------------
(* What the steps do to the evidence                                       *)

\* An operation concerns a monitor, or it is the patch of the computer.
LEMMA OperationFacts ==
    ASSUME NEW x \in Operations
    PROVE  /\ x.asset \in Assets
           /\ x.asset \in Monitors => x.kind \in {"checkout", "checkin"}
           /\ x.asset \notin Monitors => x = Patch /\ x.kind = "patch"
           /\ Target(x) = "ours" \/ Target(x) = "none"
           /\ x.asset \in Monitors => (Target(x) = "ours" <=> x.kind = "checkout")
BY OwnerAssumption DEF Operations, Assets, Patch, Target

\* The gate and the compaction keep every pending operation's evidence.
LEMMA GateKeeps ==
    ASSUME TypeOK,
           \/ Journal!RecoverClean \/ Journal!RecoverBlocked
           \/ Journal!RecoverFailed \/ Journal!Compact
    PROVE  /\ Pending' = Pending
           /\ \A x \in Pending : phase'[x] = phase[x]
           /\ before' = before /\ snap' = snap /\ defect' = defect
BY DEF TypeOK, Journal!JournalTypeOK, Journal!RecoverClean, Journal!RecoverBlocked,
       Journal!RecoverFailed, Journal!Compact, Pending, Journal!Pending, Journal!Phases

\* Steps that keep the pending evidence and what the service did keep Evidence,
\* as long as the two copies of the state still agree with it.
LEMMA EvidenceKept ==
    ASSUME Evidence, Pending' = Pending, \A x \in Pending : phase'[x] = phase[x],
           before' = before, snap' = snap, defect' # "malformed", effect' = effect,
           StatesAgree'
    PROVE  Evidence'
<1>1. NoConflictingPending' /\ ObservedWasApplied' /\ NoGluedRecord'
  BY DEF Evidence, NoConflictingPending, ObservedWasApplied, NoGluedRecord, Target
<1>2. PendingOrder'
  BY DEF Evidence, PendingOrder
<1>3. SnapshotsAgree'
  BY DEF Evidence, SnapshotsAgree, Says, Agrees, Unresolved
<1>4. QED BY <1>1, <1>2, <1>3 DEF Evidence

\* StatesAgree depends only on pending work, effects and saved state.
LEMMA StatesKept ==
    ASSUME StatesAgree, Pending' = Pending, effect' = effect, mem' = mem, disk' = disk
    PROVE  StatesAgree'
BY DEF StatesAgree, Agrees, Unresolved

\* A command that ends leaves nothing for Control to say.
LEMMA QuiesceControl ==
    ASSUME NEW p \in {"down", "idle", "fail"}, Quiesce(p)
    PROVE  Control'
BY DEF Quiesce, Control, Executing, InHand

\* An abandoned command owes nothing to the running one.
LEMMA AbortControl ==
    ASSUME Abort \/ AbortSaved
    PROVE  Control'
<1>1. PICK p \in {"down", "fail", "idle"} : Quiesce(p)
  BY DEF Abort, AbortSaved
<1>2. QED BY <1>1, QuiesceControl

-----------------------------------------------------------------------------
(* The three records                                                       *)

\* A Prepared record whose snapshot tells the truth and that concerns an asset
\* without pending operation extends the Evidence.
LEMMA PreparedKeepsEvidence ==
    ASSUME TypeOK, Evidence, NEW x \in Operations, NEW c \in ServiceStates,
           Journal!Fold(x, "prepared", c),
           x \notin Pending, \A y \in Pending : y.asset # x.asset,
           \A y \in Pending \cup {x} : y.asset \in Monitors => Says(c, y),
           \A m \in Monitors : m = x.asset \/ Unresolved(m) \/ Agrees(c, m),
           effect' = effect, mem' = mem, disk' = disk
    PROVE  /\ Evidence'
           /\ Pending' = Pending \cup {x}
           /\ phase'[x] = "prepared" /\ \A y \in Pending : phase'[y] = phase[y]
           /\ before'[x] = Pending /\ snap'[x] = c
<1>1. /\ phase' = [phase EXCEPT ![x] = "prepared"]
      /\ before' = Journal!FoldOrder(x, "prepared")
      /\ snap' = [snap EXCEPT ![x] = c]
      /\ defect' # "malformed"
  BY DEF Journal!Fold, Journal!FoldLegal, Journal!FoldIllegal, Evidence, NoGluedRecord
<1>2. /\ Pending' = Pending \cup {x}
      /\ phase'[x] = "prepared" /\ \A y \in Pending : phase'[y] = phase[y]
  BY <1>1 DEF Pending, Journal!Pending, TypeOK, Journal!JournalTypeOK
<1>3. /\ before'[x] = Pending
      /\ \A y \in Operations \ {x} : before'[y] = before[y]
      /\ snap'[x] = c /\ \A y \in Operations \ {x} : snap'[y] = snap[y]
  BY <1>1 DEF Journal!FoldOrder, Pending, Journal!Pending, TypeOK, Journal!JournalTypeOK,
              Evidence, PendingOrder
<1>4. Pending \subseteq Operations
  BY DEF Pending, Journal!Pending
<1>5. NoConflictingPending' /\ ObservedWasApplied' /\ NoGluedRecord'
  BY <1>1, <1>2, <1>4 DEF Evidence, NoConflictingPending, ObservedWasApplied, NoGluedRecord,
                          Target
<1>6. PendingOrder'
  BY <1>2, <1>3, <1>4 DEF Evidence, PendingOrder
<1>7. SnapshotsAgree'
  <2>1. ASSUME NEW y \in Pending', NEW z \in Pending', z \in before'[y] \cup {y},
               z.asset \in Monitors
        PROVE  Says(snap'[y], z)
    BY <2>1, <1>2, <1>3, <1>4 DEF Evidence, SnapshotsAgree, PendingOrder
  <2>2. ASSUME NEW y \in Pending', NEW m \in Monitors
        PROVE  Unresolved(m)' \/ (m \in snap'[y].out <=> effect'[m] = "ours")
    BY <1>2, <1>3, <1>4 DEF Evidence, SnapshotsAgree, Unresolved, Agrees
  <2>3. QED BY <2>1, <2>2 DEF SnapshotsAgree, Says, Agrees
<1>8. StatesAgree'
  BY <1>2 DEF Evidence, StatesAgree, Unresolved, Agrees
<1>9. QED BY <1>2, <1>3, <1>5, <1>6, <1>7, <1>8 DEF Evidence

\* A RemoteOutcomeObserved record of an applied operation keeps the Evidence.
LEMMA ObservedKeepsEvidence ==
    ASSUME TypeOK, Evidence, NEW x \in Operations,
           Journal!Fold(x, "observed", snap[x]),
           phase[x] = "prepared", effect[x.asset] = Target(x),
           effect' = effect, mem' = mem, disk' = disk
    PROVE  /\ Evidence'
           /\ Pending' = Pending
           /\ phase'[x] = "observed" /\ \A y \in Operations \ {x} : phase'[y] = phase[y]
           /\ before' = before /\ snap' = snap
<1>1. /\ phase' = [phase EXCEPT ![x] = "observed"]
      /\ before' = before /\ snap' = snap /\ defect' = defect
  BY DEF Journal!Fold, Journal!FoldLegal, Journal!FoldIllegal, Journal!RequiredPhase,
         Journal!FoldOrder, TypeOK, Journal!JournalTypeOK
<1>2. /\ Pending' = Pending
      /\ phase'[x] = "observed" /\ \A y \in Operations \ {x} : phase'[y] = phase[y]
  BY <1>1 DEF Pending, Journal!Pending, TypeOK, Journal!JournalTypeOK
<1>3. NoConflictingPending' /\ PendingOrder' /\ NoGluedRecord'
  BY <1>1, <1>2 DEF Evidence, NoConflictingPending, PendingOrder, NoGluedRecord
<1>4. ObservedWasApplied'
  BY <1>1, <1>2 DEF Evidence, ObservedWasApplied, Target, Pending, Journal!Pending
<1>5. SnapshotsAgree'
  BY <1>1, <1>2 DEF Evidence, SnapshotsAgree, Says, Agrees, Unresolved
<1>6. StatesAgree'
  BY <1>2, StatesKept DEF Evidence
<1>7. QED BY <1>1, <1>2, <1>3, <1>4, <1>5, <1>6 DEF Evidence

\* A StateCommitted record of the oldest pending operation keeps the Evidence
\* once both copies of the state agree with everything the service did.
LEMMA CommittedKeepsEvidence ==
    ASSUME TypeOK, Evidence, NEW x \in Journal!Oldest(Pending),
           Journal!Fold(x, "committed", EmptyState),
           phase[x] = "observed",
           \A m \in Monitors : Agrees(mem, m) /\ Agrees(disk, m),
           effect' = effect, mem' = mem, disk' = disk
    PROVE  /\ Evidence'
           /\ Pending' = Pending \ {x}
           /\ \A y \in Pending' : phase'[y] = phase[y]
<1>1. x \in Operations /\ x \in Pending /\ before[x] \cap Pending = {}
  BY DEF Journal!Oldest, Pending, Journal!Pending
<1>2. /\ phase' = [phase EXCEPT ![x] = "committed"]
      /\ before' = Journal!FoldOrder(x, "committed")
      /\ snap' = [snap EXCEPT ![x] = EmptyState]
      /\ defect' = defect
  BY <1>1 DEF Journal!Fold, Journal!FoldLegal, Journal!FoldIllegal, Journal!RequiredPhase
<1>3. /\ Pending' = Pending \ {x}
      /\ \A y \in Operations \ {x} : phase'[y] = phase[y] /\ snap'[y] = snap[y]
  BY <1>1, <1>2 DEF Pending, Journal!Pending, TypeOK, Journal!JournalTypeOK
<1>4. /\ before'[x] = {}
      /\ \A y \in Operations \ {x} : before'[y] = before[y] \ {x}
  BY <1>1, <1>2 DEF Journal!FoldOrder, TypeOK, Journal!JournalTypeOK
<1>5. Pending \subseteq Operations
  BY DEF Pending, Journal!Pending
<1>6. NoConflictingPending' /\ ObservedWasApplied' /\ NoGluedRecord'
  BY <1>2, <1>3, <1>5 DEF Evidence, NoConflictingPending, ObservedWasApplied, NoGluedRecord,
                          Target
<1>7. PendingOrder'
  BY <1>3, <1>4, <1>5 DEF Evidence, PendingOrder
<1>8. SnapshotsAgree'
  <2>1. ASSUME NEW y \in Pending', NEW z \in Pending', z \in before'[y] \cup {y},
               z.asset \in Monitors
        PROVE  Says(snap'[y], z)
    BY <2>1, <1>3, <1>4, <1>5 DEF Evidence, SnapshotsAgree
  <2>2. ASSUME NEW y \in Pending', NEW m \in Monitors
        PROVE  Unresolved(m)' \/ (m \in snap'[y].out <=> effect'[m] = "ours")
    <3>1. y \in Pending /\ y # x /\ snap'[y] = snap[y]
      BY <1>3, <1>5
    <3>2. CASE m = x.asset
      <4>1. x \in before[y]
        BY <1>1, <1>3, <3>1 DEF Evidence, PendingOrder
      <4>2. Says(snap[y], x)
        BY <1>1, <3>1, <3>2, <4>1 DEF Evidence, SnapshotsAgree
      <4>3. effect[m] = Target(x)
        BY <1>1, <3>2 DEF Evidence, ObservedWasApplied
      <4>4. QED BY <1>1, <3>1, <3>2, <4>2, <4>3, OperationFacts DEF Says
    <3>3. CASE m # x.asset
      BY <1>3, <3>1, <3>3 DEF Evidence, SnapshotsAgree, Unresolved, Agrees
    <3>4. QED BY <3>2, <3>3
  <2>3. QED BY <2>1, <2>2 DEF SnapshotsAgree, Says, Agrees
<1>9. StatesAgree'
  BY DEF StatesAgree, Agrees
<1>10. QED BY <1>3, <1>5, <1>6, <1>7, <1>8, <1>9 DEF Evidence

\* A request, answered or not, concerns an asset with a pending operation.
LEMMA EstablishKeepsEvidence ==
    ASSUME TypeOK, Evidence, op \in Pending, Establish,
           UNCHANGED journal, mem' = mem, disk' = disk
    PROVE  /\ Evidence'
           /\ Pending' = Pending
           /\ effect'[op.asset] = Target(op)
           /\ \A a \in Assets \ {op.asset} : effect'[a] = effect[a]
<1>1. Pending' = Pending /\ phase' = phase /\ before' = before /\ snap' = snap
      /\ defect' = defect
  BY DEF journal, Pending, Journal!Pending
<1>2. op \in Operations /\ Pending \subseteq Operations
  BY DEF TypeOK, Pending, Journal!Pending
<1>3. /\ effect'[op.asset] = Target(op)
      /\ \A a \in Assets \ {op.asset} : effect'[a] = effect[a]
  BY <1>2, OperationFacts DEF Establish, TypeOK
<1>4. NoConflictingPending' /\ PendingOrder' /\ NoGluedRecord'
  BY <1>1 DEF Evidence, NoConflictingPending, PendingOrder, NoGluedRecord
<1>5. ObservedWasApplied'
  BY <1>1, <1>2, <1>3, OperationFacts
     DEF Evidence, ObservedWasApplied, NoConflictingPending, Target
<1>6. \A m \in Monitors : Unresolved(m) \/ effect'[m] = effect[m]
  BY <1>3 DEF Assets, Unresolved
<1>7. SnapshotsAgree' /\ StatesAgree'
  BY <1>1, <1>6 DEF Evidence, SnapshotsAgree, StatesAgree, Says, Agrees, Unresolved
<1>8. QED BY <1>1, <1>3, <1>4, <1>5, <1>7 DEF Evidence

-----------------------------------------------------------------------------
(* What the running command may rely on                                    *)

\* An append that fails leaves the evidence as it was or adds its record.
LEMMA TornAppend ==
    ASSUME NEW x, NEW p, NEW c, Journal!AppendTorn(x, p, c)
    PROVE  \/ UNCHANGED <<phase, before, snap, defect>>
           \/ Journal!Fold(x, p, c)
BY DEF Journal!AppendTorn

\* With the last line closed an append adds its record, and closes its line.
LEMMA ClosedAppend ==
    ASSUME NEW x, NEW p, NEW c, Journal!AppendOk(x, p, c), tail = "terminated"
    PROVE  Journal!Fold(x, p, c) /\ tail' = "terminated"
BY DEF Journal!AppendOk

\* The candidate a plan prepares for its next operation tells the truth.
LEMMA NextCandidate ==
    ASSUME IInv, pc = "next", ~recovering, NEW x \in todo
    PROVE  /\ x \in Operations /\ x \notin Pending
           /\ \A y \in Pending : y.asset # x.asset
           /\ Transition(cur, x) \in ServiceStates
           /\ \A y \in Pending \cup {x} : y.asset \in Monitors => Says(Transition(cur, x), y)
           /\ \A m \in Monitors : \/ m = x.asset \/ Unresolved(m)
                                  \/ Agrees(Transition(cur, x), m)
<1>1. /\ Pending = done /\ todo \cap done = {}
      /\ \A y, z \in todo \cup done : y.asset = z.asset => y = z
      /\ \A y \in done : y.asset \in Monitors => Says(cur, y)
      /\ \A m \in Monitors : Unresolved(m) \/ Agrees(cur, m)
  BY DEF IInv, Control, Executing, PlanKnows, InHand
<1>2. x \in Operations /\ todo \cup done \subseteq Operations /\ cur \in ServiceStates
  BY DEF IInv, TypeOK
<1>3. x \notin Pending /\ \A y \in Pending : y.asset # x.asset
  BY <1>1
<1>4. Transition(cur, x) \in ServiceStates
  BY <1>2, CandidateTypes DEF IInv
<1>5. \A m \in Monitors : m # x.asset => (m \in Transition(cur, x).out <=> m \in cur.out)
  <2>1. CASE x.kind = "patch"
    BY <2>1 DEF Transition
  <2>2. CASE x.kind # "patch"
    <3>1. Transition(cur, x).out
            = IF x.kind = "checkout" THEN cur.out \cup {x.asset} ELSE cur.out \ {x.asset}
      BY <1>2, <2>2 DEF Transition, ServiceStates
    <3>2. QED BY <3>1
  <2>3. QED BY <2>1, <2>2
<1>6. x.asset \in Monitors => Says(Transition(cur, x), x)
  <2>1. SUFFICES ASSUME x.asset \in Monitors PROVE Says(Transition(cur, x), x)
    OBVIOUS
  <2>2. x.kind \in {"checkout", "checkin"}
    BY <1>2, <2>1, OperationFacts
  <2>3. Transition(cur, x).out
          = IF x.kind = "checkout" THEN cur.out \cup {x.asset} ELSE cur.out \ {x.asset}
    BY <1>2, <2>2 DEF Transition, ServiceStates
  <2>4. QED BY <2>2, <2>3 DEF Says
<1>7. QED BY <1>1, <1>2, <1>3, <1>4, <1>5, <1>6 DEF Says, Agrees

\* What a command saves agrees with everything the service did.
LEMMA SavedAgrees ==
    ASSUME IInv, ReadyToSave, NEW s \in SaveCandidates
    PROVE  /\ s \in ServiceStates
           /\ \A m \in Monitors : Agrees(s, m)
           /\ Pending = done /\ \A x \in done : phase[x] = "observed"
<1>1. s \in ServiceStates
  BY CandidateTypes DEF IInv
<1>2. Pending = done /\ (\A x \in done : phase[x] = "observed") /\ done \subseteq Operations
  BY DEF IInv, TypeOK, Control, Executing, ReadyToSave, ReplayKnows, PlanKnows, InHand
<1>3. ASSUME NEW m \in Monitors, NEW x \in done, x.asset = m, Says(s, x)
      PROVE  Agrees(s, m)
  <2>1. effect[m] = Target(x) /\ x \in Operations
    BY <1>2, <1>3 DEF IInv, Evidence, ObservedWasApplied
  <2>2. QED BY <1>3, <2>1, OperationFacts DEF Says, Agrees
<1>4. CASE recovering
  <2>1. PICK x \in Journal!Newest(done) : s = snap[x]
    BY <1>4 DEF SaveCandidates
  <2>2. x \in done /\ done \subseteq before[x] \cup {x}
    BY <2>1 DEF Journal!Newest
  <2>3. \A y \in done : y.asset \in Monitors => Says(s, y)
    BY <1>2, <2>1, <2>2 DEF IInv, Evidence, SnapshotsAgree
  <2>4. \A m \in Monitors : Unresolved(m) \/ Agrees(s, m)
    BY <1>2, <2>1, <2>2 DEF IInv, Evidence, SnapshotsAgree
  <2>5. QED BY <1>1, <1>2, <1>3, <2>3, <2>4 DEF Unresolved
<1>5. CASE ~recovering
  <2>1. s = final /\ todo = {}
    BY <1>5 DEF SaveCandidates, ReadyToSave
  <2>2. /\ \A x \in done : x.asset \in Monitors => Says(s, x)
        /\ \A m \in Monitors : (\E x \in done : x.asset = m) \/ Agrees(s, m)
    BY <1>5, <2>1 DEF IInv, Control, Executing, ReadyToSave, PlanKnows
  <2>3. QED BY <1>1, <1>2, <1>3, <2>2
<1>6. QED BY <1>4, <1>5

-----------------------------------------------------------------------------
(* The actions                                                             *)

\* Beginning a command, and the journal gate it passes.
LEMMA BeginStep ==
    ASSUME IInv, Begin
    PROVE  Evidence' /\ Control'
<1>1. CASE Start
  <2>1. StatesAgree'
    BY <1>1, GateKeeps DEF Start, stores, IInv, Evidence, StatesAgree, Agrees, Unresolved
  <2>2. Evidence'
    BY <1>1, <2>1, GateKeeps, EvidenceKept DEF Start, stores, IInv, Evidence, NoGluedRecord
  <2>3. CASE settings = NoIdentity
    BY <1>1, <2>2, <2>3, QuiesceControl DEF Start
  <2>4. CASE settings # NoIdentity
    <3>1. /\ pc' = "next" /\ recovering' /\ todo' = Pending /\ done' = {}
          /\ tail' = "terminated"
      BY <1>1, <2>4 DEF Start, BeginRecovery, Journal!RecoverClean
    <3>2. Control'
      BY <1>1, <3>1, GateKeeps DEF Start, IInv, Control, Executing, InHand, ReplayKnows
    <3>3. QED BY <2>2, <3>2
  <2>5. QED BY <2>3, <2>4
<1>2. ASSUME NEW c \in {"sync", "checkin"}, BeginCommand(c)
      PROVE  Evidence' /\ Control'
  <2>1. StatesAgree'
    BY <1>2, GateKeeps, StatesKept DEF BeginCommand, stores, IInv, Evidence
  <2>2. Evidence'
    BY <1>2, <2>1, GateKeeps, EvidenceKept
       DEF BeginCommand, stores, IInv, Evidence, NoGluedRecord
  <2>3. /\ pc' = "next" /\ recovering' /\ todo' = Pending /\ done' = {}
        /\ tail' = "terminated"
    BY <1>2 DEF BeginCommand, BeginRecovery, Journal!RecoverClean
  <2>4. Control'
    BY <1>2, <2>3, GateKeeps DEF BeginCommand, IInv, Control, Executing, InHand, ReplayKnows
  <2>5. QED BY <2>2, <2>4
<1>3. QED BY <1>1, <1>2 DEF Begin

\* The invariant survives Replay.
LEMMA ReplayStep ==
    ASSUME IInv, NEW x \in Operations, Replay(x)
    PROVE  Evidence' /\ Control'
<1>1. /\ Pending' = Pending /\ phase' = phase /\ before' = before /\ snap' = snap
      /\ defect' = defect /\ tail' = tail /\ effect' = effect /\ mem' = mem /\ disk' = disk
  BY DEF Replay, journal, stores, Pending, Journal!Pending
<1>2. Evidence'
  BY <1>1, StatesKept, EvidenceKept DEF IInv, Evidence, NoGluedRecord
<1>3. x \in todo
  BY DEF Replay, Journal!Oldest
<1>4. Control'
  BY <1>1, <1>3 DEF Replay, IInv, Control, Executing, InHand, ReplayKnows
<1>5. QED BY <1>2, <1>4

\* The invariant survives Prepare.
LEMMA PrepareStep ==
    ASSUME IInv, NEW x \in Operations, Prepare(x)
    PROVE  Evidence' /\ Control'
<1>1. x \in todo /\ pc = "next" /\ ~recovering /\ tail = "terminated"
  BY DEF Prepare, NextInPlan, IInv, Control, Executing
<1>2. Journal!Fold(x, "prepared", Transition(cur, x)) /\ tail' = "terminated"
  BY <1>1, ClosedAppend DEF Prepare
<1>3. effect' = effect /\ mem' = mem /\ disk' = disk
  BY DEF Prepare, stores
<1>4. /\ Evidence'
      /\ Pending' = Pending \cup {x}
      /\ phase'[x] = "prepared" /\ \A y \in Pending : phase'[y] = phase[y]
      /\ before'[x] = Pending
  BY <1>1, <1>2, <1>3, NextCandidate, PreparedKeepsEvidence DEF IInv
<1>5. /\ todo' = todo /\ done' = done /\ cur' = cur /\ final' = final
      /\ op' = x /\ pc' = "mutate" /\ recovering' = recovering
  BY DEF Prepare
<1>6. /\ todo \cap done = {} /\ (\A y \in done : phase[y] = "observed") /\ Pending = done
      /\ PlanKnows
  BY <1>1 DEF IInv, Control, Executing, PlanKnows, InHand
<1>7. PlanKnows'
  BY <1>1, <1>3, <1>4, <1>5, <1>6 DEF PlanKnows, InHand, Says, Agrees, Unresolved
<1>8. Control'
  BY <1>1, <1>2, <1>4, <1>5, <1>6, <1>7 DEF Control, Executing, InHand
<1>9. QED BY <1>4, <1>8

\* The invariant survives Mutate.
LEMMA MutateStep ==
    ASSUME IInv, Mutate
    PROVE  Evidence' /\ Control'
<1>1. op \in todo /\ op \in Pending /\ pc = "mutate" /\ tail = "terminated" /\ op \in Operations
  BY DEF Mutate, IInv, TypeOK, Control, Executing, InHand
<1>2. /\ Evidence' /\ Pending' = Pending
      /\ effect'[op.asset] = Target(op)
      /\ \A a \in Assets \ {op.asset} : effect'[a] = effect[a]
  BY <1>1, EstablishKeepsEvidence DEF Mutate, IInv
<1>3. /\ phase' = phase /\ before' = before /\ tail' = tail
      /\ cur' = cur /\ final' = final /\ recovering' = recovering
  BY DEF Mutate, journal
<1>4. /\ todo \cap done = {} /\ \A y \in done : phase[y] = "observed"
      /\ IF recovering THEN ReplayKnows ELSE PlanKnows
  BY <1>1 DEF IInv, Control, Executing
<1>5. CASE phase[op] = "observed"
  <2>1. /\ pc' = "next" /\ todo' = todo \ {op} /\ done' = done \cup {op}
    BY <1>5 DEF Mutate
  <2>2. recovering /\ ReplayKnows
    BY <1>1, <1>4, <1>5 DEF PlanKnows
  <2>3. Control'
    BY <1>1, <1>2, <1>3, <1>4, <1>5, <2>1, <2>2 DEF Control, Executing, InHand, ReplayKnows
  <2>4. QED BY <1>2, <2>3
<1>6. CASE phase[op] # "observed"
  <2>1. /\ pc' = "observe" /\ op' = op /\ todo' = todo /\ done' = done
    BY <1>6 DEF Mutate
  <2>2. phase[op] = "prepared"
    BY <1>1, <1>6 DEF Pending, Journal!Pending
  <2>3. CASE recovering
    BY <1>1, <1>2, <1>3, <1>4, <2>1, <2>2, <2>3
       DEF Control, Executing, InHand, ReplayKnows, Target
  <2>4. CASE ~recovering
    <3>1. \A m \in Monitors : m = op.asset \/ effect'[m] = effect[m]
      BY <1>2 DEF Assets
    <3>2. PlanKnows'
      BY <1>1, <1>2, <1>3, <1>4, <2>1, <2>4, <3>1
         DEF PlanKnows, InHand, Says, Agrees, Unresolved
    <3>3. QED BY <1>1, <1>2, <1>3, <1>4, <2>1, <2>2, <2>4, <3>2
                 DEF Control, Executing, InHand, Target
  <2>5. QED BY <1>2, <2>3, <2>4
<1>7. QED BY <1>5, <1>6

\* The invariant survives Observe.
LEMMA ObserveStep ==
    ASSUME IInv, Observe
    PROVE  Evidence' /\ Control'
<1>1. /\ op \in todo /\ op \in Pending /\ pc = "observe" /\ tail = "terminated"
      /\ op \in Operations /\ phase[op] = "prepared" /\ effect[op.asset] = Target(op)
  BY DEF Observe, IInv, TypeOK, Control, Executing, InHand
<1>2. Journal!Fold(op, "observed", snap[op]) /\ tail' = "terminated"
  BY <1>1, ClosedAppend DEF Observe
<1>3. effect' = effect /\ mem' = mem /\ disk' = disk
  BY DEF Observe, stores
<1>4. /\ Evidence' /\ Pending' = Pending
      /\ phase'[op] = "observed" /\ \A y \in Operations \ {op} : phase'[y] = phase[y]
      /\ before' = before /\ snap' = snap
  BY <1>1, <1>2, <1>3, ObservedKeepsEvidence DEF IInv
<1>5. /\ pc' = "next" /\ todo' = todo \ {op} /\ done' = done \cup {op}
      /\ cur' = (IF recovering THEN cur ELSE snap[op])
      /\ final' = final /\ recovering' = recovering
  BY DEF Observe
<1>6. /\ todo \cap done = {} /\ (\A y \in done : phase[y] = "observed")
      /\ done \subseteq Operations
      /\ IF recovering THEN ReplayKnows ELSE PlanKnows
  BY <1>1 DEF IInv, TypeOK, Control, Executing
<1>7. CASE recovering
  BY <1>1, <1>2, <1>4, <1>5, <1>6, <1>7 DEF Control, Executing, InHand, ReplayKnows
<1>8. CASE ~recovering
  <2>1. Pending = done \cup {op} /\ Pending \subseteq before[op] \cup {op}
    BY <1>1, <1>6, <1>8 DEF PlanKnows, InHand
  <2>2. /\ \A y \in Pending : y.asset \in Monitors => Says(snap[op], y)
        /\ \A m \in Monitors : Unresolved(m) \/ Agrees(snap[op], m)
    BY <1>1, <2>1 DEF IInv, Evidence, SnapshotsAgree
  <2>3. todo' \cup done' = todo \cup done
    BY <1>1, <1>5
  <2>4. PlanKnows'
    BY <1>1, <1>3, <1>4, <1>5, <1>6, <1>8, <2>1, <2>2, <2>3
       DEF PlanKnows, InHand, Says, Agrees, Unresolved
  <2>5. QED BY <1>1, <1>2, <1>4, <1>5, <1>6, <1>8, <2>4 DEF Control, Executing, InHand
<1>9. QED BY <1>7, <1>8

\* Steps on which everything Evidence speaks of stays as it is.
LEMMA IdleEvidence ==
    ASSUME IInv, UNCHANGED <<mem, disk, effect>>,
           \/ UNCHANGED <<phase, before, snap, defect>>
           \/ Journal!RecoverClean \/ Journal!RecoverBlocked
           \/ Journal!RecoverFailed \/ Journal!Compact
    PROVE  Evidence' /\ Pending' = Pending /\ \A x \in Pending : phase'[x] = phase[x]
<1>1. /\ Pending' = Pending /\ \A x \in Pending : phase'[x] = phase[x]
      /\ before' = before /\ snap' = snap /\ defect' = defect
  <2>1. CASE UNCHANGED <<phase, before, snap, defect>>
    BY <2>1 DEF Pending, Journal!Pending
  <2>2. QED BY <2>1, GateKeeps DEF IInv
<1>2. QED BY <1>1, StatesKept, EvidenceKept DEF IInv, Evidence, NoGluedRecord

\* The end of a recovery leaves nothing pending behind.
LEMMA EndRecoveryControl ==
    ASSUME IInv, EndRecovery, Pending' = {}, tail' = "terminated"
    PROVE  Control'
<1>1. CASE cmd = "startup"
  BY <1>1, QuiesceControl DEF EndRecovery
<1>2. CASE cmd # "startup"
  BY <1>2 DEF EndRecovery, Control, Executing, InHand
<1>3. QED BY <1>1, <1>2

\* The invariant survives NothingPending.
LEMMA NothingPendingStep ==
    ASSUME IInv, NothingPending
    PROVE  Evidence' /\ Control'
<1>1. Evidence' /\ Pending' = Pending
  BY IdleEvidence DEF NothingPending, stores, journal
<1>2. Pending = {} /\ tail = "terminated"
  BY DEF NothingPending, IInv, Control, Executing, ReplayKnows
<1>3. Control'
  BY <1>1, <1>2, EndRecoveryControl DEF NothingPending, journal
<1>4. QED BY <1>1, <1>3

\* The invariant survives Save.
LEMMA SaveStep ==
    ASSUME IInv, Save
    PROVE  Evidence' /\ Control'
<1>1. /\ Pending = done /\ (\A x \in done : phase[x] = "observed")
      /\ \A m \in Monitors : Agrees(mem', m) /\ Agrees(disk', m)
  BY SavedAgrees DEF Save
<1>2. /\ Pending' = Pending /\ phase' = phase /\ before' = before /\ snap' = snap
      /\ defect' = defect /\ tail' = tail /\ effect' = effect
  BY DEF Save, journal, Pending, Journal!Pending
<1>3. StatesAgree'
  BY <1>1, <1>2 DEF StatesAgree, Agrees
<1>4. Evidence'
  BY <1>2, <1>3, EvidenceKept DEF IInv, Evidence, NoGluedRecord
<1>5. tail = "terminated" /\ pc' = "commit" /\ todo' = done
  BY DEF Save, ReadyToSave, IInv, Control, Executing
<1>6. Control'
  BY <1>1, <1>2, <1>5 DEF Control, Executing, InHand, Agrees
<1>7. QED BY <1>4, <1>6

\* The invariant survives SaveFails.
LEMMA SaveFailsStep ==
    ASSUME IInv, SaveFails
    PROVE  Evidence' /\ Control'
<1>1. disk' = disk \/ \A m \in Monitors : Agrees(disk', m)
  BY SavedAgrees DEF SaveFails
<1>2. /\ Pending' = Pending /\ phase' = phase /\ before' = before /\ snap' = snap
      /\ defect' = defect /\ effect' = effect /\ mem' = mem
  BY DEF SaveFails, journal, Pending, Journal!Pending
<1>3. StatesAgree'
  BY <1>1, <1>2 DEF IInv, Evidence, StatesAgree, Agrees, Unresolved
<1>4. QED BY <1>2, <1>3, EvidenceKept, AbortControl DEF SaveFails, IInv, Evidence, NoGluedRecord

\* A terminal record, whether its append succeeds or fails.
LEMMA CommitKeeps ==
    ASSUME IInv, pc = "commit", NEW x \in Journal!Oldest(todo),
           Journal!Fold(x, "committed", EmptyState),
           UNCHANGED <<mem, disk, effect>>
    PROVE  /\ Evidence' /\ Pending' = Pending \ {x}
           /\ \A y \in Pending' : phase'[y] = phase[y]
<1>1. /\ Pending = todo /\ (\A y \in todo : phase[y] = "observed")
      /\ \A m \in Monitors : Agrees(mem, m) /\ Agrees(disk, m)
  BY DEF IInv, Control
<1>2. x \in Journal!Oldest(Pending) /\ phase[x] = "observed"
  BY <1>1 DEF Journal!Oldest
<1>3. QED BY <1>1, <1>2, CommittedKeepsEvidence DEF IInv

\* The invariant survives Commit.
LEMMA CommitStep ==
    ASSUME IInv, NEW x \in Operations, Commit(x) \/ CommitFails(x)
    PROVE  Evidence' /\ Control'
<1>1. UNCHANGED <<mem, disk, effect>> /\ pc = "commit" /\ x \in Journal!Oldest(todo)
  BY DEF Commit, CommitFails, stores
<1>2. CASE Commit(x)
  <2>1. tail = "terminated"
    BY <1>1 DEF IInv, Control
  <2>2. Journal!Fold(x, "committed", EmptyState) /\ tail' = "terminated"
    BY <1>2, <2>1, ClosedAppend DEF Commit
  <2>3. /\ Evidence' /\ Pending' = Pending \ {x}
        /\ \A y \in Pending' : phase'[y] = phase[y]
    BY <1>1, <2>2, CommitKeeps
  <2>4. pc' = "commit" /\ todo' = todo \ {x}
    BY <1>1, <1>2 DEF Commit
  <2>5. Control'
    BY <1>1, <2>2, <2>3, <2>4 DEF IInv, Control, Executing, InHand, Agrees
  <2>6. QED BY <2>3, <2>5
<1>3. CASE CommitFails(x)
  <2>1. \/ UNCHANGED <<phase, before, snap, defect>>
        \/ Journal!Fold(x, "committed", EmptyState)
    BY <1>3, TornAppend DEF CommitFails
  <2>2. Evidence'
    BY <1>1, <2>1, CommitKeeps, IdleEvidence
  <2>3. QED BY <1>3, <2>2, AbortControl DEF CommitFails
<1>4. QED BY <1>2, <1>3

\* The invariant survives Compact.
LEMMA CompactStep ==
    ASSUME IInv, CompactJournal
    PROVE  Evidence' /\ Control'
<1>1. Evidence' /\ Pending' = Pending
  BY IdleEvidence DEF CompactJournal, stores
<1>2. Pending' = {} /\ tail' = "terminated"
  BY <1>1 DEF CompactJournal, IInv, Control, Journal!Compact
<1>3. CASE recovering
  BY <1>1, <1>2, <1>3, EndRecoveryControl DEF CompactJournal
<1>4. CASE ~recovering
  BY <1>1, <1>4, QuiesceControl DEF CompactJournal
<1>5. QED BY <1>3, <1>4

\* Planning starts from a state that agrees with everything the service did.
LEMMA PlanStep ==
    ASSUME IInv, pc = "plan",
           NEW goal \in ServiceStates, NEW base \in ServiceStates,
           NEW ops \in SUBSET Operations, StartPlan(goal, base, ops),
           base.out = mem.out,
           \A x, y \in ops : x.asset = y.asset => x = y,
           \A x \in ops : x.asset \in Monitors => Says(goal, x),
           \A m \in Monitors : \/ \E x \in ops : x.asset = m
                               \/ (m \in goal.out <=> m \in mem.out)
    PROVE  Evidence' /\ Control'
<1>1. Evidence' /\ Pending' = Pending
  BY IdleEvidence DEF StartPlan, stores, journal
<1>2. Pending = {} /\ done = {} /\ ~recovering /\ tail = "terminated"
  BY DEF IInv, Control
<1>3. \A m \in Monitors : Agrees(mem, m)
  BY <1>2 DEF IInv, Evidence, StatesAgree, Unresolved
<1>4. /\ pc' = "next" /\ todo' = ops /\ done' = done /\ recovering' = recovering
      /\ cur' = base /\ final' = goal /\ tail' = tail /\ effect' = effect
  BY DEF StartPlan, stores, journal
<1>5. PlanKnows'
  BY <1>1, <1>2, <1>3, <1>4 DEF PlanKnows, InHand, Says, Agrees
<1>6. Control'
  BY <1>2, <1>4, <1>5 DEF Control, Executing, InHand
<1>7. QED BY <1>1, <1>6

\* The invariant survives PlanSync.
LEMMA PlanSyncStep ==
    ASSUME IInv,
           NEW present \in SUBSET Monitors, NEW outs \in SUBSET Monitors,
           NEW ins \in SUBSET Monitors, NEW patches \in SUBSET {Patch},
           PlanSync(present, outs, ins, patches)
    PROVE  Evidence' /\ Control'
<1> DEFINE goal == [out |-> (mem.out \cup outs) \ ins, absent |-> Monitors \ present,
                    result |-> "ok"]
           base == [mem EXCEPT !.result = "ok"]
           ops  == patches \cup {Checkout(m) : m \in outs} \cup {Checkin(m) : m \in ins}
<1>1. pc = "plan" /\ StartPlan(goal, base, ops)
  BY DEF PlanSync
<1>2. outs \cap mem.out = {} /\ ins \subseteq mem.out /\ outs \cap ins = {}
  BY DEF PlanSync
<1>3. mem \in ServiceStates
  BY DEF IInv, TypeOK
<1>4. goal \in ServiceStates /\ base \in ServiceStates /\ base.out = mem.out
  BY <1>3 DEF ServiceStates
<1>5. ops \in SUBSET Operations
  BY DEF Operations, Patch, Checkout, Checkin
<1>6. \A x \in ops : \/ x = Patch
                     \/ x.asset \in outs /\ x = Checkout(x.asset)
                     \/ x.asset \in ins /\ x = Checkin(x.asset)
  BY DEF Checkout, Checkin
<1>7. Patch.asset \notin Monitors
  BY OwnerAssumption DEF Patch
<1>8. \A x, y \in ops : x.asset = y.asset => x = y
  BY <1>2, <1>6, <1>7
<1>9. \A x \in ops : x.asset \in Monitors => Says(goal, x)
  BY <1>2, <1>6, <1>7 DEF Says, Checkout, Checkin
<1>10. ASSUME NEW m \in Monitors
       PROVE  (\E x \in ops : x.asset = m) \/ (m \in goal.out <=> m \in mem.out)
  <2>1. m \in outs => Checkout(m) \in ops /\ Checkout(m).asset = m
    BY DEF Checkout
  <2>2. m \in ins => Checkin(m) \in ops /\ Checkin(m).asset = m
    BY DEF Checkin
  <2>3. QED BY <2>1, <2>2
<1> HIDE DEF goal, base, ops
<1>11. QED BY <1>1, <1>4, <1>5, <1>8, <1>9, <1>10, PlanStep

\* The invariant survives PlanCheckin.
LEMMA PlanCheckinStep ==
    ASSUME IInv, NEW ins \in SUBSET Monitors, PlanCheckin(ins)
    PROVE  Evidence' /\ Control'
<1> DEFINE goal == [mem EXCEPT !.out = @ \ ins]
           ops  == {Checkin(m) : m \in ins}
<1>1. pc = "plan" /\ StartPlan(goal, mem, ops)
  BY DEF PlanCheckin
<1>2. mem \in ServiceStates
  BY DEF IInv, TypeOK
<1>3. goal \in ServiceStates /\ goal.out = mem.out \ ins
  BY <1>2 DEF ServiceStates
<1>4. ops \in SUBSET Operations
  BY DEF Operations, Checkin
<1>5. \A x \in ops : x.asset \in ins /\ x = Checkin(x.asset)
  BY DEF Checkin
<1>6. \A x \in ops : x.asset \in Monitors => Says(goal, x)
  BY <1>3, <1>5 DEF Says, Checkin
<1>7. ASSUME NEW m \in Monitors
      PROVE  (\E x \in ops : x.asset = m) \/ (m \in goal.out <=> m \in mem.out)
  <2>1. m \in ins => Checkin(m) \in ops /\ Checkin(m).asset = m
    BY DEF Checkin
  <2>2. QED BY <1>3, <2>1
<1> HIDE DEF goal, ops
<1>8. QED BY <1>1, <1>2, <1>3, <1>4, <1>5, <1>6, <1>7, PlanStep

\* The invariant survives RecordFailure.
LEMMA RecordFailureStep ==
    ASSUME IInv, SaveFailure \/ SaveFailureFails
    PROVE  Evidence' /\ Control'
<1>1. mem \in ServiceStates /\ FailureRecord.out = mem.out
  BY DEF IInv, TypeOK, FailureRecord, ServiceStates
<1>2. /\ Pending' = Pending /\ phase' = phase /\ before' = before /\ snap' = snap
      /\ defect' = defect /\ effect' = effect
      /\ mem'.out = mem.out /\ (disk' = disk \/ disk'.out = mem.out)
  BY <1>1 DEF SaveFailure, SaveFailureFails, journal, Pending, Journal!Pending
<1>3. StatesAgree'
  BY <1>2 DEF IInv, Evidence, StatesAgree, Agrees, Unresolved
<1>4. QED BY <1>2, <1>3, EvidenceKept, QuiesceControl
             DEF SaveFailure, SaveFailureFails, IInv, Evidence, NoGluedRecord

\* The invariant survives Failure.
LEMMA FailureStep ==
    ASSUME IInv, Failure
    PROVE  Evidence' /\ Control'
<1>1. ASSUME NEW x \in Operations, PrepareFails(x)
      PROVE  Evidence' /\ Control'
  <2>1. x \in todo /\ pc = "next" /\ ~recovering /\ UNCHANGED <<mem, disk, effect>>
    BY <1>1 DEF PrepareFails, NextInPlan, stores
  <2>2. \/ UNCHANGED <<phase, before, snap, defect>>
        \/ Journal!Fold(x, "prepared", Transition(cur, x))
    BY <1>1, TornAppend DEF PrepareFails
  <2>3. Evidence'
    BY <2>1, <2>2, IdleEvidence, NextCandidate, PreparedKeepsEvidence DEF IInv
  <2>4. QED BY <1>1, <2>3, AbortControl DEF PrepareFails
<1>2. ASSUME NEW x \in Operations, CommitFails(x)
      PROVE  Evidence' /\ Control'
  BY <1>2, CommitStep
<1>3. CASE MutateFails
  <2>1. op \in Pending /\ mem' = mem /\ disk' = disk
    BY <1>3 DEF MutateFails, IInv, Control, InHand
  <2>2. CASE Establish
    BY <1>3, <2>1, <2>2, EstablishKeepsEvidence, AbortControl DEF MutateFails, IInv
  <2>3. CASE UNCHANGED <<remote, effect>>
    BY <1>3, <2>1, <2>3, IdleEvidence, AbortControl DEF MutateFails, journal
  <2>4. QED BY <1>3, <2>2, <2>3 DEF MutateFails
<1>4. CASE ObserveFails
  <2>1. /\ op \in Operations /\ phase[op] = "prepared" /\ effect[op.asset] = Target(op)
        /\ UNCHANGED <<mem, disk, effect>>
    BY <1>4 DEF ObserveFails, stores, IInv, TypeOK, Control
  <2>2. \/ UNCHANGED <<phase, before, snap, defect>>
        \/ Journal!Fold(op, "observed", snap[op])
    BY <1>4, TornAppend DEF ObserveFails
  <2>3. Evidence'
    BY <2>1, <2>2, IdleEvidence, ObservedKeepsEvidence DEF IInv
  <2>4. QED BY <1>4, <2>3, AbortControl DEF ObserveFails
<1>5. CASE SaveFails
  BY <1>5, SaveFailsStep
<1>6. CASE CompactFails
  BY <1>6, IdleEvidence, AbortControl DEF CompactFails, JournalRefuses, stores, journal
<1>7. CASE GatherFails
  BY <1>7, IdleEvidence, AbortControl DEF GatherFails, stores, journal
<1>8. CASE SaveFailureFails
  BY <1>8, RecordFailureStep
<1>9. CASE JournalRefused
  <2>1. Evidence'
    BY <1>9, IdleEvidence DEF JournalRefused, JournalRefuses, JournalGateFails, stores
  <2>2. Control'
    BY <1>9 DEF JournalRefused, work, Control, Executing, InHand
  <2>3. QED BY <2>1, <2>2
<1>10. CASE Crash
  BY <1>10, IdleEvidence, QuiesceControl DEF Crash, stores, journal
<1>11. QED BY <1>1, <1>2, <1>3, <1>4, <1>5, <1>6, <1>7, <1>8, <1>9, <1>10 DEF Failure

\* The invariant survives Outside.
LEMMA OutsideStep ==
    ASSUME IInv, Outside
    PROVE  Evidence' /\ Control'
<1>1. ASSUME NEW i \in Identities, SetIdentity(i) \/ SetIdentityFails(i)
      PROVE  Evidence' /\ Control'
  <2>1. Evidence'
    BY <1>1, IdleEvidence DEF SetIdentity, SetIdentityFails
  <2>2. pc' = "idle"
    BY <1>1 DEF SetIdentity, SetIdentityFails, work
  <2>3. QED BY <2>1, <2>2 DEF Control, Executing, InHand
<1>2. CASE IdentityRefused
  <2>1. Evidence'
    BY <1>2, IdleEvidence DEF IdentityRefused, stores
  <2>2. pc' = "idle"
    BY <1>2 DEF IdentityRefused, work
  <2>3. QED BY <2>1, <2>2 DEF Control, Executing, InHand
<1>3. ASSUME NEW a \in Assets, NEW v \in {"ours", "none", "other"}, AdminEdit(a, v)
      PROVE  Evidence' /\ Control'
  <2>1. Evidence'
    BY <1>3, IdleEvidence DEF AdminEdit, journal
  <2>2. UNCHANGED <<work, mem, disk, effect, journal>>
    BY <1>3 DEF AdminEdit
  <2>3. QED BY <2>1, <2>2 DEF work, journal, IInv, Control, Executing, InHand, ReplayKnows,
                              PlanKnows, Pending, Journal!Pending, Unresolved, Says, Agrees,
                              Target
<1>4. ASSUME NEW x \in Operations, Refuse(x) \/ Relent(x)
      PROVE  Evidence' /\ Control'
  <2>1. Evidence'
    BY <1>4, IdleEvidence DEF Refuse, Relent, journal
  <2>2. UNCHANGED <<work, mem, disk, effect, journal>>
    BY <1>4 DEF Refuse, Relent
  <2>3. QED BY <2>1, <2>2 DEF work, journal, IInv, Control, Executing, InHand, ReplayKnows,
                              PlanKnows, Pending, Journal!Pending, Unresolved, Says, Agrees,
                              Target
<1>5. QED BY <1>1, <1>2, <1>3, <1>4 DEF Outside

\* Every step of the command owner preserves IInv.
LEMMA InvariantStep ==
    ASSUME IInv, [Next]_vars
    PROVE  IInv'
<1>1. TypeOK'
  BY TypeStep DEF IInv
<1>2. CASE Begin
  BY <1>1, <1>2, BeginStep DEF IInv
<1>3. CASE Work
  <2>1. ASSUME NEW x \in Operations, Replay(x) \/ Prepare(x) \/ Commit(x)
        PROVE  Evidence' /\ Control'
    BY <2>1, ReplayStep, PrepareStep, CommitStep
  <2>2. ASSUME NEW present \in SUBSET Monitors, NEW outs \in SUBSET Monitors,
               NEW ins \in SUBSET Monitors, NEW patches \in SUBSET {Patch},
               PlanSync(present, outs, ins, patches)
        PROVE  Evidence' /\ Control'
    BY <2>2, PlanSyncStep
  <2>3. ASSUME NEW ins \in SUBSET Monitors, PlanCheckin(ins)
        PROVE  Evidence' /\ Control'
    BY <2>3, PlanCheckinStep
  <2>4. ASSUME NothingToCheckin
        PROVE  Evidence' /\ Control'
    <3>1. Evidence'
      BY <2>4, IdleEvidence DEF NothingToCheckin, stores, journal
    <3>2. Quiesce("idle")
      BY <2>4 DEF NothingToCheckin
    <3>3. QED BY <3>1, <3>2, QuiesceControl
  <2>5. ASSUME Mutate \/ Observe \/ NothingPending \/ Save \/ CompactJournal \/ SaveFailure
        PROVE  Evidence' /\ Control'
    BY <2>5, MutateStep, ObserveStep, NothingPendingStep, SaveStep, CompactStep,
       RecordFailureStep
  <2>6. ASSUME MutateRefused
        PROVE  Evidence' /\ Control'
    BY <2>6, IdleEvidence, AbortControl DEF MutateRefused, stores, journal
  <2>7. Evidence' /\ Control'
    BY <1>3, <2>1, <2>2, <2>3, <2>4, <2>5, <2>6 DEF Work
  <2>8. QED BY <1>1, <2>7 DEF IInv
<1>4. CASE Failure
  BY <1>1, <1>4, FailureStep DEF IInv
<1>5. CASE Outside
  BY <1>1, <1>5, OutsideStep DEF IInv
<1>6. CASE UNCHANGED vars
  <2>1. Evidence'
    BY <1>6, IdleEvidence DEF vars, stores, journal
  <2>2. Control'
    BY <1>6 DEF vars, work, stores, journal, IInv, Control, Executing, InHand, ReplayKnows,
                PlanKnows, Pending, Journal!Pending, Unresolved, Says, Agrees, Target
  <2>3. QED BY <1>1, <2>1, <2>2 DEF IInv
<1>7. QED BY <1>2, <1>3, <1>4, <1>5, <1>6 DEF Next

\* The invariant holds initially.
LEMMA InvariantInit == Init => IInv
<1> SUFFICES ASSUME Init PROVE IInv
  OBVIOUS
<1>1. Pending = {} /\ before = [x \in Operations |-> {}]
  BY DEF Init, Journal!JournalInit, Pending, Journal!Pending
<1>2. \A m \in Monitors : Agrees(mem, m) /\ Agrees(disk, m)
  BY DEF Init, Agrees, EmptyState, Assets
<1>3. Evidence
  BY <1>1, <1>2 DEF Init, Journal!JournalInit, Evidence, NoConflictingPending,
     ObservedWasApplied, PendingOrder, SnapshotsAgree, StatesAgree, NoGluedRecord
<1>4. Control
  BY DEF Init, Control, Executing, InHand
<1>5. QED BY <1>3, <1>4, TypeInit DEF IInv

-----------------------------------------------------------------------------
(* The theorems                                                            *)

\* The inductive invariant holds throughout (service.rs, sync_engine.rs and
\* operation_journal.rs together).
THEOREM InvariantHolds == Spec => []IInv
<1>1. QED BY InvariantInit, InvariantStep, PTL DEF Spec

\* No assignment the service made is forgotten by both state.toml and the journal
\* (state saved last, journal committed after the save).
THEOREM EffectsKept == Spec => []NoLostEffect
<1>1. IInv => NoLostEffect
  BY DEF IInv, Evidence, StatesAgree, Agrees, NoLostEffect
<1>2. QED BY <1>1, InvariantHolds, PTL

\* Nor does state.toml record one that was not made, unless a replay is to come.
THEOREM EffectsReal == Spec => []NoPhantomCheckout
<1>1. IInv => NoPhantomCheckout
  BY DEF IInv, Evidence, StatesAgree, Agrees, NoPhantomCheckout
<1>2. QED BY <1>1, InvariantHolds, PTL

\* Pending operations never compete for an asset (recover_before_new_work).
THEOREM PendingDisjoint == Spec => []NoConflictingPending
<1>1. IInv => NoConflictingPending
  BY DEF IInv, Evidence
<1>2. QED BY <1>1, InvariantHolds, PTL

\* An outcome on file is one the service did establish (operation_journal.rs,
\* recover_pending).
THEOREM EvidenceSound == Spec => []ObservedWasApplied
<1>1. IInv => ObservedWasApplied
  BY DEF IInv, Evidence
<1>2. QED BY <1>1, InvariantHolds, PTL

\* append never writes onto an unfinished line.
THEOREM NeverGlued == Spec => []NoGluedRecord
<1>1. IInv => NoGluedRecord
  BY DEF IInv, Evidence
<1>2. QED BY <1>1, InvariantHolds, PTL

\* Memory and state.toml record a monitor alike unless an operation on it is on file,
\* whenever the service runs and whatever has failed.
THEOREM MemoryCurrent == Spec => []MemoryMatchesDisk
<1>1. IInv => MemoryMatchesDisk
  BY DEF IInv, Evidence, StatesAgree, Agrees, MemoryMatchesDisk
<1>2. QED BY <1>1, InvariantHolds, PTL

\* What the service does to an asset is on file before it is done.
THEOREM MutationsOnFile == Spec => WriteAhead
<1> DEFINE OnFile == \A a \in Assets :
                       effect'[a] # effect[a] =>
                         \E x \in Pending : x.asset = a /\ Target(x) = effect'[a]
<1>1. ASSUME IInv, [Next]_vars PROVE OnFile
  <2>1. CASE effect' = effect
    BY <2>1
  <2>2. CASE Mutate \/ MutateFails
    <3>1. op \in Pending /\ op \in Operations
      BY <1>1, <2>2 DEF Mutate, MutateFails, IInv, TypeOK, Control, InHand
    <3>2. CASE Establish
      BY <1>1, <3>1, <3>2 DEF Establish, IInv, TypeOK
    <3>3. QED BY <2>1, <2>2, <3>2 DEF Mutate, MutateFails
  <2>3. CASE ~(Mutate \/ MutateFails)
    <3>1. Begin => effect' = effect
      BY DEF Begin, Start, BeginCommand, stores
    <3>2. Work => effect' = effect
      BY <2>3 DEF Work, Replay, Prepare, Commit, MutateRefused, Observe, NothingPending, Save,
                  CompactJournal, PlanSync, PlanCheckin, StartPlan, NothingToCheckin,
                  SaveFailure, stores
    <3>3. Failure => effect' = effect
      BY <2>3 DEF Failure, PrepareFails, CommitFails, ObserveFails, SaveFails, CompactFails,
                  GatherFails, SaveFailureFails, JournalRefused, Crash, stores
    <3>4. Outside => effect' = effect
      BY DEF Outside, SetIdentity, SetIdentityFails, IdentityRefused, AdminEdit, Refuse,
             Relent, stores
    <3>5. QED BY <1>1, <2>1, <3>1, <3>2, <3>3, <3>4 DEF Next, vars, stores
  <2>4. QED BY <2>2, <2>3
<1>2. QED BY <1>1, InvariantHolds, PTL DEF Spec, WriteAhead

\* A mutation is prepared only when everything on file is the applied part of the
\* plan it belongs to.
THEOREM RecoveryBeforeWork == Spec => RecoveryFirst
<1>1. ASSUME IInv, [Next]_vars
      PROVE  Pending' \subseteq Pending \/ Pending \subseteq done
  <2>1. CASE UNCHANGED phase
    BY <2>1 DEF Pending, Journal!Pending
  <2>2. ASSUME NEW x \in Operations, Prepare(x) \/ PrepareFails(x)
        PROVE  Pending \subseteq done
    BY <1>1, <2>2 DEF Prepare, PrepareFails, IInv, Control, Executing, PlanKnows, InHand
  <2>3. CASE Observe \/ ObserveFails
    <3>1. op \in Operations /\ op \in Pending /\ phase[op] = "prepared"
      BY <1>1, <2>3 DEF Observe, ObserveFails, IInv, TypeOK, Control, InHand
    <3>2. \/ UNCHANGED phase
          \/ phase' = [phase EXCEPT ![op] = "observed"]
      BY <2>3, <3>1 DEF Observe, ObserveFails, Journal!AppendOk, Journal!AppendTorn,
                        Journal!Glue, Journal!Fold, Journal!FoldLegal, Journal!FoldIllegal
    <3>3. CASE phase' = [phase EXCEPT ![op] = "observed"]
      BY <1>1, <3>1, <3>3 DEF IInv, TypeOK, Journal!JournalTypeOK, Pending, Journal!Pending
    <3>4. QED BY <2>1, <3>2, <3>3
  <2>4. ASSUME NEW x \in Operations, Commit(x) \/ CommitFails(x)
        PROVE  Pending' \subseteq Pending
    <3>1. \/ UNCHANGED phase
          \/ phase' = [phase EXCEPT ![x] = "committed"]
      BY <2>4 DEF Commit, CommitFails, Journal!AppendOk, Journal!AppendTorn,
                  Journal!Glue, Journal!Fold, Journal!FoldLegal, Journal!FoldIllegal
    <3>2. CASE phase' = [phase EXCEPT ![x] = "committed"]
      BY <1>1, <2>4, <3>2 DEF IInv, TypeOK, Journal!JournalTypeOK, Pending, Journal!Pending
    <3>3. QED BY <2>1, <3>1, <3>2 DEF Pending, Journal!Pending
  <2>5. Begin => Pending' = Pending
    BY <1>1, GateKeeps DEF Begin, Start, BeginCommand, IInv
  <2>6. CASE CompactJournal \/ CompactFails
    BY <1>1, <2>1, <2>6, GateKeeps DEF CompactJournal, CompactFails, JournalRefuses, journal,
                                       IInv
  <2>7. CASE JournalRefused
    BY <1>1, <2>7, GateKeeps DEF JournalRefused, JournalRefuses, JournalGateFails, IInv
  <2>8. Outside => Pending' = Pending
    <3>1. ASSUME NEW i \in Identities, SetIdentity(i) \/ SetIdentityFails(i)
          PROVE  Pending' = Pending
      BY <1>1, <3>1, GateKeeps DEF SetIdentity, SetIdentityFails, IInv
    <3>2. IdentityRefused => Pending' = Pending
      BY <1>1, GateKeeps DEF IdentityRefused, IInv
    <3>3. ASSUME NEW a \in Assets, NEW v \in {"ours", "none", "other"}, AdminEdit(a, v)
          PROVE  Pending' = Pending
      BY <3>3 DEF AdminEdit, journal, Pending, Journal!Pending
    <3>4. ASSUME NEW x \in Operations, Refuse(x) \/ Relent(x)
          PROVE  Pending' = Pending
      BY <3>4 DEF Refuse, Relent, journal, Pending, Journal!Pending
    <3>5. QED BY <3>1, <3>2, <3>3, <3>4 DEF Outside
  <2>9. Work => \/ UNCHANGED phase
                \/ \E x \in Operations : Prepare(x) \/ Commit(x)
                \/ Observe \/ CompactJournal
    BY DEF Work, Replay, Mutate, MutateRefused, NothingPending, Save, PlanSync, PlanCheckin,
           StartPlan, NothingToCheckin, SaveFailure, journal
  <2>10. Failure => \/ UNCHANGED phase
                    \/ \E x \in Operations : PrepareFails(x) \/ CommitFails(x)
                    \/ ObserveFails \/ CompactFails \/ JournalRefused
    BY DEF Failure, MutateFails, SaveFails, GatherFails, SaveFailureFails, Crash, journal
  <2>11. UNCHANGED vars => UNCHANGED phase
    BY DEF vars, journal
  <2>12. QED BY <1>1, <2>1, <2>2, <2>3, <2>4, <2>5, <2>6, <2>7, <2>8, <2>9, <2>10, <2>11
                DEF Next
<1>2. QED BY <1>1, InvariantHolds, PTL DEF Spec, RecoveryFirst

-----------------------------------------------------------------------------
(* The owner and its journal                                               *)

\* The steps that add a record, whole or torn.
Appends(x, p, c) == Journal!AppendOk(x, p, c) \/ Journal!AppendTorn(x, p, c)

Preparing(x) == Prepare(x) \/ PrepareFails(x)
Observing    == Observe \/ ObserveFails
Committing(x) == Commit(x) \/ CommitFails(x)

\* The steps that gate or rewrite the journal without adding a record.
Gates ==
    \/ Journal!RecoverClean \/ Journal!RecoverBlocked
    \/ Journal!RecoverFailed \/ Journal!Compact

\* Every step of the owner adds a record, passes the gate, compacts, or leaves the
\* journal alone.
LEMMA JournalSteps ==
    ASSUME [Next]_vars
    PROVE  \/ Observing \/ \E x \in Operations : Preparing(x) \/ Committing(x)
           \/ Gates \/ UNCHANGED journal
<1>1. Begin => Gates
  BY DEF Begin, Start, BeginCommand, Gates
<1>2. Work => \/ Observing \/ \E x \in Operations : Preparing(x) \/ Committing(x)
              \/ Gates \/ UNCHANGED journal
  BY DEF Work, Replay, Mutate, MutateRefused, NothingPending, Save, CompactJournal, PlanSync,
         PlanCheckin,
         StartPlan, NothingToCheckin, SaveFailure, Gates, Preparing, Observing, Committing
<1>3. Failure => \/ Observing \/ \E x \in Operations : Preparing(x) \/ Committing(x)
                 \/ Gates \/ UNCHANGED journal
  BY DEF Failure, MutateFails, SaveFails, CompactFails, JournalRefused, JournalRefuses,
         JournalGateFails, GatherFails, SaveFailureFails, Crash, Gates, Preparing, Observing,
         Committing
<1>4. Outside => Gates \/ UNCHANGED journal
  BY DEF Outside, SetIdentity, SetIdentityFails, IdentityRefused, AdminEdit, Refuse, Relent,
         Gates
<1>5. UNCHANGED vars => UNCHANGED journal
  BY DEF vars
<1>6. QED BY <1>1, <1>2, <1>3, <1>4, <1>5 DEF Next

\* What the three records carry.
LEMMA RecordsWritten ==
    ASSUME IInv
    PROVE  /\ \A x \in Operations : Preparing(x) =>
                /\ Appends(x, "prepared", Transition(cur, x))
                /\ Transition(cur, x) \in ServiceStates
                /\ pc = "next" /\ ~recovering /\ x \in todo
           /\ Observing => /\ Appends(op, "observed", snap[op])
                           /\ op \in Operations /\ snap[op] \in ServiceStates
                           /\ phase[op] = "prepared"
           /\ \A x \in Operations : Committing(x) =>
                /\ Appends(x, "committed", EmptyState)
                /\ phase[x] = "observed"
<1>1. ASSUME NEW x \in Operations, Preparing(x)
      PROVE  /\ Appends(x, "prepared", Transition(cur, x))
             /\ Transition(cur, x) \in ServiceStates
             /\ pc = "next" /\ ~recovering /\ x \in todo
  BY <1>1, CandidateTypes DEF IInv, Preparing, Prepare, PrepareFails, NextInPlan, Appends
<1>2. ASSUME Observing
      PROVE  /\ Appends(op, "observed", snap[op])
             /\ op \in Operations /\ snap[op] \in ServiceStates
             /\ phase[op] = "prepared"
  <2>1. pc = "observe" /\ Appends(op, "observed", snap[op])
    BY <1>2 DEF Observing, Observe, ObserveFails, Appends
  <2>2. op \in Operations /\ snap[op] \in ServiceStates
    BY DEF IInv, TypeOK, Journal!JournalTypeOK
  <2>3. phase[op] = "prepared"
    BY <2>1 DEF IInv, Control
  <2>4. QED BY <2>1, <2>2, <2>3
<1>3. ASSUME NEW x \in Operations, Committing(x)
      PROVE  Appends(x, "committed", EmptyState) /\ phase[x] = "observed"
  <2>1. pc = "commit" /\ x \in todo /\ Appends(x, "committed", EmptyState)
    BY <1>3 DEF Committing, Commit, CommitFails, Appends, Journal!Oldest
  <2>2. QED BY <2>1 DEF IInv, Control
<1>4. QED BY <1>1, <1>2, <1>3

\* The owner writes its journal as OperationJournal says, the module that
\* JournalFile implements line by line: each step is one append, recovery or
\* compaction of it, or none (service.rs and sync_engine.rs, through
\* operation_journal.rs).
THEOREM OwnerWritesTheJournal == Spec => Journal!JournalSpec
<1>1. Init => Journal!JournalInit
  BY DEF Init
<1>2. ASSUME IInv, [Next]_vars
      PROVE  [Journal!JournalNext]_(Journal!journal)
  <2>1. ASSUME NEW x \in Operations, NEW p \in RecordPhases, NEW c \in ServiceStates,
               Appends(x, p, c)
        PROVE  Journal!JournalNext
    <3>1. p \in Journal!Phases \ {"absent"}
      BY DEF RecordPhases, Journal!Phases
    <3>2. QED BY <2>1, <3>1 DEF Appends, Journal!JournalNext
  <2>2. ASSUME NEW x \in Operations, Preparing(x) \/ Committing(x)
        PROVE  Journal!JournalNext
    BY <1>2, <2>1, <2>2, RecordsWritten, EmptyStateType DEF RecordPhases
  <2>3. Observing => Journal!JournalNext
    BY <1>2, <2>1, RecordsWritten DEF RecordPhases
  <2>4. Gates => Journal!JournalNext
    BY DEF Gates, Journal!JournalNext
  <2>5. UNCHANGED journal => UNCHANGED Journal!journal
    BY DEF journal, Journal!journal
  <2>6. QED BY <1>2, <2>2, <2>3, <2>4, <2>5, JournalSteps
<1>3. QED BY <1>1, <1>2, InvariantHolds, PTL DEF Spec, Journal!JournalSpec

\* Only an operation whose terminal record outlived its compaction, prepared again,
\* makes the owner's own journal one that load refuses.
THEOREM OnlyReprepareCorrupts == Spec => CorruptedOnlyByReprepare
<1> DEFINE Reprepared == \E x \in Operations : phase[x] = "committed" /\ phase'[x] = "prepared"
<1>1. ASSUME IInv, [Next]_vars
      PROVE  defect = "none" /\ defect' # "none" => Reprepared
  <2>1. ASSUME NEW x \in Operations, NEW p, NEW c, Appends(x, p, c), defect' # defect
        PROVE  Journal!FoldIllegal(x, p, c) \/ defect' = "malformed"
    BY <2>1 DEF Appends, Journal!AppendOk, Journal!AppendTorn, Journal!Glue, Journal!Fold,
                Journal!FoldLegal
  <2>2. defect' # "malformed"
    BY <1>1, InvariantStep DEF IInv, Evidence, NoGluedRecord
  <2>3. ASSUME NEW x \in Operations, Preparing(x), defect' # defect
        PROVE  Reprepared
    <3>1. Journal!FoldIllegal(x, "prepared", Transition(cur, x))
      BY <1>1, <2>1, <2>2, <2>3, RecordsWritten
    <3>2. phase[x] # "absent" /\ phase' = [phase EXCEPT ![x] = "prepared"]
      BY <3>1 DEF Journal!FoldIllegal, Journal!RequiredPhase
    <3>3. x \notin Pending
      BY <1>1, <2>3, RecordsWritten, NextCandidate
    <3>4. phase \in [Operations -> Journal!Phases]
      BY <1>1 DEF IInv, TypeOK, Journal!JournalTypeOK
    <3>5. phase[x] = "committed"
      BY <3>2, <3>3, <3>4 DEF Pending, Journal!Pending, Journal!Phases
    <3>6. QED BY <3>2, <3>4, <3>5
  <2>4. Observing => defect' = defect
    BY <1>1, <2>1, <2>2, RecordsWritten DEF Journal!FoldIllegal, Journal!RequiredPhase
  <2>5. ASSUME NEW x \in Operations, Committing(x)
        PROVE  defect' = defect
    BY <1>1, <2>1, <2>2, <2>5, RecordsWritten DEF Journal!FoldIllegal, Journal!RequiredPhase
  <2>6. Gates => defect' = defect
    BY DEF Gates, Journal!RecoverClean, Journal!RecoverBlocked, Journal!RecoverFailed,
           Journal!Compact
  <2>7. UNCHANGED journal => defect' = defect
    BY DEF journal
  <2>8. QED BY <1>1, <2>3, <2>4, <2>5, <2>6, <2>7, JournalSteps
<1>2. QED BY <1>1, InvariantHolds, PTL DEF Spec, CorruptedOnlyByReprepare

-----------------------------------------------------------------------------
(* The identity of the pending operations                                  *)

\* What is on file was prepared together, and a plan being executed finds only its
\* own operations there.
Together ==
    /\ PreparedTogether
    /\ Executing /\ ~recovering => \A x \in Pending : origin[x] = identity

\* A step that adds no record keeps Together, if it neither begins to execute a plan
\* beside pending operations nor changes the settings under one.
LEMMA TogetherKept ==
    ASSUME Together, Pending' \subseteq Pending, origin' = origin,
           \/ Pending = {}
           \/ ~(Executing /\ ~recovering)'
           \/ (Executing /\ ~recovering) /\ identity' = identity
    PROVE  Together'
BY DEF Together, PreparedTogether

\* The settings an operation is prepared for are those of everything pending.
LEMMA PrepareTogether ==
    ASSUME IInv, Together, NEW x \in Operations, Prepare(x) \/ PrepareFails(x)
    PROVE  /\ Together'
           /\ Pending' \subseteq Pending \cup {x}
           /\ origin' = [origin EXCEPT ![x] = identity]
           /\ \A y \in Pending : origin[y] = identity
           /\ UNCHANGED <<identity, settings>>
<1>1. /\ x \in todo /\ pc = "next" /\ ~recovering
      /\ UNCHANGED <<identity, settings, mem, disk, effect>>
      /\ origin' = [origin EXCEPT ![x] = identity]
  BY DEF Prepare, PrepareFails, NextInPlan, stores
<1>2. \/ UNCHANGED <<phase, before, snap, defect>>
      \/ Journal!Fold(x, "prepared", Transition(cur, x))
  <2>1. CASE Prepare(x)
    BY <2>1, ClosedAppend DEF Prepare, IInv, Control, Executing
  <2>2. QED BY <2>1, TornAppend DEF PrepareFails
<1>3. Pending' \subseteq Pending \cup {x} /\ Pending \subseteq Operations
  BY <1>1, <1>2, NextCandidate, PreparedKeepsEvidence DEF IInv, Pending, Journal!Pending
<1>4. \A y \in Pending : origin[y] = identity
  BY <1>1 DEF Together, Executing
<1>5. \A y \in Pending' : origin'[y] = identity'
  BY <1>1, <1>3, <1>4 DEF IInv, TypeOK
<1>6. QED BY <1>1, <1>3, <1>4, <1>5 DEF Together, PreparedTogether

\* No other step adds to what is pending or touches its origin.
LEMMA NothingPrepared ==
    ASSUME IInv, [Next]_vars, ~\E x \in Operations : Prepare(x) \/ PrepareFails(x)
    PROVE  Pending' \subseteq Pending /\ origin' = origin
<1>1. Pending' \subseteq Pending
  <2>1. CASE Observing
    <3>1. /\ op \in Operations /\ phase[op] = "prepared" /\ effect[op.asset] = Target(op)
          /\ UNCHANGED <<mem, disk, effect>>
      BY <2>1 DEF Observing, Observe, ObserveFails, stores, IInv, TypeOK, Control
    <3>2. \/ UNCHANGED <<phase, before, snap, defect>>
          \/ Journal!Fold(op, "observed", snap[op])
      <4>1. CASE Observe
        BY <4>1, ClosedAppend DEF Observe, IInv, Control, Executing
      <4>2. QED BY <2>1, <4>1, TornAppend DEF Observing, ObserveFails
    <3>3. QED BY <3>1, <3>2, ObservedKeepsEvidence DEF IInv, Pending, Journal!Pending
  <2>2. ASSUME NEW x \in Operations, Committing(x)
        PROVE  Pending' \subseteq Pending
    <3>1. x \in Journal!Oldest(todo) /\ pc = "commit" /\ UNCHANGED <<mem, disk, effect>>
      BY <2>2 DEF Committing, Commit, CommitFails, stores
    <3>2. \/ UNCHANGED <<phase, before, snap, defect>>
          \/ Journal!Fold(x, "committed", EmptyState)
      <4>1. CASE Commit(x)
        BY <4>1, ClosedAppend DEF Commit, IInv, Control
      <4>2. QED BY <2>2, <4>1, TornAppend DEF Committing, CommitFails
    <3>3. QED BY <3>1, <3>2, CommitKeeps DEF Pending, Journal!Pending
  <2>3. Gates => Pending' = Pending
    BY GateKeeps DEF Gates, IInv
  <2>4. UNCHANGED journal => Pending' = Pending
    BY DEF journal, Pending, Journal!Pending
  <2>5. QED BY <2>1, <2>2, <2>3, <2>4, JournalSteps DEF Preparing
<1>2. origin' = origin
  <2>1. Begin => origin' = origin
    BY DEF Begin, Start, BeginCommand
  <2>2. Work => origin' = origin
    BY DEF Work, Replay, Commit, Mutate, MutateRefused, Observe, NothingPending, Save,
           CompactJournal, PlanSync, PlanCheckin, StartPlan, NothingToCheckin, SaveFailure
  <2>3. Failure => origin' = origin
    BY DEF Failure, CommitFails, MutateFails, ObserveFails, SaveFails, CompactFails,
           GatherFails, SaveFailureFails, JournalRefused, Crash
  <2>4. Outside => origin' = origin
    BY DEF Outside, SetIdentity, SetIdentityFails, IdentityRefused, AdminEdit, Refuse, Relent
  <2>5. QED BY <2>1, <2>2, <2>3, <2>4 DEF Next, vars
<1>3. QED BY <1>1, <1>2

\* A command that gives up or ends executes nothing.
LEMMA NothingExecuted ==
    ASSUME Abort \/ AbortSaved \/ Quiesce("idle") \/ Quiesce("down")
    PROVE  ~(Executing /\ ~recovering)'
BY DEF Abort, AbortSaved, Quiesce, Executing

\* A step that executes a plan went on with it under the same settings, or made it
\* when nothing was pending.
LEMMA ExecutionGoesOn ==
    ASSUME IInv, [Next]_vars
    PROVE  \/ Pending = {}
           \/ ~(Executing /\ ~recovering)'
           \/ (Executing /\ ~recovering) /\ identity' = identity
<1> DEFINE Goal == \/ Pending = {}
                   \/ ~(Executing /\ ~recovering)'
                   \/ (Executing /\ ~recovering) /\ identity' = identity
<1>1. Begin => Goal
  BY NothingExecuted DEF Begin, Start, BeginCommand, BeginRecovery, Executing
<1>2. ASSUME NEW x \in Operations, Replay(x) \/ Prepare(x) \/ Commit(x)
      PROVE  Goal
  BY <1>2 DEF Replay, Prepare, Commit, Executing
<1>3. Mutate \/ Observe \/ Save => Goal
  BY DEF Mutate, Observe, Save, Executing
<1>4. NothingPending \/ CompactJournal => Goal
  BY NothingExecuted DEF NothingPending, CompactJournal, EndRecovery, Executing
<1>5. \A goal, base, ops : pc = "plan" /\ StartPlan(goal, base, ops) => Goal
  BY DEF IInv, Control
<1>6. Work => Goal
  BY <1>2, <1>3, <1>4, <1>5, NothingExecuted DEF Work, MutateRefused, PlanSync, PlanCheckin,
     NothingToCheckin, SaveFailure
<1>7. Failure => Goal
  BY NothingExecuted DEF Failure, PrepareFails, CommitFails, MutateFails, ObserveFails,
     SaveFails, CompactFails, GatherFails, SaveFailureFails, JournalRefused, Crash, work,
     Executing
<1>8. Outside => Goal
  BY DEF Outside, SetIdentity, SetIdentityFails, IdentityRefused, AdminEdit, Refuse, Relent,
     work, Executing
<1>9. QED BY <1>1, <1>6, <1>7, <1>8 DEF Next, vars, work, Executing

\* Every step keeps Together.
LEMMA TogetherStep ==
    ASSUME IInv, Together, [Next]_vars
    PROVE  Together'
BY PrepareTogether, NothingPrepared, ExecutionGoesOn, TogetherKept

LEMMA TogetherHolds == Spec => [](IInv /\ Together)
<1>1. Init => Together
  BY DEF Init, Journal!JournalInit, Together, PreparedTogether, Pending, Journal!Pending,
         Executing
<1>2. QED BY <1>1, InvariantHolds, TogetherStep, PTL DEF Spec

\* The operations on file belong to one identity, whatever saves of the settings fail
\* and at whichever point.
THEOREM OneIdentity == Spec => []PreparedTogether
<1>1. Together => PreparedTogether
  BY DEF Together
<1>2. QED BY <1>1, TogetherHolds, PTL

\* Whatever fails, what is on file stops being for the configured server in one way
\* only: the first operation of a plan is prepared for settings in memory that are not
\* those on file, because a save of them failed after it had replaced the file
\* (update_snipeit).
THEOREM IdentityPinned ==
    Spec => [][PinnedIdentity => \/ PinnedIdentity'
                                 \/ Pending = {} /\ identity # settings]_vars
<1>1. ASSUME IInv, Together, [Next]_vars
      PROVE  [PinnedIdentity => \/ PinnedIdentity'
                                \/ Pending = {} /\ identity # settings]_vars
  <2> SUFFICES ASSUME PinnedIdentity, Pending = {} => identity = settings
               PROVE  PinnedIdentity'
    OBVIOUS
  <2>1. ASSUME NEW x \in Operations, Prepare(x) \/ PrepareFails(x)
        PROVE  PinnedIdentity'
    <3>1. /\ Pending' \subseteq Pending \cup {x}
          /\ origin' = [origin EXCEPT ![x] = identity]
          /\ \A y \in Pending : origin[y] = identity
          /\ settings' = settings
      BY <1>1, <2>1, PrepareTogether
    <3>2. identity = settings
      BY <3>1 DEF PinnedIdentity
    <3>3. QED BY <1>1, <3>1, <3>2 DEF PinnedIdentity, IInv, TypeOK
  <2>2. CASE ~\E x \in Operations : Prepare(x) \/ PrepareFails(x)
    <3>1. Pending' \subseteq Pending /\ origin' = origin
      BY <1>1, <2>2, NothingPrepared
    <3>2. settings' = settings \/ Pending = {}
      <4>1. Begin => settings' = settings
        BY DEF Begin, Start, BeginCommand, stores
      <4>2. Work => settings' = settings
        BY <2>2 DEF Work, Replay, Commit, Mutate, MutateRefused, Observe, NothingPending, Save,
           CompactJournal, PlanSync, PlanCheckin, StartPlan, NothingToCheckin, SaveFailure,
           stores
      <4>3. Failure => settings' = settings
        BY <2>2 DEF Failure, CommitFails, MutateFails, ObserveFails, SaveFails, CompactFails,
           GatherFails, SaveFailureFails, JournalRefused, Crash, stores
      <4>4. Outside => settings' = settings \/ Pending = {}
        BY DEF Outside, SetIdentity, SetIdentityFails, IdentityRefused, AdminEdit, Refuse,
           Relent, stores
      <4>5. QED BY <1>1, <4>1, <4>2, <4>3, <4>4 DEF Next, vars, stores
    <3>3. QED BY <3>1, <3>2 DEF PinnedIdentity
  <2>3. QED BY <2>1, <2>2
<1>2. QED BY <1>1, TogetherHolds, PTL DEF Spec

=============================================================================
