---------------------------- MODULE JournalEvidence ----------------------------
(***************************************************************************)
(* What the lines of JournalFile are evidence of, read declaratively: the  *)
(* last record of each id, the position of its Prepared record, and how    *)
(* the phases of an id follow each other.  The file implements             *)
(* OperationJournal under this reading, and the fold of the code computes  *)
(* it.  StartupRecovery supplies the steps.                                *)
(***************************************************************************)
EXTENDS StartupRecovery

VARIABLE view  \* View of the lines, kept so that TLC reads each file once

evidenceVars == <<startVars, view>>

Parse(ls) == \A i \in DOMAIN ls : ls[i].parses

RecordOf(ls, i) == CHOOSE r \in ls[i].rec : TRUE

\* A final outcome or commit record that no preparation calls for is not
\* evidence of anything, a repeated preparation is.
Counted(ls, folds) ==
    {i \in DOMAIN ls : folds \/ i < Len(ls) \/ \A r \in ls[i].rec : r.phase = "prepared"}

LinesOf(ls, folds, x) == {i \in Counted(ls, folds) : \E r \in ls[i].rec : r.id = x}
LastOf(ls, folds, x) == Max({0} \cup LinesOf(ls, folds, x))

PreparedLines(ls, x) == {i \in DOMAIN ls : \E r \in ls[i].rec : r.id = x /\ r.phase = "prepared"}
PreparedAt(ls, x) == Max({0} \cup PreparedLines(ls, x))

PhaseOf(ls, folds, x) ==
    IF LastOf(ls, folds, x) = 0 THEN "absent" ELSE RecordOf(ls, LastOf(ls, folds, x)).phase
Waiting(ls, folds) == {x \in Ids : PhaseOf(ls, folds, x) \in {"prepared", "observed"}}

View(ls, folds) ==
    [phase  |-> [x \in Ids |-> PhaseOf(ls, folds, x)],
     before |-> [x \in Ids |->
                   {y \in Waiting(ls, folds) :
                      x \in Waiting(ls, folds) /\ PreparedAt(ls, y) < PreparedAt(ls, x)}],
     snap   |-> [x \in Ids |->
                   IF x \in Waiting(ls, folds) THEN RecordOf(ls, LastOf(ls, folds, x)).state ELSE NoState],
     defect |-> IF ~Parse(ls) THEN "malformed" ELSE IF folds THEN "none" ELSE "sequence"]

RecordsFold == AllParse => PendingWithEvidence(TheRecords).ok

EvidenceInit == StartupInit /\ view = View(lines, TRUE)
EvidenceNext == StartupNext /\ \E ls \in {lines'}, folds \in {RecordsFold'} : view' = View(ls, folds)
EvidenceSpec == EvidenceInit /\ [][EvidenceNext]_evidenceVars

Evidence ==
    INSTANCE OperationJournal WITH
        Ops <- Ids, Candidates <- States, NoCandidate <- NoState,
        phase <- view.phase, before <- view.before, snap <- view.snap, defect <- view.defect

\* The line-level journal implements the evidence the command owner relies on:
\* every append, torn append, recovery and compaction of the file is one step of
\* the evidence or none (operation_journal.rs append, recover_journal, compact).
ImplementsEvidence == Evidence!JournalSpec

-----------------------------------------------------------------------------

Preceding(p) == CASE p = "prepared"  -> {}
                  [] p = "observed"  -> {"prepared"}
                  [] p = "committed" -> {"prepared", "observed"}

PhasesBefore(records, i) ==
    {records[j].phase : j \in {k \in 1 .. (i - 1) : records[k].id = records[i].id}}

\* Every id goes once through Prepared, RemoteOutcomeObserved, StateCommitted, or
\* is still on its way.
InPhaseOrder(records) ==
    \A i \in DOMAIN records : PhasesBefore(records, i) = Preceding(records[i].phase)

\* A journal whose lines parse folds without error exactly when every id went
\* through its phases in order, and the fold then returns the uncommitted ids in
\* the order of their Prepared records, each with what its last record says
\* (pending_with_evidence removes from the middle of its vector and renumbers the
\* index of every later entry).
FoldMeetsReference ==
    AllParse =>
      LET fold == PendingWithEvidence(TheRecords)
      IN  /\ fold.ok <=> InPhaseOrder(TheRecords)
          /\ fold.ok =>
               /\ {e.id : e \in ToSet(fold.pending)}
                    = {x \in Ids : view.phase[x] \in {"prepared", "observed"}}
               /\ \A e \in ToSet(fold.pending) :
                    /\ e.observed <=> view.phase[e.id] = "observed"
                    /\ e.state = view.snap[e.id]
               /\ \A i, j \in DOMAIN fold.pending :
                    i < j => fold.pending[i].id \in view.before[fold.pending[j].id]

=============================================================================
