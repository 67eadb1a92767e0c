--------------------------- MODULE OperationJournal ---------------------------
(***************************************************************************)
(* The evidence kept by operations.jsonl, as every reader of the journal   *)
(* sees it: the result of folding its records with pending_with_evidence,  *)
(* the state of its last line, and the sticky ".recovery-blocked" marker.  *)
(* JournalFile keeps the lines themselves and is shown to implement this   *)
(* module; CommandOwner writes its journal through the actions below.      *)
(***************************************************************************)
CONSTANTS
    Ops,         \* the deterministic operation ids a service can plan
    Candidates,  \* candidate service states a record may carry
    NoCandidate  \* what the fold holds for an operation with no pending entry

VARIABLES
    phase,   \* last durable phase of each operation id
    before,  \* pending operations whose Prepared record precedes this one's
    snap,    \* candidate state carried by the pending evidence
    tail,    \* how the last line ends
    defect,  \* why the file cannot be classified Clean, if it cannot
    marker   \* the blocked marker exists

journal == <<phase, before, snap, tail, defect, marker>>

Phases  == {"absent", "prepared", "observed", "committed"}
Tails   == {"terminated", "unterminated", "partial"}
Defects == {"none", "sequence", "malformed"}

\* Every variable keeps its type.
JournalTypeOK ==
    /\ phase \in [Ops -> Phases]
    /\ before \in [Ops -> SUBSET Ops]
    /\ snap \in [Ops -> Candidates]
    /\ tail \in Tails
    /\ defect \in Defects
    /\ marker \in BOOLEAN

JournalInit ==
    /\ phase = [x \in Ops |-> "absent"]
    /\ before = [x \in Ops |-> {}]
    /\ snap = [x \in Ops |-> NoCandidate]
    /\ tail = "terminated"
    /\ defect = "none"
    /\ marker = FALSE

\* Operations with a Prepared record and no terminal one, in file order `before`.
Pending == {x \in Ops : phase[x] \in {"prepared", "observed"}}

\* The members of S whose Prepared record comes first, or last, among S.
Oldest(S) == {x \in S : before[x] \cap S = {}}
Newest(S) == {x \in S : S \subseteq before[x] \cup {x}}

\* The phase a record must find, or the fold rejects the whole journal.
RequiredPhase(p) == CASE p = "prepared"  -> "absent"
                      [] p = "observed"  -> "prepared"
                      [] p = "committed" -> "observed"

-----------------------------------------------------------------------------
(* One record of phase p for x, with candidate c, reaches the file whole.  *)

FoldOrder(x, p) ==
    IF p = "observed"
      THEN before
      ELSE [y \in Ops |-> IF y = x THEN (IF p = "prepared" THEN Pending \ {x} ELSE {})
                                   ELSE before[y] \ {x}]

FoldLegal(x, p, c) ==
    /\ phase[x] = RequiredPhase(p)
    /\ phase' = [phase EXCEPT ![x] = p]
    /\ before' = FoldOrder(x, p)
    /\ snap' = [snap EXCEPT ![x] = IF p = "committed" THEN NoCandidate ELSE c]
    /\ UNCHANGED defect

\* A record out of phase makes the file Corrupt for every later reader.  An id
\* prepared again stays on file as evidence of the new mutation.
FoldIllegal(x, p, c) ==
    /\ phase[x] # RequiredPhase(p)
    /\ defect' = IF defect = "none" THEN "sequence" ELSE defect
    /\ IF p = "prepared"
         THEN /\ phase' = [phase EXCEPT ![x] = p]
              /\ before' = FoldOrder(x, p)
              /\ snap' = [snap EXCEPT ![x] = c]
         ELSE UNCHANGED <<phase, before, snap>>

Fold(x, p, c) == FoldLegal(x, p, c) \/ FoldIllegal(x, p, c)

\* `append` does not look at the tail: a record written after an unfinished
\* line shares that line with it, and the line no longer parses.
Glue ==
    /\ defect' = "malformed"
    /\ UNCHANGED <<phase, before, snap>>

AppendOk(x, p, c) ==
    /\ ~marker
    /\ IF tail = "terminated" THEN Fold(x, p, c) ELSE Glue
    /\ tail' = "terminated"
    /\ UNCHANGED marker

\* The append fails or the process dies inside it: nothing, part of the line,
\* the line without its newline, or the whole line is in the file.
AppendTorn(x, p, c) ==
    /\ ~marker
    /\ tail = "terminated"
    /\ \/ UNCHANGED <<phase, before, snap, tail, defect>>
       \/ tail' = "partial" /\ UNCHANGED <<phase, before, snap, defect>>
       \/ tail' \in {"unterminated", "terminated"} /\ Fold(x, p, c)
    /\ UNCHANGED marker

-----------------------------------------------------------------------------
(* recover_journal: the only gate to a replay, a compaction, a plan or an  *)
(* identity change.  It succeeds, or refuses, as Classify says.            *)

Clean == ~marker /\ defect = "none" /\ tail # "partial"

RecoverClean ==
    /\ Clean
    /\ tail' = "terminated"
    /\ UNCHANGED <<phase, before, snap, defect, marker>>

\* An incomplete suffix also writes the marker; a malformed line is found first.
RecoverBlocked ==
    /\ ~Clean
    /\ marker' = (marker \/ (tail = "partial" /\ defect # "malformed"))
    /\ UNCHANGED <<phase, before, snap, tail, defect>>

\* The quarantine, the marker or the newline cannot be written.
RecoverFailed ==
    /\ ~marker
    /\ \/ UNCHANGED tail
       \/ tail = "unterminated" /\ defect = "none" /\ tail' = "terminated"
    /\ tail # "terminated" \/ defect # "none"
    /\ marker' \in {FALSE, tail = "partial" /\ defect # "malformed"}
    /\ UNCHANGED <<phase, before, snap, defect>>

\* Atomic rewrite with the pending evidence only, after a Clean recovery.
Compact ==
    /\ Clean
    /\ phase' = [x \in Ops |-> IF x \in Pending THEN phase[x] ELSE "absent"]
    /\ tail' = "terminated"
    /\ UNCHANGED <<before, snap, defect, marker>>

JournalNext ==
    \/ \E x \in Ops, p \in Phases \ {"absent"}, c \in Candidates :
          AppendOk(x, p, c) \/ AppendTorn(x, p, c)
    \/ RecoverClean
    \/ RecoverBlocked
    \/ RecoverFailed
    \/ Compact

JournalSpec == JournalInit /\ [][JournalNext]_journal

=============================================================================
