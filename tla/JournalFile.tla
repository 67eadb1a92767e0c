------------------------------ MODULE JournalFile ------------------------------
(***************************************************************************)
(* operations.jsonl as a sequence of lines: append, classify_bytes,        *)
(* recover_journal, pending_with_evidence and compact at the level of the  *)
(* records.  The bytes are abstracted to lines that parse, lines that do   *)
(* not, and how the last line ends.                                        *)
(***************************************************************************)
EXTENDS Naturals, Sequences, SequencesExt, FiniteSetsExt

CONSTANTS Ids, States, NoState,
          MaxLines  \* bound: longest journal explored

ASSUME FileAssumption == NoState \in States /\ MaxLines \in Nat

VARIABLES lines, tail, marker

file == <<lines, tail, marker>>

Records == [phase : {"prepared", "observed", "committed"}, id : Ids, state : States]

\* A line holds the record it was written for, if any, and parses unless glued.
Line(r) == [parses |-> TRUE, rec |-> {r}]

Record(p, x, s) == [phase |-> p, id |-> x, state |-> IF p = "committed" THEN NoState ELSE s]

-----------------------------------------------------------------------------
(* pending_with_evidence as the code computes it: one pass over the        *)
(* records with the pending vector, the positions kept in its HashMap (0   *)
(* for an id it does not hold) and the set of terminal ids.                *)

Entry(r) == [id |-> r.id, observed |-> FALSE, state |-> r.state]

Refuse(acc) == [acc EXCEPT !.ok = FALSE]

FoldPrepared(acc, r) ==
    IF r.id \in acc.terminal \/ acc.indexes[r.id] # 0
      THEN Refuse(acc)
      ELSE [acc EXCEPT !.indexes[r.id] = Len(acc.pending) + 1,
                       !.pending = Append(@, Entry(r))]

\* A position outside the vector ends the process, and the fold with it.
FoldObserved(acc, r) ==
    LET i == acc.indexes[r.id]
    IN  IF i \notin DOMAIN acc.pending \/ acc.pending[i].observed
          THEN Refuse(acc)
          ELSE [acc EXCEPT !.pending[i] = [id |-> @.id, observed |-> TRUE, state |-> r.state]]

\* Mutant of Renumber: the entries behind keep their old positions.
RenumberOnlyItself(indexes, x, i) == [indexes EXCEPT ![x] = 0]

\* The positions after the entry at i is gone: those behind it move up.
Renumber(indexes, x, i) ==
    [y \in Ids |-> CASE y = x -> 0
                     [] y # x /\ indexes[y] > i -> indexes[y] - 1
                     [] OTHER -> indexes[y]]

FoldCommitted(acc, r) ==
    LET i == acc.indexes[r.id]
    IN  IF i \notin DOMAIN acc.pending \/ ~acc.pending[i].observed
          THEN Refuse(acc)
          ELSE [acc EXCEPT !.indexes = Renumber(@, r.id, i),
                           !.pending = RemoveAt(@, i),
                           !.terminal = @ \cup {r.id}]

FoldRecord(acc, r) ==
    CASE ~acc.ok -> acc
      [] acc.ok /\ r.phase = "prepared"  -> FoldPrepared(acc, r)
      [] acc.ok /\ r.phase = "observed"  -> FoldObserved(acc, r)
      [] acc.ok /\ r.phase = "committed" -> FoldCommitted(acc, r)

PendingWithEvidence(records) ==
    LET after[n \in 0 .. Len(records)] ==
            IF n = 0
              THEN [ok |-> TRUE, pending |-> <<>>, indexes |-> [x \in Ids |-> 0], terminal |-> {}]
              ELSE CHOOSE next \in {FoldRecord(acc, records[n]) : acc \in {after[n - 1]}} : TRUE
    IN  after[Len(records)]

-----------------------------------------------------------------------------
(* classify_bytes and the journal gate                                     *)

AllParse == \A i \in DOMAIN lines : lines[i].parses

TheRecords == [i \in DOMAIN lines |-> CHOOSE r \in lines[i].rec : TRUE]

Classify ==
    CASE ~AllParse -> "malformed"
      [] AllParse /\ tail = "partial" -> "incomplete_suffix"
      [] AllParse /\ tail # "partial" ->
           IF PendingWithEvidence(TheRecords).ok THEN "clean" ELSE "invalid_phase_sequence"

Recover ==
    /\ ~marker
    /\ Classify = "clean"
    /\ tail' = "terminated"
    /\ UNCHANGED <<lines, marker>>

RecoverRefused ==
    /\ marker \/ Classify # "clean"
    /\ marker' = (marker \/ Classify = "incomplete_suffix")
    /\ UNCHANGED <<lines, tail>>

\* A quarantine or marker write fails, or the newline replacement fails, the
\* last of them possibly after the file was replaced.
RecoverPreservationFailed ==
    /\ ~marker
    /\ Classify # "clean" \/ tail = "unterminated"
    /\ \/ UNCHANGED <<tail, marker>>
       \/ Classify = "incomplete_suffix" /\ marker' = TRUE /\ UNCHANGED tail
       \/ Classify = "clean" /\ tail' = "terminated" /\ UNCHANGED marker
    /\ UNCHANGED lines

\* Mutant of CompactedEntry: observed outcomes are not carried over.
CompactedEntryWithoutOutcome(e) == <<Line(Record("prepared", e.id, e.state))>>

CompactedEntry(e) ==
    <<Line(Record("prepared", e.id, e.state))>>
      \o (IF e.observed THEN <<Line(Record("observed", e.id, e.state))>> ELSE <<>>)

CompactLines ==
    LET pending == PendingWithEvidence(TheRecords).pending
    IN  FlattenSeq([i \in DOMAIN pending |-> CompactedEntry(pending[i])])

CompactFile ==
    /\ ~marker
    /\ Classify = "clean"
    /\ lines' = CompactLines
    /\ tail' = "terminated"
    /\ UNCHANGED marker

-----------------------------------------------------------------------------
(* append: an unfinished last line swallows the record that follows it     *)

Mangle ==
    IF tail = "partial"
      THEN Append(lines, [parses |-> FALSE, rec |-> {}])
      ELSE [lines EXCEPT ![Len(lines)].parses = FALSE]

Write(r) ==
    /\ ~marker
    /\ Len(lines) < MaxLines
    /\ lines' = IF tail = "terminated" THEN Append(lines, Line(r)) ELSE Mangle
    /\ tail' = "terminated"
    /\ UNCHANGED marker

WriteTorn(r) ==
    /\ ~marker
    /\ Len(lines) < MaxLines
    /\ tail = "terminated"
    /\ \/ tail' = "partial" /\ UNCHANGED lines
       \/ tail' \in {"unterminated", "terminated"} /\ lines' = Append(lines, Line(r))
    /\ UNCHANGED marker

FileInit ==
    /\ lines = <<>>
    /\ tail = "terminated"
    /\ marker = FALSE

\* Nothing is appended once the records no longer fold: every command asks
\* for a Clean journal before its first append.
FileNext ==
    \/ /\ AllParse /\ PendingWithEvidence(TheRecords).ok
       /\ \E p \in {"prepared", "observed", "committed"}, x \in Ids, s \in States :
            Write(Record(p, x, s)) \/ WriteTorn(Record(p, x, s))
    \/ Recover
    \/ RecoverRefused
    \/ RecoverPreservationFailed
    \/ CompactFile

FileSpec == FileInit /\ [][FileNext]_file

=============================================================================
