------------------------ MODULE JournalEvidenceInvariant ------------------------
(***************************************************************************)
(* Why a start forgets nothing: the inductive invariant that the proofs    *)
(* about JournalFile, StartupRecovery and JournalEvidence rest on.         *)
(***************************************************************************)
EXTENDS JournalEvidence

\* A line holds the record it was written for, if any; one that parses holds one.
Lines == {l \in [parses : BOOLEAN, rec : {{}} \cup {{r} : r \in Records}] : l.parses => l.rec # {}}

\* The file keeps its type, and a last line that is not terminated is there.
FileTypeOK ==
    /\ lines \in Seq(Lines)
    /\ tail \in {"terminated", "unterminated", "partial"}
    /\ tail = "unterminated" => lines # <<>>
    /\ marker \in BOOLEAN

StartTypeOK ==
    /\ pc \in {"before", "down", "admitted", "keyed", "recovering", "replayed", "commit", "serving"}
    /\ key \in Keys \cup {NoKey} /\ held \in Keys \cup {NoKey}
    /\ state \in [by : Keys \cup {NoKey}, holds : Contents]
    /\ mem \in Contents
    /\ recovered \subseteq Ids

PendingEntries == [id : Ids, observed : BOOLEAN, state : States]

\* Between the gate and the compaction, the journal is as the gate found it or the
\* start itself wrote it.
Gated ==
    pc \in {"admitted", "keyed", "recovering", "replayed", "commit"} =>
       /\ AllParse /\ PendingWithEvidence(TheRecords).ok
       /\ tail = "terminated" /\ ~marker

\* Entries that are no longer to be replayed have their outcome on file.
Replayed(rest, entries) ==
    /\ Len(rest) <= Len(entries)
    /\ \A k \in 1 .. Len(rest) : rest[k] = entries[Len(entries) - Len(rest) + k]
    /\ \A k \in 1 .. (Len(entries) - Len(rest)) : entries[k].observed

\* What is to be replayed is the rest of what is pending, on the state that was loaded.
Replaying ==
    /\ pc \in {"recovering", "replayed"} =>
         /\ todo \in Seq(PendingEntries) /\ Replayed(todo, Entries) /\ mem = state.holds
    /\ pc = "replayed" => /\ todo # <<>> /\ ~Head(todo).observed
                          /\ Head(todo).id \in recovered

\* What is to be committed is all that is pending, and the saved state reflects it.
Committing ==
    pc = "commit" =>
      /\ todo = Entries
      /\ \A k \in DOMAIN Entries : Entries[k].observed /\ Entries[k].id \in state.holds.reflects

\* UpTo, of any lines.
UpToIn(ls, x) ==
    {y \in Ids : \E i \in DOMAIN ls : \E r \in ls[i].rec :
        /\ r.phase = "prepared" /\ r.id = y
        /\ \A j \in 1 .. (i - 1) : \A q \in ls[j].rec : q.phase = "prepared" => q.id # x}

\* What is recovered and no longer pending was prepared before all that is, so that
\* the candidate of any of them reflects it too.
InOrder ==
    AllParse => \A x \in recovered :
        \/ \E i \in DOMAIN Entries : Entries[i].id = x
        \/ \A k \in DOMAIN Entries : x \in UpToIn(lines, Entries[k].id)

\* The inductive invariant.
RecoveryInv ==
    /\ FileTypeOK /\ StartTypeOK
    /\ pc = "before" => recovered = {}
    /\ Gated /\ Replaying /\ Committing /\ InOrder /\ RecoveredIsKept

\* The view is that of the lines on file.
Shown == \E f \in BOOLEAN : (f <=> RecordsFold) /\ view = View(lines, f)

=============================================================================
