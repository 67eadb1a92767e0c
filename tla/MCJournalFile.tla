----------------------------- MODULE MCJournalFile -----------------------------
EXTENDS JournalEvidenceInvariant, TLC

CONSTANTS a, b, k1, k2, bare, whole, unreadable

MCIds == {a, b}
MCStates == {bare, whole, unreadable}
MCKeys == {k1, k2}
Symmetry == Permutations(MCIds) \cup Permutations(MCKeys)

=============================================================================
