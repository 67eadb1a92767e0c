---------------------------- MODULE MCStatusReader ----------------------------
(* One session besides the reader and the scheduler, so that a save and a  *)
(* synchronization may fall between the two reads.                         *)
EXTENDS StatusReader
CONSTANTS a, scheduler, nobody

OneClient == {a}

=============================================================================
