------------------------- MODULE MCSqliteLocalStore -------------------------
(* Instances of SqliteLocalStore for TLC. *)
EXTENDS SqliteLocalStore

CONSTANTS p, q

TwoKeys == 1..2
\* Three calls, one of two rows that overlaps the others, as after a requeue.
ThreeCalls == <<{1}, {1, 2}, {2}>>
=============================================================================
