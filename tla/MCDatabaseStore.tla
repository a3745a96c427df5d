-------------------------- MODULE MCDatabaseStore --------------------------
(* Instances of DatabaseStore for TLC. *)
EXTENDS DatabaseStore

TwoKeys == {1, 3}
TwoForeign == {2, 4}
\* Four calls whose rows overlap, as after a requeue.
FourCalls == <<{1}, {1, 3}, {3}, {1, 3}>>
=============================================================================
