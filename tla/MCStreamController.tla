------------------------- MODULE MCStreamController -------------------------
(* Instances of StreamController for TLC. *)
EXTENDS StreamController, TLC

CONSTANTS b1, b2

\* One browser takes every application, the other one leaves out the first entry.
TwoApplications == [b \in Browsers |-> IF b = b1 THEN Entries ELSE Entries \ {1}]

\* The stream of the first browser holds a replay of as many rows as one read
\* returns; that of the second one, whose entries are larger, does not.
SmallAndLarge == [b \in Browsers |-> IF b = b1 THEN 3 ELSE 2]
=============================================================================
