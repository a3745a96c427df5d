---------------------------- MODULE MCEntryFeed ----------------------------
(* Instances of EntryFeed for TLC. *)
EXTENDS EntryFeed

CONSTANTS all, tagged

AtMost(fail, filter, clear, switch, late, haste) ==
    [fail |-> fail, filter |-> filter, clear |-> clear, switch |-> switch,
     late |-> late, haste |-> haste]

\* Entry 4 is of another type; the filters leave 1 and 3.
Type == {1, 2, 3, 5}
Filters == [s \in {all, tagged} |-> IF s = all THEN Type ELSE {1, 3}]

\* Requests fail while filters change or the stream comes and goes; the other
\* troubles come alone.
Mixes == {AtMost(1, 1, 0, 0, 0, 0), AtMost(1, 0, 0, 1, 0, 0),
          AtMost(0, 0, 1, 0, 0, 0), AtMost(0, 0, 0, 0, 1, 0)}

Hasty == {AtMost(0, 0, 0, 0, 0, 1)}
Quiet == {AtMost(0, 0, 0, 0, 0, 0)}
=============================================================================
