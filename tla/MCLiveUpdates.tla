--------------------------- MODULE MCLiveUpdates ---------------------------
(* Instances of LiveUpdates for TLC. *)
EXTENDS LiveUpdates, TLC

CONSTANTS t1, t2

AtMost(flush, throw, break, crash, late) ==
    [flush |-> flush, throw |-> throw, break |-> break, crash |-> crash, late |-> late]

\* Streams that break and tabs that die; a lease that cannot be written and time
\* that overtakes what is due.
Mixes == {AtMost(1, 0, 1, 1, 0), AtMost(0, 1, 0, 1, 1), AtMost(1, 0, 0, 0, 1)}

OneFlush == {AtMost(1, 0, 0, 0, 0)}
=============================================================================
