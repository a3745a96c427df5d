---------------------------- MODULE MCRecorder ----------------------------
(* Instances of Recorder for TLC. *)
EXTENDS RecorderAccounting

CONSTANTS request, log, query

\* One request and two logs are accepted; a cap of 0 disables a type.  With a report,
\* that is as many as the buffer has room for.
SmallCap == [t \in {request, log, query} |-> CASE t = request -> 1 [] t = log -> 2 [] t = query -> 0]
SmallLimit == 4
===========================================================================
