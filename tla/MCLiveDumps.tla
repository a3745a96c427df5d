----------------------------- MODULE MCLiveDumps -----------------------------
(* A process with a watcher of each kind, the model watcher early.  Two     *)
(* tabs; heartbeats every 10 s under a lease of 30 s.                       *)
EXTENDS LiveDumps

CONSTANTS query, model, dumps, t1, t2

Order == <<query, model, dumps>>
Kinds == [n \in {query, model, dumps} |->
             CASE n = query -> "direct" [] n = model -> "late" [] n = dumps -> "dump"]
Scene(tabs, together, n) == [tabs |-> tabs, overlap |-> together, troubles |-> n]
Alone == {Scene({}, TRUE, 0), Scene({}, FALSE, 0)}
Visited == {Scene({t1}, FALSE, 1), Scene({t1, t2}, FALSE, 0)}
Mixes == Alone \cup Visited
=============================================================================
