--------------------------- MODULE MCMemoryStore ---------------------------
(* Six entries of two batches and two applications in a ring of four.  Two *)
(* of them tie, the first is replaced, and both families recur and can     *)
(* lose what is newest of them.                                            *)
EXTENDS MemoryStore

Entry(uuid, sequence, batch, tags, application, family, age) ==
    [uuid |-> uuid, sequence |-> sequence, batch |-> batch, tags |-> tags,
     application |-> application, family |-> family, age |-> age]

\* Sequences are out of order of the calls, as when a batch is flushed late.
MCCalls == {<<Entry(1, 3, "b", {"slow"}, "shop", NoFamily, 1)>>,
            <<Entry(1, 3, "b", {"slow", "error"}, "shop", NoFamily, 1),
              Entry(2, 2, "b", {"error"}, "shop", "timeout", 2)>>,
            <<Entry(3, 2, "c", {"error"}, "blog", "refused", 1),
              Entry(4, 1, "c", {"slow"}, "blog", "timeout", 2)>>,
            <<Entry(5, 4, "b", {"error"}, "blog", "timeout", 3)>>,
            <<Entry(6, 5, "b", {}, "shop", "refused", 3)>>}

Query(kind, batch, tags, application) ==
    [kind |-> kind, batch |-> batch, tags |-> tags, application |-> application]
MCQueries == {Query("newest", Unset, {}, Unset), Query("newest", "b", {"error"}, Unset),
              Query("oldest", Unset, {"error"}, Unset), Query("newest", Unset, {}, "blog"),
              Query("groups", Unset, {}, Unset), Query("groups", Unset, {"error"}, Unset)}
=============================================================================
