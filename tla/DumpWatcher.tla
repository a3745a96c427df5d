----------------------------- MODULE DumpWatcher -----------------------------
(***************************************************************************)
(* DumpWatcher of watchers/dump/watcher.ts: dump() is synchronous, so the  *)
(* watcher polls the flags of the store and keeps what it read.  One read  *)
(* at a time is in flight; it carries the generation it was started in,    *)
(* and only settles into the watcher while that generation is registered.  *)
(***************************************************************************)
EXTENDS Naturals

VARIABLES dump,    \* the fields of the watcher
          refresh  \* #refreshing: the read in flight

dumpVars == <<dump, refresh>>

NoRefresh == [stage |-> "none", generation |-> 0, active |-> FALSE]

\* published: it fills the slot that dump() looks at and its timer runs, which
\* come and go together; waiting: the calls of register() that await a read.
InitialDump == [registered |-> FALSE, generation |-> 0, active |-> FALSE,
                published |-> FALSE, waiting |-> {}]
InitDump == dump = InitialDump /\ refresh = NoRefresh

\* #refresh() of watcher d: a read in flight is shared, whoever started it.
Refresh(d) ==
    refresh' = IF refresh # NoRefresh THEN refresh
               ELSE [stage |-> "leases", generation |-> d.generation, active |-> FALSE]

RegisterDump ==
    /\ ~dump.registered
    /\ LET g == dump.generation + 1
           d == [dump EXCEPT !.registered = TRUE, !.generation = g, !.waiting = @ \cup {g}]
       IN  dump' = d /\ Refresh(d)

\* The timer fires.
Poll == dump.published /\ Refresh(dump) /\ UNCHANGED dump

\* hasFlagWithPrefix() answers whether some tab holds a lease.
ReadLeases(leased) ==
    /\ refresh.stage = "leases"
    /\ refresh' = [refresh EXCEPT !.stage = IF leased THEN "answered" ELSE "flag",
                                  !.active = leased]
    /\ UNCHANGED dump

\* getFlag() of the name without a tab, which the API does not let anyone set.
ReadFlag ==
    /\ refresh.stage = "flag"
    /\ refresh' = [refresh EXCEPT !.stage = "answered"]
    /\ UNCHANGED dump

ReadFails ==
    /\ refresh.stage \in {"leases", "flag"}
    /\ refresh' = [refresh EXCEPT !.stage = "answered"]
    /\ UNCHANGED dump

Current(g) == dump.registered /\ dump.generation = g

\* The finally block, and the registrations that awaited the read.
Settle ==
    /\ refresh.stage = "answered"
    /\ dump' = [dump EXCEPT !.active = IF Current(refresh.generation) THEN refresh.active ELSE @,
                            !.published = @ \/ \E g \in dump.waiting : Current(g),
                            !.waiting = {}]
    /\ refresh' = NoRefresh

\* cleanup() up to its wait for the read in flight.
CleanupDump ==
    /\ dump.registered
    /\ dump' = [dump EXCEPT !.registered = FALSE, !.generation = @ + 1,
                            !.active = FALSE, !.published = FALSE]
    /\ UNCHANGED refresh
==============================================================================
