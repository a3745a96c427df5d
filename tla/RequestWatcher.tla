--------------------------- MODULE RequestWatcher ---------------------------
(***************************************************************************)
(* packages/periscope/src/watchers/request: the middleware that opens the  *)
(* batch of a request, the http:request_completed listener that records    *)
(* the request's own entry from setImmediate, and the WeakMap that hands   *)
(* the batch from the one to the other.                                    *)
(*                                                                         *)
(* A client that aborts makes the completion event arrive while the        *)
(* middleware still runs.  Whoever takes the batch off the map decides who *)
(* flushes it finally, so the two sides meet in the map, in #openContexts  *)
(* and in the #completionFlushes barrier.                                  *)
(*                                                                         *)
(* A request the server refuses to record is a member of Refused: its path *)
(* is the dashboard's or matches an ignored pattern.                       *)
(***************************************************************************)
EXTENDS RequestBatches

CONSTANTS Refused,        \* requests with a dashboard or an ignored path
          CaptureStatic   \* watchers.request.captureStatic

ASSUME RefusedAssumption == Refused \subseteq Requests

VARIABLES handler,      \* where the middleware's handle() stands
          attached,     \* the WeakMap of http_batch.ts
          open,         \* #openContexts
          completion,   \* where the work of the completion event stands
          intermediate, \* what the listener captured: the middleware ran
          barrier,      \* #completionFlushes
          pending,      \* #pendingCompletions
          unbatched,    \* requests recorded in a batch of their own
          listening,    \* #unsubscribe is set
          active,       \* the request slot of active.ts is this watcher
          cleanup       \* what cleanup() awaits

mapVars == <<attached, open, barrier, pending>>
watcherVars == <<handler, attached, open, completion, intermediate, barrier,
                 pending, unbatched, listening, active, cleanup>>

Cleanup == [stage : {"none", "waiting", "done"}, awaits : SUBSET Requests]

InitWatcher ==
    /\ handler = [r \in Requests |-> "arriving"]
    /\ attached = {} /\ open = {} /\ barrier = {} /\ pending = {}
    /\ completion = [r \in Requests |-> "none"]
    /\ intermediate = [r \in Requests |-> FALSE]
    /\ unbatched = {}
    /\ listening = TRUE
    /\ active = TRUE
    /\ cleanup = [stage |-> "none", awaits |-> {}]

-----------------------------------------------------------------------------
(* handle(), the middleware *)

At(r, stage) == handler' = [handler EXCEPT ![r] = stage]

\* A batch is opened and parked on the request context.
OpenBatch(r) ==
    /\ handler[r] = "arriving"
    /\ active
    /\ r \notin Refused
    /\ At(r, "running")
    /\ attached' = attached \cup {r}
    /\ open' = open \cup {r}
    /\ UNCHANGED <<batchVars, completion, intermediate, barrier, pending,
                   unbatched, listening, active, cleanup>>

\* A refused request runs downstream muted.  With no active watcher, or when
\* opening or entering the scope throws, the chain runs untouched: the batch
\* is taken off again before anything was recorded.
PassThrough(r) ==
    /\ handler[r] = "arriving"
    /\ At(r, IF active /\ r \in Refused THEN "muted" ELSE "bare")
    /\ UNCHANGED <<batchVars, mapVars, completion, intermediate, unbatched,
                   listening, active, cleanup>>

\* Downstream code records in the scope of the request.
Work(r, w) ==
    /\ handler[r] = "running"
    /\ w \notin buffer[r] \cup stored[r] \cup late[r]
    /\ Record(r, w)
    /\ UNCHANGED <<watcherVars, sampled, retention, closed, stored,
                   chain, saving, decisions, failures>>

\* next() settles.  Unless the completion listener has taken the batch, the
\* listener will flush it; otherwise this side does, behind the barrier.
LeavesToListener(r) == r \in attached

FlushFinally(r) ==
    /\ At(r, "deciding")
    /\ Flush(r, "final", "middleware")
    /\ UNCHANGED <<sampled, retention, closed, buffer, stored, late, saving,
                   decisions, failures>>

\* Mutant: the stragglers do not wait for the listener.
StraggleAtOnce(r) == FlushFinally(r)
Straggle(r) ==
    IF r \in barrier
    THEN At(r, "waiting") /\ UNCHANGED batchVars
    ELSE FlushFinally(r)

Leave(r) ==
    /\ handler[r] \in {"running", "muted", "bare"}
    /\ open' = open \ {r}
    /\ IF handler[r] # "running" \/ LeavesToListener(r)
       THEN At(r, "left") /\ UNCHANGED batchVars
       ELSE Straggle(r)
    /\ UNCHANGED <<attached, completion, intermediate, barrier, pending,
                   unbatched, listening, active, cleanup>>

\* The completion listener is through: the one final flush over both
\* fragments.
BarrierLifts(r) ==
    /\ handler[r] = "waiting"
    /\ r \notin barrier
    /\ FlushFinally(r)
    /\ UNCHANGED <<mapVars, completion, intermediate, unbatched, listening,
                   active, cleanup>>

StragglersFlushed(r) ==
    /\ handler[r] = "deciding"
    /\ ~Awaits(r, "middleware")
    /\ At(r, "left")
    /\ UNCHANGED <<batchVars, mapVars, completion, intermediate, unbatched,
                   listening, active, cleanup>>

-----------------------------------------------------------------------------
(* http:request_completed *)

Reach(r, stage) == completion' = [completion EXCEPT ![r] = stage]

\* The listener takes the batch, remembers whether the middleware runs, and
\* schedules the recording.
Schedules(r) == r \in attached \/ CaptureStatic
ReadsOpen(r) == r \in attached /\ r \in open

\* Mutant: the listener leaves the batch on the context.
LeaveAttached(r) == attached
Taken(r) == attached \ {r}

\* Mutant: only what the middleware waits for is registered.
RegistersAborts(r) == IF ReadsOpen(r) THEN pending \cup {r} ELSE pending
Registered(r) == pending \cup {r}

Completed(r) ==
    /\ handler[r] # "arriving"
    /\ completion[r] = "none"
    /\ listening /\ Schedules(r)
    /\ Reach(r, IF r \in attached THEN "batched" ELSE "unbatched")
    /\ intermediate' = [intermediate EXCEPT ![r] = ReadsOpen(r)]
    /\ attached' = Taken(r)
    /\ barrier' = IF ReadsOpen(r) THEN barrier \cup {r} ELSE barrier
    /\ pending' = Registered(r)
    /\ UNCHANGED <<batchVars, handler, open, unbatched, listening, active,
                   cleanup>>

\* Nobody listens, or there is nothing to record.
CompletedUnheard(r) ==
    /\ handler[r] # "arriving"
    /\ completion[r] = "none"
    /\ ~(listening /\ Schedules(r))
    /\ Reach(r, "unheard")
    /\ UNCHANGED <<batchVars, handler, mapVars, intermediate, unbatched,
                   listening, active, cleanup>>

\* The request's own entry is built from the finished request and response;
\* reading either may throw, and then nothing is recorded.
MakeRequestEntry(r) == Record(r, Primary) \/ UNCHANGED <<buffer, late>>

\* setImmediate: the entry, and the flush whatever became of it.
ModeOf(r) == IF intermediate[r] THEN "intermediate" ELSE "final"

RecordCompletion(r) ==
    /\ completion[r] = "batched"
    /\ Reach(r, "flushing")
    /\ MakeRequestEntry(r)
    /\ Flush(r, ModeOf(r), "completion")
    /\ UNCHANGED <<sampled, retention, closed, stored, saving, decisions,
                   failures, handler, mapVars, intermediate, unbatched,
                   listening, active, cleanup>>

\* The bounded fallback of a request no middleware opened: refused paths
\* record nothing, any other its summary in a batch of its own.
RefusesUnbatched(r) == r \in Refused

RecordUnbatched(r) ==
    /\ completion[r] = "unbatched"
    /\ Reach(r, "flushed")
    /\ unbatched' = IF RefusesUnbatched(r) THEN unbatched
                    ELSE unbatched \cup {r}
    /\ UNCHANGED <<batchVars, handler, mapVars, intermediate, listening,
                   active, cleanup>>

\* The awaited flush settled.
CompletionFlushed(r) ==
    /\ completion[r] = "flushing"
    /\ ~Awaits(r, "completion")
    /\ Reach(r, "flushed")
    /\ UNCHANGED <<batchVars, handler, mapVars, intermediate, unbatched,
                   listening, active, cleanup>>

\* finally(): the barrier lifts and the completion is no longer pending.
CompletionSettles(r) ==
    /\ completion[r] = "flushed"
    /\ Reach(r, "settled")
    /\ pending' = pending \ {r}
    /\ barrier' = barrier \ {r}
    /\ UNCHANGED <<batchVars, handler, attached, open, intermediate,
                   unbatched, listening, active, cleanup>>

-----------------------------------------------------------------------------
(* cleanup() *)

Unsubscribe ==
    /\ cleanup.stage = "none"
    /\ listening' = FALSE
    /\ cleanup' = [stage |-> "waiting", awaits |-> pending]
    /\ UNCHANGED <<batchVars, handler, mapVars, completion, intermediate,
                   unbatched, active>>

CleanupReturns ==
    /\ cleanup.stage = "waiting"
    /\ cleanup.awaits \cap pending = {}
    /\ active' = FALSE
    /\ cleanup' = [cleanup EXCEPT !.stage = "done"]
    /\ UNCHANGED <<batchVars, handler, mapVars, completion, intermediate,
                   unbatched, listening>>

=============================================================================
