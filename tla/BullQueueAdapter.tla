-------------------------- MODULE BullQueueAdapter --------------------------
(***************************************************************************)
(* packages/periscope/src/watchers/job_schedule/bull_queue_adapter.ts:     *)
(* BullMQ's global queue events turned into calls of the job watcher.      *)
(*                                                                         *)
(* Each event first looks the job up in Redis, which may take long, fail   *)
(* or time out; the events of one job are chained so that they reach the   *)
(* watcher in the order the queue emitted them.  Beyond MaxTracked chains  *)
(* an event is passed on at once with what is remembered.                  *)
(*                                                                         *)
(* The queue makes an attempt of a job active, again after a stall, and    *)
(* ends or delays it.                                                      *)
(***************************************************************************)
EXTENDS JobScheduleWatcher

CONSTANTS BullJobs,     \* jobs of the observed BullMQ queues
          MaxTracked,   \* MAX_TRACKED_JOBS
          MaxAttempts   \* bound: attempts of each job

VARIABLES attempt,    \* the attempt a job is at, and whether it runs
          startedAt,  \* #startedAt, in insertion order
          chain,      \* #jobTasks: the events of a job not passed on yet
          lookup,     \* the head of the chain awaits Queue.getJob
          metadata,   \* #jobMetadata, in insertion order
          bull        \* the adapter: listening, draining, closed

bullVars == <<attempt, startedAt, chain, lookup, metadata, bull>>

InitBull ==
    /\ attempt = [j \in BullJobs |-> [n |-> 0, runs |-> FALSE]]
    /\ startedAt = <<>>
    /\ chain = [j \in BullJobs |-> <<>>]
    /\ lookup = [j \in BullJobs |-> FALSE]
    /\ metadata = <<>>
    /\ bull = "listening"

\* A bounded map of jobs: at the bound the oldest makes room for a new one,
\* a job that is in keeps its place.
Tracked == {j \in BullJobs : chain[j] # <<>>}
In(map, j) == \E i \in 1..Len(map) : map[i] = j
Drop(map, j) == SelectSeq(map, LAMBDA x : x # j)
Remember(map, j) ==
    IF In(map, j) THEN map
    ELSE Append(IF Len(map) >= MaxTracked THEN Tail(map) ELSE map, j)

\* The call of the watcher an event is passed on as.
Emit(j, event) ==
    /\ CASE event.phase = "started"   -> Started(j, None, event.n)
         [] event.phase = "terminal"  -> Finished(j, None, event.n)
         [] event.phase = "scheduled" -> Scheduled(j, event.n)
    /\ UNCHANGED <<activeTasks, active, cleaning, runVars>>

\* #observeWithMetadata: chained behind the events of the same job; past the
\* bound, passed on at once.
\* Mutant: an event does not wait for the one before it.
Overtake(j, event) == chain' = [chain EXCEPT ![j] = <<event>> \o @]
Enqueue(j, event) == chain' = [chain EXCEPT ![j] = Append(@, event)]

Observe(j, event) ==
    \/ /\ chain[j] = <<>>
       /\ Cardinality(Tracked) >= MaxTracked
       /\ metadata' = IF event.phase = "terminal" THEN Drop(metadata, j)
                      ELSE metadata
       /\ Emit(j, event)
       /\ UNCHANGED chain
    \/ /\ chain[j] # <<>> \/ Cardinality(Tracked) < MaxTracked
       /\ Enqueue(j, event)
       /\ UNCHANGED <<metadata, watcherVars>>

\* The queue emits an event; a closing adapter does not look at it.
Event(j, phase, n) ==
    /\ IF bull = "listening" THEN Observe(j, [phase |-> phase, n |-> n])
       ELSE UNCHANGED <<chain, metadata, watcherVars>>
    /\ UNCHANGED <<lookup, bull>>

ActiveEvent(j) ==
    /\ attempt[j].n < MaxAttempts[j]
    /\ attempt' = [attempt EXCEPT ![j] = [n |-> @.n + 1, runs |-> TRUE]]
    /\ startedAt' = IF bull = "listening" THEN Remember(startedAt, j) ELSE startedAt
    /\ Event(j, "started", attempt[j].n + 1)

TerminalEvent(j) ==
    /\ attempt[j].runs
    /\ attempt' = [attempt EXCEPT ![j].runs = FALSE]
    /\ startedAt' = IF bull = "listening" THEN Drop(startedAt, j) ELSE startedAt
    /\ Event(j, "terminal", attempt[j].n)

DelayedEvent(j) ==
    /\ attempt[j].runs
    /\ attempt' = [attempt EXCEPT ![j].runs = FALSE]
    /\ Event(j, "scheduled", attempt[j].n)
    /\ UNCHANGED startedAt

\* The chained task runs: a closed adapter passes nothing on.
Pop(j) == chain' = [chain EXCEPT ![j] = Tail(@)]

TaskStarts(j) ==
    /\ chain[j] # <<>>
    /\ ~lookup[j]
    /\ IF bull = "listening"
       THEN lookup' = [lookup EXCEPT ![j] = TRUE] /\ UNCHANGED chain
       ELSE Pop(j) /\ UNCHANGED lookup
    /\ UNCHANGED <<attempt, startedAt, metadata, bull, watcherVars>>

\* getJob answers, fails or times out: details are remembered from the start
\* of a job until its end.
LookupSettles(j) ==
    LET event == Head(chain[j]) IN
    /\ lookup[j]
    /\ lookup' = [lookup EXCEPT ![j] = FALSE]
    /\ Pop(j)
    /\ IF bull # "listening" THEN UNCHANGED <<metadata, watcherVars>>
       ELSE /\ Emit(j, event)
            /\ \/ event.phase = "terminal" /\ metadata' = Drop(metadata, j)
               \/ event.phase = "started" /\ metadata' = Remember(metadata, j)
               \/ event.phase # "terminal" /\ UNCHANGED metadata
    /\ UNCHANGED <<attempt, startedAt, bull>>

\* #closeResources: no event is listened to, the chains drain, then the
\* queues are closed.
\* Mutant: the adapter closes without its chains.
ChainsIgnored == TRUE
ChainsDrained == Tracked = {}

CloseAdapter ==
    /\ cleaning.stage = "adapters"
    /\ bull = "listening"
    /\ bull' = "draining"
    /\ UNCHANGED <<attempt, startedAt, chain, lookup, metadata, watcherVars>>

CloseQueues ==
    /\ bull = "draining"
    /\ ChainsDrained
    /\ bull' = "closed"
    /\ startedAt' = <<>> /\ metadata' = <<>>
    /\ UNCHANGED <<attempt, chain, lookup, watcherVars>>

BullSteps(jobs) ==
    \/ \E j \in jobs :
        \/ ActiveEvent(j) \/ TerminalEvent(j) \/ DelayedEvent(j)
        \/ TaskStarts(j) \/ LookupSettles(j)
    \/ CloseAdapter \/ CloseQueues

=============================================================================
