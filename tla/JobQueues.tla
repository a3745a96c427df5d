------------------------------ MODULE JobQueues ------------------------------
(***************************************************************************)
(* The job watcher with both queue adapters and a scheduler around it.     *)
(***************************************************************************)
EXTENDS BullQueueAdapter, AdonisQueueAdapter

CONSTANT Mixes   \* the jobs and runs an application may see together

Jobs == BullJobs \cup TracedJobs

\* These are identities, not the watcher's keys.
ASSUME JobsAssumption ==
    BullJobs \cap TracedJobs = {} /\ Jobs \cap TaskRuns = {}

VARIABLE present  \* those it sees

vars == <<watcherVars, bullVars, tracedVars, present>>

Init == InitWatcher /\ InitBull /\ InitTraced /\ present \in Mixes

\* cleanup() awaits the cleanup of every adapter.
AdaptersCleaned == bull = "closed" /\ ~subscribed

WatcherSteps ==
    \/ \E t \in TaskRuns \cap present :
        TaskStarted(t) \/ WrapTask(t) \/ TaskWork(t) \/ TaskFinished(t)
    \/ \E c \in flushes : FlushSettles(c)
    \/ CleanupBegins
    \/ AdaptersCleaned /\ AwaitFlushes
    \/ CleanupReturns

Next ==
    /\ UNCHANGED present
    /\ \/ WatcherSteps /\ UNCHANGED <<bullVars, tracedVars>>
       \/ BullSteps(BullJobs \cap present) /\ UNCHANGED tracedVars
       \/ TracedSteps(TracedJobs \cap present) /\ UNCHANGED bullVars

Spec == Init /\ [][Next]_vars

-----------------------------------------------------------------------------
(* Properties *)

Numbers == 1..Len(contexts)

\* Whatever order the lookups of BullMQ jobs answer in, stalls, retries,
\* evictions and the overload path included, what an attempt of a job records,
\* in its handler or at its end, is in the context that the start of the same
\* attempt, its wrapJob or its own end opened: never in that of another attempt
\* (#jobTasks, #activeJobs), of another job neither unless the two have one
\* jobKey, which names the queue but not the target it was found in.
SameKey(j, k) == j # k /\ JobKey[j] = JobKey[k]

EndsMeetStarts ==
    \A c \in Numbers : \A row \in contexts[c].rows :
        row.of \in Jobs => \/ row = contexts[c].work
                           \/ /\ contexts[c].work.of \in Jobs
                              /\ SameKey(row.of, contexts[c].work.of)

\* The chains of #jobTasks tell such jobs apart, the map of the watcher does not.
EndsMeetTheirStarts ==
    \A c \in Numbers : \A row \in contexts[c].rows :
        row.of \in Jobs => row = contexts[c].work

\* The contexts that starts of task runs opened, and their keys.
TaskContexts == {c \in Numbers : \E t \in TaskRuns : contexts[c].work = TaskWorkOf(t)}
KeyOf(c) == TaskKey[contexts[c].work.of]
Younger(c) == {d \in TaskContexts : d > c}
KeysAfter(c) == {KeyOf(d) : d \in Younger(c)}

\* A run's rows never end in the batch of another run, but for a run with the same
\* key that was started after it.
WithItsRun(row, c) ==
    \/ contexts[c].work.of = row.of
    \/ c \in TaskContexts /\ \E d \in TaskContexts :
          d < c /\ contexts[d].work.of = row.of /\ KeyOf(d) = KeyOf(c)

\* The pair of a context was replaced under its key, or evicted at the bound.
Superseded(c) ==
    KeyOf(c) \in KeysAfter(c) \/ Cardinality(KeysAfter(c)) >= MaxActive

\* However the runs of tasks overlap, what a run records is in its own batch or in
\* that of a later run with its key, and it is flushed or still held by the map:
\* it is abandoned only if another run with the same key was started, runs under as
\* many younger keys as the map holds evicted it, or the watcher was cleaned up
\* (#activeTasks).
TaskRowsOwned ==
    /\ \A c \in Numbers : \A row \in contexts[c].rows :
          row.of \in TaskRuns => WithItsRun(row, c)
    /\ \A c \in TaskContexts :
          contexts[c].rows # {} /\ ~contexts[c].flushed
          => \/ \E e \in activeTasks : e.context = c
             \/ Superseded(c)
             \/ ~active

\* When cleanup() has returned, no adapter passes an event on and no flush
\* that the watcher started is running.
CleanupDrains ==
    cleaning.stage = "done" => Tracked = {} /\ flushes = {}

\* "Correlation is batch-wide, and sampling is decided once per batch":
\* contexts that share a batch id share the decision.
SampledAsOne ==
    \A c, d \in Numbers :
        contexts[c].batch = contexts[d].batch =>
            contexts[c].sampled = contexts[d].sampled

=============================================================================
