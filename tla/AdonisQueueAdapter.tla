------------------------- MODULE AdonisQueueAdapter -------------------------
(***************************************************************************)
(* packages/periscope/src/watchers/job_schedule/adonis_queue_adapter.ts:   *)
(* the tracing channels of @adonisjs/queue, and a worker that runs the     *)
(* handler inside wrapJob, as an adapter that can intercept it does.  The  *)
(* correlation id of a dispatched job travels in its trace context and     *)
(* names the batch of everything the worker records.                       *)
(***************************************************************************)
EXTENDS JobScheduleWatcher

CONSTANTS TracedJobs,   \* jobs dispatched through the channels
          MaxRetries    \* bound: executions after the first

VARIABLES job,          \* stage and number of the execution of a job
          wrapped,      \* the context wrapJob opened, 0 for none
          subscribed    \* the adapter's active flag

tracedVars == <<job, wrapped, subscribed>>

InitTraced ==
    /\ job = [j \in TracedJobs |-> [stage |-> "none", n |-> 0]]
    /\ wrapped = [j \in TracedJobs |-> 0]
    /\ subscribed = TRUE

Goes(j, from, to) ==
    job[j].stage \in from /\ job' = [job EXCEPT ![j].stage = to]

\* A call of the watcher, unless the adapter has unsubscribed.
Tell(call) ==
    /\ IF subscribed THEN call ELSE UNCHANGED jobVars
    /\ UNCHANGED <<activeTasks, active, cleaning, runVars>>

\* start of the execute channel: the event carries the correlation id.
ExecuteStart(j) ==
    /\ job[j].n <= MaxRetries
    /\ job[j].stage \in {"none", "retrying"}
    /\ job' = [job EXCEPT ![j] = [stage |-> "started", n |-> @.n + 1]]
    /\ Tell(Started(j, j, job[j].n + 1))
    /\ UNCHANGED <<wrapped, subscribed>>

\* wrapJob: the handler runs in a context of its own, with the same batch id.
WrapJob(j) ==
    /\ Goes(j, {"started"}, "running")
    /\ \/ /\ active
          /\ Open(j, Item(j, job[j].n), {})
          /\ wrapped' = [wrapped EXCEPT ![j] = NextContext]
       \/ /\ ~active
          /\ wrapped' = [wrapped EXCEPT ![j] = 0]
          /\ UNCHANGED contexts
    /\ UNCHANGED <<activeJobs, activeTasks, flushes, active, cleaning, runVars,
                   subscribed>>

\* The handler records.
JobWork(j) ==
    /\ job[j].stage = "running"
    /\ wrapped[j] # 0
    /\ contexts' = [contexts EXCEPT
            ![wrapped[j]].rows = @ \cup {Item(j, job[j].n)}]
    /\ UNCHANGED <<activeJobs, activeTasks, flushes, active, cleaning, runVars,
                   tracedVars>>

\* The handler settles: its batch is flushed before wrapJob returns.  This
\* flush is awaited by the job, not registered in #flushes.
HandlerSettles(j) ==
    /\ Goes(j, {"running"}, "handled")
    /\ contexts' = IF wrapped[j] = 0 THEN contexts
                   ELSE [contexts EXCEPT ![wrapped[j]].flushed = TRUE]
    /\ UNCHANGED <<activeJobs, activeTasks, flushes, active, cleaning, runVars,
                   wrapped, subscribed>>

\* asyncEnd with status completed or failed, or the error channel.
ExecuteEnd(j) ==
    /\ Goes(j, {"started", "handled"}, "ended")
    /\ Tell(Finished(j, j, job[j].n))
    /\ UNCHANGED <<wrapped, subscribed>>

\* asyncEnd with status retrying.
ExecuteRetries(j) ==
    /\ Goes(j, {"started", "handled"}, "retrying")
    /\ Tell(Scheduled(j, job[j].n))
    /\ UNCHANGED <<wrapped, subscribed>>

\* The adapter's cleanup.
Unsubscribe ==
    /\ cleaning.stage = "adapters"
    /\ subscribed
    /\ subscribed' = FALSE
    /\ UNCHANGED <<job, wrapped, watcherVars>>

TracedSteps(jobs) ==
    \/ \E j \in jobs :
        \/ ExecuteStart(j) \/ WrapJob(j) \/ JobWork(j) \/ HandlerSettles(j)
        \/ ExecuteEnd(j) \/ ExecuteRetries(j)
    \/ Unsubscribe

=============================================================================
