------------------------- MODULE JobScheduleWatcher -------------------------
(***************************************************************************)
(* packages/periscope/src/watchers/job_schedule/watcher.ts: the observer   *)
(* that queue and scheduler adapters call.  It pairs the start and the end *)
(* of a job or of a task run through two bounded maps, and opens one batch *)
(* context for each pair; a wrapped job gets a context of its own that     *)
(* only shares the batch id.                                               *)
(*                                                                         *)
(* What happens is told apart by the job or run it happens to; the watcher *)
(* only knows keys.  jobKey is the adapter, the queue's name and the job's *)
(* id: jobs of two queues of one name, in other Redis databases or under   *)
(* other prefixes, may have the same.                                      *)
(*                                                                         *)
(* Contexts are numbered in the order they are created.  What a context is *)
(* sampled to is drawn at its creation from Draws.                         *)
(***************************************************************************)
EXTENDS Naturals, Sequences, FiniteSets

CONSTANTS JobKey,       \* jobKey of a job
          TaskRuns,     \* executions of scheduled tasks
          TaskKey,      \* taskKey of a run: runs without run id share it
          MaxActive,    \* MAX_ACTIVE
          MaxContexts,  \* bound: contexts opened
          Draws         \* what drawing the sampling rate can give

ASSUME ActiveAssumption ==
    MaxActive \in Nat \ {0} /\ MaxContexts \in Nat /\ Draws \subseteq BOOLEAN

VARIABLES contexts,     \* the batch contexts created so far
          activeJobs,   \* #activeJobs, pairs of a key and a context
          activeTasks,  \* #activeTasks, likewise
          flushes,      \* #flushes
          active,       \* #active
          cleaning,     \* how far cleanup() is
          runStage,     \* where a task run stands
          runContext    \* the context wrapTask entered, 0 for none

jobVars == <<contexts, activeJobs, flushes>>
storeVars == <<contexts, flushes>>
runVars == <<runStage, runContext>>
watcherVars == <<contexts, activeJobs, activeTasks, flushes, active, cleaning,
                 runStage, runContext>>

InitWatcher ==
    /\ contexts = <<>>
    /\ activeJobs = {} /\ activeTasks = {}
    /\ flushes = {}
    /\ active = TRUE
    /\ cleaning = [stage |-> "none", awaits |-> {}]
    /\ runStage = [t \in TaskRuns |-> "idle"]
    /\ runContext = [t \in TaskRuns |-> 0]

-----------------------------------------------------------------------------
(* The maps and the contexts *)

\* The pairs of a map, without a key.
Without(map, key) == {e \in map : e.key # key}
ContextOf(map, key) ==
    IF \E e \in map : e.key = key THEN (CHOOSE e \in map : e.key = key).context ELSE 0

\* A map holds its pairs in the order they were inserted, each with a context that
\* was created for it: the oldest pair is the one whose context has the lowest number.
Oldest(map) == CHOOSE e \in map : \A d \in map : e.context <= d.context

\* Re-inserted at the end; beyond the bound the oldest pair is evicted.
Put(map, key, c) ==
    LET longer == Without(map, key) \cup {[key |-> key, context |-> c]}
    IN  IF Cardinality(longer) > MaxActive THEN longer \ {Oldest(longer)} ELSE longer

\* createContext, and correlatedContext when a batch id came with the event.
\* A row or the work of a context is the n-th attempt of a job, or of a task run
\* what it records (0) and its end (1).
Item(of, n) == [of |-> of, n |-> n]
Context(batch, work, s, rows) ==
    [batch |-> batch, work |-> work, sampled |-> s, rows |-> rows,
     flushed |-> rows # {}]
NextContext == Len(contexts) + 1
Open(batch, work, rows) ==
    /\ NextContext <= MaxContexts
    /\ \E s \in Draws :
         contexts' = Append(contexts, Context(batch, work, s, rows))

\* record() and then #flush(): the entry joins what the context has.
RecordAndFlush(c, row) ==
    /\ contexts' = [contexts EXCEPT ![c].rows = @ \cup {row},
                                    ![c].flushed = TRUE]
    /\ flushes' = flushes \cup {c}

OpenRecordAndFlush(batch, work, row) ==
    /\ Open(batch, work, {row})
    /\ flushes' = flushes \cup {NextContext}

\* A flush settles and leaves #flushes.
FlushSettles(c) ==
    /\ c \in flushes
    /\ flushes' = flushes \ {c}
    /\ UNCHANGED <<contexts, activeJobs, activeTasks, active, cleaning, runVars>>

-----------------------------------------------------------------------------
(* Jobs: called by the queue adapters *)

\* No correlation id came with the event.
None == "none"

Ignored == ~active /\ UNCHANGED <<contexts, activeJobs, flushes>>

Batch(id) == IF id = None THEN NextContext ELSE id

Started(j, id, n) ==
    \/ Ignored
    \/ /\ active
       /\ Open(Batch(id), Item(j, n), {})
       /\ activeJobs' = Put(activeJobs, JobKey[j], NextContext)
       /\ UNCHANGED flushes

\* The end of a job is recorded in the context that the map has for its key,
\* unless the event names another batch.
Matches(j, id) ==
    LET c == ContextOf(activeJobs, JobKey[j]) IN
    c # 0 /\ (id = None \/ contexts[c].batch = id)

Finished(j, id, n) ==
    \/ Ignored
    \/ /\ active
       /\ IF Matches(j, id)
          THEN RecordAndFlush(ContextOf(activeJobs, JobKey[j]), Item(j, n))
          ELSE OpenRecordAndFlush(Batch(id), Item(j, n), Item(j, n))
       /\ activeJobs' = Without(activeJobs, JobKey[j])

\* A delayed job is one entry in a batch of its own.
Scheduled(j, n) ==
    \/ Ignored
    \/ /\ active
       /\ OpenRecordAndFlush(NextContext, Item(j, n), Item(j, n))
       /\ UNCHANGED activeJobs

-----------------------------------------------------------------------------
(* Task runs: called by the scheduler adapters *)

\* The work a start opens a context for; an unmatched end is another one.
TaskWorkOf(t) == Item(t, 0)
TaskEndOf(t) == Item(t, 1)

RunIs(t, stage) == runStage' = [runStage EXCEPT ![t] = stage]

TaskStarted(t) ==
    /\ runStage[t] = "idle"
    /\ RunIs(t, "started")
    /\ \/ ~active /\ UNCHANGED <<contexts, activeTasks>>
       \/ /\ active
          /\ Open(NextContext, TaskWorkOf(t), {})
          /\ activeTasks' = Put(activeTasks, TaskKey[t], NextContext)
    /\ UNCHANGED <<activeJobs, flushes, active, cleaning, runContext>>

\* wrapTask: the run enters the context the map has now.
WrapTask(t) ==
    /\ runStage[t] = "started"
    /\ RunIs(t, "running")
    /\ runContext' = [runContext EXCEPT
            ![t] = IF active THEN ContextOf(activeTasks, TaskKey[t]) ELSE 0]
    /\ UNCHANGED <<contexts, activeJobs, activeTasks, flushes, active, cleaning>>

\* The task records in the scope it runs in.
TaskWork(t) ==
    /\ runStage[t] = "running"
    /\ runContext[t] # 0
    /\ ~contexts[runContext[t]].flushed
    /\ contexts' = [contexts EXCEPT ![runContext[t]].rows = @ \cup {TaskWorkOf(t)}]
    /\ UNCHANGED <<activeJobs, activeTasks, flushes, active, cleaning, runVars>>

\* taskCompleted or taskFailed, with or without a wrapped run before it.
\* Mutant: a completion opens a context of its own.
OwnContext(key) == 0
RunContextOf(key) == ContextOf(activeTasks, key)

TaskFinished(t) ==
    LET c == RunContextOf(TaskKey[t]) IN
    /\ runStage[t] \in {"started", "running"}
    /\ RunIs(t, "ended")
    /\ \/ ~active /\ UNCHANGED <<contexts, flushes, activeTasks>>
       \/ /\ active
          /\ IF c # 0 THEN RecordAndFlush(c, TaskEndOf(t))
             ELSE OpenRecordAndFlush(NextContext, TaskEndOf(t), TaskEndOf(t))
          /\ activeTasks' = Without(activeTasks, TaskKey[t])
    /\ UNCHANGED <<activeJobs, active, cleaning, runContext>>

-----------------------------------------------------------------------------
(* cleanup() *)

\* Nothing is observed any more; the adapters are cleaned up next.
CleanupBegins ==
    /\ cleaning.stage = "none"
    /\ active' = FALSE
    /\ activeJobs' = {} /\ activeTasks' = {}
    /\ cleaning' = [cleaning EXCEPT !.stage = "adapters"]
    /\ UNCHANGED <<storeVars, runVars>>

\* The adapters are cleaned up: the flushes that run are awaited.
AwaitFlushes ==
    /\ cleaning.stage = "adapters"
    /\ cleaning' = [stage |-> "flushes", awaits |-> flushes]
    /\ UNCHANGED <<storeVars, activeJobs, activeTasks, active, runVars>>

CleanupReturns ==
    /\ cleaning.stage = "flushes"
    /\ cleaning.awaits \cap flushes = {}
    /\ cleaning' = [cleaning EXCEPT !.stage = "done"]
    /\ UNCHANGED <<storeVars, activeJobs, activeTasks, active, runVars>>

=============================================================================
