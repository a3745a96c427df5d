----------------------------- MODULE MCJobQueues -----------------------------
(* BullMQ jobs of which one is tracked at a time, two of them under one    *)
(* key, a correlated job, and four task runs of which two share a key.     *)
EXTENDS JobQueues

CONSTANTS mail, twin, report, digest, import, first, second, third, fourth,
          nightly, weekly, hourly

MCBullJobs == {mail, twin, report, digest}
MCTracedJobs == {import}
MCTaskRuns == {first, second, third, fourth}
Attempts == [j \in MCBullJobs |-> IF j \in {mail, twin} THEN 2 ELSE 1]
\* The twin is the job of that id in the queue of that name of another target.
JobKeys == [j \in MCBullJobs \cup MCTracedJobs |-> IF j = twin THEN mail ELSE j]
\* The first two runs came without a run id.
RunKeys == [t \in MCTaskRuns |->
               CASE t = third -> weekly [] t = fourth -> hourly [] OTHER -> nightly]
MCMixes == {{mail, report, digest}, {mail, twin}, {mail, import}, {import, first},
            {first, second, third}, {first, third, fourth}}
Always == {TRUE}
Partly == BOOLEAN

=============================================================================
