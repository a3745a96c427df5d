--------------------------- MODULE DatabaseStore ---------------------------
(***************************************************************************)
(* The write path of packages/periscope/src/storage/database_store.ts: one *)
(* process that drains its saves into the host's database, one transaction *)
(* at a time, with retries, and trims a table other processes write too.   *)
(*                                                                         *)
(* A transaction may commit, roll back, or commit and lose the answer.     *)
(* Rows are numbers in the order of their (sequence, uuid) key.            *)
(***************************************************************************)
EXTENDS Naturals, Sequences, FiniteSets

CONSTANTS Keys,         \* rows this process may write
          ForeignKeys,  \* rows other processes may write
          Payload,      \* bound: the rows of each save() call there will be
          Cap,          \* storage.maxEntries
          Backlog,      \* DATABASE_SAVE_BACKLOG_LIMIT
          Attempts,     \* attempts at one batch
          MaxFaults     \* bound: transactions that report an error

ASSUME DatabaseAssumption ==
    /\ Keys \subseteq Nat /\ ForeignKeys \subseteq Nat
    /\ Keys \cap ForeignKeys = {}
    /\ Payload \in Seq((SUBSET Keys) \ {{}}) /\ Cap \in Nat
    /\ Backlog \in Nat \ {0} /\ Attempts \in Nat \ {0} /\ MaxFaults \in Nat

Saves == DOMAIN Payload
NoSave == 0

VARIABLES file,      \* rows of the entries table
          queue,     \* #pendingSaves
          active,    \* the save the drain holds
          attempt,   \* its attempt, from 0
          drain,     \* #drainingSaves: none, writing, delay, returned
          pending,   \* #pendingBatchCount
          dropped,   \* #droppedBatches
          failed,    \* #failedBatches
          retried,   \* #retriedBatches
          closing,   \* close(): no, awaiting, woken, closed
          alive,     \* the process runs
          trim,      \* trim(): idle, hinted (over the cap), bounded
          boundary,  \* the count trim() saw, then the key of the cap-th newest row
          answer,    \* what each save() call was told
          rows,      \* the rows each call carries
          landed,    \* history: calls whose rows were committed
          faults     \* history: transactions that reported an error

draining == <<queue, active, attempt, drain>>
counters == <<pending, dropped, failed, retried>>
trimming == <<trim, boundary>>
calls == <<answer, rows, landed>>
vars == <<file, draining, counters, closing, alive, trimming, calls, faults>>

Init ==
    /\ file = {}
    /\ queue = <<>> /\ active = NoSave /\ attempt = 0 /\ drain = "none"
    /\ pending = 0 /\ dropped = 0 /\ failed = 0 /\ retried = 0
    /\ closing = "no" /\ alive = TRUE
    /\ trim = "idle" /\ boundary = 0
    /\ answer = [s \in Saves |-> "unsent"]
    /\ rows = [s \in Saves |-> {}]
    /\ landed = {} /\ faults = 0

Waiting == {s \in Saves : answer[s] = "waiting"}
Faulty == faults < MaxFaults /\ faults' = faults + 1

-----------------------------------------------------------------------------
(* save() and its drain *)

Full == Len(queue) >= Backlog

\* Mutant: a dropped call is not counted as dropped.
DroppedForgotten == dropped
DroppedOne == dropped + 1

\* Mutant: the call taken stays in the queue.
TakeKept(q) ==
    /\ attempt' = 0 /\ queue' = q
    /\ IF q = <<>> THEN active' = NoSave /\ drain' = "returned"
       ELSE active' = Head(q) /\ drain' = "writing"

\* The drain takes the first of q, or returns.
Take(q) ==
    /\ attempt' = 0
    /\ IF q = <<>>
       THEN active' = NoSave /\ drain' = "returned" /\ queue' = q
       ELSE active' = Head(q) /\ drain' = "writing" /\ queue' = Tail(q)

\* save(): a full backlog answers its oldest call with success; a resting
\* drain starts at once, in the same call.
Save(s) ==
    LET kept == IF Full THEN Tail(queue) ELSE queue
        told == IF Full THEN [answer EXCEPT ![Head(queue)] = "resolved"] ELSE answer
        pushed == Append(kept, s)
    IN
    /\ alive
    /\ answer[s] = "unsent" /\ \A u \in Saves : u < s => answer[u] # "unsent"
    /\ answer' = [told EXCEPT ![s] = "waiting"]
    /\ rows' = [rows EXCEPT ![s] = Payload[s]]
    /\ pending' = IF Full THEN pending ELSE pending + 1
    /\ dropped' = IF Full THEN DroppedOne ELSE dropped
    /\ IF drain = "none" THEN Take(pushed)
       ELSE queue' = pushed /\ UNCHANGED <<active, attempt, drain>>
    /\ UNCHANGED <<file, failed, retried, closing, alive, trimming, landed, faults>>

Answered == [answer EXCEPT ![active] = "resolved"]

\* A transaction commits; the call is answered and the next one taken.
Commits ==
    /\ alive /\ drain = "writing"
    /\ file' = file \cup rows[active]
    /\ landed' = landed \cup {active}
    /\ answer' = Answered
    /\ pending' = pending - 1
    /\ Take(queue)
    /\ UNCHANGED <<dropped, failed, retried, closing, alive, trimming, rows, faults>>

TryAgain == attempt + 1 < Attempts

\* A transaction reports an error, whether it rolled back or not.  The last
\* attempt gives the batch up and answers the call with success.
Errs ==
    /\ alive /\ drain = "writing" /\ Faulty
    /\ \/ UNCHANGED <<file, landed>>
       \/ /\ file' = file \cup rows[active]
          /\ landed' = landed \cup {active}
    /\ \/ /\ TryAgain
          /\ attempt' = attempt + 1
          /\ drain' = "delay"
          /\ retried' = retried + 1
          /\ UNCHANGED <<queue, active, pending, failed, answer>>
       \/ /\ ~TryAgain
          /\ failed' = failed + 1
          /\ pending' = pending - 1
          /\ answer' = Answered
          /\ Take(queue)
          /\ UNCHANGED retried
    /\ UNCHANGED <<dropped, closing, alive, trimming, rows>>

\* waitForDatabaseRetry is over.
Retries ==
    /\ alive /\ drain = "delay"
    /\ drain' = "writing"
    /\ UNCHANGED <<file, queue, active, attempt, counters, closing, alive, trimming,
                   calls, faults>>

\* Mutant: saves queued behind a drain that has returned are not looked for.
NeverAgain == drain' = "none" /\ UNCHANGED <<queue, active, attempt>>

Again == IF queue = <<>> THEN drain' = "none" /\ UNCHANGED <<queue, active, attempt>>
         ELSE Take(queue)

\* The .then() of #startSaveDrain, a microtask after the drain returned.
DrainEnds ==
    /\ alive /\ drain = "returned"
    /\ Again
    /\ closing' = IF closing = "awaiting" THEN "woken" ELSE closing
    /\ UNCHANGED <<file, counters, alive, trimming, calls, faults>>

Await == IF drain = "none" THEN "closed" ELSE "awaiting"

\* close(), from its call or from the drain it awaited.
Close ==
    /\ alive /\ closing \in {"no", "woken"}
    /\ closing' = IF closing = "no" /\ drain # "none" THEN "awaiting" ELSE Await
    /\ UNCHANGED <<file, draining, counters, alive, trimming, calls, faults>>

\* The process ends; the retry timers do not hold it.
Exit ==
    /\ alive
    /\ alive' = FALSE
    /\ answer' = [s \in Saves |-> IF s \in Waiting THEN "gone" ELSE answer[s]]
    /\ UNCHANGED <<file, draining, counters, closing, trimming, rows, landed, faults>>

-----------------------------------------------------------------------------
(* trim(), and the other processes *)

Newest(S, n) == {k \in S : Cardinality({j \in S : j > k}) < n}
Over == Cardinality(file) > Cap

\* The count outside the transaction, over the cap.
TrimHinted ==
    /\ alive /\ trim = "idle" /\ Over
    /\ trim' = "hinted"
    /\ boundary' = Cardinality(file)
    /\ UNCHANGED <<file, draining, counters, closing, alive, calls, faults>>

\* What the transaction deletes, given the boundary row.  Mutant: as many of
\* the oldest rows as the hint counted too many.
DoomedByHint(b) == file \ Newest(file, (Cap + Cardinality(file)) - boundary)
Doomed(b) == {k \in file : k < b}

CapthNewest == {k \in file : Cardinality({j \in file : j >= k}) = Cap}

TrimIdles == trim' = "idle" /\ boundary' = 0

\* The transaction in one piece, on a database that isolates it.
TrimTransaction ==
    /\ alive /\ trim = "hinted"
    /\ file' = IF Cap = 0 THEN {} ELSE file \ UNION {Doomed(b) : b \in CapthNewest}
    /\ TrimIdles
    /\ UNCHANGED <<draining, counters, closing, alive, calls, faults>>

\* On a database at READ COMMITTED the boundary is read, and then the delete
\* sees what was committed in between.
TrimReads ==
    /\ alive /\ trim = "hinted" /\ Cap > 0
    /\ IF CapthNewest = {} THEN TrimIdles
       ELSE trim' = "bounded" /\ boundary' \in CapthNewest
    /\ UNCHANGED <<file, draining, counters, closing, alive, calls, faults>>

TrimDeletes ==
    /\ alive /\ trim = "bounded"
    /\ file' = file \ Doomed(boundary)
    /\ TrimIdles
    /\ UNCHANGED <<draining, counters, closing, alive, calls, faults>>

\* prune, clear or trim of any process.
Delete(doomed) ==
    /\ file' = file \ doomed
    /\ UNCHANGED <<draining, counters, closing, alive, trimming, calls, faults>>

\* Another process commits a batch.
ForeignSave(k) ==
    /\ file' = file \cup {k}
    /\ UNCHANGED <<draining, counters, closing, alive, trimming, calls, faults>>

-----------------------------------------------------------------------------

Next ==
    \/ \E s \in Saves : Save(s)
    \/ Commits \/ Errs \/ Retries \/ DrainEnds \/ Close \/ Exit
    \/ TrimHinted \/ TrimTransaction \/ TrimReads \/ TrimDeletes
    \/ \E doomed \in SUBSET file : Delete(doomed)
    \/ \E k \in ForeignKeys : ForeignSave(k)

Spec == Init /\ [][Next]_vars

\* The database answers, timers fire, microtasks run.
FairSpec == Spec /\ WF_vars(Commits \/ Errs) /\ WF_vars(Retries) /\ WF_vars(DrainEnds)

-----------------------------------------------------------------------------
(* Properties *)

Held == {queue[i] : i \in 1..Len(queue)} \cup ({active} \ {NoSave})

\* Success may hide a lost batch, but the counters never do: every call told
\* success whose rows never reached the table is a dropped or a failed one.
EveryLossCounted ==
    Cardinality({s \in Saves : answer[s] = "resolved"} \ landed) <= dropped + failed

\* A trim whose count outside the transaction is overtaken by other processes
\* still leaves exactly the newest Cap rows of what it finds, if the database
\* isolates the transaction, and only ever removes the oldest if it does not.
TrimKeepsNewest ==
    [][/\ TrimTransaction => file' = Newest(file, Cap)
       /\ TrimDeletes => \A gone \in file \ file', kept \in file' : gone < kept]_vars

\* Every call is answered, or its process ends.
SaveSettles == \A s \in Saves : []<>(answer[s] # "waiting")

\* The driver answers every call once, and the rows of a call land together.
Port == INSTANCE SavePort WITH Rows <- Keys, Honest <- FALSE, file <- file \ ForeignKeys
HidingPort == Port!Spec

=============================================================================
