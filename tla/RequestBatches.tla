--------------------------- MODULE RequestBatches ---------------------------
(***************************************************************************)
(* The recorder as the HTTP watchers drive it: one batch context per       *)
(* request, record() into it, and the per-context chain of flush() calls.  *)
(*                                                                         *)
(* Module Recorder models the pipeline itself, with caps, truncation, the  *)
(* grace window and the trim.  Here a batch keeps what the watchers can    *)
(* disturb: which of its entries are buffered or stored, which flush calls  *)
(* are chained, and how often a final decision was taken.  What is         *)
(* recorded behind it is only collected, in "late": delivering it is the   *)
(* recorder's own work.                                                    *)
(***************************************************************************)
EXTENDS Naturals, Sequences, FiniteSets

CONSTANTS Requests,     \* the requests the server receives
          Works,        \* what downstream watchers record while one runs
          Calls,        \* outbound HTTP calls
          Primary,      \* the request's own entry
          MaxFailures   \* bound: saves that reject

Entries == Works \cup Calls \cup {Primary}

VARIABLES sampled,    \* BatchContext.sampled, drawn when the batch opens
          retention,  \* BatchContext.retention
          closed,     \* the context was closed by its final flush
          buffer,     \* BatchContext.buffer
          stored,     \* what the store holds of the batch
          late,       \* accepted by the continuation of a closed batch
          chain,      \* #contextFlushes: the calls of flush() not settled
          saving,     \* the snapshot store.save was called with, if it was
          decisions,  \* final flushes whose decision was taken
          failures    \* saves that rejected

batchVars == <<sampled, retention, closed, buffer, stored, late, chain,
               saving, decisions, failures>>

\* A chained call: its mode, and who awaits it.
Call(mode, owner) == [mode |-> mode, owner |-> owner]

\* The snapshot of a flush that does not await the store now.
NoSave == [on |-> FALSE, rows |-> {}]

InitBatches ==
    /\ sampled \in [Requests -> BOOLEAN]
    /\ retention = [r \in Requests |-> "pending"]
    /\ closed = [r \in Requests |-> FALSE]
    /\ buffer = [r \in Requests |-> {}]
    /\ stored = [r \in Requests |-> {}]
    /\ late = [r \in Requests |-> {}]
    /\ chain = [r \in Requests |-> <<>>]
    /\ saving = [r \in Requests |-> NoSave]
    /\ decisions = [r \in Requests |-> 0]
    /\ failures = 0

\* record() in the scope of the batch: a closed batch hands it to its
\* continuation.
Record(r, e) ==
    IF closed[r]
    THEN late' = [late EXCEPT ![r] = @ \cup {e}] /\ UNCHANGED buffer
    ELSE buffer' = [buffer EXCEPT ![r] = @ \cup {e}] /\ UNCHANGED late

\* flush(): the call joins the chain of its context.
Flush(r, mode, owner) == chain' = [chain EXCEPT ![r] = Append(@, Call(mode, owner))]

\* The flush a caller awaits has not settled.
Awaits(r, owner) == \E i \in 1..Len(chain[r]) : chain[r][i].owner = owner

-----------------------------------------------------------------------------

Mode(r) == Head(chain[r]).mode
Undecided(r) == ~sampled[r] /\ retention[r] = "pending"

\* The head of the chain runs and has no save in flight.
Starts(r) == chain[r] # <<>> /\ ~saving[r].on

Settle(r) ==
    /\ chain' = [chain EXCEPT ![r] = Tail(@)]
    /\ closed' = [closed EXCEPT ![r] = @ \/ Mode(r) = "final"]

\* A final flush of a closed batch only ends its window; an intermediate one
\* cannot decide a sampled-out batch from one fragment.
Defers(r) ==
    \/ Mode(r) = "final" /\ closed[r]
    \/ Mode(r) = "intermediate" /\ Undecided(r)

FlushDefers(r) ==
    /\ Starts(r)
    /\ Defers(r)
    /\ chain' = [chain EXCEPT ![r] = Tail(@)]
    /\ UNCHANGED <<sampled, retention, closed, buffer, stored, late,
                   saving, decisions, failures>>

\* The fragment is looked at: nothing buffered ends the flush, a sampled-out
\* batch is kept or dropped, and what is kept goes to store.save.
Decide(r) == decisions' = [decisions EXCEPT ![r] = IF Mode(r) = "final" THEN @ + 1 ELSE @]

FlushDrops(r) ==
    /\ Starts(r)
    /\ ~Defers(r)
    /\ \/ buffer[r] = {} \/ retention[r] = "dropped" \/ Undecided(r)
    /\ Decide(r)
    /\ retention' = IF Undecided(r) THEN [retention EXCEPT ![r] = "dropped"]
                    ELSE retention
    /\ buffer' = [buffer EXCEPT ![r] = IF sampled[r] \/ retention[r] = "kept" THEN @ ELSE {}]
    /\ Settle(r)
    /\ UNCHANGED <<sampled, stored, late, saving, failures>>

FlushSaves(r) ==
    /\ Starts(r)
    /\ ~Defers(r)
    /\ buffer[r] # {}
    /\ sampled[r] \/ retention[r] # "dropped"
    /\ Decide(r)
    /\ retention' = IF Undecided(r) THEN [retention EXCEPT ![r] = "kept"]
                    ELSE retention
    /\ saving' = [saving EXCEPT ![r] = [on |-> TRUE, rows |-> buffer[r]]]
    /\ UNCHANGED <<sampled, closed, buffer, stored, late, chain, failures>>

\* store.save resolves.  What arrived behind the snapshot of a final flush
\* moves into the continuation.
SaveCommits(r) ==
    LET behind == buffer[r] \ saving[r].rows
        closes == Mode(r) = "final" /\ ~closed[r]
    IN
    /\ saving[r].on
    /\ stored' = [stored EXCEPT ![r] = @ \cup saving[r].rows]
    /\ buffer' = [buffer EXCEPT ![r] = IF closes THEN {} ELSE behind]
    /\ late' = [late EXCEPT ![r] = IF closes THEN @ \cup behind ELSE @]
    /\ saving' = [saving EXCEPT ![r] = NoSave]
    /\ Settle(r)
    /\ UNCHANGED <<sampled, retention, decisions, failures>>

\* store.save rejects: the fragment stays buffered and the batch open.
SaveRejects(r) ==
    /\ saving[r].on
    /\ failures < MaxFailures
    /\ failures' = failures + 1
    /\ saving' = [saving EXCEPT ![r] = NoSave]
    /\ chain' = [chain EXCEPT ![r] = Tail(@)]
    /\ UNCHANGED <<sampled, retention, closed, buffer, stored, late,
                   decisions>>

Recorder(r) ==
    \/ FlushDefers(r) \/ FlushDrops(r) \/ FlushSaves(r)
    \/ SaveCommits(r) \/ SaveRejects(r)

=============================================================================
