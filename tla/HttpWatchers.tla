---------------------------- MODULE HttpWatchers ----------------------------
(***************************************************************************)
(* The two HTTP watchers around one recorder: requests that open batches,  *)
(* and the outbound calls made in them, which record and flush into a      *)
(* batch they do not own.                                                  *)
(***************************************************************************)
EXTENDS RequestWatcher, HttpClientWatcher

vars == <<batchVars, watcherVars, clientVars>>

Init == InitBatches /\ InitWatcher /\ InitClient

Middleware(r) ==
    \/ OpenBatch(r) \/ PassThrough(r) \/ Leave(r)
    \/ BarrierLifts(r) \/ StragglersFlushed(r)
    \/ \E w \in Works : Work(r, w)

Listener(r) ==
    \/ Completed(r) \/ CompletedUnheard(r)
    \/ RecordCompletion(r) \/ RecordUnbatched(r)
    \/ CompletionFlushed(r) \/ CompletionSettles(r)

\* A call is made while its request runs.
Outbound(o) ==
    \/ handler[Origin[o]] = "running" /\ Create(o)
    \/ Finalize(o)
    \/ FlushSettles(o)

\* The registry cleans its watchers up when the application goes down.
Teardown ==
    \/ (Unsubscribe \/ CleanupReturns) /\ UNCHANGED clientVars
    \/ (CleanupClient \/ ClientCleaned) /\ UNCHANGED watcherVars

Next ==
    \/ \E r \in Requests : (Middleware(r) \/ Listener(r)) /\ UNCHANGED clientVars
    \/ \E r \in Requests : Recorder(r) /\ UNCHANGED <<watcherVars, clientVars>>
    \/ \E o \in Calls : Outbound(o) /\ UNCHANGED watcherVars
    \/ Teardown

Spec == Init /\ [][Next]_vars

\* Downstream code returns, the socket finishes, setImmediate and settled
\* promises run, and the store answers.  Nobody owes a cleanup, an outbound
\* answer or an entry.
Fairness ==
    /\ \A r \in Requests :
        /\ WF_vars((OpenBatch(r) \/ PassThrough(r) \/ Leave(r)
                    \/ BarrierLifts(r) \/ StragglersFlushed(r))
                   /\ UNCHANGED clientVars)
        /\ WF_vars(Listener(r) /\ UNCHANGED clientVars)
        /\ WF_vars(Recorder(r) /\ UNCHANGED <<watcherVars, clientVars>>)
    /\ WF_vars((CleanupReturns /\ UNCHANGED clientVars)
               \/ (ClientCleaned /\ UNCHANGED watcherVars))

FairSpec == Spec /\ Fairness

-----------------------------------------------------------------------------
(* Properties *)

\* Whatever order the abort, the end of the handler, the outbound answers and
\* the recorder's flushes come in, a request's batch is decided once, after
\* the completion listener had its say, and nothing of a sampled-out batch is
\* stored before that decision (middleware finally, completionFlushes, the
\* intermediate mode of the outbound watcher).
Described(r) == completion[r] \in {"flushing", "flushed", "settled"}
Kept(r) == sampled[r] \/ retention[r] = "kept"

Contract == INSTANCE BatchContract WITH
    Batches <- Requests,
    described <- [r \in Requests |-> Described(r)],
    decided <- decisions,
    kept <- [r \in Requests |-> Kept(r)],
    published <- [r \in Requests |-> stored[r] # {}]

KeepsContract == Contract!Spec

\* Every batch the middleware opened is finally decided, unless the watcher
\* stopped listening before the response was complete.
EveryRequestDecided ==
    \A r \in Requests :
        []<>(handler[r] = "left" /\ completion[r] \notin {"none", "unheard"}
                => r \in Refused \cup unbatched \/ decisions[r] = 1)

\* When the watchers' cleanup has returned, no completion that was heard is
\* still recording and no outbound flush is still running: the recorder may
\* shut down.
CleanupLeavesNothing ==
    /\ cleanup.stage = "done" => pending = {} /\ \A r \in Requests :
                completion[r] \notin {"batched", "unbatched", "flushing"}
    /\ drained.stage = "done" => flushes = {}

=============================================================================
