-------------------------- MODULE HttpClientWatcher --------------------------
(***************************************************************************)
(* packages/periscope/src/watchers/http_client/watcher.ts: Undici's        *)
(* diagnostics channels.  An outbound call captures the batch it was made  *)
(* in; its end records one entry there, however late, and flushes the      *)
(* batch intermediately.                                                   *)
(***************************************************************************)
EXTENDS RequestBatches

CONSTANT Origin    \* the request an outbound call is made in

ASSUME OriginAssumption == Origin \in [Calls -> Requests]

VARIABLES call,        \* the RequestState of an outbound call
          subscribed,  \* #registered
          flushes,     \* #flushes
          drained      \* cleanup(): not called, awaiting, returned

clientVars == <<call, subscribed, flushes, drained>>

InitClient ==
    /\ call = [o \in Calls |-> "none"]
    /\ subscribed = TRUE
    /\ flushes = {}
    /\ drained = [stage |-> "none", awaits |-> {}]

\* undici:request:create inside the scope of the originating request.
Create(o) ==
    /\ call[o] = "none"
    /\ call' = [call EXCEPT ![o] = IF subscribed THEN "active" ELSE "unseen"]
    /\ UNCHANGED <<batchVars, subscribed, flushes, drained>>

\* undici:request:trailers or undici:request:error: one entry, and a flush
\* that leaves an undecided batch to its owner.
Finalize(o) ==
    LET r == Origin[o] IN
    /\ call[o] = "active"
    /\ subscribed
    /\ call' = [call EXCEPT ![o] = "finalized"]
    /\ Record(r, o)
    /\ Flush(r, "intermediate", o)
    /\ flushes' = flushes \cup {o}
    /\ UNCHANGED <<sampled, retention, closed, stored, saving,
                   decisions, failures, subscribed, drained>>

FlushSettles(o) ==
    /\ o \in flushes
    /\ ~Awaits(Origin[o], o)
    /\ flushes' = flushes \ {o}
    /\ UNCHANGED <<batchVars, call, subscribed, drained>>

\* cleanup(): what is still active ends unrecorded.
CleanupClient ==
    /\ drained.stage = "none"
    /\ subscribed' = FALSE
    /\ call' = [o \in Calls |-> IF call[o] = "active" THEN "finalized" ELSE call[o]]
    /\ drained' = [stage |-> "waiting", awaits |-> flushes]
    /\ UNCHANGED <<batchVars, flushes>>

ClientCleaned ==
    /\ drained.stage = "waiting"
    /\ drained.awaits \cap flushes = {}
    /\ drained' = [drained EXCEPT !.stage = "done"]
    /\ UNCHANGED <<batchVars, call, subscribed, flushes>>

=============================================================================
