----------------------------- MODULE TrimStore -----------------------------
(***************************************************************************)
(* Recorder.#trimStore of packages/periscope/src/recorder/recorder.ts: the *)
(* flushes of all contexts share one loop of store.trim() calls.  A flush  *)
(* that arrives while the loop runs asks it for one more round.            *)
(*                                                                         *)
(* The loop and the callbacks on its promise are microtasks: the promise   *)
(* is settled when the loop leaves, and #trimmingStore is cleared by a     *)
(* microtask that runs later, behind those already queued.                 *)
(***************************************************************************)
EXTENDS Naturals

CONSTANTS Flushes,    \* flushes whose save is on its way
          MaxFaults   \* bound: trim() calls that reject

ASSUME TrimAssumption == MaxFaults \in Nat

VARIABLES flushStage, \* of each flush: saving, written, joined, done, failed
          requested,  \* #trimRequested
          loop,       \* #trimmingStore: none, calling, left, threw
          writes,     \* saves the store has committed
          wrote,      \* the number of the flush's own commit
          begun,      \* the commits the trim() in flight, or last, could see
          covered,    \* the commits the last completed trim() could see
          tardy,      \* history: flushes that joined a loop that had left
          faults      \* history: trim() calls that rejected

trimHistory == <<writes, wrote, tardy, faults>>
trimVars == <<flushStage, requested, loop, begun, covered, trimHistory>>

InitTrim ==
    /\ flushStage = [f \in Flushes |-> "saving"]
    /\ requested = FALSE /\ loop = "none"
    /\ writes = 0 /\ wrote = [f \in Flushes |-> 0]
    /\ begun = 0 /\ covered = 0
    /\ tardy = {} /\ faults = 0

\* The store commits the save of a flush; the await has not resumed yet.
Commit(f) ==
    /\ flushStage[f] = "saving"
    /\ flushStage' = [flushStage EXCEPT ![f] = "written"]
    /\ writes' = writes + 1
    /\ wrote' = [wrote EXCEPT ![f] = writes + 1]
    /\ UNCHANGED <<requested, loop, begun, covered, tardy, faults>>

\* One round of the loop calls store.trim().
Round ==
    /\ requested' = FALSE
    /\ loop' = "calling"
    /\ begun' = writes

\* #trimStore(), called by a flush whose save has resolved.
Join(f) ==
    /\ flushStage[f] = "written"
    /\ flushStage' = [flushStage EXCEPT ![f] = "joined"]
    /\ \/ loop = "none" /\ Round
       \/ loop # "none" /\ requested' = TRUE /\ UNCHANGED <<loop, begun>>
    /\ tardy' = IF loop \in {"left", "threw"} THEN tardy \cup {f} ELSE tardy
    /\ UNCHANGED <<covered, writes, wrote, faults>>

\* Mutant: the loop does not look for requests that came while it waited.
OneRound == FALSE
AnotherRound == requested

\* store.trim() resolves; the loop goes on or leaves, settling its promise.
TrimResolves ==
    /\ loop = "calling"
    /\ covered' = begun
    /\ \/ AnotherRound /\ Round
       \/ ~AnotherRound /\ loop' = "left" /\ UNCHANGED <<requested, begun>>
    /\ UNCHANGED <<flushStage, trimHistory>>

\* store.trim() rejects and the loop with it, whoever still asks for a round.
TrimRejects ==
    /\ loop = "calling" /\ faults < MaxFaults
    /\ faults' = faults + 1
    /\ loop' = "threw"
    /\ UNCHANGED <<flushStage, requested, begun, covered, writes, wrote, tardy>>

\* settled(), then the flushes that awaited the promise resume.
LoopSettled ==
    /\ loop \in {"left", "threw"}
    /\ loop' = "none"
    /\ flushStage' = [f \in Flushes |->
                         IF flushStage[f] # "joined" THEN flushStage[f]
                         ELSE IF loop = "left" THEN "done" ELSE "failed"]
    /\ UNCHANGED <<requested, begun, covered, trimHistory>>

Finished ==
    /\ \A f \in Flushes : flushStage[f] \in {"done", "failed"}
    /\ loop = "none"
    /\ UNCHANGED trimVars

NextTrim ==
    \/ \E f \in Flushes : Commit(f) \/ Join(f)
    \/ TrimResolves \/ TrimRejects \/ LoopSettled
    \/ Finished

TrimSpec == InitTrim /\ [][NextTrim]_trimVars

-----------------------------------------------------------------------------
(* Properties *)

\* Every variable keeps its type.
TypeOK ==
    /\ flushStage \in [Flushes -> {"saving", "written", "joined", "done", "failed"}]
    /\ requested \in BOOLEAN
    /\ loop \in {"none", "calling", "left", "threw"}
    /\ writes \in Nat /\ wrote \in [Flushes -> Nat]
    /\ begun \in Nat /\ covered \in Nat
    /\ tardy \subseteq Flushes /\ faults \in 0..MaxFaults

\* A flush that joined a loop still running comes back only after a trim()
\* that began after its own write: a round in flight when the write landed
\* does not count.
RoundAfterWrite ==
    \A f \in Flushes \ tardy : flushStage[f] = "done" => wrote[f] <= covered

\* "Each successful write therefore performs the driver's cheap under-cap check":
\* the same for every flush.
EveryWriteTrimmed ==
    \A f \in Flushes : flushStage[f] = "done" => wrote[f] <= covered

=============================================================================
