------------------------------ MODULE Recorder ------------------------------
(***************************************************************************)
(* The record / flush pipeline of packages/periscope/src/recorder.         *)
(*                                                                         *)
(* A host opens batches (a request, a command, a job, an ambient window).  *)
(* Watchers push entries into the batch context, lifecycle hooks flush it, *)
(* and the recorder decides when a fragment reaches the store.  A final    *)
(* flush closes the context and opens one bounded grace window, served by  *)
(* a second context, the continuation ("late").                            *)
(*                                                                         *)
(* Every action is the code between two awaits: record() is synchronous,   *)
(* flush() is cut at the await of the previous flush, of the monitored     *)
(* tags, of store.save and of the trim, and in the microtasks between the  *)
(* end of #flushContext and BatchScope.close.                              *)
(*                                                                         *)
(* Entries are their sequence numbers: nextSequence() stamps each accepted *)
(* entry, so an entry is a record of its number, its type, the overflow    *)
(* count its content carries and its origin: record(), or the report that  *)
(* #reportTruncation makes up, which is of a type that has a cap, too.     *)
(* The counts of dropped entries are summed over the types, because the    *)
(* code always moves them together.  A record call that is muted, paused   *)
(* or rejected by a filter hook changes nothing the recorder reads again   *)
(* and is a stuttering step.                                               *)
(***************************************************************************)
EXTENDS Naturals, Sequences, FiniteSets

CONSTANTS Batches,      \* identities of the contexts the host opens
          Types,        \* entry types
          Cap,          \* recording.caps, one bound per type
          Primary,      \* PRIMARY_ENTRY_TYPE of the batches, or none of Types
          Report,       \* EntryType.LOG, the type of the synthetic truncation entry
          BufferLimit,  \* #bufferLimit: the sum of the caps and one slot more
          LateGrace,    \* lateEntryGraceMs > 0
          MaxSeq,       \* bound: entries accepted
          MaxDropped,   \* bound: entries refused by a cap
          MaxQueue,     \* bound: flush calls waiting on one context
          MaxFailures   \* bound: store failures

ASSUME ConstantsAssumption ==
    /\ Cap \in [Types -> Nat]
    /\ Report \in Types /\ Primary # Report
    /\ BufferLimit \in Nat
    /\ LateGrace \in BOOLEAN
    /\ MaxSeq \in Nat /\ MaxDropped \in Nat
    /\ MaxQueue \in Nat /\ MaxFailures \in Nat

Contexts == Batches \X {"main", "late"}
Main(b) == <<b, "main">>
Late(b) == <<b, "late">>

Modes == {"intermediate", "final"}
Stages == {"idle", "tags", "saving", "trimming", "returned", "threw"}
EntryRec == [seq : Nat, type : Types, note : Nat, origin : {"record", "report"}]

VARIABLES sampled,    \* context.sampled, drawn when the batch is created
          phase,      \* lifecycle of the batch: open, closed, finished
          continued,  \* whether the closed batch has its continuation context
          retention,  \* context.retention
          buffer,     \* context.buffer
          counters,   \* context.counters
          truncated,  \* context.truncated, summed over the types
          queue,      \* flush() calls chained on the batch's context
          run,        \* the #flushContext activation of a context
          armed,      \* the batch has a grace timer in #lateEntryTimers
          stored,     \* rows of the batch in the store, in insertion order
          nextSeq,    \* next value of nextSequence()
          dropped,    \* history: entries a cap refused
          failures    \* history: store failures so far

context == <<phase, continued, retention, buffer, counters, truncated>>
flushing == <<queue, run, armed>>
history == <<dropped, failures>>
vars == <<sampled, context, flushing, stored, nextSeq, history>>

\* One #flushContext call: `size` is bufferedEntries, `synth` the synthetic
\* entry it created (drained is synth \o the first `size` of the buffer), and
\* `chained` says that the flush chain of the batch waits for it.
Activation == [stage : Stages, mode : Modes, size : Nat,
               synth : Seq(EntryRec), chained : BOOLEAN]
Idle == [stage |-> "idle", mode |-> "final", size |-> 0,
         synth |-> <<>>, chained |-> FALSE]
At(stage, mode, size, synth, chained) ==
    [stage |-> stage, mode |-> mode, size |-> size,
     synth |-> synth, chained |-> chained]

Init ==
    /\ sampled \in [Batches -> BOOLEAN]
    /\ phase = [b \in Batches |-> "open"]
    /\ continued = [b \in Batches |-> FALSE]
    /\ retention = [c \in Contexts |-> "pending"]
    /\ buffer = [c \in Contexts |-> <<>>]
    /\ counters = [c \in Contexts |-> [t \in Types |-> 0]]
    /\ truncated = [c \in Contexts |-> 0]
    /\ queue = [b \in Batches |-> <<>>]
    /\ run = [c \in Contexts |-> Idle]
    /\ armed = [b \in Batches |-> FALSE]
    /\ stored = [b \in Batches |-> <<>>]
    /\ nextSeq = 1
    /\ dropped = [b \in Batches |-> 0]
    /\ failures = 0

-----------------------------------------------------------------------------
(* Recording *)

\* BatchScope.recordingContext: an open batch records directly, a closed one
\* into the continuation it lazily creates, a finished one nowhere.
RecordingContext(b) == IF phase[b] = "open" THEN Main(b) ELSE Late(b)

\* Mutant: the continuation starts with a decision of its own.
ContinueUndecided(b) ==
    IF phase[b] = "closed" /\ ~continued[b]
    THEN continued' = [continued EXCEPT ![b] = TRUE] /\ UNCHANGED retention
    ELSE UNCHANGED <<continued, retention>>

\* The continuation inherits the sticky sampling decision.
Continue(b) ==
    IF phase[b] = "closed" /\ ~continued[b]
    THEN /\ continued' = [continued EXCEPT ![b] = TRUE]
         /\ retention' = [retention EXCEPT ![Late(b)] = retention[Main(b)]]
    ELSE UNCHANGED <<continued, retention>>

\* The type has not reached its cap.
Room(c, t) == counters[c][t] < Cap[t]

\* record(): accepted under the cap, stamped and pushed.
Accept(b, t) ==
    LET c == RecordingContext(b) IN
    /\ phase[b] # "finished"
    /\ nextSeq <= MaxSeq
    /\ Room(c, t)
    /\ Continue(b)
    /\ counters' = [counters EXCEPT ![c][t] = @ + 1]
    /\ buffer' = [buffer EXCEPT ![c] =
                    Append(@, [seq |-> nextSeq, type |-> t, note |-> 0,
                               origin |-> "record"])]
    /\ nextSeq' = nextSeq + 1
    /\ UNCHANGED <<sampled, phase, truncated, flushing, stored, history>>

\* record(): refused by the cap, only counted.
Refuse(b, t) ==
    LET c == RecordingContext(b) IN
    /\ phase[b] # "finished"
    /\ dropped[b] < MaxDropped
    /\ ~Room(c, t)
    /\ Continue(b)
    /\ truncated' = [truncated EXCEPT ![c] = @ + 1]
    /\ dropped' = [dropped EXCEPT ![b] = @ + 1]
    /\ UNCHANGED <<sampled, phase, buffer, counters, flushing, stored,
                   nextSeq, failures>>

-----------------------------------------------------------------------------
(* #flushContext *)

Undecided(c) == ~sampled[c[1]] /\ retention[c] = "pending"

\* #reportTruncation: the carrier is the first drained entry of the primary
\* type, else the first drained entry; its note is replaced by the count.
\* With nothing drained a synthetic entry is created to carry it.
Carriers(buf, size) == {i \in 1..size : buf[i].type = Primary}
FirstCarrier(buf, size) ==
    IF Carriers(buf, size) = {} THEN 1
    ELSE CHOOSE i \in Carriers(buf, size) :
            \A j \in Carriers(buf, size) : i <= j

Noted(buf, size, synth, count) ==
    IF count = 0
      THEN [buffer |-> buf, synth |-> synth]
    ELSE IF synth # <<>> /\ Carriers(buf, size) = {}
      THEN [buffer |-> buf, synth |-> <<[synth[1] EXCEPT !.note = count]>>]
    ELSE IF size > 0
      THEN [buffer |-> [buf EXCEPT ![FirstCarrier(buf, size)].note = count],
            synth |-> synth]
    ELSE [buffer |-> buf,
          synth |-> <<[seq |-> nextSeq, type |-> Report, note |-> count,
                       origin |-> "report"]>>]

\* Mutant: the counts stay in the context as well.
CopyTruncated(c) == UNCHANGED truncated
\* The counts are moved, not copied.
TakeTruncated(c) == truncated' = [truncated EXCEPT ![c] = 0]

\* From the call of #flushContext to its first await.
FlushContext(c, mode, chained) ==
    LET size == Len(buffer[c])
        noted == Noted(buffer[c], size, <<>>, truncated[c])
        empty == size = 0 /\ noted.synth = <<>>
        Goto(stage) == run' = [run EXCEPT ![c] =
                          At(stage, mode, size, noted.synth, chained)]
        Return == run' = [run EXCEPT ![c] =
                          At("returned", mode, 0, <<>>, chained)]
    IN  \/ /\ Undecided(c) /\ mode = "intermediate"
           /\ Return
           /\ UNCHANGED <<retention, buffer, truncated, nextSeq>>
        \/ /\ ~(Undecided(c) /\ mode = "intermediate")
           /\ TakeTruncated(c)
           /\ nextSeq' = nextSeq + Len(noted.synth)
           /\ \/ /\ empty
                 /\ retention' = IF Undecided(c)
                                 THEN [retention EXCEPT ![c] = "dropped"]
                                 ELSE retention
                 /\ Return
                 /\ UNCHANGED buffer
              \/ /\ ~empty
                 /\ ~sampled[c[1]] /\ retention[c] = "dropped"
                 /\ buffer' = [buffer EXCEPT ![c] = <<>>]
                 /\ Return
                 /\ UNCHANGED retention
              \/ /\ ~empty
                 /\ Undecided(c)
                 /\ buffer' = [buffer EXCEPT ![c] = noted.buffer]
                 /\ \/ /\ retention' = [retention EXCEPT ![c] = "kept"]
                       /\ Goto("saving")              \* keepAlways
                    \/ /\ Goto("tags")
                       /\ UNCHANGED retention
              \/ /\ ~empty
                 /\ sampled[c[1]] \/ retention[c] = "kept"
                 /\ buffer' = [buffer EXCEPT ![c] = noted.buffer]
                 /\ Goto("saving")
                 /\ UNCHANGED retention

\* The monitored tags arrive: entries recorded during the read are folded in
\* and the batch is decided.  keepAlways, a matching tag or a store that was
\* never readable keep it.
DecideByTags(c) ==
    LET size == Len(buffer[c])
        noted == Noted(buffer[c], size, run[c].synth, truncated[c])
    IN
    /\ run[c].stage = "tags"
    /\ TakeTruncated(c)
    /\ \/ /\ retention' = [retention EXCEPT ![c] = "kept"]
          /\ buffer' = [buffer EXCEPT ![c] = noted.buffer]
          /\ run' = [run EXCEPT ![c].stage = "saving", ![c].size = size,
                                ![c].synth = noted.synth]
       \/ /\ retention' = [retention EXCEPT ![c] = "dropped"]
          /\ buffer' = [buffer EXCEPT ![c] = <<>>]
          /\ run' = [run EXCEPT ![c].stage = "returned", ![c].size = 0,
                                ![c].synth = <<>>]
    /\ UNCHANGED <<sampled, phase, continued, counters, queue, armed,
                   stored, nextSeq, history>>

Drained(c) == run[c].synth \o SubSeq(buffer[c], 1, run[c].size)
\* Mutant: the saved prefix stays buffered.
ArrivalsAndSaved(c) == buffer[c]
Arrivals(c) == SubSeq(buffer[c], run[c].size + 1, Len(buffer[c]))

\* store.save resolves: the saved prefix leaves the buffer.
SaveCommits(c) ==
    /\ run[c].stage = "saving"
    /\ stored' = [stored EXCEPT ![c[1]] = @ \o Drained(c)]
    /\ buffer' = [buffer EXCEPT ![c] = Arrivals(c)]
    /\ run' = [run EXCEPT ![c].stage = "trimming", ![c].size = 0,
                          ![c].synth = <<>>]
    /\ UNCHANGED <<sampled, phase, continued, retention, counters, truncated,
                   queue, armed, nextSeq, history>>

\* store.save rejects: the buffered entries never left, a synthetic entry is
\* put in front of them, and the fixed ceiling cuts the newest.
Capped(buf) == SubSeq(buf, 1, IF Len(buf) <= BufferLimit THEN Len(buf)
                              ELSE BufferLimit)
\* Mutant: only what never left the buffer is kept for the next flush.
RequeuedWithoutReport(c) == buffer[c]
Requeued(c) == Capped(IF Len(buffer[c]) < BufferLimit
                      THEN run[c].synth \o buffer[c] ELSE buffer[c])

SaveRejects(c) ==
    /\ run[c].stage = "saving"
    /\ failures < MaxFailures
    /\ failures' = failures + 1
    /\ buffer' = [buffer EXCEPT ![c] = Requeued(c)]
    /\ run' = [run EXCEPT ![c].stage = "threw", ![c].size = 0,
                          ![c].synth = <<>>]
    /\ UNCHANGED <<sampled, phase, continued, retention, counters, truncated,
                   queue, armed, stored, nextSeq, dropped>>

\* The awaited #trimStore settles.
TrimResolves(c) ==
    /\ run[c].stage = "trimming"
    /\ run' = [run EXCEPT ![c].stage = "returned"]
    /\ UNCHANGED <<sampled, context, queue, armed, stored, nextSeq, history>>

TrimRejects(c) ==
    /\ run[c].stage = "trimming"
    /\ failures < MaxFailures
    /\ failures' = failures + 1
    /\ run' = [run EXCEPT ![c].stage = "threw"]
    /\ UNCHANGED <<sampled, context, queue, armed, stored, nextSeq, dropped>>

-----------------------------------------------------------------------------
(* flush() and the grace window *)

\* A lifecycle hook calls flush(): the call is chained on the context.
Flush(b, mode) ==
    /\ Len(queue[b]) < MaxQueue
    /\ queue' = [queue EXCEPT ![b] = Append(@, mode)]
    /\ UNCHANGED <<sampled, context, run, armed, stored, nextSeq, history>>

\* No chained call of the batch is executing.
Quiet(b) == run[Main(b)] = Idle /\ ~run[Late(b)].chained

\* BatchScope.finishContinuation and clearTimeout: both contexts are terminal.
Finish(b) ==
    /\ phase' = [phase EXCEPT ![b] = "finished"]
    /\ armed' = [armed EXCEPT ![b] = FALSE]

\* Flush the continuation, when the window needed one.
\* Mutant: the window ends and what it collected is forgotten.
ForgetContinuation(b, chained) ==
    UNCHANGED <<retention, buffer, truncated, run, nextSeq>>
FlushContinuation(b, chained) ==
    IF continued[b]
    THEN FlushContext(Late(b), "final", chained)
    ELSE UNCHANGED <<retention, buffer, truncated, run, nextSeq>>

\* The previous flush settled.  A final flush of a closed batch ends its
\* window and flushes the continuation; any other flushes the context.
StartFlush(b) ==
    LET mode == Head(queue[b])
        expires == mode = "final" /\ phase[b] = "closed"
    IN
    /\ queue[b] # <<>>
    /\ Quiet(b)
    /\ \/ /\ expires
          /\ Finish(b)
          /\ FlushContinuation(b, TRUE)
          /\ queue' = IF continued[b] THEN queue
                      ELSE [queue EXCEPT ![b] = Tail(@)]
       \/ /\ ~expires
          /\ FlushContext(Main(b), mode, TRUE)
          /\ UNCHANGED <<phase, queue, armed>>
    /\ UNCHANGED <<sampled, continued, counters, stored, history>>

\* What was accepted behind the saved snapshot moves into the continuation,
\* whose counters are recomputed from it.
CountOf(t, seq) == Cardinality({i \in 1..Len(seq) : seq[i].type = t})
\* Mutant: the moved entries are not charged to the continuation.
RecountNothing(entries) == [t \in Types |-> 0]
Recount(entries) == [t \in Types |-> CountOf(t, entries)]

MoveArrivals(b) ==
    IF buffer[Main(b)] # <<>> \/ truncated[Main(b)] > 0
    THEN /\ continued' = [continued EXCEPT ![b] = TRUE]
         /\ retention' = [retention EXCEPT ![Late(b)] = retention[Main(b)]]
         /\ buffer' = [buffer EXCEPT ![Late(b)] = buffer[Main(b)],
                                     ![Main(b)] = <<>>]
         /\ truncated' = [truncated EXCEPT ![Late(b)] = truncated[Main(b)],
                                           ![Main(b)] = 0]
         /\ counters' = [counters EXCEPT ![Late(b)] =
                                Recount(buffer[Main(b)])]
    ELSE UNCHANGED <<continued, retention, buffer, truncated, counters>>

\* BatchScope.close and #armLateEntryWindow: with no grace the window ends
\* where it starts.
Arm(b) ==
    /\ phase' = [phase EXCEPT ![b] = IF LateGrace THEN "closed" ELSE "finished"]
    /\ armed' = [armed EXCEPT ![b] = LateGrace]

\* #flushContext returned, or threw into the safeguard.
Over(c) == run[c].stage \in {"returned", "threw"}

\* #flushContext of the batch's own context is over.  A flush that threw
\* returns without closing the batch.
SettleMain(b) ==
    LET r == run[Main(b)]
        closes == r.stage = "returned" /\ r.mode = "final" /\ phase[b] = "open"
    IN
    /\ Over(Main(b))
    /\ IF closes THEN MoveArrivals(b) /\ Arm(b) ELSE UNCHANGED <<context, armed>>
    /\ run' = [run EXCEPT ![Main(b)] = Idle]
    /\ queue' = [queue EXCEPT ![b] = Tail(@)]
    /\ UNCHANGED <<sampled, stored, nextSeq, history>>

\* The continuation's flush is over, whatever its outcome.
SettleLate(b) ==
    /\ Over(Late(b))
    /\ run' = [run EXCEPT ![Late(b)] = Idle]
    /\ queue' = IF run[Late(b)].chained
                THEN [queue EXCEPT ![b] = Tail(@)] ELSE queue
    /\ UNCHANGED <<sampled, context, armed, stored, nextSeq, history>>

\* The grace timer fires: both contexts become terminal, then the
\* continuation is flushed on a chain of its own.
LateTimer(b) ==
    /\ armed[b]
    /\ Finish(b)
    /\ FlushContinuation(b, FALSE)
    /\ UNCHANGED <<sampled, continued, counters, queue, stored, history>>

-----------------------------------------------------------------------------

Host(b) ==
    \/ \E t \in Types : Accept(b, t) \/ Refuse(b, t)
    \/ \E mode \in Modes : Flush(b, mode)

Storage(c) ==
    \/ DecideByTags(c)
    \/ SaveCommits(c) \/ SaveRejects(c)
    \/ TrimResolves(c) \/ TrimRejects(c)

Next ==
    \E b \in Batches :
        \/ Host(b)
        \/ StartFlush(b) \/ SettleMain(b) \/ SettleLate(b)
        \/ LateTimer(b)
        \/ Storage(Main(b)) \/ Storage(Late(b))

Spec == Init /\ [][Next]_vars

\* The event loop runs every settled await and every due timer while the
\* process lives, and the store settles each call.  The host owes nothing.
Fairness ==
    \A b \in Batches :
        /\ WF_vars(StartFlush(b)) /\ WF_vars(LateTimer(b))
        /\ WF_vars(SettleMain(b)) /\ WF_vars(SettleLate(b))
        /\ WF_vars(Storage(Main(b))) /\ WF_vars(Storage(Late(b)))

FairSpec == Spec /\ Fairness

-----------------------------------------------------------------------------
(* Properties *)

\* Every variable keeps its type.
TypeOK ==
    /\ sampled \in [Batches -> BOOLEAN]
    /\ phase \in [Batches -> {"open", "closed", "finished"}]
    /\ continued \in [Batches -> BOOLEAN]
    /\ retention \in [Contexts -> {"pending", "kept", "dropped"}]
    /\ buffer \in [Contexts -> Seq(EntryRec)]
    /\ counters \in [Contexts -> [Types -> Nat]]
    /\ truncated \in [Contexts -> Nat]
    /\ queue \in [Batches -> Seq(Modes)]
    /\ run \in [Contexts -> Activation]
    /\ armed \in [Batches -> BOOLEAN]
    /\ stored \in [Batches -> Seq(EntryRec)]
    /\ nextSeq \in Nat
    /\ dropped \in [Batches -> Nat]
    /\ failures \in Nat

\* Serialized flushes, partial splices, requeued saves and the move into the
\* continuation never store an entry twice nor out of the order in which
\* record() stamped it: the rows of a batch, then the synthetic entry being
\* written, then both buffers are strictly increasing.
Pipeline(b) ==
    stored[b] \o run[Main(b)].synth \o buffer[Main(b)]
              \o run[Late(b)].synth \o buffer[Late(b)]
RecordOrder ==
    \A b \in Batches :
        \A i, j \in 1..Len(Pipeline(b)) :
            i < j => Pipeline(b)[i].seq < Pipeline(b)[j].seq

\* A sampled-out batch is stored whole or not at all: rows exist only after
\* the decision to keep it, the decision is made before the batch closes and
\* its continuation never has another one.
SamplingDecision ==
    \A b \in Batches :
        ~sampled[b] =>
            /\ stored[b] # <<>> => retention[Main(b)] = "kept"
            /\ phase[b] # "open" => retention[Main(b)] # "pending"
            /\ continued[b] => retention[Late(b)] = retention[Main(b)]

\* Whatever is requeued or moved into it, a context buffers at most its cap of accepted
\* entries of a type and one report, which comes on top of its own type's cap, so that
\* #bufferLimit has room for it ("even when every type cap is full").
AcceptedIn(t, s) == {i \in 1..Len(s) : s[i].origin = "record" /\ s[i].type = t}
ReportsIn(s) == {i \in 1..Len(s) : s[i].origin = "report"}
CapRespected ==
    \A c \in Contexts :
        /\ \A t \in Types : Cardinality(AcceptedIn(t, buffer[c])) <= Cap[t]
        /\ Cardinality(ReportsIn(buffer[c])) <= 1
        /\ Len(buffer[c]) <= BufferLimit

\* A closed batch always owns the timer that will end its window, and no
\* timer outlives it.
WindowOwned == \A b \in Batches : armed[b] <=> phase[b] = "closed"

\* An accepted entry leaves the pipeline only with a sampled-out batch that
\* was decided against: no save, failure, requeue or close loses one.
Held(b) == {Pipeline(b)[i].seq : i \in 1..Len(Pipeline(b))}
AcceptedNotLost ==
    [][\A b \in Batches :
          \/ Held(b) \subseteq Held(b)'
          \/ ~sampled[b] /\ retention'[Main(b)] = "dropped"]_vars

\* Unless the store fails, whatever a closed sampled batch still holds reaches
\* the store without another call of the host.
LateEntriesDelivered ==
    \A b \in Batches :
        sampled[b] /\ phase[b] = "closed"
            ~> \/ buffer[Late(b)] = <<>> /\ phase[b] = "finished"
               \/ failures > 0

=============================================================================
