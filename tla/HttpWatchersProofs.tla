------------------------- MODULE HttpWatchersProofs -------------------------
(***************************************************************************)
(* The HTTP watchers keep the contract every owner of a batch has with the *)
(* recorder, and their cleanup leaves nothing behind, for every set of     *)
(* requests and outbound calls.                                            *)
(*                                                                         *)
(* A batch is decided once because one side alone asks for its final       *)
(* flush: the completion listener, if it found the middleware gone, and    *)
(* else the middleware, which the barrier holds until the listener is      *)
(* through.                                                                *)
(***************************************************************************)
EXTENDS HttpWatchers, SequenceTheorems, TLAPS

ChainedCalls == [mode : {"final", "intermediate"},
                 owner : Calls \cup {"middleware", "completion"}]

BatchesTyped ==
    /\ sampled \in [Requests -> BOOLEAN]
    /\ retention \in [Requests -> {"pending", "kept", "dropped"}]
    /\ closed \in [Requests -> BOOLEAN]
    /\ buffer \in [Requests -> SUBSET Entries]
    /\ stored \in [Requests -> SUBSET Entries]
    /\ late \in [Requests -> SUBSET Entries]
    /\ chain \in [Requests -> Seq(ChainedCalls)]
    /\ saving \in [Requests -> [on : BOOLEAN, rows : SUBSET Entries]]
    /\ decisions \in [Requests -> Nat]
    /\ failures \in Nat

WatcherTyped ==
    /\ handler \in [Requests -> {"arriving", "running", "muted", "bare",
                                 "waiting", "deciding", "left"}]
    /\ completion \in [Requests -> {"none", "unheard", "batched", "unbatched",
                                    "flushing", "flushed", "settled"}]
    /\ intermediate \in [Requests -> BOOLEAN]
    /\ attached \subseteq Requests /\ open \subseteq Requests
    /\ barrier \subseteq Requests /\ pending \subseteq Requests
    /\ unbatched \subseteq Requests
    /\ listening \in BOOLEAN /\ active \in BOOLEAN
    /\ cleanup \in Cleanup

ClientTyped ==
    /\ call \in [Calls -> {"none", "unseen", "active", "finalized"}]
    /\ subscribed \in BOOLEAN
    /\ flushes \subseteq Calls
    /\ drained \in [stage : {"none", "waiting", "done"}, awaits : SUBSET Calls]

Typed == BatchesTyped /\ WatcherTyped /\ ClientTyped

-----------------------------------------------------------------------------
(* The inductive invariant *)

FinalAt(r, i) == chain[r][i].mode = "final"
Positions(r) == 1..Len(chain[r])
FinalAsked(r) == decisions[r] > 0 \/ \E i \in Positions(r) : FinalAt(r, i)

\* One final call at most is chained, and once its decision is taken it only
\* waits for its save.
OneFinal(r) ==
    /\ decisions[r] \in {0, 1}
    /\ \A i, j \in Positions(r) : FinalAt(r, i) /\ FinalAt(r, j) => i = j
    /\ \A i \in Positions(r) : FinalAt(r, i) /\ decisions[r] = 1 => i = 1 /\ saving[r].on

\* A save in flight belongs to the head of the chain of a batch that is kept.
SavesKept(r) == saving[r].on => chain[r] # <<>> /\ Kept(r)

\* Where the two sides of a request can stand relative to each other.
SidesMeet(r) ==
    /\ handler[r] = "running" => r \in open
    /\ handler[r] = "running" /\ r \notin attached => intermediate[r]
    /\ handler[r] = "waiting" => intermediate[r]
    /\ handler[r] = "arriving" => completion[r] = "none"
    /\ r \in attached => completion[r] \in {"none", "unheard"}
    /\ intermediate[r] => completion[r] \in {"batched", "flushing", "flushed", "settled"}
    /\ intermediate[r] /\ completion[r] # "settled" => r \in barrier

\* Who asked for the final flush.
FinalOwned(r) ==
    FinalAsked(r) =>
        /\ Described(r)
        /\ intermediate[r] => completion[r] = "settled" /\ handler[r] \in {"deciding", "left"}

StillPending(r) ==
    completion[r] \in {"batched", "unbatched", "flushing", "flushed"} => r \in pending

RequestInv(r) ==
    OneFinal(r) /\ SavesKept(r) /\ SidesMeet(r) /\ FinalOwned(r) /\ StillPending(r)

\* A watcher that is cleaned up takes no new work, and awaits all it has.
Winding ==
    /\ cleanup.stage # "none" => ~listening /\ pending \subseteq cleanup.awaits
    /\ cleanup.stage = "done" => pending = {}
    /\ drained.stage # "none" => ~subscribed /\ flushes \subseteq drained.awaits
    /\ drained.stage = "done" => flushes = {}

IInv == Typed /\ Winding /\ \A r \in Requests : RequestInv(r)

-----------------------------------------------------------------------------
(* The chain of a request *)

\* A call that joins the chain stands behind those that are there.
LEMMA CallJoins ==
  ASSUME BatchesTyped, NEW r \in Requests,
         NEW mode \in {"final", "intermediate"},
         NEW owner \in Calls \cup {"middleware", "completion"},
         Flush(r, mode, owner)
  PROVE  /\ chain' \in [Requests -> Seq(ChainedCalls)]
         /\ \A q \in Requests \ {r} : chain'[q] = chain[q]
         /\ Len(chain'[r]) = Len(chain[r]) + 1
         /\ \A i \in 1..Len(chain[r]) : chain'[r][i] = chain[r][i]
         /\ chain'[r][Len(chain[r]) + 1].mode = mode
<1>1. Call(mode, owner) \in ChainedCalls
  BY DEF Call, ChainedCalls
<1>2. chain[r] \in Seq(ChainedCalls)
  BY DEF BatchesTyped
<1>3. /\ Append(chain[r], Call(mode, owner)) \in Seq(ChainedCalls)
      /\ Len(Append(chain[r], Call(mode, owner))) = Len(chain[r]) + 1
      /\ \A i \in 1..Len(chain[r]) : Append(chain[r], Call(mode, owner))[i] = chain[r][i]
      /\ Append(chain[r], Call(mode, owner))[Len(chain[r]) + 1] = Call(mode, owner)
  BY <1>1, <1>2, AppendProperties
<1>4. Call(mode, owner).mode = mode
  BY DEF Call
<1>5. chain'[r] = Append(chain[r], Call(mode, owner))
  BY DEF Flush, BatchesTyped
<1> QED BY <1>3, <1>4, <1>5 DEF Flush, BatchesTyped

\* The head leaves the chain and the others move up.
LEMMA HeadLeaves ==
  ASSUME BatchesTyped, NEW r \in Requests, chain[r] # <<>>,
         chain' = [chain EXCEPT ![r] = Tail(@)]
  PROVE  /\ chain' \in [Requests -> Seq(ChainedCalls)]
         /\ \A q \in Requests \ {r} : chain'[q] = chain[q]
         /\ Len(chain[r]) \in Nat \ {0} /\ Len(chain'[r]) = Len(chain[r]) - 1
         /\ \A i \in 1..Len(chain'[r]) : chain'[r][i] = chain[r][i + 1]
         /\ Mode(r) = chain[r][1].mode /\ Mode(r) \in {"final", "intermediate"}
<1>1. chain[r] \in Seq(ChainedCalls) /\ chain'[r] = Tail(chain[r])
  BY DEF BatchesTyped
<1>2. /\ Tail(chain[r]) \in Seq(ChainedCalls)
      /\ Len(chain[r]) \in Nat \ {0} /\ Len(Tail(chain[r])) = Len(chain[r]) - 1
      /\ \A i \in 1..Len(Tail(chain[r])) : Tail(chain[r])[i] = chain[r][i + 1]
      /\ Head(chain[r]) = chain[r][1] /\ Head(chain[r]) \in ChainedCalls
  BY <1>1
<1> QED BY <1>1, <1>2 DEF BatchesTyped, Mode, ChainedCalls

-----------------------------------------------------------------------------
(* What a step of the batch, or of its owners, leaves of the invariant *)

BatchesKept(R) ==
    \A r \in R : /\ sampled'[r] = sampled[r] /\ retention'[r] = retention[r]
                 /\ chain'[r] = chain[r] /\ saving'[r] = saving[r]
                 /\ decisions'[r] = decisions[r]
OwnersKept(R) ==
    \A r \in R : /\ handler'[r] = handler[r] /\ completion'[r] = completion[r]
                 /\ intermediate'[r] = intermediate[r]
                 /\ r \in open' <=> r \in open
                 /\ r \in attached' <=> r \in attached
                 /\ r \in barrier' <=> r \in barrier
                 /\ r \in pending' <=> r \in pending

BatchInv(r) == OneFinal(r) /\ SavesKept(r)

LEMMA BatchUntouched ==
  ASSUME NEW r, BatchesKept({r})
  PROVE  /\ BatchInv(r) => BatchInv(r)'
         /\ FinalAsked(r)' <=> FinalAsked(r)
BY DEF BatchesKept, BatchInv, OneFinal, SavesKept, FinalAsked, Positions, FinalAt, Kept

LEMMA OwnersUntouched ==
  ASSUME NEW r, OwnersKept({r})
  PROVE  /\ SidesMeet(r) => SidesMeet(r)'
         /\ StillPending(r) => StillPending(r)'
         /\ (FinalAsked(r)' => FinalAsked(r)) /\ FinalOwned(r) => FinalOwned(r)'
BY DEF OwnersKept, SidesMeet, StillPending, FinalOwned, Described

LEMMA RequestUntouched ==
  ASSUME NEW r, BatchesKept({r}), OwnersKept({r}), RequestInv(r)
  PROVE  RequestInv(r)'
BY BatchUntouched, OwnersUntouched DEF RequestInv, BatchInv

\* An intermediate call decides nothing.
LEMMA FragmentJoins ==
  ASSUME BatchesTyped, NEW r \in Requests, BatchInv(r),
         NEW owner \in Calls \cup {"completion"}, Flush(r, "intermediate", owner),
         UNCHANGED <<sampled, retention, saving, decisions>>
  PROVE  /\ BatchInv(r)'
         /\ FinalAsked(r)' <=> FinalAsked(r)
         /\ chain' \in [Requests -> Seq(ChainedCalls)]
         /\ BatchesKept(Requests \ {r})
<1>1. /\ chain' \in [Requests -> Seq(ChainedCalls)]
      /\ \A q \in Requests \ {r} : chain'[q] = chain[q]
      /\ Len(chain'[r]) = Len(chain[r]) + 1
      /\ \A i \in 1..Len(chain[r]) : chain'[r][i] = chain[r][i]
      /\ chain'[r][Len(chain[r]) + 1].mode = "intermediate"
  BY CallJoins
<1>2. Len(chain[r]) \in Nat
  BY DEF BatchesTyped
<1>3. \A i \in Positions(r)' : FinalAt(r, i)' => i \in Positions(r) /\ FinalAt(r, i)
  BY <1>1, <1>2 DEF Positions, FinalAt
<1>4. \A i \in Positions(r) : i \in Positions(r)' /\ FinalAt(r, i)' = FinalAt(r, i)
  BY <1>1, <1>2 DEF Positions, FinalAt
<1>5. OneFinal(r)'
  BY <1>3 DEF BatchInv, OneFinal
<1>6. SavesKept(r)'
  <2>1. chain'[r] # <<>>
    BY <1>1, <1>2
  <2> QED BY <2>1 DEF BatchInv, SavesKept, Kept
<1>7. FinalAsked(r)' <=> FinalAsked(r)
  BY <1>3, <1>4 DEF FinalAsked
<1> QED BY <1>1, <1>5, <1>6, <1>7 DEF BatchInv, BatchesKept

\* The final call is asked for once.
LEMMA FinalJoins ==
  ASSUME BatchesTyped, NEW r \in Requests, BatchInv(r), ~FinalAsked(r),
         NEW owner \in {"middleware", "completion"}, Flush(r, "final", owner),
         UNCHANGED <<sampled, retention, saving, decisions>>
  PROVE  /\ BatchInv(r)'
         /\ chain' \in [Requests -> Seq(ChainedCalls)]
         /\ BatchesKept(Requests \ {r})
<1>1. /\ chain' \in [Requests -> Seq(ChainedCalls)]
      /\ \A q \in Requests \ {r} : chain'[q] = chain[q]
      /\ Len(chain'[r]) = Len(chain[r]) + 1
      /\ \A i \in 1..Len(chain[r]) : chain'[r][i] = chain[r][i]
  BY CallJoins
<1>2. Len(chain[r]) \in Nat
  BY DEF BatchesTyped
<1>3. \A i \in Positions(r)' : FinalAt(r, i)' => i = Len(chain[r]) + 1
  BY <1>1, <1>2 DEF Positions, FinalAt, FinalAsked
<1>4. decisions[r] = 0
  BY DEF BatchesTyped, FinalAsked
<1>5. OneFinal(r)'
  BY <1>3, <1>4 DEF BatchInv, OneFinal
<1>6. SavesKept(r)'
  <2>1. chain'[r] # <<>>
    BY <1>1, <1>2
  <2> QED BY <2>1 DEF BatchInv, SavesKept, Kept
<1> QED BY <1>1, <1>5, <1>6 DEF BatchInv, BatchesKept

\* A call settles; a final one has been decided.
LEMMA CallSettles ==
  ASSUME BatchesTyped, NEW r \in Requests, BatchInv(r), chain[r] # <<>>,
         chain' = [chain EXCEPT ![r] = Tail(@)],
         decisions'[r] \in Nat, decisions'[r] >= decisions[r],
         decisions'[r] # decisions[r] =>
            Mode(r) = "final" /\ ~saving[r].on /\ decisions'[r] = decisions[r] + 1,
         ~saving'[r].on
  PROVE  /\ BatchInv(r)'
         /\ FinalAsked(r)' => FinalAsked(r)
         /\ chain' \in [Requests -> Seq(ChainedCalls)]
<1>1. /\ chain' \in [Requests -> Seq(ChainedCalls)]
      /\ Len(chain[r]) \in Nat \ {0} /\ Len(chain'[r]) = Len(chain[r]) - 1
      /\ \A i \in 1..Len(chain'[r]) : chain'[r][i] = chain[r][i + 1]
      /\ Mode(r) = chain[r][1].mode
  BY HeadLeaves
<1>2. \A i \in Positions(r)' : /\ i + 1 \in Positions(r) /\ FinalAt(r, i)' = FinalAt(r, i + 1)
                               /\ i \in Nat \ {0}
  BY <1>1 DEF Positions, FinalAt
<1>3. 1 \in Positions(r) /\ (Mode(r) = "final" <=> FinalAt(r, 1))
  BY <1>1 DEF Positions, FinalAt
<1>4. decisions[r] \in Nat
  BY DEF BatchesTyped
<1>5. CASE Mode(r) = "final"
  <2>1. \A i \in Positions(r)' : ~FinalAt(r, i)'
    BY <1>2, <1>3, <1>5 DEF BatchInv, OneFinal
  <2>2. decisions'[r] \in {0, 1}
    BY <1>3, <1>4, <1>5 DEF BatchInv, OneFinal
  <2>3. FinalAsked(r)
    BY <1>3, <1>5 DEF FinalAsked
  <2> QED BY <1>1, <2>1, <2>2, <2>3 DEF BatchInv, OneFinal, SavesKept
<1>6. CASE Mode(r) # "final"
  <2>1. decisions'[r] = decisions[r]
    BY <1>6
  <2>2. FinalAsked(r)' => FinalAsked(r)
    BY <2>1, <1>2 DEF FinalAsked
  <2>3. \A i \in Positions(r)' : ~(FinalAt(r, i)' /\ decisions[r] = 1)
    BY <1>2, <1>3, <1>6 DEF BatchInv, OneFinal
  <2>4. \A i, j \in Positions(r)' : FinalAt(r, i)' /\ FinalAt(r, j)' => i = j
    BY <1>2 DEF BatchInv, OneFinal
  <2>5. OneFinal(r)'
    BY <2>1, <2>3, <2>4 DEF BatchInv, OneFinal
  <2> QED BY <1>1, <2>2, <2>5 DEF BatchInv, SavesKept
<1> QED BY <1>5, <1>6

-----------------------------------------------------------------------------
(* Every step keeps the invariant *)

\* The invariant holds initially.
LEMMA InitIInv == Init => IInv
<1> SUFFICES ASSUME Init PROVE IInv
  OBVIOUS
<1> USE DEF Init
<1>1. BatchesTyped
  BY DEF InitBatches, BatchesTyped, NoSave
<1>2. WatcherTyped /\ ClientTyped
  BY DEF InitWatcher, InitClient, WatcherTyped, ClientTyped, Cleanup
<1>3. Winding
  BY DEF InitWatcher, InitClient, Winding
<1>4. ASSUME NEW r \in Requests PROVE RequestInv(r)
  <2>1. chain[r] = <<>> /\ decisions[r] = 0 /\ ~saving[r].on
    BY DEF InitBatches, NoSave
  <2>2. ~FinalAsked(r) /\ OneFinal(r) /\ SavesKept(r)
    BY <2>1 DEF FinalAsked, OneFinal, SavesKept, Positions
  <2>3. SidesMeet(r) /\ StillPending(r)
    BY DEF InitWatcher, SidesMeet, StillPending
  <2> QED BY <2>2, <2>3 DEF RequestInv, FinalOwned
<1> QED BY <1>1, <1>2, <1>3, <1>4 DEF IInv, Typed

\* The recorder's work on the chain of one request.
LEMMA RecorderTyped ==
  ASSUME Typed, NEW r \in Requests, SavesKept(r), Recorder(r),
         UNCHANGED <<watcherVars, clientVars>>
  PROVE  Typed'
<1> USE DEF Typed
<1>1. WatcherTyped' /\ ClientTyped'
  BY DEF watcherVars, clientVars, WatcherTyped, ClientTyped
<1>2. ASSUME chain[r] # <<>>, chain' = [chain EXCEPT ![r] = Tail(@)]
      PROVE  chain' \in [Requests -> Seq(ChainedCalls)]
  BY <1>2, HeadLeaves
<1>3. CASE FlushDefers(r)
  BY <1>1, <1>2, <1>3 DEF FlushDefers, Starts, BatchesTyped
<1>4. CASE FlushDrops(r)
  BY <1>1, <1>2, <1>4 DEF FlushDrops, Starts, Settle, Decide, BatchesTyped
<1>5. CASE FlushSaves(r)
  <2>1. saving' \in [Requests -> [on : BOOLEAN, rows : SUBSET Entries]]
    BY <1>5 DEF FlushSaves, BatchesTyped
  <2>2. /\ decisions' \in [Requests -> Nat]
        /\ retention' \in [Requests -> {"pending", "kept", "dropped"}]
    BY <1>5 DEF FlushSaves, Decide, BatchesTyped
  <2> QED BY <1>1, <1>5, <2>1, <2>2 DEF FlushSaves, BatchesTyped
<1>6. CASE SaveCommits(r)
  <2>1. /\ stored' \in [Requests -> SUBSET Entries]
        /\ buffer' \in [Requests -> SUBSET Entries]
        /\ late' \in [Requests -> SUBSET Entries]
        /\ saving' \in [Requests -> [on : BOOLEAN, rows : SUBSET Entries]]
    BY <1>6 DEF SaveCommits, BatchesTyped, NoSave
  <2> QED BY <1>1, <1>2, <1>6, <2>1 DEF SaveCommits, Settle, SavesKept, BatchesTyped
<1>7. CASE SaveRejects(r)
  BY <1>1, <1>2, <1>7 DEF SaveRejects, SavesKept, BatchesTyped, NoSave
<1> QED BY <1>3, <1>4, <1>5, <1>6, <1>7 DEF Recorder

\* The other requests do not notice.
LEMMA RecorderElsewhere ==
  ASSUME Typed, NEW r \in Requests, Recorder(r)
  PROVE  BatchesKept(Requests \ {r})
<1> USE DEF Typed, BatchesTyped, BatchesKept
<1>1. CASE FlushDefers(r)
  BY <1>1 DEF FlushDefers
<1>2. CASE FlushDrops(r)
  BY <1>2 DEF FlushDrops, Settle, Decide
<1>3. CASE FlushSaves(r)
  BY <1>3 DEF FlushSaves, Decide
<1>4. CASE SaveCommits(r) \/ SaveRejects(r)
  BY <1>4 DEF SaveCommits, SaveRejects, Settle
<1> QED BY <1>1, <1>2, <1>3, <1>4 DEF Recorder

\* A final decision is taken for the one final call.
LEMMA RecorderBatch ==
  ASSUME Typed, NEW r \in Requests, BatchInv(r), Recorder(r)
  PROVE  /\ BatchInv(r)'
         /\ FinalAsked(r)' => FinalAsked(r)
<1> USE DEF Typed
<1>1. decisions[r] \in Nat
  BY DEF BatchesTyped
<1>2. CASE FlushDefers(r)
  <2>1. chain[r] # <<>> /\ ~saving'[r].on /\ decisions' = decisions
    BY <1>2 DEF FlushDefers, Starts
  <2>2. chain' = [chain EXCEPT ![r] = Tail(@)]
    BY <1>2 DEF FlushDefers
  <2>3. decisions'[r] \in Nat /\ decisions'[r] >= decisions[r]
    BY <1>1, <2>1
  <2> QED BY <2>1, <2>2, <2>3, CallSettles
<1>3. CASE FlushDrops(r)
  <2>1. decisions'[r] = IF Mode(r) = "final" THEN decisions[r] + 1 ELSE decisions[r]
    BY <1>3 DEF FlushDrops, Decide, BatchesTyped
  <2>2. chain[r] # <<>> /\ ~saving[r].on /\ saving' = saving
    BY <1>3 DEF FlushDrops, Starts
  <2>3. chain' = [chain EXCEPT ![r] = Tail(@)]
    BY <1>3 DEF FlushDrops, Settle
  <2>4. decisions'[r] \in Nat /\ decisions'[r] >= decisions[r]
    BY <1>1, <2>1
  <2> QED BY <2>1, <2>2, <2>3, <2>4, CallSettles
<1>4. CASE FlushSaves(r)
  <2>1. decisions'[r] = IF Mode(r) = "final" THEN decisions[r] + 1 ELSE decisions[r]
    BY <1>4 DEF FlushSaves, Decide, BatchesTyped
  <2>2. chain[r] # <<>> /\ ~saving[r].on /\ saving'[r].on /\ chain' = chain
    BY <1>4 DEF FlushSaves, Starts, BatchesTyped
  <2>3. Kept(r)'
    BY <1>4 DEF FlushSaves, Kept, Undecided, BatchesTyped
  <2>4. 1 \in Positions(r) /\ (Mode(r) = "final" <=> FinalAt(r, 1))
    BY <2>2 DEF Positions, FinalAt, Mode, BatchesTyped
  <2>5. CASE FinalAt(r, 1)
    <3>1. decisions[r] = 0
      BY <2>2, <2>4, <2>5 DEF BatchInv, OneFinal
    <3>2. \A i \in Positions(r) : FinalAt(r, i) => i = 1
      BY <2>4, <2>5 DEF BatchInv, OneFinal
    <3>3. FinalAsked(r)
      BY <2>4, <2>5 DEF FinalAsked
    <3> QED BY <2>1, <2>2, <2>3, <2>4, <2>5, <3>1, <3>2, <3>3
            DEF BatchInv, OneFinal, SavesKept, Positions, FinalAt
  <2>6. CASE ~FinalAt(r, 1)
    <3>1. decisions'[r] = decisions[r]
      BY <2>1, <2>4, <2>6
    <3> QED BY <2>2, <2>3, <3>1
            DEF BatchInv, OneFinal, SavesKept, Positions, FinalAt, FinalAsked
  <2> QED BY <2>5, <2>6
<1>5. CASE SaveCommits(r) \/ SaveRejects(r)
  <2>1. chain[r] # <<>> /\ chain' = [chain EXCEPT ![r] = Tail(@)] /\ decisions' = decisions
    BY <1>5 DEF SaveCommits, SaveRejects, Settle, BatchInv, SavesKept
  <2>2. ~saving'[r].on
    BY <1>5 DEF SaveCommits, SaveRejects, NoSave, BatchesTyped
  <2>3. decisions'[r] \in Nat /\ decisions'[r] >= decisions[r]
    BY <1>1, <2>1
  <2> QED BY <2>1, <2>2, <2>3, CallSettles
<1> QED BY <1>2, <1>3, <1>4, <1>5 DEF Recorder

LEMMA RecorderIInv ==
  ASSUME IInv, NEW r \in Requests, Recorder(r), UNCHANGED <<watcherVars, clientVars>>
  PROVE  IInv'
<1> USE DEF IInv
<1>1. Typed'
  BY RecorderTyped DEF RequestInv
<1>2. Winding'
  BY DEF Winding, watcherVars, clientVars
<1>3. OwnersKept(Requests) /\ \A q \in Requests : OwnersKept({q})
  BY DEF OwnersKept, watcherVars
<1>4. RequestInv(r)'
  BY <1>3, RecorderBatch, OwnersUntouched DEF RequestInv, BatchInv
<1>5. ASSUME NEW q \in Requests \ {r} PROVE RequestInv(q)'
  <2>1. BatchesKept({q})
    BY RecorderElsewhere DEF BatchesKept
  <2> QED BY <1>3, <2>1, RequestUntouched
<1> QED BY <1>1, <1>2, <1>4, <1>5

LEMMA TypesKept ==
  /\ BatchesTyped /\ UNCHANGED batchVars => BatchesTyped'
  /\ WatcherTyped /\ UNCHANGED watcherVars => WatcherTyped'
  /\ ClientTyped /\ UNCHANGED clientVars => ClientTyped'
BY DEF BatchesTyped, batchVars, WatcherTyped, watcherVars, ClientTyped, clientVars

\* Steps of a watcher that touch no flush leave the batches alone.
LEMMA BatchesUntouched ==
  ASSUME UNCHANGED <<sampled, retention, chain, saving, decisions>>
  PROVE  \A r : BatchesKept({r})
BY DEF BatchesKept

\* The requests a step is not about.
OthersKept(r) == \A q \in Requests \ {r} : BatchesKept({q}) /\ OwnersKept({q})

\* Once the request a step is about keeps its invariant, all is kept.
LEMMA RequestStep ==
  ASSUME IInv, NEW r \in Requests, Typed', Winding', OthersKept(r), RequestInv(r)'
  PROVE  IInv'
<1>1. ASSUME NEW q \in Requests \ {r} PROVE RequestInv(q)'
  BY RequestUntouched DEF IInv, OthersKept
<1> QED BY <1>1 DEF IInv

LEMMA OpenBatchIInv ==
  ASSUME IInv, NEW r \in Requests, OpenBatch(r), UNCHANGED clientVars
  PROVE  IInv'
<1> USE DEF IInv, OpenBatch, At, batchVars, clientVars
<1>1. Typed' /\ Winding'
  BY DEF Typed, BatchesTyped, WatcherTyped, ClientTyped, Winding
<1>2. OthersKept(r)
  BY DEF Typed, WatcherTyped, OthersKept, OwnersKept, BatchesKept
<1>3. BatchInv(r)' /\ (FinalAsked(r)' <=> FinalAsked(r))
  BY BatchesUntouched, BatchUntouched DEF RequestInv, BatchInv
<1>4. SidesMeet(r)' /\ StillPending(r)' /\ FinalOwned(r)'
  BY <1>3 DEF Typed, WatcherTyped, RequestInv, SidesMeet, StillPending, FinalOwned, Described
<1> QED BY <1>1, <1>2, <1>3, <1>4, RequestStep DEF RequestInv, BatchInv

LEMMA PassThroughIInv ==
  ASSUME IInv, NEW r \in Requests, PassThrough(r), UNCHANGED clientVars
  PROVE  IInv'
<1> USE DEF IInv, PassThrough, At, batchVars, mapVars, clientVars
<1>1. Typed' /\ Winding'
  BY DEF Typed, BatchesTyped, WatcherTyped, ClientTyped, Winding
<1>2. OthersKept(r)
  BY DEF Typed, WatcherTyped, OthersKept, OwnersKept, BatchesKept
<1>3. BatchInv(r)' /\ (FinalAsked(r)' <=> FinalAsked(r))
  BY BatchesUntouched, BatchUntouched DEF RequestInv, BatchInv
<1>4. SidesMeet(r)' /\ StillPending(r)' /\ FinalOwned(r)'
  BY <1>3 DEF Typed, WatcherTyped, RequestInv, SidesMeet, StillPending, FinalOwned, Described
<1> QED BY <1>1, <1>2, <1>3, <1>4, RequestStep DEF RequestInv, BatchInv

\* An entry is buffered in the batch or in its continuation.
LEMMA RecordTyped ==
  ASSUME BatchesTyped, NEW r \in Requests, NEW e \in Entries, Record(r, e)
  PROVE  buffer' \in [Requests -> SUBSET Entries] /\ late' \in [Requests -> SUBSET Entries]
<1>1. buffer \in [Requests -> SUBSET Entries] /\ late \in [Requests -> SUBSET Entries]
  BY DEF BatchesTyped
<1>2. CASE closed[r]
  BY <1>1, <1>2 DEF Record
<1>3. CASE ~closed[r]
  BY <1>1, <1>3 DEF Record
<1> QED BY <1>2, <1>3

LEMMA WorkIInv ==
  ASSUME IInv, NEW r \in Requests, NEW w \in Works, Work(r, w), UNCHANGED clientVars
  PROVE  IInv'
<1> USE DEF IInv, Work, watcherVars, clientVars
<1>1. Typed'
  <2>1. buffer' \in [Requests -> SUBSET Entries] /\ late' \in [Requests -> SUBSET Entries]
    BY RecordTyped DEF Typed, Entries
  <2> QED BY <2>1 DEF Typed, BatchesTyped, WatcherTyped, ClientTyped
<1>2. Winding'
  BY DEF Winding
<1>3. OthersKept(r) /\ BatchesKept({r}) /\ OwnersKept({r})
  BY DEF OthersKept, OwnersKept, BatchesKept
<1> QED BY <1>1, <1>2, <1>3, RequestStep, RequestUntouched

\* The middleware's final flush comes behind the barrier.
LEMMA FlushFinallyIInv ==
  ASSUME IInv, NEW r \in Requests, FlushFinally(r),
         intermediate[r], completion[r] = "settled", handler[r] \in {"running", "waiting"},
         open' \in {open, open \ {r}},
         UNCHANGED <<attached, completion, intermediate, barrier, pending,
                     unbatched, listening, active, cleanup, clientVars>>
  PROVE  IInv'
<1> USE DEF IInv, FlushFinally, At, clientVars
<1>1. ~FinalAsked(r)
  BY DEF RequestInv, FinalOwned
<1>2. /\ BatchInv(r)'
      /\ chain' \in [Requests -> Seq(ChainedCalls)]
      /\ BatchesKept(Requests \ {r})
  BY <1>1, FinalJoins DEF Typed, RequestInv, BatchInv
<1>3. Typed' /\ Winding'
  BY <1>2 DEF Typed, BatchesTyped, WatcherTyped, ClientTyped, Winding
<1>4. OthersKept(r)
  BY <1>2 DEF Typed, WatcherTyped, OthersKept, OwnersKept, BatchesKept
<1>5. handler'[r] = "deciding"
  BY DEF Typed, WatcherTyped
<1>6. SidesMeet(r)' /\ StillPending(r)' /\ FinalOwned(r)'
  BY <1>5 DEF RequestInv, SidesMeet, StillPending, FinalOwned, Described
<1> QED BY <1>2, <1>3, <1>4, <1>6, RequestStep DEF RequestInv, BatchInv

LEMMA LeaveIInv ==
  ASSUME IInv, NEW r \in Requests, Leave(r), UNCHANGED clientVars
  PROVE  IInv'
<1> USE DEF IInv, Leave
<1>1. ASSUME At(r, "left") \/ (At(r, "waiting") /\ intermediate[r]), UNCHANGED batchVars
      PROVE  IInv'
  <2> USE <1>1 DEF At, batchVars, clientVars
  <2>1. Typed' /\ Winding'
    BY DEF Typed, BatchesTyped, WatcherTyped, ClientTyped, Winding
  <2>2. OthersKept(r)
    BY DEF Typed, WatcherTyped, OthersKept, OwnersKept, BatchesKept
  <2>3. BatchInv(r)' /\ (FinalAsked(r)' <=> FinalAsked(r))
    BY BatchesUntouched, BatchUntouched DEF RequestInv, BatchInv
  <2>4. SidesMeet(r)' /\ StillPending(r)' /\ FinalOwned(r)'
    BY <2>3 DEF Typed, WatcherTyped, RequestInv, SidesMeet, StillPending, FinalOwned, Described
  <2> QED BY <2>1, <2>2, <2>3, <2>4, RequestStep DEF RequestInv, BatchInv
<1>2. CASE handler[r] # "running" \/ LeavesToListener(r)
  BY <1>1, <1>2
<1>3. CASE handler[r] = "running" /\ ~LeavesToListener(r)
  <2>1. intermediate[r] /\ (r \notin barrier => completion[r] = "settled")
    BY <1>3 DEF RequestInv, SidesMeet, LeavesToListener
  <2>2. CASE r \in barrier
    BY <1>1, <1>3, <2>1, <2>2 DEF Straggle
  <2>3. CASE r \notin barrier
    BY <1>3, <2>1, <2>3, FlushFinallyIInv DEF Straggle
  <2> QED BY <2>2, <2>3
<1> QED BY <1>2, <1>3

LEMMA BarrierLiftsIInv ==
  ASSUME IInv, NEW r \in Requests, BarrierLifts(r), UNCHANGED clientVars
  PROVE  IInv'
<1>1. intermediate[r] /\ completion[r] = "settled"
  BY DEF IInv, RequestInv, SidesMeet, BarrierLifts
<1> QED BY <1>1, FlushFinallyIInv DEF BarrierLifts, mapVars

LEMMA StragglersFlushedIInv ==
  ASSUME IInv, NEW r \in Requests, StragglersFlushed(r), UNCHANGED clientVars
  PROVE  IInv'
<1> USE DEF IInv, StragglersFlushed, At, batchVars, mapVars, clientVars
<1>1. Typed' /\ Winding'
  BY DEF Typed, BatchesTyped, WatcherTyped, ClientTyped, Winding
<1>2. OthersKept(r)
  BY DEF Typed, WatcherTyped, OthersKept, OwnersKept, BatchesKept
<1>3. BatchInv(r)' /\ (FinalAsked(r)' <=> FinalAsked(r))
  BY BatchesUntouched, BatchUntouched DEF RequestInv, BatchInv
<1>4. SidesMeet(r)' /\ StillPending(r)' /\ FinalOwned(r)'
  BY <1>3 DEF Typed, WatcherTyped, RequestInv, SidesMeet, StillPending, FinalOwned, Described
<1> QED BY <1>1, <1>2, <1>3, <1>4, RequestStep DEF RequestInv, BatchInv

\* The listener takes the batch; it leaves the final flush to the middleware
\* only where that still runs.
LEMMA CompletedIInv ==
  ASSUME IInv, NEW r \in Requests, Completed(r), UNCHANGED clientVars
  PROVE  IInv'
<1> USE DEF IInv, Completed, Reach, ReadsOpen, Taken, Registered, batchVars, clientVars
<1>1. Typed'
  BY DEF Typed, BatchesTyped, WatcherTyped, ClientTyped
<1>2. Winding'
  BY DEF Typed, WatcherTyped, Winding, Cleanup
<1>3. OthersKept(r)
  BY DEF Typed, WatcherTyped, OthersKept, OwnersKept, BatchesKept
<1>4. BatchInv(r)' /\ (FinalAsked(r)' <=> FinalAsked(r))
  BY BatchesUntouched, BatchUntouched DEF RequestInv, BatchInv
<1>5. ~FinalAsked(r)
  BY DEF RequestInv, FinalOwned, Described
<1>6. SidesMeet(r)' /\ StillPending(r)' /\ FinalOwned(r)'
  BY <1>4, <1>5 DEF Typed, WatcherTyped, RequestInv, SidesMeet, StillPending, FinalOwned
<1> QED BY <1>1, <1>2, <1>3, <1>4, <1>6, RequestStep DEF RequestInv, BatchInv

\* The steps of a completion that ask for no flush.
LEMMA CompletionMovesIInv ==
  ASSUME IInv, NEW r \in Requests, UNCHANGED clientVars,
         CompletedUnheard(r) \/ RecordUnbatched(r) \/ CompletionFlushed(r)
            \/ CompletionSettles(r)
  PROVE  IInv'
<1>0. BatchesTyped' /\ ClientTyped'
  BY TypesKept DEF IInv, Typed, CompletedUnheard, RecordUnbatched, CompletionFlushed,
                   CompletionSettles
<1> USE DEF IInv, CompletedUnheard, RecordUnbatched, CompletionFlushed, CompletionSettles,
            Reach, batchVars, mapVars, clientVars
<1>1. Typed' /\ Winding'
  <2>1. WatcherTyped'
    BY DEF Typed, WatcherTyped, RefusesUnbatched
  <2>2. Winding'
    BY DEF Winding
  <2> QED BY <1>0, <2>1, <2>2 DEF Typed
<1>2. OthersKept(r)
  BY DEF Typed, WatcherTyped, OthersKept, OwnersKept, BatchesKept
<1>3. BatchInv(r)' /\ (FinalAsked(r)' <=> FinalAsked(r))
  BY BatchesUntouched, BatchUntouched DEF RequestInv, BatchInv
<1>4. SidesMeet(r)' /\ StillPending(r)' /\ FinalOwned(r)'
  BY <1>3 DEF Typed, WatcherTyped, RequestInv, SidesMeet, StillPending, FinalOwned, Described
<1> QED BY <1>1, <1>2, <1>3, <1>4, RequestStep DEF RequestInv, BatchInv

\* setImmediate: the flush is final unless the middleware will ask for it.
LEMMA RecordCompletionIInv ==
  ASSUME IInv, NEW r \in Requests, RecordCompletion(r), UNCHANGED clientVars
  PROVE  IInv'
<1> USE DEF IInv, RecordCompletion, Reach, mapVars, clientVars
<1>1. ~FinalAsked(r)
  BY DEF RequestInv, FinalOwned, Described
<1>2. BatchInv(r) /\ BatchesTyped
  BY DEF RequestInv, BatchInv, Typed
<1>3. /\ BatchInv(r)'
      /\ chain' \in [Requests -> Seq(ChainedCalls)]
      /\ BatchesKept(Requests \ {r})
      /\ intermediate[r] => ~FinalAsked(r)'
  <2>1. CASE intermediate[r]
    BY <1>1, <1>2, <2>1, FragmentJoins DEF ModeOf
  <2>2. CASE ~intermediate[r]
    BY <1>1, <1>2, <2>2, FinalJoins DEF ModeOf
  <2> QED BY <2>1, <2>2
<1>4. buffer' \in [Requests -> SUBSET Entries] /\ late' \in [Requests -> SUBSET Entries]
  <2>1. Primary \in Entries
    BY DEF Entries
  <2> QED BY <1>2, <2>1, RecordTyped DEF MakeRequestEntry, BatchesTyped
<1>5. Typed' /\ Winding'
  BY <1>3, <1>4 DEF Typed, BatchesTyped, WatcherTyped, ClientTyped, Winding
<1>6. OthersKept(r)
  BY <1>3 DEF Typed, WatcherTyped, OthersKept, OwnersKept, BatchesKept
<1>7. SidesMeet(r)' /\ StillPending(r)' /\ FinalOwned(r)'
  BY <1>3 DEF Typed, WatcherTyped, RequestInv, SidesMeet, StillPending, FinalOwned, Described
<1> QED BY <1>3, <1>5, <1>6, <1>7, RequestStep DEF RequestInv, BatchInv

\* An outbound call records and flushes into a batch it does not own.
LEMMA FinalizeIInv ==
  ASSUME IInv, NEW o \in Calls, Finalize(o), UNCHANGED watcherVars
  PROVE  IInv'
<1> DEFINE r == Origin[o]
<1> USE DEF IInv, Finalize, watcherVars
<1>1. r \in Requests /\ BatchInv(r) /\ BatchesTyped
  BY OriginAssumption DEF RequestInv, BatchInv, Typed
<1>2. /\ BatchInv(r)'
      /\ FinalAsked(r)' <=> FinalAsked(r)
      /\ chain' \in [Requests -> Seq(ChainedCalls)]
      /\ BatchesKept(Requests \ {r})
  BY <1>1, FragmentJoins
<1>3. buffer' \in [Requests -> SUBSET Entries] /\ late' \in [Requests -> SUBSET Entries]
  BY <1>1, RecordTyped DEF Entries
<1>4. Typed'
  BY <1>2, <1>3 DEF Typed, BatchesTyped, WatcherTyped, ClientTyped
<1>5. Winding'
  BY DEF Winding, Typed, ClientTyped
<1>6. \A q \in Requests : OwnersKept({q})
  BY DEF OwnersKept
<1>7. OthersKept(r)
  BY <1>2, <1>6 DEF OthersKept, BatchesKept
<1>8. SidesMeet(r)' /\ StillPending(r)' /\ FinalOwned(r)'
  BY <1>1, <1>2, <1>6, OwnersUntouched DEF RequestInv
<1> QED BY <1>1, <1>2, <1>4, <1>5, <1>7, <1>8, RequestStep DEF RequestInv, BatchInv

\* The steps that touch no request: calls that begin or settle, and cleanup.
LEMMA ElsewhereIInv ==
  ASSUME IInv, Typed', Winding',
         UNCHANGED <<batchVars, handler, completion, intermediate, mapVars>>
  PROVE  IInv'
<1>1. ASSUME NEW r \in Requests PROVE RequestInv(r)'
  <2>1. BatchesKept({r}) /\ OwnersKept({r})
    BY DEF BatchesKept, OwnersKept, batchVars, mapVars
  <2> QED BY <2>1, RequestUntouched DEF IInv
<1> QED BY <1>1 DEF IInv

LEMMA CallIInv ==
  ASSUME IInv, NEW o \in Calls, Create(o) \/ FlushSettles(o), UNCHANGED watcherVars
  PROVE  IInv'
<1>1. BatchesTyped' /\ WatcherTyped'
  BY TypesKept DEF IInv, Typed, Create, FlushSettles
<1>2. ClientTyped'
  BY DEF IInv, Typed, ClientTyped, Create, FlushSettles
<1>3. Winding'
  BY DEF IInv, Winding, Create, FlushSettles, watcherVars
<1> QED BY <1>1, <1>2, <1>3, ElsewhereIInv DEF Typed, Create, FlushSettles, watcherVars, mapVars

LEMMA TeardownIInv ==
  ASSUME IInv, Teardown
  PROVE  IInv'
<1>1. CASE (Unsubscribe \/ CleanupReturns) /\ UNCHANGED clientVars
  <2>1. BatchesTyped' /\ ClientTyped'
    BY <1>1, TypesKept DEF IInv, Typed, Unsubscribe, CleanupReturns
  <2>2. WatcherTyped'
    <3>1. cleanup' \in Cleanup
      BY <1>1 DEF IInv, Typed, WatcherTyped, Unsubscribe, CleanupReturns, Cleanup
    <3> QED BY <1>1, <3>1 DEF IInv, Typed, WatcherTyped, Unsubscribe, CleanupReturns, mapVars
  <2>3. Winding'
    BY <1>1 DEF IInv, Unsubscribe, CleanupReturns, Typed, WatcherTyped, Cleanup, Winding,
                mapVars, clientVars
  <2> QED BY <1>1, <2>1, <2>2, <2>3, ElsewhereIInv DEF Typed, Unsubscribe, CleanupReturns
<1>2. CASE (CleanupClient \/ ClientCleaned) /\ UNCHANGED watcherVars
  <2>1. BatchesTyped' /\ WatcherTyped'
    BY <1>2, TypesKept DEF IInv, Typed, CleanupClient, ClientCleaned
  <2>2. ClientTyped'
    <3>1. call' \in [Calls -> {"none", "unseen", "active", "finalized"}]
      BY <1>2 DEF IInv, Typed, ClientTyped, CleanupClient, ClientCleaned
    <3>2. drained' \in [stage : {"none", "waiting", "done"}, awaits : SUBSET Calls]
      BY <1>2 DEF IInv, Typed, ClientTyped, CleanupClient, ClientCleaned
    <3> QED BY <1>2, <3>1, <3>2 DEF IInv, Typed, ClientTyped, CleanupClient, ClientCleaned
  <2>3. Winding'
    BY <1>2 DEF IInv, CleanupClient, ClientCleaned, Typed, ClientTyped, Winding, watcherVars
  <2> QED BY <1>2, <2>1, <2>2, <2>3, ElsewhereIInv
          DEF Typed, CleanupClient, ClientCleaned, watcherVars, mapVars
<1> QED BY <1>1, <1>2 DEF Teardown

LEMMA NextIInv == IInv /\ [Next]_vars => IInv'
<1> SUFFICES ASSUME IInv, [Next]_vars PROVE IInv'
  OBVIOUS
<1>1. ASSUME NEW r \in Requests, Middleware(r), UNCHANGED clientVars PROVE IInv'
  BY <1>1, OpenBatchIInv, PassThroughIInv, WorkIInv, LeaveIInv, BarrierLiftsIInv,
     StragglersFlushedIInv DEF Middleware
<1>2. ASSUME NEW r \in Requests, Listener(r), UNCHANGED clientVars PROVE IInv'
  BY <1>2, CompletedIInv, CompletionMovesIInv, RecordCompletionIInv DEF Listener
<1>3. ASSUME NEW r \in Requests, Recorder(r), UNCHANGED <<watcherVars, clientVars>> PROVE IInv'
  BY <1>3, RecorderIInv
<1>4. ASSUME NEW o \in Calls, Outbound(o), UNCHANGED watcherVars PROVE IInv'
  BY <1>4, CallIInv, FinalizeIInv DEF Outbound
<1>5. CASE Teardown
  BY <1>5, TeardownIInv
<1>6. CASE UNCHANGED vars
  <2>1. Typed'
    BY <1>6 DEF IInv, Typed, BatchesTyped, WatcherTyped, ClientTyped, vars, batchVars,
                watcherVars, clientVars
  <2>2. Winding'
    BY <1>6 DEF IInv, Winding, vars, watcherVars, clientVars
  <2>3. UNCHANGED <<batchVars, handler, completion, intermediate, mapVars>>
    BY <1>6 DEF vars, watcherVars, mapVars
  <2> QED BY <2>1, <2>2, <2>3, ElsewhereIInv
<1> QED BY <1>1, <1>2, <1>3, <1>4, <1>5, <1>6 DEF Next

\* The invariant holds in every reachable state.
THEOREM HttpInvariant == Spec => []IInv
BY InitIInv, NextIInv, PTL DEF Spec

\* When the watchers' cleanup has returned, nothing that was heard is still
\* recording and no outbound flush runs, for any number of requests and calls.
THEOREM HttpCleanup == Spec => []CleanupLeavesNothing
<1>1. IInv => CleanupLeavesNothing
  BY DEF IInv, Winding, RequestInv, StillPending, CleanupLeavesNothing
<1> QED BY HttpInvariant, <1>1, PTL

\* Every variable keeps its type.
THEOREM HttpTypeCorrect == Spec => []Typed
<1>1. IInv => Typed
  BY DEF IInv
<1> QED BY HttpInvariant, <1>1, PTL

-----------------------------------------------------------------------------
(* The contract of a batch, step by step *)

Published(r) == stored[r] # {}

\* What the contract sees of a request.
Views(R) ==
    /\ \A r \in R : Described(r)' = Described(r)
    /\ \A r \in R : Kept(r)' = Kept(r)
    /\ \A r \in R : Published(r)' = Published(r)

LEMMA ContractInit == Init => Contract!Init
<1> SUFFICES ASSUME Init PROVE Contract!Init
  OBVIOUS
<1>1. decisions = [r \in Requests |-> 0]
  BY DEF Init, InitBatches
<1>2. \A r \in Requests : Described(r) = FALSE
  BY DEF Init, InitWatcher, Described
<1>3. \A r \in Requests : (stored[r] # {}) = FALSE
  BY DEF Init, InitBatches
<1>4. \A r \in Requests : Kept(r) \in BOOLEAN
  BY DEF Kept
<1> QED BY <1>1, <1>2, <1>3, <1>4 DEF Contract!Init

LEMMA Unseen ==
  ASSUME Views(Requests), decisions' = decisions
  PROVE  UNCHANGED Contract!vars
BY Zenon DEF Views, Published, Contract!vars

LEMMA Describes ==
  ASSUME NEW r \in Requests, Views(Requests \ {r}),
         ~Described(r), Described(r)', Kept(r)' = Kept(r), Published(r)' = Published(r),
         decisions[r] = 0, decisions' = decisions
  PROVE  Contract!Next
<1>1. [q \in Requests |-> Described(q)'] = [[q \in Requests |-> Described(q)] EXCEPT ![r] = TRUE]
  BY DEF Views, Described
<1>2. /\ [q \in Requests |-> Kept(q)'] = [q \in Requests |-> Kept(q)]
      /\ [q \in Requests |-> stored'[q] # {}] = [q \in Requests |-> stored[q] # {}]
  BY DEF Views, Published
<1>3. Contract!Describe(r)
  BY <1>1, <1>2 DEF Contract!Describe
<1> QED BY <1>3 DEF Contract!Next

LEMMA Decides ==
  ASSUME Typed, NEW r \in Requests, Views(Requests \ {r}),
         Described(r), Described(r)', Kept(r) => Kept(r)', Published(r)' = Published(r),
         decisions[r] = 0, decisions' = [decisions EXCEPT ![r] = 1]
  PROVE  Contract!Next
<1>1. /\ [q \in Requests |-> Described(q)'] = [q \in Requests |-> Described(q)]
      /\ [q \in Requests |-> stored'[q] # {}] = [q \in Requests |-> stored[q] # {}]
  BY DEF Views, Published, Described
<1>2. \E more \in BOOLEAN :
        [q \in Requests |-> Kept(q)'] = [[q \in Requests |-> Kept(q)] EXCEPT ![r] = @ \/ more]
  <2>1. Kept(r) \in BOOLEAN /\ Kept(r)' \in BOOLEAN
    BY DEF Kept
  <2>2. Kept(r)' = (Kept(r) \/ Kept(r)')
    BY <2>1
  <2> QED BY <2>1, <2>2 DEF Views
<1>3. Contract!Decide(r)
  BY <1>1, <1>2 DEF Contract!Decide
<1> QED BY <1>3 DEF Contract!Next

LEMMA Publishes ==
  ASSUME NEW r \in Requests, Views(Requests \ {r}),
         Described(r)' = Described(r), Kept(r), Kept(r)', Published(r)', decisions' = decisions
  PROVE  Contract!Next
<1>1. /\ [q \in Requests |-> Described(q)'] = [q \in Requests |-> Described(q)]
      /\ [q \in Requests |-> Kept(q)'] = [q \in Requests |-> Kept(q)]
  BY DEF Views, Kept
<1>2. [q \in Requests |-> stored'[q] # {}] = [[q \in Requests |-> stored[q] # {}] EXCEPT ![r] = TRUE]
  BY DEF Views, Published
<1>3. Contract!Publish(r)
  BY <1>1, <1>2 DEF Contract!Publish
<1> QED BY <1>3 DEF Contract!Next

LEMMA RecorderContract ==
  ASSUME IInv, NEW r \in Requests, Recorder(r), UNCHANGED <<watcherVars, clientVars>>
  PROVE  [Contract!Next]_Contract!vars
<1> USE DEF IInv
<1>1. /\ BatchesTyped /\ decisions \in [Requests -> Nat] /\ decisions[r] \in {0, 1}
      /\ OneFinal(r) /\ SavesKept(r) /\ FinalOwned(r)
  BY DEF Typed, BatchesTyped, RequestInv, OneFinal
<1>2. /\ \A q \in Requests : Described(q)' = Described(q)
      /\ \A q \in Requests \ {r} : Kept(q)' = Kept(q)
  BY RecorderElsewhere DEF BatchesKept, Described, Kept, watcherVars
<1>3. \A q \in Requests \ {r} : Published(q)' = Published(q)
  <2>1. stored' = stored \/ stored' = [stored EXCEPT ![r] = @ \cup saving[r].rows]
    BY DEF Recorder, FlushDefers, FlushDrops, FlushSaves, SaveCommits, SaveRejects
  <2> QED BY <2>1, <1>1 DEF Published, BatchesTyped
<1>4. Views(Requests \ {r})
  BY <1>2, <1>3 DEF Views
<1>5. CASE FlushDefers(r) \/ SaveRejects(r)
  <2>1. Kept(r)' = Kept(r) /\ Published(r)' = Published(r) /\ decisions' = decisions
    BY <1>5 DEF FlushDefers, SaveRejects, Kept, Published
  <2>2. Views(Requests)
    BY <1>2, <1>4, <2>1 DEF Views
  <2> QED BY <2>1, <2>2, Unseen
<1>6. CASE FlushDrops(r) \/ FlushSaves(r)
  <2>1. /\ ~saving[r].on /\ chain[r] # <<>> /\ ~Defers(r) /\ Decide(r) /\ stored' = stored
        /\ sampled' = sampled
    BY <1>6 DEF FlushDrops, FlushSaves, Starts
  <2>2. Kept(r) => Kept(r)'
    BY <1>1, <1>6 DEF FlushDrops, FlushSaves, Kept, Undecided, BatchesTyped
  <2>3. Published(r)' = Published(r)
    BY <2>1 DEF Published
  <2>4. 1 \in Positions(r) /\ (FinalAt(r, 1) <=> Mode(r) = "final")
        /\ Mode(r) \in {"final", "intermediate"}
    <3>1. chain[r] \in Seq(ChainedCalls) /\ Head(chain[r]) \in ChainedCalls
      BY <1>1, <2>1 DEF BatchesTyped
    <3> QED BY <2>1, <3>1 DEF Positions, FinalAt, Mode, ChainedCalls
  <2>5. CASE Mode(r) = "final"
    <3>1. decisions[r] = 0
      BY <1>1, <2>1, <2>4, <2>5 DEF OneFinal
    <3>2. decisions' = [decisions EXCEPT ![r] = 1]
      BY <1>1, <2>1, <2>5, <3>1 DEF Decide
    <3>3. FinalAsked(r)
      BY <2>4, <2>5 DEF FinalAsked
    <3>4. Described(r) /\ Described(r)'
      BY <1>1, <1>2, <3>3 DEF FinalOwned
    <3> QED BY <1>4, <2>2, <2>3, <3>1, <3>2, <3>4, Decides
  <2>6. CASE Mode(r) = "intermediate"
    <3>1. decisions' = decisions
      BY <1>1, <2>1, <2>6 DEF Decide
    <3>2. ~Undecided(r)
      BY <2>1, <2>6 DEF Defers
    <3>3. retention' = retention
      BY <1>6, <3>2 DEF FlushDrops, FlushSaves
    <3>4. Views(Requests)
      BY <1>2, <1>4, <2>1, <2>3, <3>3 DEF Views, Kept
    <3> QED BY <3>1, <3>4, Unseen
  <2> QED BY <2>4, <2>5, <2>6
<1>7. CASE SaveCommits(r)
  <2>1. /\ Kept(r) /\ Kept(r)' /\ decisions' = decisions
        /\ stored' = [stored EXCEPT ![r] = @ \cup saving[r].rows]
    BY <1>1, <1>7 DEF SaveCommits, SavesKept, Kept
  <2>2. Published(r) => Published(r)'
    BY <1>1, <2>1 DEF Published, BatchesTyped
  <2>3. CASE Published(r)'
    BY <1>2, <1>4, <2>1, <2>3, Publishes
  <2>4. CASE ~Published(r)'
    <3>1. Views(Requests)
      BY <1>2, <1>4, <2>1, <2>2, <2>4 DEF Views, Published, Kept
    <3> QED BY <2>1, <3>1, Unseen
  <2> QED BY <2>3, <2>4
<1> QED BY <1>5, <1>6, <1>7 DEF Recorder

\* Only a completion that is recorded shows in the contract.
LEMMA ListenerContract ==
  ASSUME IInv, NEW r \in Requests, Listener(r), UNCHANGED clientVars
  PROVE  [Contract!Next]_Contract!vars
<1> USE DEF IInv, Reach
<1>1. completion \in [Requests -> {"none", "unheard", "batched", "unbatched",
                                    "flushing", "flushed", "settled"}]
  BY DEF Typed, WatcherTyped
<1>2. /\ decisions' = decisions /\ sampled' = sampled /\ retention' = retention
      /\ stored' = stored
  BY DEF Listener, Completed, CompletedUnheard, RecordCompletion, RecordUnbatched,
         CompletionFlushed, CompletionSettles, batchVars
<1>3. \A q \in Requests : Kept(q)' = Kept(q) /\ Published(q)' = Published(q)
  BY <1>2 DEF Kept, Published
<1>4. \A q \in Requests \ {r} : completion'[q] = completion[q]
  BY <1>1 DEF Listener, Completed, CompletedUnheard, RecordCompletion, RecordUnbatched,
              CompletionFlushed, CompletionSettles
<1>5. Views(Requests \ {r})
  BY <1>3, <1>4 DEF Views, Described
<1>6. CASE RecordCompletion(r) \/ RecordUnbatched(r)
  <2>1. ~Described(r) /\ Described(r)'
    BY <1>1, <1>6 DEF RecordCompletion, RecordUnbatched, Described
  <2>2. ~FinalAsked(r)
    BY <2>1 DEF RequestInv, FinalOwned
  <2>3. decisions[r] = 0
    BY <2>2 DEF FinalAsked, Typed, BatchesTyped
  <2> QED BY <1>2, <1>3, <1>5, <2>1, <2>3, Describes
<1>7. CASE Completed(r) \/ CompletedUnheard(r) \/ CompletionFlushed(r) \/ CompletionSettles(r)
  <2>1. Described(r)' = Described(r)
    BY <1>1, <1>7 DEF Completed, CompletedUnheard, CompletionFlushed, CompletionSettles,
                      Described
  <2>2. Views(Requests)
    BY <1>3, <1>5, <2>1 DEF Views
  <2> QED BY <1>2, <2>2, Unseen
<1> QED BY <1>6, <1>7 DEF Listener

\* No other step shows.
LEMMA OthersContract ==
  ASSUME UNCHANGED <<completion, sampled, retention, stored, decisions>>
  PROVE  UNCHANGED Contract!vars
<1>1. Views(Requests)
  BY DEF Views, Described, Kept, Published
<1> QED BY <1>1, Unseen

LEMMA NextContract == IInv /\ [Next]_vars => [Contract!Next]_Contract!vars
<1> SUFFICES ASSUME IInv, [Next]_vars PROVE [Contract!Next]_Contract!vars
  OBVIOUS
<1>1. ASSUME NEW r \in Requests, Middleware(r) PROVE UNCHANGED Contract!vars
  <2>1. UNCHANGED <<completion, sampled, retention, stored, decisions>>
    BY <1>1 DEF Middleware, OpenBatch, PassThrough, Work, Leave, Straggle, FlushFinally,
                BarrierLifts, StragglersFlushed, batchVars, watcherVars
  <2> QED BY <2>1, OthersContract
<1>2. ASSUME NEW o \in Calls, Outbound(o), UNCHANGED watcherVars PROVE UNCHANGED Contract!vars
  <2>1. UNCHANGED <<completion, sampled, retention, stored, decisions>>
    BY <1>2 DEF Outbound, Create, Finalize, FlushSettles, batchVars, watcherVars
  <2> QED BY <2>1, OthersContract
<1>3. CASE Teardown
  <2>1. UNCHANGED <<completion, sampled, retention, stored, decisions>>
    BY <1>3 DEF Teardown, Unsubscribe, CleanupReturns, CleanupClient, ClientCleaned,
                batchVars, watcherVars
  <2> QED BY <2>1, OthersContract
<1>4. CASE UNCHANGED vars
  BY <1>4, OthersContract DEF vars, batchVars, watcherVars
<1> QED BY <1>1, <1>2, <1>3, <1>4, RecorderContract, ListenerContract DEF Next

\* Whatever order the abort, the end of the handler, the answers of outbound
\* calls and the flushes come in: a request's batch is decided once, after its
\* completion was described, and no row of it is stored unless it is kept.
THEOREM HttpContract == Spec => KeepsContract
BY ContractInit, NextContract, HttpInvariant, PTL DEF Spec, KeepsContract, Contract!Spec

=============================================================================
