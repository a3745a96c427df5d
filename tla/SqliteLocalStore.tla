-------------------------- MODULE SqliteLocalStore --------------------------
(***************************************************************************)
(* The write path of packages/periscope/src/storage/sqlite_local_store.ts: *)
(* processes that share one SQLite file, each with its own queue of saves, *)
(* its own setImmediate drain and its own count of the rows.               *)
(*                                                                         *)
(* better-sqlite3 is synchronous, so a callback is one step, except that   *)
(* another process may write between two of its statements.  Any write may *)
(* meet the lock of another process and throw.  Rows are numbers in the    *)
(* order of their (sequence, uuid) key; which of them a prune matches      *)
(* depends on dates and types and is left open.                            *)
(***************************************************************************)
EXTENDS Naturals, Sequences, FiniteSets

CONSTANTS Processes,  \* the processes that opened the file
          Keys,       \* row keys, in (sequence, uuid) order
          Payload,    \* bound: the rows of each save() call there will be
          Cap,        \* storage.maxEntries
          Backlog,    \* SAVE_BACKLOG_LIMIT
          MaxBusy     \* bound: writes that meet a foreign lock

ASSUME SqliteAssumption ==
    /\ Keys \subseteq Nat /\ Payload \in Seq((SUBSET Keys) \ {{}})
    /\ Cap \in Nat /\ Backlog \in Nat \ {0}
    /\ MaxBusy \in Nat

Saves == DOMAIN Payload
Nobody == "nobody"
ASSUME NobodyAssumption == Nobody \notin Processes

VARIABLES file,        \* rows of the entries table
          status,      \* of each process: open, closed (handle), down
          queue,       \* #pendingSaves
          scheduled,   \* #saveScheduled
          immediates,  \* setImmediate callbacks that wait to run
          count,       \* #entryCount
          dirty,       \* #entryCountDirty, or #lastMaintenanceAt is 0
          cutting,     \* trim() is between its ceiling check and #trimTo
          answer,      \* what each save() call was told
          rows,        \* the rows each call carries
          owner,       \* the process that made it
          busy         \* history: writes that threw

queueing == <<queue, scheduled, immediates>>
counting == <<count, dirty, cutting>>
calls == <<answer, rows, owner>>
vars == <<file, status, queueing, counting, calls, busy>>

Min0(a, b) == IF a >= b THEN a - b ELSE 0
Waiting == {s \in Saves : answer[s] = "waiting"}
RowsOf(S) == UNION {rows[s] : s \in S}
Told(S, what) == [s \in Saves |-> IF s \in S THEN what ELSE answer[s]]
SetOf(q) == {q[i] : i \in 1..Len(q)}

\* A process just opened the file: the constructor counts its rows.
Init ==
    /\ file = {}
    /\ status = [p \in Processes |-> "open"]
    /\ queue = [p \in Processes |-> <<>>]
    /\ scheduled = [p \in Processes |-> FALSE]
    /\ immediates = [p \in Processes |-> 0]
    /\ count = [p \in Processes |-> 0]
    /\ dirty = [p \in Processes |-> TRUE]
    /\ cutting = [p \in Processes |-> FALSE]
    /\ answer = [s \in Saves |-> "unsent"]
    /\ rows = [s \in Saves |-> {}]
    /\ owner = [s \in Saves |-> Nobody]
    /\ busy = 0

Throws == busy < MaxBusy /\ busy' = busy + 1
Free(p) == ~cutting[p]

-----------------------------------------------------------------------------
(* save() and its drain *)

\* Mutant: the call pushed out of the backlog is never answered.
DropSilently(p) == answer
DropOldest(p) == Told({Head(queue[p])}, "rejected")

Full(p) == Len(queue[p]) >= Backlog

\* save(): a full backlog rejects its oldest call, the first call schedules
\* the drain.
Save(p, s) ==
    LET kept == IF Full(p) THEN Tail(queue[p]) ELSE queue[p]
        told == IF Full(p) THEN DropOldest(p) ELSE answer
    IN
    /\ status[p] # "down" /\ Free(p)
    /\ answer[s] = "unsent" /\ \A u \in Saves : u < s => answer[u] # "unsent"
    /\ answer' = [told EXCEPT ![s] = "waiting"]
    /\ rows' = [rows EXCEPT ![s] = Payload[s]]
    /\ owner' = [owner EXCEPT ![s] = p]
    /\ queue' = [queue EXCEPT ![p] = Append(kept, s)]
    /\ scheduled' = [scheduled EXCEPT ![p] = TRUE]
    /\ immediates' = IF scheduled[p] THEN immediates
                     ELSE [immediates EXCEPT ![p] = @ + 1]
    /\ UNCHANGED <<file, status, counting, busy>>

\* "insert or ignore": a row already stored changes nothing.
\* Mutant: the count is not advanced.
InsertedNone(S) == 0
Inserted(S) == Cardinality(RowsOf(S) \ file)

\* Mutant: a transaction that threw answers like one that committed.
FailureResolves(S) == Told(S, "resolved")
FailureAnswer(S) == Told(S, "rejected")

\* #saveAll over a set of calls: one transaction, all of it or nothing.  On a
\* closed handle it throws.
SaveAll(p, S) ==
    \/ /\ status[p] = "open"
       /\ file' = file \cup RowsOf(S)
       /\ count' = [count EXCEPT ![p] = @ + Inserted(S)]
       /\ answer' = Told(S, "resolved")
       /\ UNCHANGED busy
    \/ /\ \/ status[p] = "open" /\ Throws
          \/ status[p] = "closed" /\ UNCHANGED busy
       /\ answer' = FailureAnswer(S)
       /\ UNCHANGED <<file, count>>

Reschedule(p) == IF Len(queue[p]) > 1 THEN immediates[p] ELSE immediates[p] - 1

\* #drainPendingSaves: one batch per turn of the event loop.
Drain(p) ==
    /\ immediates[p] > 0 /\ Free(p)
    /\ IF queue[p] = <<>>
       THEN UNCHANGED <<file, count, answer, busy, queue>>
       ELSE /\ SaveAll(p, {Head(queue[p])})
            /\ queue' = [queue EXCEPT ![p] = Tail(@)]
    /\ scheduled' = [scheduled EXCEPT ![p] = Len(queue[p]) > 1]
    /\ immediates' = [immediates EXCEPT ![p] = Reschedule(p)]
    /\ UNCHANGED <<status, dirty, cutting, rows, owner>>

\* close(): the backlog is committed in one transaction, then the handle is
\* released.  The callbacks stay scheduled.
Close(p) ==
    /\ status[p] = "open" /\ Free(p)
    /\ IF queue[p] = <<>>
       THEN UNCHANGED <<file, count, answer, busy>>
       ELSE SaveAll(p, SetOf(queue[p]))
    /\ queue' = [queue EXCEPT ![p] = <<>>]
    /\ scheduled' = [scheduled EXCEPT ![p] = FALSE]
    /\ status' = [status EXCEPT ![p] = "closed"]
    /\ UNCHANGED <<immediates, dirty, cutting, rows, owner>>

\* The process exits or is killed; what was not committed is gone with it.
Exit(p) ==
    /\ status[p] # "down"
    /\ status' = [status EXCEPT ![p] = "down"]
    /\ answer' = Told(SetOf(queue[p]), "gone")
    /\ queue' = [queue EXCEPT ![p] = <<>>]
    /\ scheduled' = [scheduled EXCEPT ![p] = FALSE]
    /\ immediates' = [immediates EXCEPT ![p] = 0]
    /\ cutting' = [cutting EXCEPT ![p] = FALSE]
    /\ UNCHANGED <<file, count, dirty, rows, owner, busy>>

\* It starts again on the file it left.
Open(p) ==
    /\ status[p] = "down"
    /\ status' = [status EXCEPT ![p] = "open"]
    /\ count' = [count EXCEPT ![p] = Cardinality(file)]
    /\ dirty' = [dirty EXCEPT ![p] = TRUE]
    /\ UNCHANGED <<file, queueing, cutting, calls, busy>>

-----------------------------------------------------------------------------
(* trim(), prune() and clear(), on an open handle *)

\* Whether the maintenance is due: when the count is known to be off, and at any
\* other trim() when MAINTENANCE_INTERVAL_MS have passed.
Due(p) == IF dirty[p] THEN {TRUE} ELSE BOOLEAN

OverCap(n) == n > Cap

\* The count trim() decides on.
Known(p, due) == IF due THEN Cardinality(file) ELSE count[p]

Maintain(p, due) ==
    /\ count' = [count EXCEPT ![p] = Known(p, due)]
    /\ dirty' = [dirty EXCEPT ![p] = FALSE]

\* trim() under the ceiling.
TrimRests(p) ==
    /\ status[p] = "open" /\ Free(p)
    /\ \E due \in Due(p) : ~OverCap(Known(p, due)) /\ Maintain(p, due)
    /\ UNCHANGED <<file, status, queueing, cutting, calls, busy>>

\* trim() over the ceiling: the transaction comes next.
TrimStarts(p) ==
    /\ status[p] = "open" /\ Free(p)
    /\ \E due \in Due(p) : OverCap(Known(p, due)) /\ Maintain(p, due)
    /\ cutting' = [cutting EXCEPT ![p] = TRUE]
    /\ UNCHANGED <<file, status, queueing, calls, busy>>

\* The flag sweep of the maintenance throws: the interval and the dirty mark
\* are already reset, the count is not re-read.
TrimThrows(p) ==
    /\ status[p] = "open" /\ Free(p)
    /\ Throws
    /\ dirty' = [dirty EXCEPT ![p] = FALSE]
    /\ UNCHANGED <<file, status, queueing, count, cutting, calls>>

\* Mutant: the excess is the one the caller counted.
ExcessCounted(p) == Min0(count[p], Cap)
Excess(p) == Min0(Cardinality(file), Cap)
Oldest(n) == {k \in file : Cardinality({j \in file : j < k}) < n}

\* #trimTo: the excess is measured under the write lock.
TrimCuts(p) ==
    /\ cutting[p]
    /\ UNCHANGED <<status, queueing, dirty, calls>>
    /\ cutting' = [cutting EXCEPT ![p] = FALSE]
    /\ \/ /\ file' = file \ Oldest(Excess(p))
          /\ count' = [count EXCEPT ![p] = Min0(@, Cardinality(file \ file'))]
          /\ UNCHANGED busy
       \/ /\ Throws
          /\ UNCHANGED <<file, count>>

\* prune(): removes what its dates and types match.
Prune(p, doomed) ==
    /\ status[p] = "open" /\ Free(p)
    /\ file' = file \ doomed
    /\ count' = [count EXCEPT ![p] = Min0(@, Cardinality(doomed))]
    /\ UNCHANGED <<status, queueing, dirty, cutting, calls, busy>>

\* clear(): everything, or one application and the count is known to be off.
Clear(p, doomed) ==
    /\ status[p] = "open" /\ Free(p)
    /\ file' = file \ doomed
    /\ \/ /\ doomed = file
          /\ count' = [count EXCEPT ![p] = 0]
          /\ UNCHANGED dirty
       \/ /\ dirty' = [dirty EXCEPT ![p] = TRUE]
          /\ UNCHANGED count
    /\ UNCHANGED <<status, queueing, cutting, calls, busy>>

-----------------------------------------------------------------------------

Next ==
    \/ \E p \in Processes :
          \/ \E s \in Saves : Save(p, s)
          \/ Drain(p) \/ Close(p) \/ Exit(p) \/ Open(p)
          \/ TrimRests(p) \/ TrimStarts(p) \/ TrimThrows(p) \/ TrimCuts(p)
          \/ \E doomed \in SUBSET file : Prune(p, doomed) \/ Clear(p, doomed)

Spec == Init /\ [][Next]_vars

\* A synchronous call comes back, and between such calls the event loop runs
\* what setImmediate was given.
FairSpec == Spec /\ \A p \in Processes : SF_vars(Drain(p)) /\ WF_vars(TrimCuts(p))

-----------------------------------------------------------------------------
(* Properties *)

\* The count a process decides its ceiling on is never below the truth while
\* no other process has written, through duplicates, requeued rows, prunes and
\* clears of either process: a trim that rests leaves at most Cap rows.
CountCovers ==
    \A p \in Processes :
        status[p] = "open" /\ (\A s \in Saves : owner[s] \in {p, Nobody})
            => Cardinality(file) <= count[p]

\* Two processes that trim the same file never cut below the cap, and what
\* they cut is the oldest.
NeverOvercut ==
    [][\A p \in Processes :
          TrimCuts(p) /\ file' # file =>
              /\ Cardinality(file') = Cap
              /\ \A gone \in file \ file', kept \in file' : gone < kept]_vars

\* Every call is answered while its process lives.
SaveAnswered ==
    \A s \in Saves : []<>(answer[s] # "waiting")

\* The driver is an honest store: it resolves what it committed, together, and
\* rejects what it did not.
Port == INSTANCE SavePort WITH Rows <- Keys, Honest <- TRUE
HonestPort == Port!Spec

=============================================================================
