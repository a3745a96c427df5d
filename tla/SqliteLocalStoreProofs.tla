----------------------- MODULE SqliteLocalStoreProofs -----------------------
(***************************************************************************)
(* Proofs about the store and about the dashboard's list that reads it:    *)
(* SqliteLocalStore for any processes on one file, any calls and every     *)
(* bound, and EntryFeed (at the end) for any pages, filters and budgets.   *)
(*                                                                         *)
(* PortIsHonest: the processes together implement the contract of save()   *)
(* in which a resolved call is a committed one.  A call waits in the queue *)
(* of the process that made it, in one place, and is unanswered.           *)
(*                                                                         *)
(* TrimsStopAtCap: a trim that cuts leaves the newest rows up to the cap.  *)
(*                                                                         *)
(* CountsCover: the count a process keeps is not below the rows there are, *)
(* as long as no other process has saved.                                  *)
(*                                                                         *)
(* FeedNothingStale: nothing cleared is shown once the dashboard has been  *)
(* told, whatever answers arrive late.                                     *)
(*                                                                         *)
(* FeedGapless: the list has no hole, as long as no one acts on it while   *)
(* it is being reloaded.                                                   *)
(***************************************************************************)
EXTENDS SqliteLocalStore, EntryFeed, StoreLemmas

Answers == {"unsent", "waiting", "resolved", "rejected", "gone"}

Typed ==
    /\ file \subseteq Keys
    /\ queue \in [Processes -> Seq(Saves)]
    /\ answer \in [Saves -> Answers]
    /\ rows \in [Saves -> SUBSET Keys]
    /\ owner \in [Saves -> Processes \cup {Nobody}]

\* What a process has queued is its own, once, and unanswered.
Queued(p) ==
    /\ Distinct(queue[p])
    /\ \A s \in Elems(queue[p]) : answer[s] = "waiting" /\ owner[s] = p

QInv == Typed /\ \A p \in Processes : Queued(p)

Step == QInv' /\ [Port!Next]_(Port!vars)

-----------------------------------------------------------------------------
(* The queues *)

\* Calls of the queue of a process are answered and leave it; nothing else moves.
LEMMA AnswersLeaveQueue ==
    ASSUME QInv, NEW p \in Processes, NEW S \in SUBSET Elems(queue[p]), NEW q \in Seq(Saves),
           Distinct(q), Elems(q) = Elems(queue[p]) \ S,
           NEW what \in Answers, answer' = Told(S, what),
           queue' = [queue EXCEPT ![p] = q], UNCHANGED owner
    PROVE  /\ queue' \in [Processes -> Seq(Saves)] /\ answer' \in [Saves -> Answers]
           /\ \A r \in Processes : Queued(r)'
           /\ S \subseteq Port!Waiting
  <1>1. /\ queue \in [Processes -> Seq(Saves)] /\ answer \in [Saves -> Answers]
        /\ \A r \in Processes : Queued(r)
    BY DEF QInv, Typed
  <1>2. \A r \in Processes : \A s \in Elems(queue[r]) : s \in Saves
    BY <1>1 DEF Elems
  <1>3. answer' = [s \in Saves |-> IF s \in S THEN what ELSE answer[s]]
    BY DEF Told
  <1>4. ASSUME NEW r \in Processes
        PROVE  Queued(r)'
    <2>1. CASE r = p
      <3>1. queue'[r] = q
        BY <1>1, <2>1
      <3>2. \A s \in Elems(q) : s \in Saves /\ s \notin S /\ answer[s] = "waiting" /\ owner[s] = r
        BY <1>1, <1>2, <2>1 DEF Queued
      <3>3. \A s \in Elems(q) : answer'[s] = "waiting" /\ owner'[s] = r
        BY <1>3, <3>2
      <3>4. QED
        BY <3>1, <3>3 DEF Queued
    <2>2. CASE r # p
      <3>1. queue'[r] = queue[r]
        BY <1>1, <2>2
      <3>2. \A s \in Elems(queue[r]) : s \in Saves /\ owner[s] = r /\ answer[s] = "waiting"
        BY <1>1, <1>2 DEF Queued
      <3>3. \A s \in S : owner[s] = p
        BY <1>1 DEF Queued
      <3>4. \A s \in Elems(queue[r]) : answer'[s] = "waiting" /\ owner'[s] = r
        BY <1>3, <2>2, <3>2, <3>3
      <3>5. QED
        BY <1>1, <3>1, <3>4 DEF Queued
    <2>3. QED
      BY <2>1, <2>2
  <1>5. S \subseteq Port!Waiting
    BY <1>1, <1>2 DEF Port!Waiting, Queued
  <1>6. QED
    BY <1>1, <1>3, <1>4, <1>5

LEMMA QueueEmptied ==
    ASSUME QInv, NEW p \in Processes
    PROVE  /\ <<>> \in Seq(Saves) /\ Distinct(<<>>)
           /\ Elems(<<>>) = Elems(queue[p]) \ Elems(queue[p])
  <1>1. <<>> \in Seq(Saves) /\ Len(<<>>) = 0 /\ 1..0 = {}
    BY EmptySeq
  <1>2. QED
    BY <1>1 DEF Elems, Distinct

\* A transaction over calls of the queue commits or refuses them.
LEMMA SaveAllEffect ==
    ASSUME QInv, NEW p \in Processes, NEW S \in SUBSET Elems(queue[p]), SaveAll(p, S),
           UNCHANGED rows, S \subseteq Port!Waiting
    PROVE  /\ file' \subseteq Keys
           /\ \E what \in {"resolved", "rejected"} : answer' = Told(S, what)
           /\ [Port!Next]_(Port!vars)
  <1>1. \A s \in S : s \in Saves
    BY DEF Port!Waiting
  <1>2. RowsOf(S) \subseteq Keys /\ RowsOf(S) = Port!RowsOf(S)
    BY <1>1 DEF RowsOf, Port!RowsOf, QInv, Typed
  <1>3. \A what : Told(S, what) = Port!Told(S, what)
    BY DEF Told, Port!Told
  <1>4. CASE file' = file \cup RowsOf(S) /\ answer' = Told(S, "resolved")
    <2>1. Port!Commit(S)
      BY <1>2, <1>3, <1>4 DEF Port!Commit
    <2>2. QED
      BY <1>2, <1>4, <2>1 DEF Port!Next, QInv, Typed
  <1>5. CASE answer' = FailureAnswer(S) /\ file' = file
    <2>1. answer' = Told(S, "rejected")
      BY <1>5 DEF FailureAnswer
    <2>2. Port!GiveUp(S)
      BY <1>3, <1>5, <2>1 DEF Port!GiveUp, Port!Refusal
    <2>3. QED
      BY <1>5, <2>1, <2>2 DEF Port!Next, QInv, Typed
  <1>6. QED
    BY <1>4, <1>5 DEF SaveAll

-----------------------------------------------------------------------------
(* Every step keeps the queues and is one of the contract's *)

LEMMA SaveStep ==
    ASSUME QInv, NEW p \in Processes, NEW s \in Saves, Save(p, s)
    PROVE  Step
  <1> USE SqliteAssumption
  <1> DEFINE q == queue[p]
             out == IF Full(p) THEN {Head(q)} ELSE {}
             kept == IF Full(p) THEN Tail(q) ELSE q
             pushed == Append(kept, s)
  <1>1. /\ answer[s] = "unsent" /\ q \in Seq(Saves) /\ Distinct(q)
        /\ queue \in [Processes -> Seq(Saves)] /\ answer \in [Saves -> Answers]
        /\ rows \in [Saves -> SUBSET Keys] /\ owner \in [Saves -> Processes \cup {Nobody}]
        /\ \A r \in Processes : Queued(r)
        /\ \A u \in Elems(q) : u \in Saves /\ answer[u] = "waiting" /\ owner[u] = p
        /\ s \notin Elems(q)
    <2>1. queue \in [Processes -> Seq(Saves)] /\ Queued(p)
      BY DEF QInv, Typed
    <2>2. \A u \in Elems(q) : u \in Saves
      BY <2>1 DEF Elems
    <2>3. answer[s] = "unsent"
      BY DEF Save
    <2>4. \A u \in Elems(q) : answer[u] = "waiting" /\ owner[u] = p
      BY <2>1 DEF Queued
    <2>5. s \notin Elems(q)
      BY <2>3, <2>4
    <2>6. Distinct(q) /\ q \in Seq(Saves)
      BY <2>1 DEF Queued
    <2>7. QED
      BY <2>2, <2>3, <2>4, <2>5, <2>6 DEF QInv, Typed
  <1>2. Full(p) => q # <<>>
    <2>1. Len(<<>>) = 0
      BY EmptySeq
    <2>2. QED
      BY <2>1 DEF Full
  <1>3. /\ out \subseteq Elems(q)
        /\ kept \in Seq(Saves) /\ Distinct(kept)
        /\ Elems(kept) = Elems(q) \ out
    <2>1. CASE Full(p)
      <3>1. /\ Head(q) \in Elems(q) /\ Tail(q) \in Seq(Saves) /\ Distinct(Tail(q))
            /\ Elems(Tail(q)) = Elems(q) \ {Head(q)}
        BY <1>1, <1>2, <2>1, ShiftProperties
      <3>2. QED
        BY <2>1, <3>1
    <2>2. CASE ~Full(p)
      BY <1>1, <2>2
    <2>3. QED
      BY <2>1, <2>2
  <1>4. /\ pushed \in Seq(Saves) /\ Distinct(pushed)
        /\ Elems(pushed) = (Elems(q) \ out) \cup {s}
    <2>1. s \in Saves \ Elems(kept) /\ kept \in Seq(Saves) /\ Distinct(kept)
      BY <1>1, <1>3
    <2> HIDE DEF kept
    <2>2. /\ pushed \in Seq(Saves) /\ Distinct(pushed)
          /\ Elems(pushed) = Elems(kept) \cup {s}
      BY <2>1, PushProperties
    <2>3. QED
      BY <1>3, <2>2
  <1>5. /\ queue' = [queue EXCEPT ![p] = pushed]
        /\ rows' = [rows EXCEPT ![s] = Payload[s]]
        /\ owner' = [owner EXCEPT ![s] = p]
        /\ file' = file
    BY DEF Save
  <1>6. answer' = [u \in Saves |-> IF u = s THEN "waiting"
                                   ELSE IF u \in out THEN "rejected" ELSE answer[u]]
    <2>1. CASE Full(p)
      <3>1. answer' = [Told({Head(q)}, "rejected") EXCEPT ![s] = "waiting"]
        BY <2>1 DEF Save, DropOldest
      <3>2. QED
        BY <2>1, <3>1 DEF Told
    <2>2. CASE ~Full(p)
      <3>1. answer' = [answer EXCEPT ![s] = "waiting"]
        BY <2>2 DEF Save
      <3>2. QED
        BY <1>1, <2>2, <3>1
    <2>3. QED
      BY <2>1, <2>2
  <1> HIDE DEF kept, out, pushed
  <1>7. Payload[s] \in SUBSET Keys
    <2>1. Payload[s] \in (SUBSET Keys) \ {{}}
      BY ElementOfSeq, LenProperties DEF Saves
    <2>2. QED
      BY <2>1
  <1>8. Typed'
    <2>1. answer' \in [Saves -> Answers]
      BY <1>1, <1>6 DEF Answers
    <2>2. rows' \in [Saves -> SUBSET Keys] /\ owner' \in [Saves -> Processes \cup {Nobody}]
      BY <1>1, <1>5, <1>7
    <2>3. queue' \in [Processes -> Seq(Saves)]
      BY <1>1, <1>4, <1>5
    <2>4. QED
      BY <1>5, <2>1, <2>2, <2>3 DEF Typed, QInv
  <1>9. ASSUME NEW r \in Processes
        PROVE  Queued(r)'
    <2>1. CASE r = p
      <3>1. queue'[r] = pushed
        BY <1>1, <1>5, <2>1
      <3>2. \A u \in Elems(pushed) : answer'[u] = "waiting" /\ owner'[u] = p
        BY <1>1, <1>3, <1>4, <1>5, <1>6
      <3>3. QED
        BY <1>4, <2>1, <3>1, <3>2 DEF Queued
    <2>2. CASE r # p
      <3>1. queue'[r] = queue[r]
        BY <1>1, <1>5, <2>2
      <3>2. \A u \in Elems(queue[r]) :
              /\ u \in Saves /\ answer[u] = "waiting" /\ owner[u] = r
              /\ u # s /\ u \notin out
        <4>1. queue[r] \in Seq(Saves)
          BY <1>1
        <4>2. \A u \in Elems(queue[r]) : u \in Saves
          BY <4>1 DEF Elems
        <4>3. \A u \in Elems(queue[r]) : answer[u] = "waiting" /\ owner[u] = r
          BY <1>1 DEF Queued
        <4>4. \A u \in out : owner[u] = p
          BY <1>1, <1>3
        <4>5. QED
          BY <1>1, <2>2, <4>2, <4>3, <4>4
      <3>3. \A u \in Elems(queue[r]) : answer'[u] = "waiting" /\ owner'[u] = r
        BY <1>1, <1>5, <1>6, <3>2
      <3>4. QED
        BY <1>1, <3>1, <3>3 DEF Queued
    <2>3. QED
      BY <2>1, <2>2
  <1>10. Port!Submit(s, Payload[s], out)
    <2>1. [Port!Told(out, Port!Refusal) EXCEPT ![s] = "waiting"]
            = [u \in Saves |-> IF u = s THEN "waiting"
                               ELSE IF u \in out THEN "rejected" ELSE answer[u]]
      BY DEF Port!Told, Port!Refusal
    <2>2. QED
      BY <1>1, <1>5, <1>6, <2>1 DEF Port!Submit
  <1>11. out \subseteq Port!Waiting
    BY <1>1, <1>3 DEF Port!Waiting
  <1>12. QED
    BY <1>7, <1>8, <1>9, <1>10, <1>11 DEF Step, QInv, Port!Next

LEMMA DrainStep ==
    ASSUME QInv, NEW p \in Processes, Drain(p)
    PROVE  Step
  <1>1. UNCHANGED <<rows, owner>>
    BY DEF Drain
  <1>2. CASE queue[p] = <<>>
    <2>1. UNCHANGED <<file, answer, queue>>
      BY <1>2 DEF Drain
    <2>2. QED
      BY <1>1, <2>1 DEF Step, QInv, Typed, Queued, Port!vars
  <1>3. CASE queue[p] # <<>>
    <2> DEFINE S == {Head(queue[p])}
    <2>1. SaveAll(p, S) /\ queue' = [queue EXCEPT ![p] = Tail(@)]
      BY <1>3 DEF Drain
    <2>2. queue[p] \in Seq(Saves) /\ Distinct(queue[p])
      BY DEF QInv, Typed, Queued
    <2>3. /\ S \in SUBSET Elems(queue[p]) /\ Tail(queue[p]) \in Seq(Saves)
          /\ Distinct(Tail(queue[p]))
          /\ Elems(Tail(queue[p])) = Elems(queue[p]) \ S
      BY <1>3, <2>2, ShiftProperties
    <2>4. queue' = [queue EXCEPT ![p] = Tail(queue[p])]
      BY <2>1 DEF QInv, Typed
    <2>5. S \subseteq Port!Waiting
      <3>1. \A s \in Elems(queue[p]) : s \in Saves
        BY <2>2 DEF Elems
      <3>2. QED
        BY <2>3, <3>1 DEF QInv, Queued, Port!Waiting
    <2> HIDE DEF S
    <2>6. /\ file' \subseteq Keys
          /\ \E what \in {"resolved", "rejected"} : answer' = Told(S, what)
          /\ [Port!Next]_(Port!vars)
      BY <1>1, <2>1, <2>3, <2>5, SaveAllEffect
    <2>7. PICK what \in {"resolved", "rejected"} : answer' = Told(S, what)
      BY <2>6
    <2>8. what \in Answers
      BY <2>7 DEF Answers
    <2>9. /\ queue' \in [Processes -> Seq(Saves)] /\ answer' \in [Saves -> Answers]
          /\ \A r \in Processes : Queued(r)'
      BY <1>1, <2>3, <2>4, <2>7, <2>8, AnswersLeaveQueue
    <2>10. QED
      BY <1>1, <2>6, <2>9 DEF Step, QInv, Typed
  <1>4. QED
    BY <1>2, <1>3

LEMMA CloseStep ==
    ASSUME QInv, NEW p \in Processes, Close(p)
    PROVE  Step
  <1> DEFINE S == Elems(queue[p])
  <1>1. /\ UNCHANGED <<rows, owner>> /\ queue' = [queue EXCEPT ![p] = <<>>]
        /\ SetOf(queue[p]) = S
    BY DEF Close, SetOf, Elems
  <1>2. S \subseteq Port!Waiting
    <2>1. queue[p] \in Seq(Saves)
      BY DEF QInv, Typed
    <2>2. \A s \in S : s \in Saves
      BY <2>1 DEF Elems
    <2>3. QED
      BY <2>2 DEF QInv, Queued, Port!Waiting
  <1>3. CASE queue[p] = <<>>
    <2>1. UNCHANGED <<file, answer>>
      BY <1>3 DEF Close
    <2>2. queue' = queue
      BY <1>1, <1>3 DEF QInv, Typed
    <2>3. QED
      BY <1>1, <2>1, <2>2 DEF Step, QInv, Typed, Queued, Port!vars
  <1>4. CASE queue[p] # <<>>
    <2>1. SaveAll(p, S)
      BY <1>1, <1>4 DEF Close
    <2>2. /\ file' \subseteq Keys
          /\ \E what \in {"resolved", "rejected"} : answer' = Told(S, what)
          /\ [Port!Next]_(Port!vars)
      BY <1>1, <1>2, <2>1, SaveAllEffect
    <2>3. PICK what \in {"resolved", "rejected"} : answer' = Told(S, what)
      BY <2>2
    <2>4. what \in Answers
      BY <2>3 DEF Answers
    <2>5. /\ queue' \in [Processes -> Seq(Saves)] /\ answer' \in [Saves -> Answers]
          /\ \A r \in Processes : Queued(r)'
      BY <1>1, <2>3, <2>4, QueueEmptied, AnswersLeaveQueue
    <2>6. QED
      BY <1>1, <2>2, <2>5 DEF Step, QInv, Typed
  <1>5. QED
    BY <1>3, <1>4

LEMMA ExitStep ==
    ASSUME QInv, NEW p \in Processes, Exit(p)
    PROVE  Step
  <1> DEFINE S == Elems(queue[p])
  <1>1. /\ UNCHANGED <<file, rows, owner>> /\ queue' = [queue EXCEPT ![p] = <<>>]
        /\ answer' = Told(S, "gone")
    BY DEF Exit, SetOf, Elems
  <1>2. "gone" \in Answers
    BY DEF Answers
  <1>3. /\ queue' \in [Processes -> Seq(Saves)] /\ answer' \in [Saves -> Answers]
        /\ \A r \in Processes : Queued(r)'
        /\ S \subseteq Port!Waiting
    BY <1>1, <1>2, QueueEmptied, AnswersLeaveQueue
  <1>4. Port!Vanish(S)
    BY <1>1 DEF Port!Vanish, Port!Told, Told
  <1>5. QED
    BY <1>1, <1>3, <1>4 DEF Step, QInv, Typed, Port!Next

\* The steps that only delete rows, and those that touch none.
FileStep(p) ==
    \/ Open(p) \/ TrimRests(p) \/ TrimStarts(p) \/ TrimThrows(p) \/ TrimCuts(p)
    \/ \E doomed \in SUBSET file : Prune(p, doomed) \/ Clear(p, doomed)

LEMMA FileSteps ==
    ASSUME QInv, NEW p \in Processes, FileStep(p)
    PROVE  Step
  <1>1. UNCHANGED <<queue, answer, rows, owner>> /\ file' \subseteq file
    BY DEF FileStep, Open, TrimRests, TrimStarts, TrimThrows, TrimCuts, Prune, Clear,
           queueing, calls
  <1>2. QInv'
    BY <1>1 DEF QInv, Typed, Queued
  <1>3. Port!Delete
    BY <1>1 DEF Port!Delete
  <1>4. QED
    BY <1>2, <1>3 DEF Step, Port!Next

LEMMA InitStep == Init => QInv /\ Port!Init
  <1>1. ASSUME Init PROVE QInv
    <2>1. <<>> \in Seq(Saves) /\ Len(<<>>) = 0 /\ 1..0 = {}
      BY EmptySeq
    <2>2. Elems(<<>>) = {} /\ Distinct(<<>>)
      BY <2>1 DEF Elems, Distinct
    <2>3. \A p \in Processes : queue[p] = <<>>
      BY <1>1 DEF Init
    <2>4. Typed
      BY <1>1, <2>1 DEF Init, Typed, Answers
    <2>5. QED
      BY <2>2, <2>3, <2>4 DEF QInv, Queued
  <1>2. ASSUME Init PROVE Port!Init
    BY <1>2 DEF Init, Port!Init
  <1>3. QED
    BY <1>1, <1>2

LEMMA NextStep ==
    ASSUME QInv, [Next]_vars
    PROVE  Step
  <1>1. CASE UNCHANGED vars
    <2>1. UNCHANGED <<file, queue, answer, rows, owner>>
      BY <1>1 DEF vars, queueing, calls
    <2>2. QED
      BY <2>1 DEF Step, QInv, Typed, Queued, Port!vars
  <1>2. ASSUME NEW p \in Processes,
               \/ \E s \in Saves : Save(p, s)
               \/ Drain(p) \/ Close(p) \/ Exit(p) \/ FileStep(p)
        PROVE  Step
    BY <1>2, SaveStep, DrainStep, CloseStep, ExitStep, FileSteps
  <1>3. QED
    BY <1>1, <1>2 DEF Next, FileStep

\* sqlite-local answers each save() once, resolves what it committed, together,
\* and rejects what it did not, whichever processes share the file.
THEOREM PortIsHonest == Spec => HonestPort
  <1>1. QInv /\ [Next]_vars => QInv' /\ [Port!Next]_(Port!vars)
    BY NextStep DEF Step
  <1>2. QED
    BY <1>1, InitStep, PTL DEF Spec, HonestPort, Port!Spec

-----------------------------------------------------------------------------
(* Trims *)

\* No call carries infinitely many rows.
BatchesFinite == \A s \in Saves : IsFiniteSet(Payload[s])
FileFinite == IsFiniteSet(file) /\ \A s \in Saves : IsFiniteSet(rows[s])

LEMMA SavesFinite == IsFiniteSet(Saves)
  <1>1. Len(Payload) \in Nat /\ Saves = 1..Len(Payload)
    BY SqliteAssumption, LenProperties DEF Saves
  <1>2. QED
    BY <1>1, FS_Interval

LEMMA RowsOfFinite ==
    ASSUME FileFinite, NEW S \in SUBSET Saves
    PROVE  IsFiniteSet(RowsOf(S))
  <1>1. IsFiniteSet({rows[s] : s \in S})
    <2> DEFINE f == [s \in S |-> rows[s]]
               T == {rows[s] : s \in S}
    <2>1. f \in Surjection(S, T)
      BY DEF Surjection
    <2>2. IsFiniteSet(S)
      BY SavesFinite, FS_Subset
    <2>3. QED
      BY <2>1, <2>2, FS_Surjection
  <1>2. \A R \in {rows[s] : s \in S} : IsFiniteSet(R)
    BY DEF FileFinite
  <1>3. QED
    BY <1>1, <1>2, FS_UNION DEF RowsOf

LEMMA FileStaysFinite ==
    ASSUME BatchesFinite, QInv, FileFinite, [Next]_vars
    PROVE  FileFinite'
  <1>1. ASSUME NEW S \in SUBSET Saves, file' = file \cup RowsOf(S)
        PROVE  IsFiniteSet(file')
    BY <1>1, RowsOfFinite, FS_Union DEF FileFinite
  <1>2. ASSUME file' \subseteq file
        PROVE  IsFiniteSet(file')
    BY <1>2, FS_Subset DEF FileFinite
  <1>3. ASSUME NEW p \in Processes, NEW s \in Saves, Save(p, s)
        PROVE  FileFinite'
    <2>1. /\ rows' = [rows EXCEPT ![s] = Payload[s]] /\ rows \in [Saves -> SUBSET Keys]
          /\ file' = file
      BY <1>3 DEF Save, QInv, Typed
    <2>2. QED
      BY <2>1 DEF FileFinite, BatchesFinite
  <1>4. ASSUME NEW p \in Processes, NEW S \in SUBSET Saves, SaveAll(p, S)
        PROVE  IsFiniteSet(file')
    BY <1>1, <1>2, <1>4 DEF SaveAll
  <1>5. ASSUME NEW p \in Processes, Drain(p) \/ Close(p)
        PROVE  FileFinite'
    <2>1. queue[p] \in Seq(Saves) /\ rows' = rows
      BY <1>5 DEF QInv, Typed, Drain, Close
    <2>2. CASE queue[p] = <<>>
      <3>1. file' = file
        BY <1>5, <2>2 DEF Drain, Close
      <3>2. QED
        BY <2>1, <3>1 DEF FileFinite
    <2>3. CASE queue[p] # <<>>
      <3>1. {Head(queue[p])} \subseteq Saves
        BY <2>1, <2>3, HeadTailProperties
      <3>2. SetOf(queue[p]) \subseteq Saves
        BY <2>1 DEF SetOf
      <3>3. SaveAll(p, {Head(queue[p])}) \/ SaveAll(p, SetOf(queue[p]))
        BY <1>5, <2>3 DEF Drain, Close
      <3>4. IsFiniteSet(file')
        BY <1>4, <3>1, <3>2, <3>3
      <3>5. QED
        BY <2>1, <3>4 DEF FileFinite
    <2>4. QED
      BY <2>2, <2>3
  <1>6. ASSUME NEW p \in Processes, Exit(p) \/ FileStep(p)
        PROVE  FileFinite'
    <2>1. rows' = rows /\ file' \subseteq file
      BY <1>6 DEF Exit, FileStep, Open, TrimRests, TrimStarts, TrimThrows, TrimCuts, Prune,
                  Clear, calls
    <2>2. QED
      BY <1>2, <2>1 DEF FileFinite
  <1>7. CASE UNCHANGED vars
    BY <1>7 DEF vars, calls, FileFinite
  <1>8. QED
    BY <1>3, <1>5, <1>6, <1>7 DEF Next, FileStep

LEMMA FiniteInvariant ==
    ASSUME BatchesFinite
    PROVE  /\ Init => QInv /\ FileFinite
           /\ QInv /\ FileFinite /\ [Next]_vars => QInv' /\ FileFinite'
  <1>1. Init => FileFinite
    BY FS_EmptySet DEF Init, FileFinite
  <1>2. QED
    BY <1>1, InitStep, NextStep, FileStaysFinite DEF Step

\* What #trimTo deletes is what is left over by the cap.
LEMMA CutLeavesNewest ==
    ASSUME QInv, FileFinite
    PROVE  IF Cap <= Cardinality(file)
           THEN file \ Oldest(Excess(0)) = NewestOf(file, Cap)
           ELSE file \ Oldest(Excess(0)) = file
  <1>1. file \in SUBSET Nat /\ IsFiniteSet(file) /\ Cap \in Nat /\ Cardinality(file) \in Nat
    BY SqliteAssumption, FS_CardinalityType DEF QInv, Typed, FileFinite
  <1>2. \A n : Oldest(n) = {k \in file : Cardinality(Below(file, k)) < n}
    BY DEF Oldest, Below
  <1>3. CASE Cap <= Cardinality(file)
    <2>1. Excess(0) = Cardinality(file) - Cap
      BY <1>1, <1>3 DEF Excess, Min0
    <2>2. Oldest(Excess(0)) = file \ NewestOf(file, Cap)
      BY <1>1, <1>2, <1>3, <2>1, OldestProperties
    <2>3. NewestOf(file, Cap) \subseteq file
      BY DEF NewestOf
    <2>4. QED
      BY <1>3, <2>2, <2>3
  <1>4. CASE ~(Cap <= Cardinality(file))
    <2>1. Excess(0) = 0
      BY <1>1, <1>4 DEF Excess, Min0
    <2>2. ASSUME NEW k \in file PROVE ~(Cardinality(Below(file, k)) < 0)
      <3>1. IsFiniteSet(Below(file, k))
        BY <1>1, FS_Subset DEF Below
      <3>2. Cardinality(Below(file, k)) \in Nat
        BY <3>1, FS_CardinalityType
      <3>3. QED
        BY <3>2
    <2>3. Oldest(Excess(0)) = {}
      BY <1>2, <2>1, <2>2
    <2>4. QED
      BY <1>4, <2>3
  <1>5. QED
    BY <1>3, <1>4

LEMMA CutStep ==
    ASSUME QInv, FileFinite, NEW p \in Processes, TrimCuts(p), file' # file
    PROVE  /\ Cardinality(file') = Cap
           /\ \A gone \in file \ file', kept \in file' : gone < kept
  <1>1. file' = file \ Oldest(Excess(p)) /\ Excess(p) = Excess(0)
    BY DEF TrimCuts, Excess
  <1>2. Cap <= Cardinality(file) /\ file' = NewestOf(file, Cap)
    BY <1>1, CutLeavesNewest
  <1>3. file \in SUBSET Nat /\ IsFiniteSet(file) /\ Cap \in Nat
    BY SqliteAssumption DEF QInv, Typed, FileFinite
  <1>4. QED
    BY <1>2, <1>3, NewestProperties

\* However trims of several processes overlap, each measures the excess when it
\* deletes: the newest rows stay, as many as the cap.
THEOREM TrimsStopAtCap ==
    ASSUME BatchesFinite
    PROVE  Spec => NeverOvercut
  <1>1. QInv /\ FileFinite => \A p \in Processes :
            TrimCuts(p) /\ file' # file =>
                /\ Cardinality(file') = Cap
                /\ \A gone \in file \ file', kept \in file' : gone < kept
    BY CutStep
  <1>2. QED
    BY <1>1, FiniteInvariant, PTL DEF Spec, NeverOvercut
-----------------------------------------------------------------------------
(* The count of a process that saves alone *)

Counted ==
    /\ status \in [Processes -> {"open", "closed", "down"}]
    /\ count \in [Processes -> Nat]
    /\ \A s \in Saves : answer[s] = "unsent" => owner[s] = Nobody

Alone(p) == \A s \in Saves : owner[s] \in {p, Nobody}
Covers(p) == status[p] = "open" /\ Alone(p) => Cardinality(file) <= count[p]

CInv == QInv /\ FileFinite /\ Counted

LEMMA FewerRows ==
    ASSUME NEW F, IsFiniteSet(F), NEW G \in SUBSET F
    PROVE  /\ Cardinality(G) \in Nat /\ Cardinality(F) \in Nat /\ Cardinality(F \ G) \in Nat
           /\ Cardinality(G) + Cardinality(F \ G) = Cardinality(F)
  <1>1. IsFiniteSet(G) /\ IsFiniteSet(F \ G)
    BY FS_Subset
  <1>2. G \cup (F \ G) = F /\ G \cap (F \ G) = {}
    OBVIOUS
  <1>3. Cardinality(G \cup (F \ G)) = Cardinality(G) + Cardinality(F \ G)
                                        - Cardinality(G \cap (F \ G))
    BY <1>1, FS_Union
  <1>4. /\ Cardinality(G) \in Nat /\ Cardinality(F) \in Nat /\ Cardinality(F \ G) \in Nat
        /\ Cardinality({}) = 0
    BY <1>1, FS_CardinalityType, FS_EmptySet
  <1>5. Cardinality(F) = Cardinality(G) + Cardinality(F \ G) - 0
    BY <1>2, <1>3, <1>4
  <1>6. QED
    BY <1>4, <1>5

LEMMA Min0Properties ==
    ASSUME NEW a \in Nat, NEW b \in Nat
    PROVE  /\ Min0(a, b) \in Nat
           /\ \A c \in Nat : c + b <= a => c <= Min0(a, b)
  BY DEF Min0

\* Nobody unsends a call, and only its owner's step moves a count.
LEMMA CountsTyped ==
    ASSUME CInv, NEW r \in Processes,
           \/ \E s \in Saves : Save(r, s)
           \/ Drain(r) \/ Close(r) \/ Exit(r) \/ FileStep(r)
    PROVE  /\ Counted'
           /\ \A p \in Processes \ {r} : count'[p] = count[p] /\ status'[p] = status[p]
  <1>1. /\ status \in [Processes -> {"open", "closed", "down"}]
        /\ count \in [Processes -> Nat] /\ IsFiniteSet(file) /\ Cardinality(file) \in Nat
    BY FS_CardinalityType DEF CInv, Counted, FileFinite
  <1>2. ASSUME NEW S \in SUBSET Saves
        PROVE  Inserted(S) \in Nat
    <2>1. IsFiniteSet(RowsOf(S) \ file)
      BY RowsOfFinite, FS_Subset DEF CInv
    <2>2. QED
      BY <2>1, FS_CardinalityType DEF Inserted
  <1>3. ASSUME NEW S \in SUBSET Saves, SaveAll(r, S)
        PROVE  /\ \E n \in Nat : count' = [count EXCEPT ![r] = n]
               /\ \A s \in Saves : answer'[s] = "unsent" => answer[s] = "unsent"
    <2>1. CASE count' = [count EXCEPT ![r] = @ + Inserted(S)] /\ answer' = Told(S, "resolved")
      <3>1. count' = [count EXCEPT ![r] = count[r] + Inserted(S)] /\ count[r] + Inserted(S) \in Nat
        BY <1>1, <1>2, <2>1
      <3>2. \A s \in Saves : answer'[s] = "unsent" => answer[s] = "unsent"
        BY <2>1 DEF Told
      <3>3. QED
        BY <3>1, <3>2
    <2>2. CASE count' = count /\ answer' = FailureAnswer(S)
      <3>1. count' = [count EXCEPT ![r] = count[r]]
        BY <1>1, <2>2
      <3>2. \A s \in Saves : answer'[s] = "unsent" => answer[s] = "unsent"
        BY <2>2 DEF FailureAnswer, Told
      <3>3. QED
        BY <1>1, <3>1, <3>2
    <2>3. QED
      BY <1>3, <2>1, <2>2 DEF SaveAll
  <1>4. \E n \in Nat : count' = [count EXCEPT ![r] = n]
    <2>1. ASSUME count' = count PROVE \E n \in Nat : count' = [count EXCEPT ![r] = n]
      <3>1. count' = [count EXCEPT ![r] = count[r]] /\ count[r] \in Nat
        BY <1>1, <2>1
      <3>2. QED
        BY <3>1
    <2>2. CASE (\E s \in Saves : Save(r, s)) \/ Exit(r) \/ TrimThrows(r)
      BY <2>1, <2>2 DEF Save, Exit, TrimThrows, counting
    <2>3. CASE Drain(r) \/ Close(r)
      <3>1. queue[r] \in Seq(Saves)
        BY DEF CInv, QInv, Typed
      <3>2. SetOf(queue[r]) \subseteq Saves
        BY <3>1 DEF SetOf
      <3>3. queue[r] # <<>> => {Head(queue[r])} \subseteq Saves
        BY <3>1, HeadTailProperties
      <3>4. CASE queue[r] = <<>>
        BY <2>1, <2>3, <3>4 DEF Drain, Close
      <3>5. CASE queue[r] # <<>>
        <4>1. SaveAll(r, {Head(queue[r])}) \/ SaveAll(r, SetOf(queue[r]))
          BY <2>3, <3>5 DEF Drain, Close
        <4>2. QED
          BY <1>3, <3>2, <3>3, <3>5, <4>1
      <3>6. QED
        BY <3>4, <3>5
    <2>4. CASE Open(r)
      BY <1>1, <2>4 DEF Open
    <2>5. CASE TrimRests(r) \/ TrimStarts(r)
      <3>1. PICK swept : count' = [count EXCEPT ![r] = Known(r, swept)]
        BY <2>5 DEF TrimRests, TrimStarts, Maintain
      <3>2. Known(r, swept) \in Nat
        BY <1>1 DEF Known
      <3>3. QED
        BY <3>1, <3>2
    <2>6. CASE TrimCuts(r)
      <3>1. Min0(count[r], Cardinality(file \ file')) \in Nat
        <4>1. IsFiniteSet(file \ file')
          BY <1>1, FS_Subset
        <4>2. QED
          BY <1>1, <4>1, FS_CardinalityType, Min0Properties
      <3>2. CASE count' = [count EXCEPT ![r] = Min0(@, Cardinality(file \ file'))]
        <4>1. count' = [count EXCEPT ![r] = Min0(count[r], Cardinality(file \ file'))]
          BY <1>1, <3>2
        <4>2. QED
          BY <3>1, <4>1
      <3>3. QED
        BY <2>1, <2>6, <3>2 DEF TrimCuts
    <2>7. ASSUME NEW doomed \in SUBSET file, Prune(r, doomed) \/ Clear(r, doomed)
          PROVE  \E n \in Nat : count' = [count EXCEPT ![r] = n]
      <3>1. Min0(count[r], Cardinality(doomed)) \in Nat
        BY <1>1, FS_Subset, FS_CardinalityType, Min0Properties
      <3>2. CASE count' = [count EXCEPT ![r] = Min0(@, Cardinality(doomed))]
        <4>1. count' = [count EXCEPT ![r] = Min0(count[r], Cardinality(doomed))]
          BY <1>1, <3>2
        <4>2. QED
          BY <3>1, <4>1
      <3>3. QED
        BY <2>1, <2>7, <3>2 DEF Prune, Clear
    <2>8. QED
      BY <2>2, <2>3, <2>4, <2>5, <2>6, <2>7 DEF FileStep
  <1>5. \E x \in {"open", "closed", "down"} : status' = [status EXCEPT ![r] = x]
    <2>1. status' = status => status' = [status EXCEPT ![r] = status[r]] /\ status[r] \in {"open", "closed", "down"}
      BY <1>1
    <2>2. status' = status \/ \E x \in {"open", "closed", "down"} : status' = [status EXCEPT ![r] = x]
      BY DEF Save, Drain, Close, Exit, FileStep, Open, TrimRests, TrimStarts, TrimThrows,
             TrimCuts, Prune, Clear
    <2>3. QED
      BY <2>1, <2>2
  <1>6. \A s \in Saves : answer'[s] = "unsent" => owner'[s] = Nobody
    <2>1. ASSUME NEW u \in Saves, Save(r, u)
          PROVE  \A s \in Saves : answer'[s] = "unsent" => owner'[s] = Nobody
      <3>1. owner' = [owner EXCEPT ![u] = r] /\ owner \in [Saves -> Processes \cup {Nobody}]
        BY <2>1 DEF Save, CInv, QInv, Typed
      <3>2. answer \in [Saves -> Answers]
        BY DEF CInv, QInv, Typed
      <3>3. PICK told : /\ told \in [Saves -> Answers]
                        /\ \A s \in Saves : told[s] = "unsent" => answer[s] = "unsent"
                        /\ answer' = [told EXCEPT ![u] = "waiting"]
        <4>1. CASE Full(r)
          <5>1. answer' = [Told({Head(queue[r])}, "rejected") EXCEPT ![u] = "waiting"]
            BY <2>1, <4>1 DEF Save, DropOldest
          <5>2. Told({Head(queue[r])}, "rejected") \in [Saves -> Answers]
            BY <3>2 DEF Told, Answers
          <5>3. \A s \in Saves : Told({Head(queue[r])}, "rejected")[s] = "unsent"
                                   => answer[s] = "unsent"
            BY DEF Told
          <5>4. QED
            BY <5>1, <5>2, <5>3
        <4>2. CASE ~Full(r)
          BY <2>1, <3>2, <4>2 DEF Save
        <4>3. QED
          BY <4>1, <4>2
      <3>4. ASSUME NEW s \in Saves, answer'[s] = "unsent"
            PROVE  owner'[s] = Nobody
        <4>1. s # u /\ answer[s] = "unsent"
          BY <3>3, <3>4
        <4>2. QED
          BY <3>1, <4>1 DEF CInv, Counted
      <3>5. QED
        BY <3>4
    <2>2. ASSUME \A s \in Saves : answer'[s] = "unsent" => answer[s] = "unsent", owner' = owner
          PROVE  \A s \in Saves : answer'[s] = "unsent" => owner'[s] = Nobody
      BY <2>2 DEF CInv, Counted
    <2>3. CASE Drain(r) \/ Close(r)
      <3>1. queue[r] \in Seq(Saves) /\ owner' = owner
        BY <2>3 DEF CInv, QInv, Typed, Drain, Close
      <3>2. SetOf(queue[r]) \subseteq Saves
        BY <3>1 DEF SetOf
      <3>3. queue[r] # <<>> => {Head(queue[r])} \subseteq Saves
        BY <3>1, HeadTailProperties
      <3>4. CASE queue[r] = <<>>
        BY <2>2, <2>3, <3>1, <3>4 DEF Drain, Close
      <3>5. CASE queue[r] # <<>>
        <4>1. SaveAll(r, {Head(queue[r])}) \/ SaveAll(r, SetOf(queue[r]))
          BY <2>3, <3>5 DEF Drain, Close
        <4>2. QED
          BY <1>3, <2>2, <3>1, <3>2, <3>3, <3>5, <4>1
      <3>6. QED
        BY <3>4, <3>5
    <2>4. CASE Exit(r)
      <3>1. answer' = Told(SetOf(queue[r]), "gone") /\ owner' = owner
        BY <2>4 DEF Exit
      <3>2. \A s \in Saves : answer'[s] = "unsent" => answer[s] = "unsent"
        BY <3>1 DEF Told
      <3>3. QED
        BY <2>2, <3>1, <3>2
    <2>5. CASE FileStep(r)
      <3>1. UNCHANGED <<answer, owner>>
        BY <2>5 DEF FileStep, Open, TrimRests, TrimStarts, TrimThrows, TrimCuts, Prune, Clear,
                    calls
      <3>2. QED
        BY <2>2, <3>1
    <2>6. QED
      BY <2>1, <2>3, <2>4, <2>5
  <1>7. QED
    BY <1>1, <1>4, <1>5, <1>6 DEF Counted

\* Only a save() of its own makes a process's call; nobody else's is forgotten.
LEMMA AloneBefore ==
    ASSUME CInv, NEW r \in Processes, NEW p \in Processes, Alone(p)',
           \/ \E s \in Saves : Save(r, s)
           \/ Drain(r) \/ Close(r) \/ Exit(r) \/ FileStep(r)
    PROVE  Alone(p)
  <1>1. ASSUME owner' = owner PROVE Alone(p)
    BY <1>1 DEF Alone
  <1>2. ASSUME NEW u \in Saves, Save(r, u) PROVE Alone(p)
    <2>1. owner' = [owner EXCEPT ![u] = r] /\ owner \in [Saves -> Processes \cup {Nobody}]
      BY <1>2 DEF Save, CInv, QInv, Typed
    <2>2. owner[u] = Nobody
      BY <1>2 DEF Save, CInv, Counted
    <2>3. \A s \in Saves \ {u} : owner[s] = owner'[s]
      BY <2>1
    <2>4. QED
      BY <2>2, <2>3 DEF Alone
  <1>3. CASE ~(\E s \in Saves : Save(r, s))
    BY <1>1, <1>3 DEF Drain, Close, Exit, FileStep, Open, TrimRests, TrimStarts, TrimThrows,
                      TrimCuts, Prune, Clear, calls
  <1>4. QED
    BY <1>2, <1>3

\* A transaction counts the rows it adds.
LEMMA SaveAllCovers ==
    ASSUME CInv, NEW r \in Processes, NEW S \in SUBSET Saves, SaveAll(r, S),
           Cardinality(file) <= count[r]
    PROVE  Cardinality(file') <= count'[r]
  <1>1. count \in [Processes -> Nat] /\ IsFiniteSet(file)
    BY DEF CInv, Counted, FileFinite
  <1>2. CASE file' = file \cup RowsOf(S) /\ count' = [count EXCEPT ![r] = @ + Inserted(S)]
    <2> DEFINE new == RowsOf(S) \ file
    <2>1. IsFiniteSet(file') /\ file \subseteq file' /\ file' \ file = new
      BY <1>1, <1>2, RowsOfFinite, FS_Union DEF CInv
    <2>2. /\ Cardinality(file) + Cardinality(file' \ file) = Cardinality(file')
          /\ Cardinality(file) \in Nat /\ Cardinality(file' \ file) \in Nat
      BY <2>1, FewerRows
    <2>3. count'[r] = count[r] + Cardinality(file' \ file) /\ count[r] \in Nat
      BY <1>1, <1>2, <2>1 DEF Inserted
    <2>4. QED
      BY <2>2, <2>3
  <1>3. CASE file' = file /\ count' = count
    BY <1>3
  <1>4. QED
    BY <1>2, <1>3 DEF SaveAll

\* A count that goes down by what was deleted still covers what is left.
LEMMA FewerStillCovered ==
    ASSUME CInv, NEW p \in Processes, NEW doomed \in SUBSET file, file' = file \ doomed,
           Cardinality(file) <= count[p], count' = [count EXCEPT ![p] = Min0(@, Cardinality(doomed))]
    PROVE  Cardinality(file') <= count'[p]
  <1>1. count \in [Processes -> Nat] /\ IsFiniteSet(file)
    BY DEF CInv, Counted, FileFinite
  <1>2. /\ Cardinality(doomed) \in Nat /\ Cardinality(file') \in Nat
        /\ Cardinality(doomed) + Cardinality(file') = Cardinality(file)
    BY <1>1, FewerRows
  <1>3. count'[p] = Min0(count[p], Cardinality(doomed)) /\ count[p] \in Nat
    BY <1>1
  <1>4. Cardinality(file') + Cardinality(doomed) <= count[p]
    BY <1>2
  <1>5. QED
    BY <1>2, <1>3, <1>4, Min0Properties

\* The step of the process whose count it is.
LEMMA OwnCount ==
    ASSUME CInv, NEW p \in Processes, Covers(p), Alone(p), status'[p] = "open",
           \/ \E s \in Saves : Save(p, s)
           \/ Drain(p) \/ Close(p) \/ Exit(p) \/ FileStep(p)
    PROVE  Cardinality(file') <= count'[p]
  <1>1. /\ status \in [Processes -> {"open", "closed", "down"}] /\ count \in [Processes -> Nat]
        /\ IsFiniteSet(file) /\ Cardinality(file) \in Nat
    BY FS_CardinalityType DEF CInv, Counted, FileFinite
  <1>2. CASE Close(p) \/ Exit(p)
    BY <1>1, <1>2 DEF Close, Exit
  <1>3. CASE Open(p)
    <2>1. count'[p] = Cardinality(file) /\ file' = file
      BY <1>1, <1>3 DEF Open
    <2>2. QED
      BY <1>1, <2>1
  <1>4. CASE ~Close(p) /\ ~Exit(p) /\ ~Open(p)
    <2>1. status' = status
      BY <1>4 DEF Save, Drain, FileStep, TrimRests, TrimStarts, TrimThrows, TrimCuts, Prune,
                  Clear
    <2>2. Cardinality(file) <= count[p]
      BY <2>1 DEF Covers
    <2>3. CASE file' = file /\ count' = count
      BY <2>2, <2>3
    <2>4. CASE (\E s \in Saves : Save(p, s)) \/ TrimThrows(p)
      BY <2>3, <2>4 DEF Save, TrimThrows, counting
    <2>5. CASE Drain(p)
      <3>1. CASE queue[p] = <<>>
        BY <2>3, <2>5, <3>1 DEF Drain
      <3>2. CASE queue[p] # <<>>
        <4>1. queue[p] \in Seq(Saves)
          BY DEF CInv, QInv, Typed
        <4>2. {Head(queue[p])} \in SUBSET Saves
          BY <3>2, <4>1, HeadTailProperties
        <4>3. SaveAll(p, {Head(queue[p])})
          BY <2>5, <3>2 DEF Drain
        <4>4. QED
          BY <2>2, <4>2, <4>3, SaveAllCovers
      <3>3. QED
        BY <3>1, <3>2
    <2>6. CASE TrimRests(p) \/ TrimStarts(p)
      <3>1. PICK swept : count' = [count EXCEPT ![p] = Known(p, swept)]
        BY <2>6 DEF TrimRests, TrimStarts, Maintain
      <3>2. file' = file
        BY <2>6 DEF TrimRests, TrimStarts
      <3>3. Cardinality(file) <= Known(p, swept)
        BY <1>1, <2>2 DEF Known
      <3>4. QED
        BY <1>1, <3>1, <3>2, <3>3
    <2>7. CASE TrimCuts(p)
      <3>1. CASE file' = file /\ count' = count
        BY <2>3, <3>1
      <3>2. CASE file' = file \ Oldest(Excess(p))
                   /\ count' = [count EXCEPT ![p] = Min0(@, Cardinality(file \ file'))]
        <4>1. file \ file' \in SUBSET file /\ file' = file \ (file \ file')
          BY <3>2
        <4>2. QED
          BY <2>2, <3>2, <4>1, FewerStillCovered
      <3>3. QED
        BY <2>7, <3>1, <3>2 DEF TrimCuts
    <2>8. ASSUME NEW doomed \in SUBSET file, Prune(p, doomed)
          PROVE  Cardinality(file') <= count'[p]
      BY <2>2, <2>8, FewerStillCovered DEF Prune
    <2>9. ASSUME NEW doomed \in SUBSET file, Clear(p, doomed)
          PROVE  Cardinality(file') <= count'[p]
      <3>1. CASE doomed = file /\ count' = [count EXCEPT ![p] = 0]
        <4>1. file' = {} /\ count'[p] = 0
          BY <1>1, <2>9, <3>1 DEF Clear
        <4>2. QED
          BY <4>1, FS_EmptySet
      <3>2. CASE count' = count
        <4>1. file' \subseteq file
          BY <2>9 DEF Clear
        <4>2. Cardinality(file') <= Cardinality(file) /\ Cardinality(file') \in Nat
          BY <1>1, <4>1, FS_Subset, FS_CardinalityType
        <4>3. count[p] \in Nat
          BY <1>1
        <4>4. QED
          BY <1>1, <2>2, <3>2, <4>2, <4>3
      <3>3. QED
        BY <2>9, <3>1, <3>2 DEF Clear
    <2>10. QED
      BY <1>4, <2>4, <2>5, <2>6, <2>7, <2>8, <2>9 DEF FileStep
  <1>5. QED
    BY <1>2, <1>3, <1>4

\* The step of another: what it commits is a call of its own.
LEMMA OthersOnlyDelete ==
    ASSUME CInv, NEW p \in Processes, NEW r \in Processes, r # p, Alone(p),
           \/ \E s \in Saves : Save(r, s)
           \/ Drain(r) \/ Close(r) \/ Exit(r) \/ FileStep(r)
    PROVE  file' \subseteq file
  <1>1. queue[r] = <<>>
    <2>1. queue[r] \in Seq(Saves)
      BY DEF CInv, QInv, Typed
    <2>2. Elems(queue[r]) = {}
      <3>1. \A s \in Elems(queue[r]) : s \in Saves /\ owner[s] = r
        BY <2>1 DEF CInv, QInv, Queued, Elems
      <3>2. r # Nobody
        BY NobodyAssumption
      <3>3. QED
        BY <3>1, <3>2 DEF Alone
    <2>3. ASSUME queue[r] # <<>> PROVE FALSE
      <3>1. Head(queue[r]) \in Elems(queue[r])
        BY <2>1, <2>3, ShiftProperties DEF CInv, QInv, Queued
      <3>2. QED
        BY <2>2, <3>1
    <2>4. QED
      BY <2>3
  <1>2. QED
    BY <1>1 DEF Save, Drain, Close, Exit, FileStep, Open, TrimRests, TrimStarts, TrimThrows,
                TrimCuts, Prune, Clear

LEMMA CoversStep ==
    ASSUME CInv, NEW p \in Processes, Covers(p), NEW r \in Processes,
           \/ \E s \in Saves : Save(r, s)
           \/ Drain(r) \/ Close(r) \/ Exit(r) \/ FileStep(r)
    PROVE  Covers(p)'
  <1> SUFFICES ASSUME status'[p] = "open", Alone(p)'
               PROVE  Cardinality(file') <= count'[p]
    BY DEF Covers
  <1>1. Alone(p)
    BY AloneBefore
  <1>2. CASE r = p
    BY <1>1, <1>2, OwnCount
  <1>3. CASE r # p
    <2>1. count'[p] = count[p] /\ status[p] = "open"
      BY <1>3, CountsTyped
    <2>2. Cardinality(file) <= count[p] /\ count[p] \in Nat /\ IsFiniteSet(file)
      BY <1>1, <2>1 DEF Covers, CInv, Counted, FileFinite
    <2>3. file' \subseteq file
      BY <1>1, <1>3, OthersOnlyDelete
    <2>4. /\ Cardinality(file') <= Cardinality(file)
          /\ Cardinality(file') \in Nat /\ Cardinality(file) \in Nat
      BY <2>2, <2>3, FS_Subset, FS_CardinalityType
    <2>5. QED
      BY <2>1, <2>2, <2>4
  <1>4. QED
    BY <1>2, <1>3

\* Through duplicate and requeued rows, prunes and clears of any process, restarts and
\* failed writes, trim() decides on a count that is not below the rows there are.
THEOREM CountsCover ==
    ASSUME BatchesFinite
    PROVE  Spec => []CountCovers
  <1> DEFINE Inv == CInv /\ \A p \in Processes : Covers(p)
  <1>1. Init => Inv
    <2> SUFFICES ASSUME Init PROVE Inv
      OBVIOUS
    <2>1. QInv /\ FileFinite
      BY FiniteInvariant
    <2>2. Counted
      BY DEF Init, Counted
    <2>3. file = {} /\ \A p \in Processes : count[p] = 0
      BY DEF Init
    <2>4. \A p \in Processes : Cardinality(file) <= count[p]
      BY <2>3, FS_EmptySet
    <2>5. QED
      BY <2>1, <2>2, <2>4 DEF CInv, Covers
  <1>2. Inv /\ [Next]_vars => Inv'
    <2> SUFFICES ASSUME Inv, [Next]_vars PROVE Inv'
      OBVIOUS
    <2>1. QInv' /\ FileFinite'
      BY FiniteInvariant DEF CInv
    <2>2. CASE UNCHANGED vars
      <3>1. UNCHANGED <<file, status, count, answer, owner>>
        BY <2>2 DEF vars, counting, calls
      <3>2. QED
        BY <2>1, <3>1 DEF CInv, Counted, Covers, Alone
    <2>3. ASSUME NEW r \in Processes,
                 \/ \E s \in Saves : Save(r, s)
                 \/ Drain(r) \/ Close(r) \/ Exit(r) \/ FileStep(r)
          PROVE  Inv'
      BY <2>1, <2>3, CountsTyped, CoversStep DEF CInv
    <2>4. QED
      BY <2>2, <2>3 DEF Next, FileStep
  <1>3. Inv => CountCovers
    BY DEF Covers, Alone, CountCovers
  <1>4. QED
    BY <1>1, <1>2, <1>3, PTL DEF Spec

-----------------------------------------------------------------------------
(* EntryFeed: the inductive invariant *)

\* No one acts while the list is being reloaded: what such a click does to the list
\* the answer of the reload undoes.
Patient == \A b \in Budgets : b["haste"] = 0

RowsRequest == [kind : {"initial", "more"}, scope : Scopes, at : Nat, current : BOOLEAN,
                answered : BOOLEAN, rows : SUBSET Entries, next : Nat]
FeedTyped ==
    /\ stored \subseteq Entries /\ overtaken \subseteq Entries /\ cleared \subseteq Entries
    /\ clearing \in BOOLEAN /\ failed \in BOOLEAN
    /\ scope \in Scopes /\ list \subseteq Entries /\ pending \subseteq Entries
    /\ cursor \in Nat
    /\ loads \subseteq RowsRequest
    /\ scan.at \in Nat /\ scan.known \subseteq Entries /\ scan.got \subseteq Entries
    /\ DOMAIN scan = {"at", "known", "got", "from"}
    /\ DOMAIN budget = Events /\ (Patient => budget["haste"] = 0)

\* An entry was stored before anyone knows it.
EverStored == stored \cup cleared
Heard ==
    /\ stored \cap cleared = {}
    /\ list \subseteq EverStored /\ pending \subseteq EverStored
    /\ scan.got \subseteq EverStored /\ scan.known \subseteq EverStored
    /\ cursor # Nothing => cursor \in EverStored
    /\ \A r \in loads : r.rows \subseteq EverStored /\ (r.next # Nothing => r.next \in r.rows)

InScope ==
    /\ list \subseteq In[scope] /\ pending \subseteq In[scope] /\ scan.got \subseteq In[scope]
    /\ \A r \in loads : r.current => r.scope = scope /\ r.rows \subseteq In[scope]

\* Once the dashboard knows that the store was cleared nothing cleared is on its way.
Uncleared ==
    /\ clearing \/ (pending \cap cleared = {} /\ scan.got \cap cleared = {})
    /\ clearing \/ \A r \in loads : r.current => r.rows \cap cleared = {}
    /\ Reloading \/ failed \/ clearing \/ list \cap cleared = {}

FeedInv == FeedTyped /\ Heard /\ InScope /\ Uncleared

LEMMA PageProperties ==
    ASSUME stored \subseteq Entries, NEW s \in Scopes, NEW at \in Nat, NEW size \in Nat \ {0},
           NEW p, p = Page(s, at, size)
    PROVE  /\ p.rows \subseteq Selected(s) /\ p.rows \subseteq Entries
           /\ p.next \in Nat
           /\ p.next # Nothing => p.next \in p.rows
           /\ \A e \in p.rows : /\ at = Nothing \/ e < at
                                /\ p.next = Nothing \/ p.next <= e
           /\ \A e \in Selected(s) :
                 (at = Nothing \/ e < at) /\ (p.next = Nothing \/ p.next <= e) => e \in p.rows
  <1> DEFINE found == {e \in Selected(s) : at = Nothing \/ e < at}
             newest == {e \in found : Cardinality({n \in found : n > e}) < size}
  <1>1. /\ p.rows = newest
        /\ p.next = IF newest = found THEN Nothing
                    ELSE CHOOSE e \in newest : \A n \in newest : e <= n
    BY DEF Page
  <1>2. found \subseteq Entries /\ found \subseteq Nat /\ IsFiniteSet(found)
    <2>1. found \subseteq Entries
      BY DEF Selected
    <2>2. IsFiniteSet(Entries) /\ Entries \subseteq Nat
      <3>1. MaxSequence \in Nat
        BY FeedAssumption
      <3>2. QED
        BY <3>1, FS_Interval DEF Entries
    <2>3. QED
      BY <2>1, <2>2, FS_Subset
  <1>3. newest = NewestOf(found, size)
    BY DEF NewestOf, Above
  <1>4. CASE newest = found
    BY <1>1, <1>2, <1>4 DEF Nothing
  <1>5. CASE newest # found
    <2>1. PICK k \in found : ~(Cardinality(Above(found, k)) < size)
      BY <1>3, <1>5 DEF NewestOf
    <2>2. size <= Cardinality(found)
      <3>1. /\ Cardinality(Above(found, k)) < Cardinality(found)
            /\ Cardinality(Above(found, k)) \in Nat /\ Cardinality(found) \in Nat
        BY <1>2, RankProperties, FS_CardinalityType
      <3>2. QED
        BY <2>1, <3>1
    <2>3. /\ Cardinality(newest) = size
          /\ \A gone \in found \ newest, kept \in newest : gone < kept
      BY <1>2, <1>3, <2>2, NewestProperties
    <2> HIDE DEF newest
    <2>4. newest \subseteq found /\ newest \subseteq Nat /\ IsFiniteSet(newest)
      BY <1>2, <1>3, FS_Subset DEF NewestOf
    <2>5. PICK least \in newest : Cardinality(From(newest, least)) = size
      BY <2>3, <2>4, NthNewest
    <2>6. From(newest, least) = newest
      <3>1. From(newest, least) \subseteq newest
        BY DEF From
      <3>2. QED
        BY <2>3, <2>4, <2>5, <3>1, FS_Subset
    <2>7. \A n \in newest : least <= n
      <3>1. \A n \in newest : n >= least
        BY <2>6 DEF From
      <3>2. QED
        BY <2>4, <3>1
    <2>8. p.next \in newest /\ \A n \in newest : p.next <= n
      BY <1>1, <1>5, <2>7
    <2>9. ASSUME NEW e \in found, p.next <= e
          PROVE  e \in newest
      <3>1. e \in Nat /\ p.next \in Nat
        BY <1>2, <2>4, <2>8
      <3>2. e \notin newest => e < p.next
        BY <2>3, <2>8
      <3>3. QED
        BY <2>9, <3>1, <3>2
    <2>10. /\ p.rows \subseteq Selected(s) /\ p.rows \subseteq Entries
           /\ \A e \in p.rows : at = Nothing \/ e < at
      BY <1>1, <1>2, <2>4
    <2>11. p.next \in Nat /\ p.next \in Entries
      BY <1>2, <2>4, <2>8
    <2>12. p.next # Nothing
      BY <2>11, FeedAssumption DEF Entries, Nothing
    <2>13. QED
      BY <1>1, <2>8, <2>9, <2>10, <2>11, <2>12
  <1>6. QED
    BY <1>4, <1>5

LEMMA RequestProperties ==
    ASSUME NEW kind \in {"initial", "more"}, NEW s \in Scopes, NEW at \in Nat,
           NEW r, r = Request(kind, s, at)
    PROVE  /\ r \in RowsRequest /\ r.kind = kind /\ r.scope = s /\ r.at = at
           /\ r.current /\ ~r.answered /\ r.rows = {} /\ r.next = Nothing
  BY DEF Request, RowsRequest, Nothing

LEMMA SupersededProperties ==
    ASSUME loads \subseteq RowsRequest, NEW r \in Superseded
    PROVE  /\ r \in RowsRequest /\ ~r.current
           /\ \E q \in loads : r.rows = q.rows /\ r.next = q.next
  <1>1. PICK q \in loads : r = [q EXCEPT !.current = FALSE]
    BY DEF Superseded
  <1>2. r \in RowsRequest /\ ~r.current /\ r.rows = q.rows /\ r.next = q.next
    BY <1>1 DEF RowsRequest
  <1>3. QED
    BY <1>2

\* What a reload puts on its way.
LEMMA LoadInitialProperties ==
    ASSUME FeedInv, NEW s \in Scopes, LoadInitial(s)
    PROVE  /\ loads' \subseteq RowsRequest /\ failed' = FALSE
           /\ \A r \in loads' : r.rows \subseteq EverStored /\ (r.next # Nothing => r.next \in r.rows)
           /\ \A r \in loads' : r.current => r = Request("initial", s, Nothing)
           /\ Request("initial", s, Nothing) \in loads' /\ Reloading'
  <1>1. PICK i : i = Request("initial", s, Nothing)
    OBVIOUS
  <1>2. /\ i \in RowsRequest /\ i.kind = "initial" /\ i.current /\ i.rows = {} /\ i.next = Nothing
    BY <1>1, RequestProperties DEF Nothing
  <1>3. loads' = Superseded \cup {i} /\ failed' = FALSE
    BY <1>1 DEF LoadInitial
  <1>4. \A r \in Superseded : /\ r \in RowsRequest /\ ~r.current
                              /\ \E q \in loads : r.rows = q.rows /\ r.next = q.next
    BY SupersededProperties DEF FeedInv, FeedTyped
  <1>5. Reloading'
    BY <1>2, <1>3 DEF Reloading
  <1>6. \A r \in Superseded : r.rows \subseteq EverStored /\ (r.next # Nothing => r.next \in r.rows)
    BY <1>4 DEF FeedInv, Heard
  <1>7. QED
    BY <1>1, <1>2, <1>3, <1>4, <1>5, <1>6

\* A step that happens takes nothing from the other budgets.
LEMMA HappensProperties ==
    ASSUME DOMAIN budget = Events, NEW e \in Events, Happens(e)
    PROVE  /\ DOMAIN budget' = Events /\ budget[e] > 0
           /\ \A d \in Events \ {e} : budget'[d] = budget[d]
  BY DEF Happens

LEMMA BudgetStays ==
    ASSUME FeedInv, NEW e \in Events, Happens(e)
    PROVE  /\ DOMAIN budget' = Events /\ (Patient => budget'["haste"] = 0)
           /\ Patient => e # "haste"
  <1>1. DOMAIN budget = Events /\ (Patient => budget["haste"] = 0)
    BY DEF FeedInv, FeedTyped
  <1>2. /\ DOMAIN budget' = Events /\ budget[e] > 0
        /\ \A d \in Events \ {e} : budget'[d] = budget[d]
    BY <1>1, HappensProperties
  <1>3. Patient => e # "haste"
    BY <1>1, <1>2
  <1>4. "haste" \in Events
    BY DEF Events
  <1>5. QED
    BY <1>1, <1>2, <1>3, <1>4

LEMMA ActsProperties ==
    ASSUME FeedInv, Acts
    PROVE  /\ DOMAIN budget' = Events /\ (Patient => budget'["haste"] = 0)
           /\ Patient => ~Reloading
  <1>1. CASE Reloading
    <2>1. Happens("haste") /\ "haste" \in Events
      BY <1>1 DEF Acts, Events
    <2>2. QED
      BY <2>1, BudgetStays
  <1>2. CASE ~Reloading
    BY <1>2 DEF Acts, FeedInv, FeedTyped
  <1>3. QED
    BY <1>1, <1>2

\* What a step that leaves all of these alone does to the rest does not matter.
LEMMA FeedUnmoved ==
    ASSUME FeedInv,
           UNCHANGED <<stored, overtaken, cleared, clearing, scope, list, cursor, failed,
                       loads, pending, scan>>,
           DOMAIN budget' = Events, Patient => budget'["haste"] = 0
    PROVE  FeedInv'
  <1>1. FeedTyped'
    BY DEF FeedInv, FeedTyped
  <1>2. Heard'
    BY DEF FeedInv, Heard, EverStored
  <1>3. InScope' /\ Uncleared'
    BY DEF FeedInv, InScope, Uncleared, Reloading
  <1>4. QED
    BY <1>1, <1>2, <1>3 DEF FeedInv

-----------------------------------------------------------------------------
(* The steps and FeedInv *)

LEMMA StoreFeed ==
    ASSUME FeedInv, NEW e \in Entries, Store(e)
    PROVE  FeedInv'
  <1>1. /\ e \notin stored /\ e \notin cleared
        /\ stored' = stored \cup {e} /\ overtaken' \subseteq overtaken \cup {e}
        /\ UNCHANGED <<cleared, clearing, scope, list, cursor, failed, loads, pending, scan>>
    BY DEF Store, listVars
  <1>2. DOMAIN budget' = Events /\ (Patient => budget'["haste"] = 0)
    <2>1. CASE Happens("late")
      <3>1. "late" \in Events
        BY DEF Events
      <3>2. QED
        BY <2>1, <3>1, BudgetStays
    <2>2. CASE UNCHANGED budget
      BY <2>2 DEF FeedInv, FeedTyped
    <2>3. QED
      BY <2>1, <2>2 DEF Store
  <1>3. FeedTyped'
    BY <1>1, <1>2 DEF FeedInv, FeedTyped
  <1>4. EverStored \subseteq EverStored'
    BY <1>1 DEF EverStored
  <1>5. Heard'
    <2>1. stored' \cap cleared' = {}
      BY <1>1 DEF FeedInv, Heard
    <2>2. \A r \in loads' : r.rows \subseteq EverStored' /\ (r.next # Nothing => r.next \in r.rows)
      BY <1>1, <1>4 DEF FeedInv, Heard
    <2>3. QED
      BY <1>1, <1>4, <2>1, <2>2 DEF FeedInv, Heard
  <1>6. InScope' /\ Uncleared'
    BY <1>1 DEF FeedInv, InScope, Uncleared, Reloading
  <1>7. QED
    BY <1>3, <1>5, <1>6 DEF FeedInv

LEMMA LoadMoreFeed ==
    ASSUME FeedInv, LoadMore
    PROVE  FeedInv'
  <1>1. PICK m : m = Request("more", scope, cursor)
    OBVIOUS
  <1>2. /\ loads' = loads \cup {m}
        /\ UNCHANGED <<stored, overtaken, cleared, clearing, scope, list, cursor, failed,
                       pending, scan>>
    BY <1>1 DEF LoadMore, store
  <1>3. /\ m \in RowsRequest /\ m.kind = "more" /\ m.scope = scope
        /\ m.rows = {} /\ m.next = Nothing
    BY <1>1, RequestProperties DEF FeedInv, FeedTyped
  <1>4. DOMAIN budget' = Events /\ (Patient => budget'["haste"] = 0)
    BY ActsProperties DEF LoadMore
  <1>5. FeedTyped'
    BY <1>2, <1>3, <1>4 DEF FeedInv, FeedTyped
  <1>6. Heard'
    BY <1>2, <1>3 DEF FeedInv, Heard, EverStored
  <1>7. InScope'
    BY <1>2, <1>3 DEF FeedInv, InScope
  <1>8. Uncleared'
    <2>1. Reloading => Reloading'
      BY <1>2 DEF Reloading
    <2>2. QED
      BY <1>2, <1>3, <2>1 DEF FeedInv, Uncleared
  <1>9. QED
    BY <1>5, <1>6, <1>7, <1>8 DEF FeedInv

\* retry, and the reload of a list that was cleared.
LEMMA ReloadFeed ==
    ASSUME FeedInv, NEW s \in Scopes, LoadInitial(s), scope' = s,
           \/ s = scope /\ UNCHANGED <<list, cursor>>
           \/ list' = {} /\ cursor' = Nothing,
           \/ s = scope /\ UNCHANGED <<clearing, pending, scan>>
           \/ pending' = {} /\ scan' = NoScan /\ clearing' \in BOOLEAN,
           UNCHANGED <<stored, overtaken, cleared>>,
           DOMAIN budget' = Events, Patient => budget'["haste"] = 0
    PROVE  FeedInv'
  <1>1. /\ loads' \subseteq RowsRequest /\ failed' = FALSE /\ Reloading'
        /\ \A r \in loads' : r.rows \subseteq EverStored /\ (r.next # Nothing => r.next \in r.rows)
        /\ \A r \in loads' : r.current => r.scope = s /\ r.rows = {}
    <2>1. Request("initial", s, Nothing).scope = s /\ Request("initial", s, Nothing).rows = {}
      BY RequestProperties DEF Nothing
    <2>2. QED
      BY <2>1, LoadInitialProperties
  <1>2. /\ \/ list' = list
           \/ list' = {}
        /\ cursor' \in {cursor, Nothing}
        /\ \/ pending' = pending /\ scan' = scan
           \/ pending' = {} /\ scan' = NoScan
        /\ clearing' \in BOOLEAN
    BY DEF FeedInv, FeedTyped
  <1>3. EverStored' = EverStored
    BY DEF EverStored
  <1>4. /\ NoScan.at \in Nat /\ NoScan.known = {} /\ NoScan.got = {}
        /\ DOMAIN NoScan = {"at", "known", "got", "from"} /\ Nothing \in Nat
    BY DEF NoScan, Nothing
  <1>5. FeedTyped'
    BY <1>1, <1>2, <1>4 DEF FeedInv, FeedTyped
  <1>6. Heard'
    BY <1>1, <1>2, <1>3, <1>4 DEF FeedInv, Heard
  <1>7. InScope'
    BY <1>1, <1>4 DEF FeedInv, InScope
  <1>8. Uncleared'
    BY <1>1, <1>4 DEF FeedInv, Uncleared
  <1>9. QED
    BY <1>5, <1>6, <1>7, <1>8 DEF FeedInv

LEMMA ReloadStepsFeed ==
    ASSUME FeedInv, Retry \/ Cleared \/ \E s \in Scopes : ChangeFilters(s)
    PROVE  FeedInv'
  <1>1. scope \in Scopes /\ DOMAIN budget = Events /\ (Patient => budget["haste"] = 0)
    BY DEF FeedInv, FeedTyped
  <1>2. CASE Retry
    BY <1>1, <1>2, ReloadFeed DEF Retry, store
  <1>3. CASE Cleared
    BY <1>1, <1>3, ReloadFeed DEF Cleared, NewScope
  <1>4. ASSUME NEW s \in Scopes, ChangeFilters(s) PROVE FeedInv'
    <2>1. DOMAIN budget' = Events /\ (Patient => budget'["haste"] = 0)
      <3>1. "filter" \in Events /\ Happens("filter")
        BY <1>4 DEF Events, ChangeFilters
      <3>2. QED
        BY <3>1, BudgetStays
    <2>2. clearing' \in BOOLEAN
      BY <1>4 DEF ChangeFilters, store, FeedInv, FeedTyped
    <2>3. QED
      BY <1>4, <2>1, <2>2, ReloadFeed DEF ChangeFilters, NewScope, store
  <1>5. QED
    BY <1>2, <1>3, <1>4

LEMMA AnswerFeed ==
    ASSUME FeedInv, NEW r \in loads, Answer(r)
    PROVE  FeedInv'
  <1>1. PICK page : page = Page(r.scope, r.at, ListPage)
    OBVIOUS
  <1>2. PICK a : a = [r EXCEPT !.answered = TRUE, !.rows = page.rows, !.next = page.next]
    OBVIOUS
  <1>3. /\ loads' = (loads \ {r}) \cup {a}
        /\ UNCHANGED <<stored, overtaken, cleared, clearing, scope, list, cursor, failed,
                       pending, scan, budget>>
    BY <1>1, <1>2 DEF Answer, store, listVars
  <1>4. r \in RowsRequest /\ r.scope \in Scopes /\ r.at \in Nat /\ stored \subseteq Entries
    BY DEF FeedInv, FeedTyped, RowsRequest
  <1>5. /\ page.rows \subseteq Selected(r.scope) /\ page.rows \subseteq Entries
        /\ page.next \in Nat /\ (page.next # Nothing => page.next \in page.rows)
    BY <1>1, <1>4, FeedAssumption, PageProperties
  <1>6. /\ a \in RowsRequest /\ a.kind = r.kind /\ a.scope = r.scope /\ a.current = r.current
        /\ a.rows = page.rows /\ a.next = page.next
    BY <1>2, <1>4, <1>5 DEF RowsRequest
  <1>7. page.rows \subseteq stored /\ page.rows \subseteq In[r.scope]
    BY <1>5 DEF Selected
  <1>8. FeedTyped'
    BY <1>3, <1>6 DEF FeedInv, FeedTyped
  <1>9. Heard'
    <2>1. a.rows \subseteq EverStored /\ EverStored' = EverStored
      BY <1>3, <1>6, <1>7 DEF EverStored
    <2>2. QED
      BY <1>3, <1>5, <1>6, <2>1 DEF FeedInv, Heard
  <1>10. InScope'
    <2>1. a.current => a.scope = scope /\ a.rows \subseteq In[scope]
      BY <1>6, <1>7 DEF FeedInv, InScope
    <2>2. QED
      BY <1>3, <2>1 DEF FeedInv, InScope
  <1>11. Uncleared'
    <2>1. a.rows \cap cleared = {}
      BY <1>6, <1>7 DEF FeedInv, Heard
    <2>2. Reloading => Reloading'
      BY <1>3, <1>6 DEF Reloading
    <2>3. QED
      BY <1>3, <2>1, <2>2 DEF FeedInv, Uncleared
  <1>12. QED
    BY <1>8, <1>9, <1>10, <1>11 DEF FeedInv

LEMMA LandFeed ==
    ASSUME FeedInv, NEW r \in loads, Land(r)
    PROVE  FeedInv'
  <1>1. /\ loads' = loads \ {r}
        /\ UNCHANGED <<stored, overtaken, cleared, clearing, scope, failed, pending, scan,
                       budget>>
        /\ IF r.current
           THEN /\ list' = IF r.kind = "initial" THEN r.rows ELSE list \cup r.rows
                /\ cursor' = r.next
           ELSE UNCHANGED <<list, cursor>>
    BY DEF Land, Shows, store
  <1>2. /\ r \in RowsRequest /\ r.rows \subseteq Entries /\ r.next \in Nat
        /\ r.rows \subseteq EverStored /\ (r.next # Nothing => r.next \in r.rows)
    BY DEF FeedInv, FeedTyped, Heard, RowsRequest
  <1>3. FeedTyped'
    BY <1>1, <1>2 DEF FeedInv, FeedTyped
  <1>4. Heard'
    BY <1>1, <1>2 DEF FeedInv, Heard, EverStored
  <1>5. InScope'
    BY <1>1 DEF FeedInv, InScope
  <1>6. Uncleared'
    <2>1. CASE ~r.current
      <3>1. Reloading => Reloading'
        BY <1>1, <2>1 DEF Reloading
      <3>2. QED
        BY <1>1, <2>1, <3>1 DEF FeedInv, Uncleared
    <2>2. CASE r.current /\ r.kind = "initial"
      BY <1>1, <2>2 DEF FeedInv, Uncleared
    <2>3. CASE r.current /\ r.kind # "initial"
      <3>1. Reloading => Reloading'
        BY <1>1, <2>3 DEF Reloading
      <3>2. QED
        BY <1>1, <2>3, <3>1 DEF FeedInv, Uncleared
    <2>4. QED
      BY <2>1, <2>2, <2>3
  <1>7. QED
    BY <1>3, <1>4, <1>5, <1>6 DEF FeedInv

LEMMA LoadFailsFeed ==
    ASSUME FeedInv, NEW r \in loads, LoadFails(r)
    PROVE  FeedInv'
  <1>1. /\ loads' = loads \ {r}
        /\ failed' = (failed \/ (r.current /\ r.kind = "initial"))
        /\ UNCHANGED <<stored, overtaken, cleared, clearing, scope, list, cursor, pending, scan>>
    BY DEF LoadFails, store
  <1>2. DOMAIN budget' = Events /\ (Patient => budget'["haste"] = 0)
    <2>1. "fail" \in Events /\ Happens("fail")
      BY DEF Events, LoadFails
    <2>2. QED
      BY <2>1, BudgetStays
  <1>3. FeedTyped'
    BY <1>1, <1>2 DEF FeedInv, FeedTyped
  <1>4. Heard' /\ InScope'
    BY <1>1 DEF FeedInv, Heard, EverStored, InScope
  <1>5. Uncleared'
    <2>1. Reloading => Reloading' \/ failed'
      BY <1>1 DEF Reloading
    <2>2. failed => failed'
      BY <1>1
    <2>3. QED
      BY <1>1, <2>1, <2>2 DEF FeedInv, Uncleared
  <1>6. QED
    BY <1>3, <1>4, <1>5 DEF FeedInv

LEMMA StartScanFeed ==
    ASSUME FeedInv, Poll \/ RunDue
    PROVE  FeedInv'
  <1>1. PICK from : scan' = [at |-> Nothing, known |-> Shown, got |-> {}, from |-> from]
    BY DEF Poll, RunDue, ScanNow, StartScan
  <1>2. UNCHANGED <<stored, overtaken, cleared, clearing, scope, list, cursor, failed, loads,
                    pending, budget>>
    BY DEF Poll, RunDue, store, listVars
  <1>3. /\ scan'.at = Nothing /\ scan'.known = Shown /\ scan'.got = {}
        /\ DOMAIN scan' = {"at", "known", "got", "from"} /\ Nothing \in Nat
    BY <1>1 DEF Nothing
  <1>4. FeedTyped'
    BY <1>2, <1>3 DEF FeedInv, FeedTyped, Shown
  <1>5. Heard'
    BY <1>2, <1>3 DEF FeedInv, Heard, EverStored, Shown
  <1>6. InScope' /\ Uncleared'
    BY <1>2, <1>3 DEF FeedInv, InScope, Uncleared, Reloading
  <1>7. QED
    BY <1>4, <1>5, <1>6 DEF FeedInv

\* One page of a scan: what it reads, keeps and offers.
ReadsPage(page, known, got) ==
    /\ page = Page(scope, scan.at, ScanPage)
    /\ page.rows \subseteq Selected(scope) /\ page.rows \subseteq Entries
    /\ page.next \in Nat
    /\ known = page.rows \cap scan.known
    /\ got = scan.got \cup {e \in page.rows : \A k \in known : k < e}
    /\ IF page.next = Nothing \/ known # {}
       THEN pending' = pending \cup (got \ Shown) /\ scan' = NoScan
       ELSE /\ scan' = [scan EXCEPT !.at = page.next, !.got = got]
            /\ UNCHANGED pending

LEMMA ScanStepEffect ==
    ASSUME FeedInv, ScanStep
    PROVE  \E page, known, got : ReadsPage(page, known, got)
  <1>1. PICK page : page = Page(scope, scan.at, ScanPage)
    OBVIOUS
  <1>2. scope \in Scopes /\ scan.at \in Nat /\ stored \subseteq Entries
    BY DEF FeedInv, FeedTyped
  <1>3. /\ page.rows \subseteq Selected(scope) /\ page.rows \subseteq Entries
        /\ page.next \in Nat
    BY <1>1, <1>2, FeedAssumption, PageProperties
  <1>4. PICK known : known = page.rows \cap scan.known
    OBVIOUS
  <1>5. PICK got : got = scan.got \cup {e \in page.rows : \A k \in known : k < e}
    OBVIOUS
  <1>6. IF page.next = Nothing \/ known # {}
        THEN pending' = pending \cup (got \ Shown) /\ scan' = NoScan
        ELSE /\ scan' = [scan EXCEPT !.at = page.next, !.got = got]
             /\ UNCHANGED pending
    BY <1>1, <1>4, <1>5 DEF ScanStep, WalkEnds
  <1>7. ReadsPage(page, known, got)
    BY <1>1, <1>3, <1>4, <1>5, <1>6 DEF ReadsPage
  <1>8. QED
    BY <1>7

LEMMA ScanStepFeed ==
    ASSUME FeedInv, ScanStep
    PROVE  FeedInv'
  <1>0. PICK page, known, got : ReadsPage(page, known, got)
    BY ScanStepEffect
  <1>1. /\ page.rows \subseteq Selected(scope) /\ page.rows \subseteq Entries
        /\ page.next \in Nat
        /\ got = scan.got \cup {e \in page.rows : \A k \in known : k < e}
        /\ IF page.next = Nothing \/ known # {}
           THEN pending' = pending \cup (got \ Shown) /\ scan' = NoScan
           ELSE /\ scan' = [scan EXCEPT !.at = page.next, !.got = got]
                /\ UNCHANGED pending
    BY <1>0 DEF ReadsPage
  <1>2. UNCHANGED <<stored, overtaken, cleared, clearing, scope, list, cursor, failed, loads,
                    budget>>
    BY DEF ScanStep, store, listVars
  <1>3. /\ got \subseteq Entries /\ got \subseteq EverStored /\ got \subseteq In[scope]
        /\ clearing \/ got \cap cleared = {}
    BY <1>1 DEF FeedInv, FeedTyped, Heard, InScope, Uncleared, EverStored, Selected
  <1>4. /\ pending' \subseteq pending \cup got
        /\ scan'.known \subseteq scan.known /\ scan'.got \subseteq got
        /\ scan'.at \in Nat /\ DOMAIN scan' = {"at", "known", "got", "from"}
    <2>1. CASE page.next = Nothing \/ known # {}
      BY <1>1, <2>1 DEF NoScan, Nothing
    <2>2. CASE ~(page.next = Nothing \/ known # {})
      BY <1>1, <2>2 DEF FeedInv, FeedTyped
    <2>3. QED
      BY <2>1, <2>2
  <1>5. FeedTyped'
    BY <1>2, <1>3, <1>4 DEF FeedInv, FeedTyped
  <1>6. Heard'
    BY <1>2, <1>3, <1>4 DEF FeedInv, Heard, EverStored
  <1>7. InScope'
    BY <1>2, <1>3, <1>4 DEF FeedInv, InScope
  <1>8. Uncleared'
    BY <1>2, <1>3, <1>4 DEF FeedInv, Uncleared, Reloading
  <1>9. QED
    BY <1>5, <1>6, <1>7, <1>8 DEF FeedInv

LEMMA ScanFailsFeed ==
    ASSUME FeedInv, ScanFails
    PROVE  FeedInv'
  <1>1. UNCHANGED <<stored, overtaken, cleared, clearing, scope, list, cursor, failed, loads,
                    pending>> /\ scan' = NoScan
    BY DEF ScanFails, store, listVars
  <1>2. DOMAIN budget' = Events /\ (Patient => budget'["haste"] = 0)
    <2>1. "fail" \in Events /\ Happens("fail")
      BY DEF Events, ScanFails
    <2>2. QED
      BY <2>1, BudgetStays
  <1>3. /\ NoScan.at \in Nat /\ NoScan.known = {} /\ NoScan.got = {}
        /\ DOMAIN NoScan = {"at", "known", "got", "from"}
    BY DEF NoScan, Nothing
  <1>4. FeedTyped'
    BY <1>1, <1>2, <1>3 DEF FeedInv, FeedTyped
  <1>5. Heard' /\ InScope'
    BY <1>1, <1>3 DEF FeedInv, Heard, EverStored, InScope
  <1>6. Uncleared'
    BY <1>1, <1>3 DEF FeedInv, Uncleared, Reloading
  <1>7. QED
    BY <1>4, <1>5, <1>6 DEF FeedInv

LEMMA AcceptFeed ==
    ASSUME FeedInv, Accept
    PROVE  FeedInv'
  <1>1. /\ list' = list \cup pending /\ pending' = {}
        /\ UNCHANGED <<stored, overtaken, cleared, clearing, scope, cursor, failed, loads, scan>>
    BY DEF Accept, store
  <1>2. DOMAIN budget' = Events /\ (Patient => budget'["haste"] = 0)
    BY ActsProperties DEF Accept
  <1>3. FeedTyped'
    BY <1>1, <1>2 DEF FeedInv, FeedTyped
  <1>4. Heard' /\ InScope'
    BY <1>1 DEF FeedInv, Heard, EverStored, InScope
  <1>5. Uncleared'
    BY <1>1 DEF FeedInv, Uncleared, Reloading
  <1>6. QED
    BY <1>3, <1>4, <1>5 DEF FeedInv

LEMMA ClearStoreFeed ==
    ASSUME FeedInv, ClearStore
    PROVE  FeedInv'
  <1>1. /\ stored' = {} /\ cleared' = cleared \cup stored /\ clearing' = TRUE
        /\ UNCHANGED <<overtaken, scope, list, cursor, failed, loads, pending, scan>>
    BY DEF ClearStore, listVars
  <1>2. DOMAIN budget' = Events /\ (Patient => budget'["haste"] = 0)
    <2>1. "clear" \in Events /\ Happens("clear")
      BY DEF Events, ClearStore
    <2>2. QED
      BY <2>1, BudgetStays
  <1>3. FeedTyped'
    BY <1>1, <1>2 DEF FeedInv, FeedTyped
  <1>4. EverStored' = EverStored
    BY <1>1 DEF EverStored
  <1>5. Heard' /\ InScope'
    BY <1>1, <1>4 DEF FeedInv, Heard, InScope
  <1>6. Uncleared'
    BY <1>1 DEF Uncleared
  <1>7. QED
    BY <1>3, <1>5, <1>6 DEF FeedInv

\* Events, renders and the stream change nothing of the list.
LEMMA StreamFeed ==
    ASSUME FeedInv, Hear \/ Render \/ GoLive \/ GoPolling
    PROVE  /\ UNCHANGED <<stored, overtaken, cleared, clearing, scope, list, cursor, failed,
                          loads, pending, scan>>
           /\ FeedInv'
  <1>1. UNCHANGED <<stored, overtaken, cleared, clearing, scope, list, cursor, failed,
                    loads, pending, scan>>
    BY DEF Hear, Render, GoLive, GoPolling, store, listVars
  <1>2. CASE UNCHANGED budget
    BY <1>1, <1>2, FeedUnmoved DEF FeedInv, FeedTyped
  <1>3. CASE Happens("switch")
    <2>1. "switch" \in Events
      BY DEF Events
    <2>2. DOMAIN budget' = Events /\ (Patient => budget'["haste"] = 0)
      BY <1>3, <2>1, BudgetStays
    <2>3. QED
      BY <1>1, <2>2, FeedUnmoved
  <1>4. QED
    BY <1>1, <1>2, <1>3 DEF Hear, Render, GoLive, GoPolling

-----------------------------------------------------------------------------
(* EntryFeed: why nothing is left out *)

\* The entries that Owed is about, whatever their place.
Timely == Selected(scope) \ overtaken
Complete(shown) == \A e \in Owed : e \in shown \/ \A n \in shown : n < e

\* What the answer of a request was to list, and what was stored since.
Window(r) == {e \in Selected(scope) : /\ r.next = Nothing \/ r.next <= e
                                      /\ r.at = Nothing \/ e < r.at}
Missing(r) == Window(r) \ r.rows

ClearedFirst == \A e \in stored \ overtaken, n \in cleared : n < e

\* One request at a time, and an older page begins where the list ends.
Single == \A r, q \in loads : r.current /\ q.current => r = q
Asked ==
    \A r \in loads :
        /\ r.at # Nothing => \A e \in r.rows : e < r.at
        /\ r.current /\ r.kind = "initial" => r.at = Nothing
        /\ r.current /\ r.kind = "more" => r.at = cursor /\ cursor # Nothing

\* What an answer on its way does not list is newer than everything it and the list do.
MissesNews(r) ==
    /\ \A e \in Missing(r) : /\ r.kind = "initial" => e \notin list
                             /\ e \in scan.known => e \in Shown
    /\ \A e \in Missing(r) \ overtaken : /\ cursor < e
                                         /\ \A n \in list : n < e
                                         /\ \A n \in r.rows : n < e
Fresh == \A r \in loads : r.current /\ r.answered => MissesNews(r)

\* A row the walk knows is still there, or the list has become shorter.
KnownKept ==
    /\ scan.known \subseteq In[scope]
    /\ \A k \in scan.known \cap stored : k \in Shown \/ (cursor # Nothing /\ k < cursor)

\* The walk has left out nothing above its cursor.
Walked ==
    scan.at # Nothing =>
        \A e \in Timely : scan.at <= e => e \in scan.got \/ \A n \in scan.got : n < e

GapInv ==
    /\ Complete(Shown) /\ Complete(list) /\ ClearedFirst
    /\ Single /\ Asked /\ Fresh /\ KnownKept /\ Walked

\* Entries are numbers, and none is Nothing.
LEMMA EntriesAreNumbers ==
    /\ \A e \in Entries : e \in Nat /\ e > 0 /\ e # Nothing
    /\ \A e \in Entries : ~(e < e)
    /\ \A e, n \in Entries : e < n \/ e = n \/ n < e
    /\ \A e, n \in Entries : ~(e < n /\ n < e)
    /\ \A e, n \in Entries : ~(e < n /\ n <= e)
  <1>1. MaxSequence \in Nat
    BY FeedAssumption
  <1>2. QED
    BY <1>1 DEF Entries, Nothing

LEMMA TypesOf ==
    ASSUME FeedInv
    PROVE  /\ stored \subseteq Entries /\ overtaken \subseteq Entries /\ cleared \subseteq Entries
           /\ list \subseteq Entries /\ pending \subseteq Entries /\ Shown \subseteq Entries
           /\ scan.known \subseteq Entries /\ scan.got \subseteq Entries
           /\ EverStored \subseteq Entries /\ Selected(scope) \subseteq stored
           /\ list \subseteq EverStored /\ pending \subseteq EverStored /\ Shown \subseteq EverStored
           /\ scan.known \subseteq EverStored /\ scan.got \subseteq EverStored
           /\ scope \in Scopes /\ cursor \in Nat /\ scan.at \in Nat
           /\ cursor # Nothing => cursor \in EverStored /\ cursor \in Entries
           /\ \A r \in loads : /\ r \in RowsRequest /\ r.rows \subseteq Entries
                               /\ r.rows \subseteq EverStored
                               /\ r.at \in Nat /\ r.next \in Nat
                               /\ r.kind \in {"initial", "more"}
  <1>1. /\ stored \subseteq Entries /\ overtaken \subseteq Entries /\ cleared \subseteq Entries
        /\ list \subseteq Entries /\ pending \subseteq Entries /\ Shown \subseteq Entries
        /\ scan.known \subseteq Entries /\ scan.got \subseteq Entries
        /\ EverStored \subseteq Entries /\ Selected(scope) \subseteq stored
        /\ scope \in Scopes /\ cursor \in Nat /\ scan.at \in Nat
    BY DEF FeedInv, FeedTyped, Shown, EverStored, Selected
  <1>2. /\ list \subseteq EverStored /\ pending \subseteq EverStored /\ Shown \subseteq EverStored
        /\ scan.known \subseteq EverStored /\ scan.got \subseteq EverStored
        /\ cursor # Nothing => cursor \in EverStored
        /\ \A r \in loads : r.rows \subseteq EverStored
    BY DEF FeedInv, Heard, Shown
  <1>3. \A r \in loads : /\ r \in RowsRequest /\ r.rows \subseteq Entries
                         /\ r.at \in Nat /\ r.next \in Nat /\ r.kind \in {"initial", "more"}
    BY DEF FeedInv, FeedTyped, RowsRequest
  <1>4. QED
    BY <1>1, <1>2, <1>3

-----------------------------------------------------------------------------
(* The steps and GapInv *)

LEMMA StoreGap ==
    ASSUME FeedInv, GapInv, NEW e \in Entries, Store(e)
    PROVE  GapInv'
  <1>1. /\ e \notin stored /\ e \notin cleared
        /\ stored' = stored \cup {e} /\ overtaken \subseteq overtaken'
        /\ UNCHANGED <<cleared, scope, list, cursor, loads, pending, scan>>
    BY DEF Store, listVars
  <1>2. e \in overtaken' \/ \A n \in EverStored : n < e
    <2>1. (\E n \in EverStored : n > e) => e \in overtaken'
      BY DEF Store, EverStored
    <2>2. ASSUME NEW n \in EverStored, ~(n > e) PROVE n < e
      <3>1. n \in Entries /\ n # e
        BY <1>1, TypesOf DEF EverStored
      <3>2. n \in Nat /\ e \in Nat
        BY <3>1, EntriesAreNumbers
      <3>3. QED
        BY <2>2, <3>1, <3>2
    <2>3. QED
      BY <2>1, <2>2
  <1>3. Shown' = Shown /\ e \notin EverStored
    BY <1>1 DEF Shown, EverStored
  <1>4. /\ Timely' \subseteq Timely \cup ({e} \ overtaken')
        /\ stored' \ overtaken' \subseteq (stored \ overtaken) \cup ({e} \ overtaken')
        /\ Owed' \subseteq Owed \cup ({e} \ overtaken')
    BY <1>1 DEF Timely, Selected, Owed
  <1>5. Complete(Shown)' /\ Complete(list)'
    <2>1. \A n \in Shown : n \in EverStored
      BY TypesOf
    <2>2. \A n \in list : n \in EverStored
      BY TypesOf
    <2>3. QED
      BY <1>1, <1>2, <1>3, <1>4, <2>1, <2>2 DEF GapInv, Complete
  <1>6. ClearedFirst'
    BY <1>1, <1>2, <1>4 DEF GapInv, ClearedFirst, EverStored
  <1>7. Single' /\ Asked'
    BY <1>1 DEF GapInv, Single, Asked
  <1>8. Fresh'
    <2> SUFFICES ASSUME NEW r \in loads, r.current, r.answered
                 PROVE  MissesNews(r)'
      BY <1>1 DEF Fresh
    <2>1. MissesNews(r)
      BY DEF GapInv, Fresh
    <2>2. Missing(r)' \subseteq Missing(r) \cup {e}
      BY <1>1 DEF Missing, Window, Selected
    <2>3. Missing(r)' \ overtaken' \subseteq (Missing(r) \ overtaken) \cup ({e} \ overtaken')
      BY <1>1, <2>2
    <2>4. /\ list \subseteq EverStored /\ scan.known \subseteq EverStored /\ r.rows \subseteq EverStored
          /\ cursor = Nothing \/ cursor \in EverStored
      BY TypesOf
    <2>5. Nothing < e
      BY EntriesAreNumbers DEF Nothing
    <2>6. \A d \in Missing(r)' : /\ r.kind = "initial" => d \notin list'
                                 /\ d \in scan'.known => d \in Shown'
      BY <1>1, <1>3, <2>1, <2>2, <2>4 DEF MissesNews
    <2>7. \A d \in Missing(r)' \ overtaken' : /\ cursor' < d
                                              /\ \A n \in list' : n < d
                                              /\ \A n \in r.rows : n < d
      BY <1>1, <1>2, <2>1, <2>3, <2>4, <2>5 DEF MissesNews
    <2>8. QED
      BY <2>6, <2>7 DEF MissesNews
  <1>9. KnownKept'
    <2>1. scan.known \subseteq EverStored
      BY TypesOf
    <2>2. QED
      BY <1>1, <1>3, <2>1 DEF GapInv, KnownKept
  <1>10. Walked'
    <2>1. scan.got \subseteq EverStored
      BY TypesOf
    <2>2. QED
      BY <1>1, <1>2, <1>4, <2>1 DEF GapInv, Walked
  <1>11. QED
    BY <1>5, <1>6, <1>7, <1>8, <1>9, <1>10 DEF GapInv

\* Requests that go, or come without an answer, leave the rest as it is.
LEMMA RequestsGap ==
    ASSUME GapInv, Single', Asked',
           UNCHANGED <<stored, overtaken, cleared, scope, list, cursor, pending, scan>>,
           \A r \in loads' : r.current /\ r.answered => r \in loads \/ Missing(r) = {}
    PROVE  GapInv'
  <1>1. Shown' = Shown /\ Owed' = Owed /\ Timely' = Timely
    BY DEF Shown, Owed, Timely, Selected
  <1>2. Complete(Shown)' /\ Complete(list)' /\ ClearedFirst' /\ KnownKept' /\ Walked'
    BY <1>1 DEF GapInv, Complete, ClearedFirst, KnownKept, Walked
  <1>3. ASSUME NEW r \in loads', r.current, r.answered
        PROVE  MissesNews(r)'
    <2>1. Missing(r)' = Missing(r)
      BY DEF Missing, Window, Selected
    <2>2. CASE r \in loads
      BY <1>1, <1>3, <2>1, <2>2 DEF GapInv, Fresh, MissesNews
    <2>3. CASE Missing(r) = {}
      BY <2>1, <2>3 DEF MissesNews
    <2>4. QED
      BY <1>3, <2>2, <2>3
  <1>4. Fresh'
    BY <1>3 DEF Fresh
  <1>5. QED
    BY <1>2, <1>4 DEF GapInv

LEMMA LoadFailsGap ==
    ASSUME FeedInv, GapInv, NEW r \in loads,
           loads' = loads \ {r},
           UNCHANGED <<stored, overtaken, cleared, scope, list, cursor, pending, scan>>
    PROVE  GapInv'
  <1>1. Single' /\ Asked'
    BY DEF GapInv, Single, Asked
  <1>2. QED
    BY <1>1, RequestsGap

LEMMA LoadMoreGap ==
    ASSUME FeedInv, GapInv, Patient, LoadMore
    PROVE  GapInv'
  <1>1. PICK m : m = Request("more", scope, cursor)
    OBVIOUS
  <1>2. /\ loads' = loads \cup {m} /\ cursor # Nothing
        /\ UNCHANGED <<stored, overtaken, cleared, scope, list, cursor, pending, scan>>
    BY <1>1 DEF LoadMore, store
  <1>3. /\ m.kind = "more" /\ m.at = cursor /\ ~m.answered /\ m.rows = {}
    BY <1>1, RequestProperties DEF FeedInv, FeedTyped
  <1>4. \A r \in loads : ~r.current
    <2>1. ~Reloading /\ ~LoadingMore
      BY ActsProperties DEF LoadMore
    <2>2. QED
      BY <2>1, TypesOf DEF Reloading, LoadingMore
  <1>5. Single'
    BY <1>2, <1>4 DEF Single
  <1>6. Asked'
    BY <1>2, <1>3 DEF GapInv, Asked
  <1>7. \A r \in loads' : r.answered => r \in loads
    BY <1>2, <1>3
  <1>8. QED
    BY <1>2, <1>5, <1>6, <1>7, RequestsGap

LEMMA AnswerGap ==
    ASSUME FeedInv, GapInv, NEW r \in loads, Answer(r)
    PROVE  GapInv'
  <1>1. PICK page : page = Page(r.scope, r.at, ListPage)
    OBVIOUS
  <1>2. PICK a : a = [r EXCEPT !.answered = TRUE, !.rows = page.rows, !.next = page.next]
    OBVIOUS
  <1>3. /\ loads' = (loads \ {r}) \cup {a}
        /\ UNCHANGED <<stored, overtaken, cleared, scope, list, cursor, pending, scan>>
    BY <1>1, <1>2 DEF Answer, store, listVars
  <1>4. r \in RowsRequest /\ r.scope \in Scopes /\ r.at \in Nat /\ stored \subseteq Entries
    BY DEF FeedInv, FeedTyped, RowsRequest
  <1>5. /\ \A e \in page.rows : r.at = Nothing \/ e < r.at
        /\ \A e \in Selected(r.scope) :
              (r.at = Nothing \/ e < r.at) /\ (page.next = Nothing \/ page.next <= e)
                 => e \in page.rows
    BY <1>1, <1>4, FeedAssumption, PageProperties
  <1>6. /\ a.kind = r.kind /\ a.at = r.at /\ a.current = r.current
        /\ a.rows = page.rows /\ a.next = page.next
    BY <1>2, <1>4 DEF RowsRequest
  <1>7. a.current => Missing(a) = {}
    <2>1. a.current => r.scope = scope
      BY <1>6 DEF FeedInv, InScope
    <2>2. QED
      BY <1>5, <1>6, <2>1 DEF Missing, Window
  <1>8. Single'
    BY <1>3, <1>6 DEF GapInv, Single
  <1>9. Asked'
    BY <1>3, <1>5, <1>6 DEF GapInv, Asked
  <1>10. \A q \in loads' : q.current => q \in loads \/ Missing(q) = {}
    BY <1>3, <1>7
  <1>11. QED
    BY <1>3, <1>8, <1>9, <1>10, RequestsGap

\* The answer of a reload: what it does not list is above it, above what is offered
\* and above the list it replaces.
LEMMA LandInitialGap ==
    ASSUME FeedInv, GapInv, NEW r \in loads, Land(r), r.current, r.kind = "initial"
    PROVE  GapInv'
  <1>1. /\ loads' = loads \ {r} /\ list' = r.rows /\ cursor' = r.next /\ r.answered
        /\ UNCHANGED <<stored, overtaken, cleared, scope, pending, scan>>
    BY DEF Land, Shows, store
  <1>2. r.at = Nothing /\ MissesNews(r)
    BY <1>1 DEF GapInv, Asked, Fresh
  <1>3. Shown' = r.rows \cup pending /\ Shown = list \cup pending
    BY <1>1 DEF Shown
  <1>4. ASSUME NEW e \in Owed', e \notin r.rows
        PROVE  /\ e \in Owed /\ e \notin list
               /\ \A n \in r.rows : n < e
    <2>1. e \in Missing(r) \ overtaken
      <3>1. /\ e \in Selected(scope) \ overtaken
            /\ r.next = Nothing \/ e >= r.next
        BY <1>1 DEF Owed, Selected
      <3>2. e \in Nat /\ r.next \in Nat
        BY <3>1, TypesOf, EntriesAreNumbers
      <3>3. QED
        BY <1>2, <1>4, <3>1, <3>2 DEF Missing, Window
    <2>2. cursor < e /\ e \notin list /\ \A n \in r.rows : n < e
      BY <1>2, <2>1 DEF MissesNews
    <2>3. e \in Selected(scope) \ overtaken /\ e \in Nat /\ cursor \in Nat
      BY <2>1, TypesOf, EntriesAreNumbers DEF Missing, Window
    <2>4. QED
      BY <2>2, <2>3 DEF Owed
  <1>5. Complete(list)'
    BY <1>1, <1>4 DEF Complete
  <1>6. Complete(Shown)'
    <2> SUFFICES ASSUME NEW e \in Owed', e \notin r.rows, e \notin pending,
                        NEW n \in r.rows \cup pending
                 PROVE  n < e
      BY <1>3 DEF Complete
    <2>1. e \in Owed /\ e \notin Shown /\ \A m \in r.rows : m < e
      BY <1>3, <1>4
    <2>2. \A m \in Shown : m < e
      BY <2>1 DEF GapInv, Complete
    <2>3. QED
      BY <1>3, <2>1, <2>2
  <1>7. ClearedFirst' /\ Walked'
    BY <1>1 DEF GapInv, ClearedFirst, Walked, Timely, Selected
  <1>8. \A q \in loads' : ~q.current
    BY <1>1 DEF GapInv, Single
  <1>9. Single' /\ Fresh'
    BY <1>8 DEF Single, Fresh
  <1>10. Asked'
    BY <1>1, <1>8 DEF GapInv, Asked
  <1>11. KnownKept'
    <2> SUFFICES ASSUME NEW k \in scan.known \cap stored, k \notin r.rows, k \notin pending
                 PROVE  r.next # Nothing /\ k < r.next
      BY <1>1, <1>3 DEF GapInv, KnownKept
    <2>1. k \in Selected(scope)
      BY DEF GapInv, KnownKept, Selected
    <2>2. k \notin Missing(r)
      BY <1>2, <1>3 DEF MissesNews
    <2>3. ~(r.next = Nothing \/ r.next <= k)
      BY <1>2, <2>1, <2>2 DEF Missing, Window
    <2>4. k \in Nat /\ r.next \in Nat
      BY TypesOf, EntriesAreNumbers
    <2>5. QED
      BY <2>3, <2>4
  <1>12. QED
    BY <1>5, <1>6, <1>7, <1>9, <1>10, <1>11 DEF GapInv

\* The answer for an older page lists everything down to the next cursor.
LEMMA LandMoreGap ==
    ASSUME FeedInv, GapInv, NEW r \in loads, Land(r), r.current, r.kind = "more"
    PROVE  GapInv'
  <1>1. /\ loads' = loads \ {r} /\ list' = list \cup r.rows /\ cursor' = r.next /\ r.answered
        /\ UNCHANGED <<stored, overtaken, cleared, scope, pending, scan>>
    BY DEF Land, Shows, store
  <1>2. /\ r.at = cursor /\ cursor # Nothing /\ MissesNews(r)
        /\ \A n \in r.rows : n < cursor
    BY <1>1 DEF GapInv, Asked, Fresh
  <1>3. Shown' = Shown \cup r.rows /\ list \subseteq Shown
    BY <1>1 DEF Shown
  <1>4. cursor \in Entries /\ cursor \in Nat /\ r.next \in Nat /\ r.rows \subseteq Entries
    BY <1>2, TypesOf
  <1>5. ASSUME NEW e \in Owed', e \notin r.rows
        PROVE  e \in Owed /\ \A n \in r.rows : n < e
    <2>1. /\ e \in Selected(scope) \ overtaken
          /\ r.next = Nothing \/ e >= r.next
      BY <1>1 DEF Owed, Selected
    <2>2. e \in Entries /\ e \in Nat
      BY <2>1, TypesOf, EntriesAreNumbers
    <2>3. ~(e < cursor)
      <3>1. SUFFICES ASSUME e < cursor PROVE FALSE
        OBVIOUS
      <3>2. e \in Missing(r) \ overtaken
        BY <1>2, <1>4, <1>5, <2>1, <2>2, <3>1 DEF Missing, Window
      <3>3. cursor < e
        BY <1>2, <3>2 DEF MissesNews
      <3>4. QED
        BY <1>4, <2>2, <3>1, <3>3
    <2>4. e \in Owed
      BY <1>4, <2>1, <2>2, <2>3 DEF Owed
    <2>5. ASSUME NEW n \in r.rows PROVE n < e
      <3>1. n \in Nat /\ n < cursor
        BY <1>2, <1>4, EntriesAreNumbers
      <3>2. QED
        BY <1>4, <2>2, <2>3, <3>1
    <2>6. QED
      BY <2>4, <2>5
  <1>6. Complete(list)' /\ Complete(Shown)'
    BY <1>1, <1>3, <1>5 DEF GapInv, Complete
  <1>7. ClearedFirst' /\ Walked'
    BY <1>1 DEF GapInv, ClearedFirst, Walked, Timely, Selected
  <1>8. \A q \in loads' : ~q.current
    BY <1>1 DEF GapInv, Single
  <1>9. Single' /\ Fresh'
    BY <1>8 DEF Single, Fresh
  <1>10. Asked'
    BY <1>1, <1>8 DEF GapInv, Asked
  <1>11. KnownKept'
    <2> SUFFICES ASSUME NEW k \in scan.known \cap stored, k \notin Shown, k \notin r.rows
                 PROVE  r.next # Nothing /\ k < r.next
      BY <1>1, <1>3 DEF GapInv, KnownKept
    <2>1. k \in Selected(scope) /\ k < cursor
      BY DEF GapInv, KnownKept, Selected
    <2>2. k \notin Missing(r)
      BY <1>2 DEF MissesNews
    <2>3. ~(r.next = Nothing \/ r.next <= k)
      BY <1>2, <2>1, <2>2 DEF Missing, Window
    <2>4. k \in Nat /\ r.next \in Nat
      BY TypesOf, EntriesAreNumbers
    <2>5. QED
      BY <2>3, <2>4
  <1>12. QED
    BY <1>6, <1>7, <1>9, <1>10, <1>11 DEF GapInv

LEMMA LandGap ==
    ASSUME FeedInv, GapInv, NEW r \in loads, Land(r)
    PROVE  GapInv'
  <1>1. r.kind \in {"initial", "more"}
    BY TypesOf
  <1>2. CASE ~r.current
    BY <1>2, LoadFailsGap DEF Land, Shows, store
  <1>3. QED
    BY <1>1, <1>2, LandInitialGap, LandMoreGap

LEMMA ReloadGap ==
    ASSUME FeedInv, GapInv, Retry \/ Cleared \/ \E s \in Scopes : ChangeFilters(s)
    PROVE  GapInv'
  <1>1. PICK s \in Scopes : /\ LoadInitial(s) /\ scope' = s
                            /\ \/ Retry /\ s = scope
                               \/ Cleared /\ s = scope
                               \/ ChangeFilters(s)
    BY TypesOf DEF Retry, Cleared, ChangeFilters
  <1>2. UNCHANGED <<stored, overtaken, cleared>>
    BY <1>1 DEF Retry, Cleared, ChangeFilters, store
  <1>3. /\ \A r \in loads' : r.current => /\ r.kind = "initial" /\ r.at = Nothing /\ ~r.answered
                                          /\ r = Request("initial", s, Nothing)
    <2>1. \A r \in loads' : r.current => r = Request("initial", s, Nothing)
      BY <1>1, LoadInitialProperties
    <2>2. /\ Request("initial", s, Nothing).kind = "initial"
          /\ Request("initial", s, Nothing).at = Nothing
          /\ ~Request("initial", s, Nothing).answered
      BY RequestProperties DEF Nothing
    <2>3. QED
      BY <2>1, <2>2
  <1>4. Single' /\ Fresh'
    BY <1>3 DEF Single, Fresh
  <1>5. Asked'
    <2>1. \A r \in Superseded : \E q \in loads : r.at = q.at /\ r.rows = q.rows
      <3>1. ASSUME NEW q \in loads, NEW r, r = [q EXCEPT !.current = FALSE]
            PROVE  r.at = q.at /\ r.rows = q.rows
        BY <3>1, TypesOf DEF RowsRequest
      <3>2. QED
        BY <3>1 DEF Superseded
    <2>2. loads' = Superseded \cup {Request("initial", s, Nothing)}
      BY <1>1 DEF LoadInitial
    <2>3. Request("initial", s, Nothing).at = Nothing
      BY RequestProperties DEF Nothing
    <2>4. \A r \in loads' : r.at # Nothing => \A e \in r.rows : e < r.at
      BY <2>1, <2>2, <2>3 DEF GapInv, Asked
    <2>5. QED
      BY <1>3, <2>4 DEF Asked
  <1>6. ClearedFirst'
    BY <1>2 DEF GapInv, ClearedFirst
  <1>7. CASE Retry /\ s = scope
    <2>1. UNCHANGED <<stored, overtaken, cleared, scope, list, cursor, pending, scan>>
      BY <1>7 DEF Retry, store
    <2>2. Shown' = Shown /\ Owed' = Owed /\ Timely' = Timely
      BY <2>1 DEF Shown, Owed, Timely, Selected
    <2>3. Complete(Shown)' /\ Complete(list)' /\ KnownKept' /\ Walked'
      BY <2>1, <2>2 DEF GapInv, Complete, KnownKept, Walked
    <2>4. QED
      BY <1>4, <1>5, <1>6, <2>3 DEF GapInv
  <1>8. CASE Cleared \/ ChangeFilters(s)
    <2>1. pending' = {} /\ scan' = NoScan
      BY <1>8 DEF Cleared, ChangeFilters, NewScope
    <2>2. KnownKept' /\ Walked'
      BY <2>1 DEF KnownKept, Walked, NoScan
    <2>3. Complete(list)'
      <3>1. CASE Cleared /\ s = scope
        <4>1. UNCHANGED <<stored, overtaken, scope, list, cursor>>
          BY <1>2, <3>1 DEF Cleared
        <4>2. Owed' = Owed
          BY <4>1 DEF Owed, Selected
        <4>3. QED
          BY <4>1, <4>2 DEF GapInv, Complete
      <3>2. CASE ChangeFilters(s)
        BY <3>2 DEF ChangeFilters, Complete
      <3>3. CASE Retry /\ s = scope
        <4>1. UNCHANGED <<stored, overtaken, scope, list, cursor>>
          BY <3>3 DEF Retry, store
        <4>2. Owed' = Owed
          BY <4>1 DEF Owed, Selected
        <4>3. QED
          BY <4>1, <4>2 DEF GapInv, Complete
      <3>4. QED
        BY <1>1, <3>1, <3>2, <3>3
    <2>4. Shown' = list'
      BY <2>1 DEF Shown
    <2>5. Complete(Shown)'
      BY <2>3, <2>4 DEF Complete
    <2>6. QED
      BY <1>4, <1>5, <1>6, <2>2, <2>3, <2>5 DEF GapInv
  <1>9. QED
    BY <1>1, <1>7, <1>8

LEMMA StartScanGap ==
    ASSUME FeedInv, GapInv, Poll \/ RunDue
    PROVE  GapInv'
  <1>1. PICK from : scan' = [at |-> Nothing, known |-> Shown, got |-> {}, from |-> from]
    BY DEF Poll, RunDue, ScanNow, StartScan
  <1>2. UNCHANGED <<stored, overtaken, cleared, scope, list, cursor, loads, pending>>
    BY DEF Poll, RunDue, store, listVars
  <1>3. scan'.at = Nothing /\ scan'.known = Shown /\ scan'.got = {}
    BY <1>1
  <1>4. Shown' = Shown /\ Owed' = Owed
    BY <1>2 DEF Shown, Owed, Selected
  <1>5. Complete(Shown)' /\ Complete(list)' /\ ClearedFirst' /\ Single' /\ Asked'
    BY <1>2, <1>4 DEF GapInv, Complete, ClearedFirst, Single, Asked
  <1>6. KnownKept'
    BY <1>2, <1>3, <1>4 DEF KnownKept, FeedInv, InScope, Shown
  <1>7. Walked'
    BY <1>3 DEF Walked
  <1>8. ASSUME NEW r \in loads, MissesNews(r) PROVE MissesNews(r)'
    <2>1. Missing(r)' = Missing(r)
      BY <1>2 DEF Missing, Window, Selected
    <2>2. QED
      BY <1>2, <1>3, <1>4, <1>8, <2>1 DEF MissesNews
  <1>9. Fresh'
    BY <1>2, <1>8 DEF GapInv, Fresh
  <1>10. QED
    BY <1>5, <1>6, <1>7, <1>9 DEF GapInv

\* A scan that ends offers everything that is owed above the row it knew; one that goes
\* on has left out nothing down to its cursor.
LEMMA ScanStepGap ==
    ASSUME FeedInv, GapInv, ScanStep
    PROVE  GapInv'
  <1>0. PICK page, known, got : ReadsPage(page, known, got)
    BY ScanStepEffect
  <1>1. UNCHANGED <<stored, overtaken, cleared, scope, list, cursor, loads>>
    BY DEF ScanStep, store, listVars
  <1>2. /\ page.rows \subseteq Selected(scope) /\ page.rows \subseteq Entries
        /\ page.next \in Nat
        /\ known = page.rows \cap scan.known
        /\ got = scan.got \cup {e \in page.rows : \A k \in known : k < e}
    BY <1>0 DEF ReadsPage
  <1>3. /\ page.next # Nothing => page.next \in page.rows
        /\ \A e \in page.rows : /\ scan.at = Nothing \/ e < scan.at
                                /\ page.next = Nothing \/ page.next <= e
        /\ \A e \in Selected(scope) :
              (scan.at = Nothing \/ e < scan.at) /\ (page.next = Nothing \/ page.next <= e)
                 => e \in page.rows
    <2>1. page = Page(scope, scan.at, ScanPage)
      BY <1>0 DEF ReadsPage
    <2>2. QED
      BY <2>1, TypesOf, FeedAssumption, PageProperties
  <1>4. got \subseteq Entries /\ scan.got \subseteq Entries /\ Shown \subseteq Entries
        /\ Timely \subseteq Selected(scope) /\ Timely \subseteq Entries /\ scan.at \in Nat
    BY <1>2, TypesOf DEF Timely
  <1>5. Owed' = Owed /\ Owed \subseteq Timely /\ Timely' = Timely
    BY <1>1 DEF Owed, Selected, Timely
  <1>6. ASSUME NEW e \in Timely, scan.at # Nothing, scan.at <= e
        PROVE  e \in got \/ \A n \in got : n < e
    <2>1. e \in scan.got \/ \A n \in scan.got : n < e
      BY <1>6 DEF GapInv, Walked
    <2>2. ASSUME NEW n \in page.rows PROVE n < e
      <3>1. n < scan.at /\ n \in Nat /\ e \in Nat
        BY <1>2, <1>3, <1>4, <1>6, EntriesAreNumbers
      <3>2. QED
        BY <1>4, <1>6, <3>1
    <2>3. QED
      BY <1>2, <2>1, <2>2
  <1>7. ASSUME NEW e \in Timely, ~(scan.at # Nothing /\ scan.at <= e), page.next # Nothing,
               ~(page.next <= e)
        PROVE  \A n \in page.rows : e < n
    <2> SUFFICES ASSUME NEW n \in page.rows PROVE e < n
      OBVIOUS
    <2>1. page.next <= n /\ n \in Nat /\ e \in Nat
      BY <1>2, <1>3, <1>4, <1>7, EntriesAreNumbers
    <2>2. QED
      BY <1>2, <1>7, <2>1
  <1>8. ASSUME NEW e \in Timely, ~(scan.at # Nothing /\ scan.at <= e),
               page.next = Nothing \/ page.next <= e
        PROVE  e \in page.rows
    <2>1. scan.at = Nothing \/ e < scan.at
      BY <1>4, <1>8, EntriesAreNumbers
    <2>2. QED
      BY <1>3, <1>4, <1>8, <2>1
  <1>9. CASE page.next = Nothing \/ known # {}
    <2>1. pending' = pending \cup (got \ Shown) /\ scan' = NoScan
      BY <1>0, <1>9 DEF ReadsPage
    <2>2. Shown' = Shown \cup got
      BY <1>1, <2>1 DEF Shown
    <2>3. ASSUME NEW e \in Owed, e \notin Shown, e \notin got
          PROVE  \A n \in got : n < e
      <3>1. e \in Timely /\ \A n \in Shown : n < e
        BY <1>5, <2>3 DEF GapInv, Complete
      <3>2. CASE scan.at # Nothing /\ scan.at <= e
        BY <1>6, <2>3, <3>1, <3>2
      <3>3. ASSUME ~(scan.at # Nothing /\ scan.at <= e) PROVE FALSE
        <4>1. PICK k \in known : ~(k < e)
          <5>1. CASE e \in page.rows
            BY <1>2, <2>3, <5>1
          <5>2. CASE e \notin page.rows
            <6>1. page.next # Nothing /\ ~(page.next <= e)
              BY <1>8, <3>1, <3>3, <5>2
            <6>2. \A n \in page.rows : e < n
              BY <1>7, <3>1, <3>3, <6>1
            <6>3. PICK k \in known : k \in page.rows
              BY <1>2, <1>9, <6>1
            <6>4. e < k /\ e \in Entries /\ k \in Entries
              BY <1>2, <1>4, <3>1, <6>2, <6>3
            <6>5. QED
              BY <6>3, <6>4, EntriesAreNumbers
          <5>3. QED
            BY <5>1, <5>2
        <4>2. k \in scan.known \cap stored /\ k \in Entries /\ e \in Entries
          BY <1>2, <1>4, <3>1, TypesOf
        <4>3. k \notin Shown
          BY <3>1, <4>1
        <4>4. cursor # Nothing /\ k < cursor
          BY <4>2, <4>3 DEF GapInv, KnownKept
        <4>5. e >= cursor
          BY <2>3, <4>4 DEF Owed
        <4>6. k \in Nat /\ e \in Nat /\ cursor \in Nat
          BY <4>2, TypesOf, EntriesAreNumbers
        <4>7. QED
          BY <4>1, <4>4, <4>5, <4>6
      <3>4. QED
        BY <3>2, <3>3
    <2>4. Complete(Shown)'
      <3> SUFFICES ASSUME NEW e \in Owed, e \notin Shown, e \notin got
                   PROVE  \A n \in Shown \cup got : n < e
        BY <1>5, <2>2 DEF Complete
      <3>1. \A n \in Shown : n < e
        BY DEF GapInv, Complete
      <3>2. QED
        BY <2>3, <3>1
    <2>5. Complete(list)' /\ ClearedFirst' /\ Single' /\ Asked'
      BY <1>1, <1>5 DEF GapInv, Complete, ClearedFirst, Single, Asked
    <2>6. KnownKept' /\ Walked'
      BY <2>1 DEF KnownKept, Walked, NoScan
    <2>7. ASSUME NEW r \in loads, MissesNews(r) PROVE MissesNews(r)'
      <3>1. Missing(r)' = Missing(r) /\ scan'.known = {}
        BY <1>1, <2>1 DEF Missing, Window, Selected, NoScan
      <3>2. QED
        BY <1>1, <2>7, <3>1 DEF MissesNews
    <2>8. Fresh'
      BY <1>1, <2>7 DEF GapInv, Fresh
    <2>9. QED
      BY <2>4, <2>5, <2>6, <2>8 DEF GapInv
  <1>10. CASE page.next # Nothing /\ known = {}
    <2>1. scan' = [scan EXCEPT !.at = page.next, !.got = got] /\ pending' = pending
      BY <1>0, <1>10 DEF ReadsPage
    <2>2. scan'.at = page.next /\ scan'.got = got /\ scan'.known = scan.known
      BY <2>1 DEF FeedInv, FeedTyped
    <2>3. Shown' = Shown
      BY <1>1, <2>1 DEF Shown
    <2>4. Complete(Shown)' /\ Complete(list)' /\ ClearedFirst' /\ Single' /\ Asked'
      BY <1>1, <1>5, <2>3 DEF GapInv, Complete, ClearedFirst, Single, Asked
    <2>5. KnownKept'
      BY <1>1, <2>2, <2>3 DEF GapInv, KnownKept
    <2>6. got = scan.got \cup page.rows
      BY <1>2, <1>10
    <2>7. ASSUME NEW e \in Timely, page.next <= e
          PROVE  e \in got \/ \A n \in got : n < e
      BY <1>6, <1>8, <2>6, <2>7
    <2>8. Walked'
      BY <1>5, <2>2, <2>7 DEF Walked
    <2>9. ASSUME NEW r \in loads, MissesNews(r) PROVE MissesNews(r)'
      <3>1. Missing(r)' = Missing(r)
        BY <1>1 DEF Missing, Window, Selected
      <3>2. QED
        BY <1>1, <2>2, <2>3, <2>9, <3>1 DEF MissesNews
    <2>10. Fresh'
      BY <1>1, <2>9 DEF GapInv, Fresh
    <2>11. QED
      BY <2>4, <2>5, <2>8, <2>10 DEF GapInv
  <1>11. QED
    BY <1>9, <1>10

\* What a scan knew and found is dropped.
LEMMA ScanFailsGap ==
    ASSUME FeedInv, GapInv, ScanFails
    PROVE  GapInv'
  <1>1. UNCHANGED <<stored, overtaken, cleared, scope, list, cursor, loads, pending>>
        /\ scan' = NoScan
    BY DEF ScanFails, store, listVars
  <1>2. Shown' = Shown /\ Owed' = Owed
    BY <1>1 DEF Shown, Owed, Selected
  <1>3. Complete(Shown)' /\ Complete(list)' /\ ClearedFirst' /\ Single' /\ Asked'
    BY <1>1, <1>2 DEF GapInv, Complete, ClearedFirst, Single, Asked
  <1>4. KnownKept' /\ Walked'
    BY <1>1 DEF KnownKept, Walked, NoScan
  <1>5. ASSUME NEW r \in loads, MissesNews(r) PROVE MissesNews(r)'
    <2>1. Missing(r)' = Missing(r) /\ scan'.known = {}
      BY <1>1 DEF Missing, Window, Selected, NoScan
    <2>2. QED
      BY <1>1, <1>5, <2>1 DEF MissesNews
  <1>6. Fresh'
    BY <1>1, <1>5 DEF GapInv, Fresh
  <1>7. QED
    BY <1>3, <1>4, <1>6 DEF GapInv

LEMMA AcceptGap ==
    ASSUME FeedInv, GapInv, Patient, Accept
    PROVE  GapInv'
  <1>1. /\ list' = Shown /\ pending' = {}
        /\ UNCHANGED <<stored, overtaken, cleared, scope, cursor, loads, scan>>
    BY DEF Accept, store, Shown
  <1>2. Shown' = Shown /\ Owed' = Owed /\ Timely' = Timely
    BY <1>1 DEF Shown, Owed, Selected, Timely
  <1>3. Complete(Shown)' /\ Complete(list)' /\ ClearedFirst' /\ Single' /\ Asked'
    BY <1>1, <1>2 DEF GapInv, Complete, ClearedFirst, Single, Asked
  <1>4. KnownKept' /\ Walked'
    BY <1>1, <1>2 DEF GapInv, KnownKept, Walked
  <1>5. ASSUME NEW r \in loads, r.current, r.answered PROVE MissesNews(r)'
    <2>1. ~Reloading
      BY ActsProperties DEF Accept
    <2>2. r.kind = "more"
      BY <1>5, <2>1, TypesOf DEF Reloading
    <2>3. r.at = cursor /\ r.at # Nothing /\ cursor \in Nat
      BY <1>5, <2>2, TypesOf DEF GapInv, Asked
    <2>4. MissesNews(r)
      BY <1>5 DEF GapInv, Fresh
    <2>5. ASSUME NEW e \in Missing(r) \ overtaken PROVE FALSE
      <3>1. e < cursor /\ cursor < e
        BY <2>3, <2>4, <2>5 DEF MissesNews, Missing, Window
      <3>2. e \in Nat
        BY TypesOf, EntriesAreNumbers DEF Missing, Window
      <3>3. QED
        BY <2>3, <3>1, <3>2
    <2>6. Missing(r)' = Missing(r) /\ overtaken' = overtaken
      BY <1>1 DEF Missing, Window, Selected
    <2>7. QED
      BY <1>1, <1>2, <2>2, <2>4, <2>5, <2>6 DEF MissesNews
  <1>6. Fresh'
    BY <1>1, <1>5 DEF Fresh
  <1>7. QED
    BY <1>3, <1>4, <1>6 DEF GapInv

\* Nothing is owed of a store that is empty.
LEMMA ClearStoreGap ==
    ASSUME FeedInv, GapInv, ClearStore
    PROVE  GapInv'
  <1>1. stored' = {} /\ UNCHANGED <<scope, list, cursor, loads, pending, scan>>
    BY DEF ClearStore, listVars
  <1>2. Selected(scope)' = {}
    BY <1>1 DEF Selected
  <1>3. Owed' = {} /\ Timely' = {} /\ \A r : Missing(r)' = {}
    BY <1>2 DEF Owed, Timely, Missing, Window
  <1>4. Complete(Shown)' /\ Complete(list)' /\ ClearedFirst'
    BY <1>1, <1>3 DEF Complete, ClearedFirst
  <1>5. Single' /\ Asked'
    BY <1>1 DEF GapInv, Single, Asked
  <1>6. KnownKept' /\ Walked'
    BY <1>1, <1>3 DEF GapInv, KnownKept, Walked
  <1>7. Fresh'
    BY <1>3 DEF Fresh, MissesNews
  <1>8. QED
    BY <1>4, <1>5, <1>6, <1>7 DEF GapInv

-----------------------------------------------------------------------------
(* EntryFeed: the theorems *)

LEMMA FeedInit == InitFeed => FeedInv /\ GapInv
  <1> SUFFICES ASSUME InitFeed PROVE FeedInv /\ GapInv
    OBVIOUS
  <1>1. /\ stored = Old /\ overtaken = {} /\ cleared = {} /\ clearing = FALSE
        /\ scope \in Scopes /\ list = {} /\ cursor = Nothing /\ failed = FALSE
        /\ loads = {Request("initial", scope, Nothing)}
        /\ pending = {} /\ scan = NoScan /\ budget \in Budgets
    BY DEF InitFeed
  <1>2. PICK i : i = Request("initial", scope, Nothing)
    OBVIOUS
  <1>3. /\ i \in RowsRequest /\ i.kind = "initial" /\ i.scope = scope /\ i.at = Nothing
        /\ i.current /\ ~i.answered /\ i.rows = {} /\ i.next = Nothing
    BY <1>1, <1>2, RequestProperties DEF Nothing
  <1>4. loads = {i}
    BY <1>1, <1>2
  <1>5. Old \subseteq Entries /\ Budgets \subseteq [Events -> Nat]
    BY FeedAssumption
  <1>6. DOMAIN budget = Events /\ (Patient => budget["haste"] = 0)
    BY <1>1, <1>5 DEF Patient
  <1>7. FeedTyped
    BY <1>1, <1>3, <1>4, <1>5, <1>6 DEF FeedTyped, NoScan, Nothing
  <1>8. Heard /\ InScope /\ Uncleared
    BY <1>1, <1>3, <1>4 DEF Heard, InScope, Uncleared, NoScan
  <1>9. Complete(Shown) /\ Complete(list) /\ ClearedFirst /\ KnownKept /\ Walked
    BY <1>1 DEF Complete, Shown, ClearedFirst, KnownKept, Walked, NoScan
  <1>10. Single /\ Asked /\ Fresh
    BY <1>3, <1>4 DEF Single, Asked, Fresh
  <1>11. QED
    BY <1>7, <1>8, <1>9, <1>10 DEF FeedInv, GapInv

LEMMA FeedNext == FeedInv /\ [NextFeed]_feedVars => FeedInv'
  <1>1. ASSUME FeedInv, UNCHANGED feedVars PROVE FeedInv'
    <2>1. UNCHANGED <<stored, overtaken, cleared, clearing, scope, list, cursor, failed,
                      loads, pending, scan, budget>>
      BY <1>1 DEF feedVars, store, listVars
    <2>2. QED
      BY <1>1, <2>1, FeedUnmoved DEF FeedInv, FeedTyped
  <1>2. ASSUME FeedInv, NextFeed PROVE FeedInv'
    BY <1>2, StoreFeed, LoadMoreFeed, ReloadStepsFeed, AnswerFeed, LandFeed, LoadFailsFeed,
       StartScanFeed, ScanStepFeed, ScanFailsFeed, AcceptFeed, ClearStoreFeed, StreamFeed
       DEF NextFeed
  <1>3. QED
    BY <1>1, <1>2

LEMMA GapNext == FeedInv /\ GapInv /\ Patient /\ [NextFeed]_feedVars => GapInv'
  <1>1. ASSUME GapInv,
               UNCHANGED <<stored, overtaken, cleared, scope, list, cursor, loads, pending, scan>>
        PROVE  GapInv'
    <2>1. Single' /\ Asked'
      BY <1>1 DEF GapInv, Single, Asked
    <2>2. QED
      BY <1>1, <2>1, RequestsGap
  <1>2. ASSUME GapInv, UNCHANGED feedVars PROVE GapInv'
    BY <1>1, <1>2 DEF feedVars, store, listVars
  <1>3. ASSUME FeedInv, GapInv, Hear \/ Render \/ GoLive \/ GoPolling PROVE GapInv'
    BY <1>1, <1>3, StreamFeed
  <1>4. ASSUME FeedInv, GapInv, NEW r \in loads, LoadFails(r) PROVE GapInv'
    BY <1>4, LoadFailsGap DEF LoadFails, store
  <1>5. ASSUME FeedInv, GapInv, Patient, NextFeed PROVE GapInv'
    BY <1>3, <1>4, <1>5, StoreGap, LoadMoreGap, ReloadGap, AnswerGap, LandGap,
       StartScanGap, ScanStepGap, ScanFailsGap, AcceptGap, ClearStoreGap DEF NextFeed
  <1>6. QED
    BY <1>2, <1>5

\* Requests, scans and lists hold entries that were stored, of the scope they are for,
\* whatever overlaps.
THEOREM FeedInvariant == FeedSpec => []FeedInv
  BY FeedInit, FeedNext, PTL DEF FeedSpec

\* "N new entries" and the rows of a page are of its filters, and what was cleared is
\* gone once the list has been reloaded: no late answer, scan or offer brings it back.
THEOREM FeedNothingStale == FeedSpec => []NothingStale
  <1>1. FeedInv => NothingStale
    <2> SUFFICES ASSUME FeedInv PROVE NothingStale
      OBVIOUS
    <2>1. Shown \subseteq In[scope]
      BY DEF FeedInv, InScope, Shown
    <2>2. Reloading \/ failed \/ clearing \/ Shown \cap cleared = {}
      BY DEF FeedInv, Uncleared, Shown
    <2>3. QED
      BY <2>1, <2>2 DEF NothingStale
  <1>2. QED
    BY <1>1, FeedInvariant, PTL

\* Between the last row and the newest entry nothing is left out, however pages, scans,
\* reloads and clearing overlap, as long as no one acts on a list that is being reloaded.
THEOREM FeedGapless == ASSUME Patient PROVE FeedSpec => []Gapless
  <1>1. GapInv => Gapless
    BY DEF GapInv, Complete, Gapless
  <1>2. FeedInv /\ GapInv /\ [NextFeed]_feedVars => GapInv'
    BY GapNext
  <1>3. FeedSpec => []GapInv
    BY <1>2, FeedInit, FeedInvariant, PTL DEF FeedSpec
  <1>4. QED
    BY <1>1, <1>3, PTL
=============================================================================
