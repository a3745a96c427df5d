------------------------ MODULE DatabaseStoreProofs ------------------------
(***************************************************************************)
(* Proofs about DatabaseStore for every table, every sequence of calls and *)
(* every bound.                                                            *)
(*                                                                         *)
(* PortIsKept: the drain implements the contract of save() that may hide a *)
(* loss.  A call in the backlog or in the drain is still unanswered and is *)
(* in one place only, so that nothing is answered twice.                   *)
(*                                                                         *)
(* LossesAreCounted: the counters cover every call that was told success   *)
(* and whose rows never landed.                                            *)
(*                                                                         *)
(* TrimsKeepNewest: whatever other processes do between the steps of       *)
(* trim(), it removes the oldest rows, and in one transaction all of them  *)
(* down to the cap.                                                        *)
(*                                                                         *)
(* And about MemoryStore, for any calls of save(), any ceiling, any        *)
(* queries and any size of a page.                                         *)
(*                                                                         *)
(* MemoryIndexesAgree: no two entries have the same uuid, and the indexes  *)
(* by tag and by batch are exactly of the entries there are.               *)
(*                                                                         *)
(* MemoryWalkComplete: a walk over the pages that came to its end was      *)
(* given all that was there ever since it began, and none of it twice:     *)
(* what was given is behind the cursor, what is owed was given or is       *)
(* before it, and neither changes side but a family that recurs.           *)
(***************************************************************************)
EXTENDS DatabaseStore, MemoryStore, StoreLemmas

Busy == drain \in {"writing", "delay"}

Typed ==
    /\ file \subseteq Keys \cup ForeignKeys
    /\ queue \in Seq(Saves)
    /\ drain \in {"none", "writing", "delay", "returned"}
    /\ dropped \in Nat /\ failed \in Nat
    /\ alive \in BOOLEAN
    /\ trim \in {"idle", "hinted", "bounded"}
    /\ trim = "bounded" => boundary \in Nat
    /\ answer \in [Saves -> {"unsent", "waiting", "resolved", "gone"}]
    /\ rows \in [Saves -> SUBSET Keys]
    /\ landed \subseteq Saves

\* A call waits in one place of the backlog or in the drain.
OnePlace ==
    /\ Distinct(queue)
    /\ Busy => active \in Saves \ Elems(queue)
    /\ alive => \A s \in Elems(queue) : answer[s] = "waiting"
    /\ alive /\ Busy => answer[active] = "waiting"

DInv == Typed /\ OnePlace

-----------------------------------------------------------------------------
(* The backlog *)

\* What the drain takes leaves the backlog.
LEMMA TakeEffect ==
    ASSUME NEW q \in Seq(Saves), Distinct(q), Take(q)
    PROVE  /\ queue' \in Seq(Saves) /\ Distinct(queue')
           /\ Elems(queue') \subseteq Elems(q)
           /\ drain' \in {"writing", "returned"}
           /\ drain' = "writing" => active' \in Elems(q) \ Elems(queue')
           /\ drain' = "writing" => active' \in Saves
  <1>1. CASE q = <<>>
    BY <1>1 DEF Take
  <1>2. CASE q # <<>>
    <2>1. /\ Head(q) \in Elems(q) /\ Head(q) \in Saves
          /\ Tail(q) \in Seq(Saves) /\ Distinct(Tail(q))
          /\ Elems(Tail(q)) = Elems(q) \ {Head(q)}
      BY <1>2, ShiftProperties
    <2>2. queue' = Tail(q) /\ drain' = "writing" /\ active' = Head(q)
      BY <1>2 DEF Take
    <2>3. QED
      BY <2>1, <2>2
  <1>3. QED
    BY <1>1, <1>2

-----------------------------------------------------------------------------
(* Every step keeps the calls in one place and is one of the contract's *)

Step == DInv' /\ [Port!Next]_(Port!vars)

LEMMA SaveStep ==
    ASSUME DInv, NEW s \in Saves, Save(s)
    PROVE  Step
  <1> USE DatabaseAssumption
  <1> DEFINE kept == IF Full THEN Tail(queue) ELSE queue
             out == IF Full THEN {Head(queue)} ELSE {}
             pushed == Append(kept, s)
  <1>1. /\ alive /\ alive' /\ answer[s] = "unsent"
        /\ queue \in Seq(Saves) /\ Distinct(queue)
        /\ answer \in [Saves -> {"unsent", "waiting", "resolved", "gone"}]
        /\ \A u \in Elems(queue) : answer[u] = "waiting"
        /\ s \notin Elems(queue)
    BY DEF Save, DInv, Typed, OnePlace
  <1>2. Full => queue # <<>>
    <2>1. Len(<<>>) = 0
      BY EmptySeq
    <2>2. QED
      BY <2>1 DEF Full
  <1>3. /\ out \subseteq Elems(queue) /\ out \subseteq Saves
        /\ kept \in Seq(Saves) /\ Distinct(kept)
        /\ Elems(kept) = Elems(queue) \ out
    BY <1>1, <1>2, ShiftProperties
  <1>4. /\ pushed \in Seq(Saves) /\ Distinct(pushed)
        /\ Elems(pushed) = (Elems(queue) \ out) \cup {s}
    <2>1. s \in Saves \ Elems(kept) /\ kept \in Seq(Saves) /\ Distinct(kept)
      BY <1>1, <1>3
    <2> HIDE DEF kept
    <2>2. /\ pushed \in Seq(Saves) /\ Distinct(pushed)
          /\ Elems(pushed) = Elems(kept) \cup {s}
      BY <2>1, PushProperties
    <2>3. QED
      BY <1>3, <2>2
  <1>5. /\ answer' = [u \in Saves |-> IF u = s THEN "waiting"
                                      ELSE IF u \in out THEN "resolved" ELSE answer[u]]
        /\ rows' = [rows EXCEPT ![s] = Payload[s]]
        /\ dropped' \in Nat
        /\ UNCHANGED <<file, failed, trim, boundary, landed>>
    <2>1. CASE Full
      <3>1. answer' = [[answer EXCEPT ![Head(queue)] = "resolved"] EXCEPT ![s] = "waiting"]
        BY <2>1 DEF Save
      <3>2. out = {Head(queue)}
        BY <2>1
      <3>3. answer' = [u \in Saves |-> IF u = s THEN "waiting"
                                       ELSE IF u \in out THEN "resolved" ELSE answer[u]]
        BY <1>1, <1>3, <3>1, <3>2
      <3>4. dropped' = dropped + 1
        BY <2>1 DEF Save, DroppedOne
      <3>5. dropped' \in Nat
        BY <3>4 DEF DInv, Typed
      <3>6. rows' = [rows EXCEPT ![s] = Payload[s]]
            /\ UNCHANGED <<file, failed, trim, boundary, landed>>
        BY DEF Save, trimming
      <3>7. QED
        BY <3>3, <3>5, <3>6
    <2>2. CASE ~Full
      BY <1>1, <2>2 DEF Save, DInv, Typed, trimming
    <2>3. QED
      BY <2>1, <2>2
  <1>6. /\ queue' \in Seq(Saves) /\ Distinct(queue')
        /\ Elems(queue') \subseteq Elems(pushed)
        /\ drain' \in {"none", "writing", "delay", "returned"}
        /\ Busy' => \/ active' \in Elems(pushed) \ Elems(queue')
                    \/ /\ Busy /\ active' = active
                       /\ active \in Saves \ Elems(queue) /\ answer[active] = "waiting"
    <2>1. CASE drain = "none"
      <3>1. Take(pushed)
        BY <2>1 DEF Save
      <3> HIDE DEF pushed
      <3>2. QED
        BY <1>4, <3>1, TakeEffect DEF Busy
    <2>2. CASE drain # "none"
      <3>1. queue' = pushed /\ UNCHANGED <<active, drain>>
        BY <2>2 DEF Save
      <3> HIDE DEF pushed
      <3>2. QED
        BY <1>1, <1>4, <3>1 DEF Busy, DInv, Typed, OnePlace
    <2>3. QED
      BY <2>1, <2>2
  <1> HIDE DEF kept, out, pushed
  <1>7. rows' \in [Saves -> SUBSET Keys] /\ Payload[s] \in SUBSET Keys
    <2>1. Payload[s] \in SUBSET Keys
      BY ElementOfSeq, LenProperties DEF Saves
    <2>2. QED
      BY <1>5, <2>1 DEF DInv, Typed
  <1>8. Typed'
    BY <1>1, <1>5, <1>6, <1>7 DEF DInv, Typed
  <1>9. \A u \in Elems(pushed) : u \in Saves /\ answer'[u] = "waiting"
    BY <1>1, <1>3, <1>4, <1>5 DEF Elems
  <1>10. OnePlace'
    <2>1. ASSUME Busy' PROVE active' \in Saves \ Elems(queue') /\ answer'[active'] = "waiting"
      <3>1. CASE active' \in Elems(pushed) \ Elems(queue')
        BY <1>9, <3>1
      <3>2. CASE /\ active' = active
                 /\ active \in Saves \ Elems(queue) /\ answer[active] = "waiting"
        BY <1>1, <1>3, <1>4, <1>5, <1>6, <3>2
      <3>3. QED
        BY <1>6, <2>1, <3>1, <3>2
    <2>2. QED
      BY <1>6, <1>9, <2>1 DEF OnePlace
  <1>11. Port!Submit(s, Payload[s], out)
    <2>1. [Port!Told(out, Port!Refusal) EXCEPT ![s] = "waiting"]
            = [u \in Saves |-> IF u = s THEN "waiting"
                               ELSE IF u \in out THEN "resolved" ELSE answer[u]]
      BY DEF Port!Told, Port!Refusal
    <2>2. QED
      BY <1>1, <1>5, <2>1 DEF Port!Submit
  <1>12. out \subseteq Port!Waiting
    BY <1>1, <1>3 DEF Port!Waiting
  <1>13. QED
    BY <1>7, <1>8, <1>10, <1>11, <1>12 DEF Step, DInv, Port!Next

\* The call in the drain is answered and the next one taken.
LEMMA AnswerEffect ==
    ASSUME DInv, alive, Busy, answer' = Answered, Take(queue)
    PROVE  /\ queue' \in Seq(Saves) /\ drain' \in {"writing", "returned"}
           /\ answer' \in [Saves -> {"unsent", "waiting", "resolved", "gone"}]
           /\ answer' = Port!Told({active}, "resolved")
           /\ OnePlace'
  <1>1. /\ queue \in Seq(Saves) /\ Distinct(queue)
        /\ active \in Saves \ Elems(queue)
        /\ answer \in [Saves -> {"unsent", "waiting", "resolved", "gone"}]
        /\ \A u \in Elems(queue) : answer[u] = "waiting"
    BY DEF DInv, Typed, OnePlace
  <1>2. answer' = [u \in Saves |-> IF u = active THEN "resolved" ELSE answer[u]]
    BY <1>1 DEF Answered
  <1>3. \A u \in Elems(queue) : u \in Saves
    BY <1>1 DEF Elems
  <1>4. \A u \in Elems(queue) : answer'[u] = "waiting"
    BY <1>1, <1>2, <1>3
  <1>5. /\ queue' \in Seq(Saves) /\ Distinct(queue')
        /\ Elems(queue') \subseteq Elems(queue)
        /\ drain' \in {"writing", "returned"}
        /\ drain' = "writing" => active' \in Elems(queue) \ Elems(queue')
    BY <1>1, TakeEffect
  <1>6. OnePlace'
    BY <1>3, <1>4, <1>5 DEF OnePlace, Busy
  <1>7. Port!Told({active}, "resolved") = answer'
    BY <1>2 DEF Port!Told
  <1>8. QED
    BY <1>1, <1>2, <1>5, <1>6, <1>7

\* What the drain writes is this process's own, and lands together.
LEMMA LandEffect ==
    ASSUME DInv, active \in Saves, file' = file \cup rows[active]
    PROVE  /\ file' \subseteq Keys \cup ForeignKeys
           /\ file' \ ForeignKeys = (file \ ForeignKeys) \cup Port!RowsOf({active})
  <1>1. rows[active] \subseteq Keys /\ Keys \cap ForeignKeys = {}
    BY DatabaseAssumption DEF DInv, Typed
  <1>2. Port!RowsOf({active}) = rows[active]
    BY DEF Port!RowsOf
  <1>3. QED
    BY <1>1, <1>2 DEF DInv, Typed

LEMMA CommitsStep ==
    ASSUME DInv, Commits
    PROVE  Step
  <1>1. /\ alive /\ alive' /\ Busy /\ active \in Saves /\ answer[active] = "waiting"
        /\ answer' = Answered /\ Take(queue)
        /\ file' = file \cup rows[active] /\ landed' = landed \cup {active}
        /\ UNCHANGED <<dropped, failed, trim, boundary, rows>>
    BY DEF Commits, DInv, OnePlace, Busy, trimming
  <1>2. /\ queue' \in Seq(Saves) /\ drain' \in {"writing", "returned"}
        /\ answer' \in [Saves -> {"unsent", "waiting", "resolved", "gone"}]
        /\ answer' = Port!Told({active}, "resolved")
        /\ OnePlace'
    BY <1>1, AnswerEffect
  <1>3. /\ file' \subseteq Keys \cup ForeignKeys
        /\ file' \ ForeignKeys = (file \ ForeignKeys) \cup Port!RowsOf({active})
    BY <1>1, LandEffect
  <1>4. Typed'
    BY <1>1, <1>2, <1>3 DEF DInv, Typed
  <1>5. Port!Commit({active})
    BY <1>1, <1>2, <1>3 DEF Port!Commit
  <1>6. {active} \subseteq Port!Waiting
    BY <1>1 DEF Port!Waiting
  <1>7. QED
    BY <1>2, <1>4, <1>5, <1>6 DEF Step, DInv, Port!Next

LEMMA ErrsStep ==
    ASSUME DInv, Errs
    PROVE  Step
  <1> DEFINE Lands == /\ file' = file \cup rows[active]
                      /\ landed' = landed \cup {active}
             Retried == /\ drain' = "delay" /\ failed' = failed
                        /\ UNCHANGED <<queue, active, answer>>
             GivenUp == /\ failed' = failed + 1
                        /\ answer' = Answered /\ Take(queue)
  <1>1. /\ alive /\ alive' /\ Busy /\ active \in Saves /\ answer[active] = "waiting"
        /\ UNCHANGED <<dropped, trim, boundary, rows>>
    BY DEF Errs, DInv, OnePlace, Busy, trimming
  <1>2. Lands \/ UNCHANGED <<file, landed>>
    BY DEF Errs
  <1>3. Retried \/ GivenUp
    BY DEF Errs
  <1>4. /\ file' \subseteq Keys \cup ForeignKeys /\ landed' \subseteq Saves
        /\ \/ file' \ ForeignKeys = (file \ ForeignKeys) \cup Port!RowsOf({active})
           \/ UNCHANGED (file \ ForeignKeys)
    <2>1. CASE Lands
      BY <1>1, <2>1, LandEffect DEF DInv, Typed
    <2>2. CASE UNCHANGED <<file, landed>>
      BY <2>2 DEF DInv, Typed
    <2>3. QED
      BY <1>2, <2>1, <2>2
  <1>5. {active} \subseteq Port!Waiting
    BY <1>1 DEF Port!Waiting
  <1>6. CASE Retried
    <2>1. Typed'
      BY <1>1, <1>4, <1>6 DEF DInv, Typed
    <2>2. OnePlace'
      BY <1>1, <1>6 DEF DInv, OnePlace, Busy
    <2>3. Port!Land({active}) \/ UNCHANGED Port!vars
      BY <1>1, <1>4, <1>6 DEF Port!Land, Port!vars
    <2>4. QED
      BY <1>5, <2>1, <2>2, <2>3 DEF Step, DInv, Port!Next
  <1>7. CASE GivenUp
    <2>1. /\ queue' \in Seq(Saves) /\ drain' \in {"writing", "returned"}
          /\ answer' \in [Saves -> {"unsent", "waiting", "resolved", "gone"}]
          /\ answer' = Port!Told({active}, "resolved")
          /\ OnePlace'
      BY <1>1, <1>7, AnswerEffect
    <2>2. failed' \in Nat
      BY <1>7 DEF DInv, Typed
    <2>3. Typed'
      BY <1>1, <1>4, <2>1, <2>2 DEF DInv, Typed
    <2>4. Port!Commit({active}) \/ Port!GiveUp({active})
      BY <1>1, <1>4, <2>1 DEF Port!Commit, Port!GiveUp, Port!Refusal
    <2>5. QED
      BY <1>5, <2>1, <2>3, <2>4 DEF Step, DInv, Port!Next
  <1>8. QED
    BY <1>3, <1>6, <1>7

\* The rest of the drain and of close(): nothing is answered or written.
LEMMA RestStep ==
    ASSUME DInv, Retries \/ DrainEnds \/ Close
    PROVE  Step
  <1>1. /\ alive /\ alive'
        /\ UNCHANGED <<file, dropped, failed, trim, boundary, answer, rows, landed>>
    BY DEF Retries, DrainEnds, Close, counters, trimming, calls
  <1>2. /\ queue \in Seq(Saves) /\ Distinct(queue)
        /\ \A u \in Elems(queue) : u \in Saves /\ answer[u] = "waiting"
    BY <1>1 DEF DInv, Typed, OnePlace, Elems
  <1>3. /\ queue' \in Seq(Saves) /\ Distinct(queue')
        /\ Elems(queue') \subseteq Elems(queue)
        /\ drain' \in {"none", "writing", "delay", "returned"}
        /\ Busy' => \/ active' \in Elems(queue) \ Elems(queue')
                    \/ Busy /\ active' = active /\ queue' = queue
    <2>1. CASE Take(queue)
      BY <1>2, <2>1, TakeEffect DEF Busy
    <2>2. CASE ~Take(queue)
      BY <2>2 DEF Retries, DrainEnds, Close, Again, draining, DInv, Typed, OnePlace, Busy
    <2>3. QED
      BY <2>1, <2>2
  <1>4. Typed'
    BY <1>1, <1>3 DEF DInv, Typed
  <1>5. OnePlace'
    <2>1. \A u \in Elems(queue') : answer'[u] = "waiting"
      BY <1>1, <1>2, <1>3
    <2>2. Busy' => active' \in Saves \ Elems(queue') /\ answer'[active'] = "waiting"
      BY <1>1, <1>2, <1>3 DEF DInv, OnePlace
    <2>3. QED
      BY <1>3, <2>1, <2>2 DEF OnePlace
  <1>6. UNCHANGED Port!vars
    BY <1>1 DEF Port!vars
  <1>7. QED
    BY <1>4, <1>5, <1>6 DEF Step, DInv

LEMMA ExitStep ==
    ASSUME DInv, Exit
    PROVE  Step
  <1>1. /\ ~alive'
        /\ answer' = [s \in Saves |-> IF s \in Waiting THEN "gone" ELSE answer[s]]
        /\ UNCHANGED <<file, queue, active, drain, dropped, failed, trim, boundary,
                       rows, landed>>
    BY DEF Exit, draining, counters, trimming
  <1>2. Typed'
    <2>1. answer' \in [Saves -> {"unsent", "waiting", "resolved", "gone"}]
      BY <1>1 DEF DInv, Typed
    <2>2. alive' \in BOOLEAN
      BY DEF Exit
    <2>3. /\ file' \subseteq Keys \cup ForeignKeys /\ queue' \in Seq(Saves)
          /\ drain' \in {"none", "writing", "delay", "returned"}
          /\ dropped' \in Nat /\ failed' \in Nat
          /\ trim' \in {"idle", "hinted", "bounded"}
          /\ trim' = "bounded" => boundary' \in Nat
          /\ rows' \in [Saves -> SUBSET Keys] /\ landed' \subseteq Saves
      BY <1>1 DEF DInv, Typed
    <2>4. QED
      BY <2>1, <2>2, <2>3 DEF Typed
  <1>3. OnePlace'
    BY <1>1 DEF DInv, OnePlace, Busy
  <1>4. Port!Vanish(Waiting) /\ Waiting \subseteq Port!Waiting
    BY <1>1 DEF Port!Vanish, Port!Told, Port!Waiting, Waiting
  <1>5. QED
    BY <1>2, <1>3, <1>4 DEF Step, DInv, Port!Next

\* The steps that touch the table only.
TableStep ==
    \/ TrimHinted \/ TrimTransaction \/ TrimReads \/ TrimDeletes
    \/ \E doomed \in SUBSET file : Delete(doomed)
    \/ \E k \in ForeignKeys : ForeignSave(k)

LEMMA TableSteps ==
    ASSUME DInv, TableStep
    PROVE  Step
  <1>1. UNCHANGED <<draining, counters, alive, calls>>
    BY DEF TableStep, TrimHinted, TrimTransaction, TrimReads, TrimDeletes, Delete,
           ForeignSave
  <1>2. UNCHANGED <<queue, active, drain, dropped, failed, alive, answer, rows, landed>>
    BY <1>1 DEF draining, counters, calls
  <1>3. file' \subseteq file \/ \E k \in ForeignKeys : file' = file \cup {k}
    BY DEF TableStep, TrimHinted, TrimTransaction, TrimReads, TrimDeletes, Delete,
           ForeignSave
  <1>4. /\ trim' \in {"idle", "hinted", "bounded"}
        /\ trim' = "bounded" => boundary' \in Nat
    <2>1. CapthNewest \subseteq Nat
      BY DatabaseAssumption DEF CapthNewest, DInv, Typed
    <2>2. QED
      BY <2>1 DEF TableStep, TrimHinted, TrimTransaction, TrimReads, TrimDeletes,
                  Delete, ForeignSave, TrimIdles, trimming, DInv, Typed
  <1>5. file' \subseteq Keys \cup ForeignKeys
    BY <1>3 DEF DInv, Typed
  <1>6. Typed'
    <2>1. /\ queue' \in Seq(Saves)
          /\ drain' \in {"none", "writing", "delay", "returned"}
          /\ dropped' \in Nat /\ failed' \in Nat /\ alive' \in BOOLEAN
      BY <1>2 DEF DInv, Typed
    <2>2. /\ answer' \in [Saves -> {"unsent", "waiting", "resolved", "gone"}]
          /\ rows' \in [Saves -> SUBSET Keys] /\ landed' \subseteq Saves
      BY <1>2 DEF DInv, Typed
    <2>3. QED
      BY <1>4, <1>5, <2>1, <2>2 DEF Typed
  <1>7. OnePlace'
    BY <1>2 DEF DInv, OnePlace, Busy
  <1>8. Port!Delete
    BY <1>2, <1>3 DEF Port!Delete
  <1>9. QED
    BY <1>6, <1>7, <1>8 DEF Step, DInv, Port!Next

LEMMA InitStep == Init => DInv /\ Port!Init
  <1>1. ASSUME Init PROVE DInv
    <2>1. <<>> \in Seq(Saves) /\ Len(<<>>) = 0 /\ 1..0 = {}
      BY EmptySeq
    <2>2. Elems(<<>>) = {} /\ Distinct(<<>>)
      BY <2>1 DEF Elems, Distinct
    <2>3. QED
      BY <1>1, <2>1, <2>2 DEF Init, DInv, Typed, OnePlace, Busy
  <1>2. ASSUME Init PROVE Port!Init
    BY <1>2 DEF Init, Port!Init
  <1>3. QED
    BY <1>1, <1>2

LEMMA NextStep ==
    ASSUME DInv, [Next]_vars
    PROVE  Step
  <1>1. CASE UNCHANGED vars
    <2>1. UNCHANGED <<file, queue, active, drain, dropped, failed, alive, trim, boundary,
                      answer, rows, landed>>
      BY <1>1 DEF vars, draining, counters, trimming, calls
    <2>2. Typed'
      BY <2>1 DEF DInv, Typed
    <2>3. OnePlace'
      BY <2>1 DEF DInv, OnePlace, Busy
    <2>4. UNCHANGED Port!vars
      BY <2>1 DEF Port!vars
    <2>5. QED
      BY <2>2, <2>3, <2>4 DEF Step, DInv
  <1>2. CASE Next
    BY <1>2, SaveStep, CommitsStep, ErrsStep, RestStep, ExitStep, TableSteps
    DEF Next, TableStep
  <1>3. QED
    BY <1>1, <1>2

\* Each save() of the database driver is answered once, and its rows land
\* together, before its answer, with it or never.
THEOREM PortIsKept == Spec => HidingPort
  <1>1. DInv /\ [Next]_vars => DInv' /\ [Port!Next]_(Port!vars)
    BY NextStep DEF Step
  <1>2. QED
    BY <1>1, InitStep, PTL DEF Spec, HidingPort, Port!Spec

-----------------------------------------------------------------------------
(* The counters cover the losses *)

Unlanded == {s \in Saves : answer[s] = "resolved"} \ landed

LEMMA SavesFinite == IsFiniteSet(Saves)
  <1>1. Len(Payload) \in Nat /\ Saves = 1..Len(Payload)
    BY DatabaseAssumption, LenProperties DEF Saves
  <1>2. QED
    BY <1>1, FS_Interval

\* A step loses at most the call it counts.
LEMMA CountKept ==
    ASSUME DInv, DInv', EveryLossCounted,
           \/ Unlanded' \subseteq Unlanded /\ UNCHANGED <<dropped, failed>>
           \/ \E u : /\ Unlanded' \subseteq Unlanded \cup {u}
                     /\ dropped' + failed' = dropped + failed + 1
    PROVE  EveryLossCounted'
  <1>1. IsFiniteSet(Unlanded)
    <2>1. Unlanded \subseteq Saves
      BY DEF Unlanded
    <2>2. QED
      BY <2>1, SavesFinite, FS_Subset
  <1>2. /\ Cardinality(Unlanded) <= dropped + failed
        /\ Cardinality(Unlanded) \in Nat /\ dropped \in Nat /\ failed \in Nat
    BY <1>1, FS_CardinalityType DEF EveryLossCounted, Unlanded, DInv, Typed
  <1>3. CASE Unlanded' \subseteq Unlanded /\ UNCHANGED <<dropped, failed>>
    <2>1. Cardinality(Unlanded') <= Cardinality(Unlanded) /\ Cardinality(Unlanded') \in Nat
      BY <1>1, <1>3, FS_Subset, FS_CardinalityType
    <2>2. Cardinality(Unlanded') <= dropped' + failed'
      BY <1>2, <1>3, <2>1
    <2>3. QED
      BY <2>2 DEF EveryLossCounted, Unlanded
  <1>4. ASSUME NEW u, Unlanded' \subseteq Unlanded \cup {u},
               dropped' + failed' = dropped + failed + 1
        PROVE  EveryLossCounted'
    <2>1. /\ IsFiniteSet(Unlanded \cup {u})
          /\ Cardinality(Unlanded \cup {u}) <= Cardinality(Unlanded) + 1
          /\ Cardinality(Unlanded \cup {u}) \in Nat
      BY <1>1, <1>2, FS_AddElement, FS_CardinalityType
    <2>2. /\ Cardinality(Unlanded') <= Cardinality(Unlanded \cup {u})
          /\ Cardinality(Unlanded') \in Nat
      BY <1>4, <2>1, FS_Subset, FS_CardinalityType
    <2>3. Cardinality(Unlanded') <= dropped' + failed'
      BY <1>2, <1>4, <2>1, <2>2
    <2>4. QED
      BY <2>3 DEF EveryLossCounted, Unlanded
  <1>5. QED
    BY <1>3, <1>4

LEMMA CountStep ==
    ASSUME DInv, DInv', EveryLossCounted, [Next]_vars
    PROVE  EveryLossCounted'
  <1>0. /\ answer \in [Saves -> {"unsent", "waiting", "resolved", "gone"}]
        /\ dropped \in Nat /\ failed \in Nat
    BY DEF DInv, Typed
  <1> DEFINE Kept == Unlanded' \subseteq Unlanded /\ UNCHANGED <<dropped, failed>>
             Counted == \E u : /\ Unlanded' \subseteq Unlanded \cup {u}
                               /\ dropped' + failed' = dropped + failed + 1
  <1> SUFFICES Kept \/ Counted
    BY CountKept
  <1>1. ASSUME NEW s \in Saves, Save(s) PROVE Kept \/ Counted
    <2>1. landed' = landed /\ failed' = failed
      BY <1>1 DEF Save
    <2>2. CASE Full
      <3>1. answer' = [[answer EXCEPT ![Head(queue)] = "resolved"] EXCEPT ![s] = "waiting"]
        BY <1>1, <2>2 DEF Save
      <3>2. dropped' = dropped + 1
        BY <1>1, <2>2 DEF Save, DroppedOne
      <3>3. \A u \in Saves : answer'[u] = "resolved" => u = Head(queue) \/ answer[u] = "resolved"
        BY <1>0, <3>1
      <3>4. Unlanded' \subseteq Unlanded \cup {Head(queue)}
        BY <2>1, <3>3 DEF Unlanded
      <3>5. dropped' + failed' = dropped + failed + 1
        BY <1>0, <2>1, <3>2
      <3>6. QED
        BY <3>4, <3>5
    <2>3. CASE ~Full
      <3>1. answer' = [answer EXCEPT ![s] = "waiting"] /\ dropped' = dropped
        BY <1>1, <2>3 DEF Save
      <3>2. \A u \in Saves : answer'[u] = "resolved" => answer[u] = "resolved"
        BY <1>0, <3>1
      <3>3. QED
        BY <2>1, <3>1, <3>2 DEF Unlanded
    <2>4. QED
      BY <2>2, <2>3
  <1>2. ASSUME answer' = Answered
        PROVE  \A u \in Saves : answer'[u] = "resolved" => u = active \/ answer[u] = "resolved"
    BY <1>0, <1>2 DEF Answered
  <1>3. CASE Commits
    <2>1. /\ answer' = Answered /\ landed' = landed \cup {active}
          /\ UNCHANGED <<dropped, failed>>
      BY <1>3 DEF Commits
    <2>2. QED
      BY <1>2, <2>1 DEF Unlanded
  <1>4. CASE Errs
    <2>1. landed \subseteq landed' /\ dropped' = dropped
      BY <1>4 DEF Errs
    <2>2. CASE answer' = answer /\ failed' = failed
      BY <2>1, <2>2 DEF Unlanded
    <2>3. CASE answer' = Answered /\ failed' = failed + 1
      <3>1. Unlanded' \subseteq Unlanded \cup {active}
        BY <1>2, <2>1, <2>3 DEF Unlanded
      <3>2. dropped' + failed' = dropped + failed + 1
        BY <1>0, <2>1, <2>3
      <3>3. QED
        BY <3>1, <3>2
    <2>4. QED
      BY <1>4, <2>2, <2>3 DEF Errs
  <1>5. CASE Exit
    <2>1. /\ answer' = [s \in Saves |-> IF s \in Waiting THEN "gone" ELSE answer[s]]
          /\ UNCHANGED <<dropped, failed, landed>>
      BY <1>5 DEF Exit, counters
    <2>2. \A u \in Saves : answer'[u] = "resolved" => answer[u] = "resolved"
      BY <2>1
    <2>3. QED
      BY <2>1, <2>2 DEF Unlanded
  <1>6. CASE UNCHANGED <<dropped, failed, answer, landed>>
    BY <1>6 DEF Unlanded
  <1>7. CASE TableStep
    BY <1>6, <1>7 DEF TableStep, TrimHinted, TrimTransaction, TrimReads, TrimDeletes,
                      Delete, ForeignSave, counters, calls
  <1>8. CASE Retries \/ DrainEnds \/ Close \/ UNCHANGED vars
    BY <1>6, <1>8 DEF Retries, DrainEnds, Close, vars, counters, calls
  <1>9. QED
    BY <1>1, <1>3, <1>4, <1>5, <1>7, <1>8 DEF Next, TableStep

\* The losses the driver hides from the recorder, batches pushed out of the
\* backlog and batches given up after the last attempt, are all in its counters.
THEOREM LossesAreCounted == Spec => []EveryLossCounted
  <1>1. Init => EveryLossCounted
    <2>1. ASSUME Init PROVE {s \in Saves : answer[s] = "resolved"} \ landed = {}
      BY <2>1 DEF Init
    <2>2. ASSUME Init PROVE EveryLossCounted
      <3>1. dropped + failed = 0
        BY <2>2 DEF Init
      <3>2. Cardinality({s \in Saves : answer[s] = "resolved"} \ landed) = 0
        BY <2>1, <2>2, FS_EmptySet
      <3>3. QED
        BY <3>1, <3>2 DEF EveryLossCounted
    <2>3. QED
      BY <2>2
  <1>2. DInv /\ [Next]_vars => DInv'
    BY NextStep DEF Step
  <1>3. DInv /\ DInv' /\ EveryLossCounted /\ [Next]_vars => EveryLossCounted'
    BY CountStep
  <1>4. QED
    BY <1>1, <1>2, <1>3, InitStep, PTL DEF Spec

-----------------------------------------------------------------------------
(* Trims *)

\* What lies below an n-th newest member is all but the n newest.
LEMMA CutAtNth ==
    ASSUME NEW S \in SUBSET Nat, IsFiniteSet(S), NEW n \in Nat, NEW b \in S,
           Cardinality(From(S, b)) = n
    PROVE  Newest(S, n) = {k \in S : ~(k < b)}
  <1>1. b \in Nat /\ \A k \in S : k \in Nat
    OBVIOUS
  <1>2. \A k \in S : Above(S, k) = {j \in S : j > k}
    BY DEF Above
  <1>3. ASSUME NEW k \in S, k < b
        PROVE  ~(Cardinality(Above(S, k)) < n)
    <2>1. n <= Cardinality(Above(S, k)) /\ Cardinality(Above(S, k)) \in Nat
      BY <1>3, RankProperties
    <2>2. QED
      BY <2>1
  <1>4. ASSUME NEW k \in S, ~(k < b)
        PROVE  Cardinality(Above(S, k)) < n
    <2>1. \A j \in S : j > k => j > b
      BY <1>1, <1>4
    <2>2. Above(S, k) \subseteq Above(S, b)
      BY <2>1 DEF Above
    <2>3. /\ n = Cardinality(Above(S, b)) + 1 /\ Cardinality(Above(S, b)) \in Nat
          /\ Cardinality(Above(S, k)) \in Nat
      BY RankProperties
    <2>4. IsFiniteSet(Above(S, b))
      BY FS_Subset DEF Above
    <2>5. Cardinality(Above(S, k)) <= Cardinality(Above(S, b))
      BY <2>2, <2>4, FS_Subset
    <2>6. QED
      BY <2>3, <2>5
  <1>5. \A k \in S : Cardinality({j \in S : j > k}) < n <=> ~(k < b)
    BY <1>2, <1>3, <1>4
  <1>6. QED
    BY <1>5 DEF Newest

\* The transaction of trim() in one piece.
LEMMA TransactionKeepsNewest ==
    ASSUME DInv, IsFiniteSet(file), TrimTransaction
    PROVE  file' = Newest(file, Cap)
  <1>1. file \in SUBSET Nat /\ Cap \in Nat
    BY DatabaseAssumption DEF DInv, Typed
  <1>2. file' = IF Cap = 0 THEN {} ELSE file \ UNION {Doomed(b) : b \in CapthNewest}
    BY DEF TrimTransaction
  <1>3. \A k \in file : /\ Above(file, k) = {j \in file : j > k}
                        /\ From(file, k) = {j \in file : j >= k}
    BY DEF Above, From
  <1>4. \A k \in file : /\ Cardinality(Above(file, k)) \in Nat
                        /\ Cardinality(Above(file, k)) < Cardinality(file)
    BY <1>1, RankProperties
  <1>5. CASE Cap = 0
    <2>1. \A k \in file : ~(Cardinality({j \in file : j > k}) < 0)
      BY <1>3, <1>4
    <2>2. QED
      BY <1>2, <1>5, <2>1 DEF Newest
  <1>6. CASE Cap # 0 /\ CapthNewest = {}
    <2>1. file' = file
      BY <1>2, <1>6
    <2>2. ~(Cap <= Cardinality(file))
      <3>1. ASSUME Cap <= Cardinality(file)
            PROVE  \E k \in file : Cardinality(From(file, k)) = Cap
        BY <1>1, <1>6, <3>1, NthNewest
      <3>2. QED
        BY <1>3, <1>6, <3>1 DEF CapthNewest
    <2>3. Cardinality(file) \in Nat
      BY FS_CardinalityType
    <2>4. \A k \in file : Cardinality(Above(file, k)) < Cap
      BY <1>1, <1>4, <2>2, <2>3
    <2>5. \A k \in file : Cardinality({j \in file : j > k}) < Cap
      BY <1>3, <2>4
    <2>6. QED
      BY <2>1, <2>5 DEF Newest
  <1>7. CASE Cap # 0 /\ CapthNewest # {}
    <2>1. ASSUME NEW b \in CapthNewest
          PROVE  b \in file /\ Newest(file, Cap) = {k \in file : ~(k < b)}
      <3>1. b \in file /\ Cardinality(From(file, b)) = Cap
        BY <1>3, <2>1 DEF CapthNewest
      <3>2. QED
        BY <1>1, <3>1, CutAtNth
    <2>2. \A b \in CapthNewest : Doomed(b) = file \ Newest(file, Cap)
      BY <2>1 DEF Doomed
    <2>3. UNION {Doomed(b) : b \in CapthNewest} = file \ Newest(file, Cap)
      BY <1>7, <2>2
    <2>4. Newest(file, Cap) \subseteq file
      BY DEF Newest
    <2>5. QED
      BY <1>2, <1>7, <2>3, <2>4
  <1>8. QED
    BY <1>5, <1>6, <1>7

\* The delete that follows a boundary read before other commits.
LEMMA DeleteTakesOldest ==
    ASSUME DInv, TrimDeletes
    PROVE  \A gone \in file \ file', kept \in file' : gone < kept
  <1>1. file \subseteq Nat /\ boundary \in Nat /\ file' = file \ Doomed(boundary)
    BY DatabaseAssumption DEF TrimDeletes, DInv, Typed
  <1>2. ASSUME NEW gone \in file \ file', NEW kept \in file'
        PROVE  gone < kept
    <2>1. gone \in Nat /\ kept \in Nat /\ gone < boundary /\ ~(kept < boundary)
      BY <1>1 DEF Doomed
    <2>2. QED
      BY <1>1, <2>1
  <1>3. QED
    BY <1>2

\* No call carries infinitely many rows.
BatchesFinite == \A s \in Saves : IsFiniteSet(Payload[s])
TableFinite == IsFiniteSet(file) /\ \A s \in Saves : IsFiniteSet(rows[s])

LEMMA TableStaysFinite ==
    ASSUME BatchesFinite, DInv, TableFinite, [Next]_vars
    PROVE  TableFinite'
  <1>1. \A s \in Saves : IsFiniteSet(rows'[s])
    <2>1. CASE UNCHANGED rows
      BY <2>1 DEF TableFinite
    <2>2. ASSUME NEW s \in Saves, Save(s)
          PROVE  \A u \in Saves : IsFiniteSet(rows'[u])
      <3>1. rows' = [rows EXCEPT ![s] = Payload[s]] /\ rows \in [Saves -> SUBSET Keys]
        BY <2>2 DEF Save, DInv, Typed
      <3>2. QED
        BY <3>1 DEF TableFinite, BatchesFinite
    <2>3. QED
      BY <2>1, <2>2 DEF Next, Commits, Errs, Retries, DrainEnds, Close, Exit, TrimHinted,
                        TrimTransaction, TrimReads, TrimDeletes, Delete, ForeignSave, vars,
                        calls
  <1>2. \/ file' \subseteq file
        \/ \E more : IsFiniteSet(more) /\ file' = file \cup more
    <2>1. CASE Commits \/ Errs
      <3>1. active \in Saves
        BY <2>1 DEF Commits, Errs, Busy, DInv, OnePlace
      <3>2. IsFiniteSet(rows[active])
        BY <3>1 DEF TableFinite
      <3>3. file' = file \/ file' = file \cup rows[active]
        BY <2>1 DEF Commits, Errs
      <3>4. QED
        BY <3>2, <3>3
    <2>2. ASSUME NEW k \in ForeignKeys, ForeignSave(k)
          PROVE  \E more : IsFiniteSet(more) /\ file' = file \cup more
      BY <2>2, FS_Singleton DEF ForeignSave
    <2>3. CASE \/ \E s \in Saves : Save(s)
               \/ Retries \/ DrainEnds \/ Close \/ Exit \/ TrimHinted \/ TrimReads
               \/ UNCHANGED vars
      BY <2>3 DEF Save, Retries, DrainEnds, Close, Exit, TrimHinted, TrimReads, vars
    <2>4. CASE \/ TrimTransaction \/ TrimDeletes
               \/ \E doomed \in SUBSET file : Delete(doomed)
      BY <2>4 DEF TrimTransaction, TrimDeletes, Delete
    <2>5. QED
      BY <2>1, <2>2, <2>3, <2>4 DEF Next
  <1>3. IsFiniteSet(file')
    <2>1. CASE file' \subseteq file
      BY <2>1, FS_Subset DEF TableFinite
    <2>2. ASSUME NEW more, IsFiniteSet(more), file' = file \cup more
          PROVE  IsFiniteSet(file')
      BY <2>2, FS_Union DEF TableFinite
    <2>3. QED
      BY <1>2, <2>1, <2>2
  <1>4. QED
    BY <1>1, <1>3 DEF TableFinite

\* A trim in one transaction leaves exactly the newest rows of what it finds;
\* one whose boundary was read before other commits removes the oldest only.
THEOREM TrimsKeepNewest ==
    ASSUME BatchesFinite
    PROVE  Spec => TrimKeepsNewest
  <1>1. Init => TableFinite
    BY FS_EmptySet DEF Init, TableFinite
  <1>2. DInv /\ TableFinite /\ [Next]_vars => DInv' /\ TableFinite'
    BY NextStep, TableStaysFinite DEF Step
  <1>3. DInv /\ TableFinite =>
          /\ TrimTransaction => file' = Newest(file, Cap)
          /\ TrimDeletes => \A gone \in file \ file', kept \in file' : gone < kept
    BY TransactionKeepsNewest, DeleteTakesOldest DEF TableFinite
  <1>4. QED
    BY <1>1, <1>2, <1>3, InitStep, PTL DEF Spec, TrimKeepsNewest

-----------------------------------------------------------------------------
(* MemoryStore: an index and the entries it is of *)

Tags == [e \in Saved |-> e.tags]
Batches == [e \in Saved |-> {e.batch}]

LEMMA IndexWithout ==
    ASSUME NEW E, NEW K, NEW index, Indexes(index, E, K), NEW e \in E,
           \A x \in E : x.uuid = e.uuid => x = e
    PROVE  Indexes(WithoutEntry(index, K[e], e.uuid), E \ {e}, K)
  <1> DEFINE kept == {k \in DOMAIN index : k \in K[e] => index[k] # {e.uuid}}
             W == WithoutEntry(index, K[e], e.uuid)
  <1>1. DOMAIN W = kept /\ \A k \in kept : W[k] = IF k \in K[e] THEN index[k] \ {e.uuid} ELSE index[k]
    BY DEF WithoutEntry
  <1>2. \A k \in DOMAIN index : index[k] = {x.uuid : x \in {y \in E : k \in K[y]}}
    BY DEF Indexes
  <1>3. \A k : k \in DOMAIN index <=> \E x \in E : k \in K[x]
    BY DEF Indexes
  <1>4. ASSUME NEW k \in kept
        PROVE  W[k] = {x.uuid : x \in {y \in E \ {e} : k \in K[y]}}
    <2>1. CASE k \in K[e]
      <3>1. W[k] = index[k] \ {e.uuid}
        BY <1>1, <2>1
      <3>2. index[k] = {x.uuid : x \in {y \in E : k \in K[y]}}
        BY <1>2
      <3>3. QED
        BY <3>1, <3>2
    <2>2. CASE k \notin K[e]
      BY <1>1, <1>2, <2>2
    <2>3. QED
      BY <2>1, <2>2
  <1>5. ASSUME NEW k
        PROVE  k \in kept <=> \E x \in E \ {e} : k \in K[x]
    <2>1. ASSUME k \in kept
          PROVE  \E x \in E \ {e} : k \in K[x]
      <3>1. CASE k \in K[e]
        <4>1. index[k] # {e.uuid} /\ index[k] = {x.uuid : x \in {y \in E : k \in K[y]}}
          BY <1>2, <2>1, <3>1
        <4>2. e.uuid \in index[k]
          BY <3>1, <4>1
        <4>3. PICK u \in index[k] : u # e.uuid
          BY <4>1, <4>2
        <4>4. PICK x \in E : k \in K[x] /\ x.uuid = u
          BY <4>1
        <4>5. QED
          BY <4>3, <4>4
      <3>2. CASE k \notin K[e]
        BY <1>3, <2>1, <3>2
      <3>3. QED
        BY <3>1, <3>2
    <2>2. ASSUME NEW x \in E \ {e}, k \in K[x]
          PROVE  k \in kept
      <3>1. k \in DOMAIN index
        BY <1>3, <2>2
      <3>2. x.uuid \in index[k] /\ x.uuid # e.uuid
        BY <1>2, <2>2, <3>1
      <3>3. QED
        BY <3>1, <3>2
    <2>3. QED
      BY <2>1, <2>2
  <1> HIDE DEF W, kept
  <1>6. DOMAIN W = UNION {K[x] : x \in E \ {e}}
    BY <1>1, <1>5
  <1>7. \A k \in DOMAIN W : W[k] = {x.uuid : x \in {y \in E \ {e} : k \in K[y]}}
    BY <1>1, <1>4
  <1>8. QED
    BY <1>6, <1>7 DEF Indexes, W

LEMMA IndexWith ==
    ASSUME NEW E, NEW K, NEW index, Indexes(index, E, K), NEW e
    PROVE  Indexes(WithEntry(index, K[e], e.uuid), E \cup {e}, K)
  <1> DEFINE W == WithEntry(index, K[e], e.uuid)
  <1>1. /\ DOMAIN W = DOMAIN index \cup K[e]
        /\ \A k \in DOMAIN W : W[k] = (IF k \in DOMAIN index THEN index[k] ELSE {})
                                        \cup (IF k \in K[e] THEN {e.uuid} ELSE {})
    BY DEF WithEntry
  <1> HIDE DEF W
  <1>2. \A k \in DOMAIN index : index[k] = {x.uuid : x \in {y \in E : k \in K[y]}}
    BY DEF Indexes
  <1>3. \A k : k \in DOMAIN index <=> \E x \in E : k \in K[x]
    BY DEF Indexes
  <1>4. DOMAIN W = UNION {K[x] : x \in E \cup {e}}
    BY <1>1, <1>3
  <1>5. ASSUME NEW k \in DOMAIN W
        PROVE  W[k] = {x.uuid : x \in {y \in E \cup {e} : k \in K[y]}}
    <2> DEFINE old == IF k \in DOMAIN index THEN index[k] ELSE {}
    <2>1. old = {x.uuid : x \in {y \in E : k \in K[y]}}
      BY <1>2, <1>3
    <2>2. W[k] = old \cup (IF k \in K[e] THEN {e.uuid} ELSE {})
      BY <1>1
    <2> HIDE DEF old
    <2>3. QED
      BY <2>1, <2>2
  <1>6. QED
    BY <1>4, <1>5 DEF Indexes, W

LEMMA IndexKeys ==
    ASSUME NEW E, NEW K, NEW L, NEW index, Indexes(index, E, K), \A e \in E : K[e] = L[e]
    PROVE  Indexes(index, E, L)
  <1>1. UNION {K[e] : e \in E} = UNION {L[e] : e \in E}
    OBVIOUS
  <1>2. \A k : {x \in E : k \in K[x]} = {x \in E : k \in L[x]}
    OBVIOUS
  <1>3. QED
    BY <1>1, <1>2 DEF Indexes

-----------------------------------------------------------------------------
(* MemoryStore: its operations *)

StoreInv(s) ==
    /\ s.entries \in Seq(Saved)
    /\ \A i, j \in DOMAIN s.entries : s.entries[i].uuid = s.entries[j].uuid => i = j
    /\ Indexes(s.byTag, Stored(s), Tags) /\ Indexes(s.byBatch, Stored(s), Batches)

LEMMA EntryNumbers ==
    \A e \in Saved : e.uuid \in Nat /\ e.sequence \in Nat
  BY MemoryAssumption DEF MemoryAssumption, Saved

LEMMA RemoveAtProperties ==
    ASSUME NEW S, NEW q \in Seq(S), NEW i \in 1..Len(q)
    PROVE  /\ RemoveAt(q, i) \in Seq(S) /\ Len(RemoveAt(q, i)) = Len(q) - 1
           /\ \A j \in 1..(Len(q) - 1) : RemoveAt(q, i)[j] = IF j < i THEN q[j] ELSE q[j + 1]
  <1> DEFINE before == SubSeq(q, 1, i - 1)
             behind == SubSeq(q, i + 1, Len(q))
             rest == before \o behind
  <1>1. Len(q) \in Nat /\ i \in Nat /\ 1 <= i /\ i <= Len(q)
    OBVIOUS
  <1>2. /\ before \in Seq(S) /\ Len(before) = i - 1
        /\ \A j \in 1..(i - 1) : before[j] = q[j]
    BY <1>1
  <1>3. /\ behind \in Seq(S) /\ Len(behind) = Len(q) - i
        /\ \A j \in 1..(Len(q) - i) : behind[j] = q[i + j]
    BY <1>1
  <1> HIDE DEF before, behind
  <1>4. /\ rest \in Seq(S) /\ Len(rest) = Len(before) + Len(behind)
        /\ \A j \in 1..(Len(before) + Len(behind)) :
              rest[j] = IF j <= Len(before) THEN before[j] ELSE behind[j - Len(before)]
    BY <1>2, <1>3, ConcatProperties
  <1>5. RemoveAt(q, i) = rest
    BY DEF RemoveAt, before, behind
  <1> HIDE DEF rest
  <1>6. ASSUME NEW j \in 1..(Len(q) - 1)
        PROVE  rest[j] = IF j < i THEN q[j] ELSE q[j + 1]
    <2>1. CASE j < i
      <3>1. j \in 1..(i - 1) /\ j <= Len(before) /\ j \in 1..(Len(before) + Len(behind))
        BY <1>1, <1>2, <1>3, <2>1
      <3>2. QED
        BY <1>2, <1>4, <2>1, <3>1
    <2>2. CASE ~(j < i)
      <3>1. /\ j - (i - 1) \in 1..(Len(q) - i) /\ ~(j <= Len(before))
            /\ j \in 1..(Len(before) + Len(behind)) /\ i + (j - (i - 1)) = j + 1
            /\ j - Len(before) = j - (i - 1)
        BY <1>1, <1>2, <1>3, <2>2
      <3>2. rest[j] = behind[j - (i - 1)]
        BY <1>4, <3>1
      <3>3. behind[j - (i - 1)] = q[i + (j - (i - 1))]
        BY <1>3, <3>1
      <3>4. QED
        BY <2>2, <3>1, <3>2, <3>3
    <2>3. QED
      BY <2>1, <2>2
  <1>7. QED
    BY <1>1, <1>2, <1>3, <1>4, <1>5, <1>6

LEMMA StoredDistinct ==
    ASSUME NEW s, StoreInv(s), NEW x \in Stored(s), NEW y \in Stored(s), x.uuid = y.uuid
    PROVE  x = y
  BY DEF StoreInv, Stored, ToSet

\* #remove() takes out the entry with the uuid, if there is one, and nothing else.
LEMMA RemovedKeeps ==
    ASSUME NEW s, StoreInv(s), NEW uuid
    PROVE  StoreInv(Removed(s, uuid))
  <1>1. CASE Known(s, uuid) = {}
    BY <1>1 DEF Removed
  <1>2. CASE Known(s, uuid) # {}
    <2>1. PICK i : i = CHOOSE j \in Known(s, uuid) : TRUE
      OBVIOUS
    <2>2. i \in Known(s, uuid)
      BY <1>2, <2>1
    <2>3. s.entries \in Seq(Saved) /\ Len(s.entries) \in Nat /\ DOMAIN s.entries = 1..Len(s.entries)
      BY DEF StoreInv
    <2>4. i \in 1..Len(s.entries) /\ s.entries[i].uuid = uuid
      BY <2>2, <2>3 DEF Known
    <2> DEFINE e == s.entries[i]
               rest == RemoveAt(s.entries, i)
               r == Removed(s, uuid)
    <2>5. /\ r.entries = rest
          /\ r.byTag = WithoutEntry(s.byTag, e.tags, uuid)
          /\ r.byBatch = WithoutEntry(s.byBatch, {e.batch}, uuid)
      BY <1>2, <2>1 DEF Removed
    <2>6. /\ rest \in Seq(Saved) /\ Len(rest) = Len(s.entries) - 1
          /\ \A j \in 1..(Len(s.entries) - 1) :
                rest[j] = IF j < i THEN s.entries[j] ELSE s.entries[j + 1]
      BY <2>3, <2>4, RemoveAtProperties
    <2> HIDE DEF rest, r
    <2>7. DOMAIN rest = 1..(Len(s.entries) - 1)
      BY <2>6
    <2>8. e \in Saved /\ e \in Stored(s) /\ e.uuid = uuid
      BY <2>3, <2>4 DEF Stored, ToSet
    <2>9. \A j, k \in DOMAIN s.entries : s.entries[j].uuid = s.entries[k].uuid => j = k
      BY DEF StoreInv
    <2>10. \A j, k \in DOMAIN rest : rest[j].uuid = rest[k].uuid => j = k
      <3> SUFFICES ASSUME NEW j \in DOMAIN rest, NEW k \in DOMAIN rest, rest[j].uuid = rest[k].uuid
                   PROVE  j = k
        OBVIOUS
      <3> DEFINE Old(n) == IF n < i THEN n ELSE n + 1
      <3>1. Old(j) \in DOMAIN s.entries /\ Old(k) \in DOMAIN s.entries
        BY <2>3, <2>4, <2>7
      <3>2. rest[j] = s.entries[Old(j)] /\ rest[k] = s.entries[Old(k)]
        BY <2>6, <2>7
      <3>3. Old(j) = Old(k)
        <4> HIDE DEF Old
        <4>1. QED
          BY <2>9, <3>1, <3>2
      <3>4. j \in Int /\ k \in Int /\ i \in Int
        BY <2>3, <2>4, <2>7
      <3>5. QED
        BY <3>3, <3>4
    <2>11. Stored(r) = Stored(s) \ {e}
      <3>1. ASSUME NEW x \in Stored(r)
            PROVE  x \in Stored(s) \ {e}
        <4>1. PICK j \in 1..(Len(s.entries) - 1) : x = rest[j]
          BY <2>5, <2>7, <3>1 DEF Stored, ToSet
        <4>2. PICK k \in DOMAIN s.entries : k # i /\ x = s.entries[k]
          <5>1. CASE j < i
            BY <2>3, <2>4, <2>6, <4>1, <5>1
          <5>2. CASE ~(j < i)
            <6>1. j + 1 \in DOMAIN s.entries /\ j + 1 # i
              BY <2>3, <2>4, <4>1, <5>2
            <6>2. QED
              BY <2>6, <4>1, <5>2, <6>1
          <5>3. QED
            BY <5>1, <5>2
        <4>3. QED
          BY <2>3, <2>4, <2>9, <4>2 DEF Stored, ToSet
      <3>2. ASSUME NEW x \in Stored(s), x # e
            PROVE  x \in Stored(r)
        <4>1. PICK k \in DOMAIN s.entries : x = s.entries[k]
          BY DEF Stored, ToSet
        <4>2. k # i
          BY <3>2, <4>1
        <4>3. \E j \in DOMAIN rest : rest[j] = x
          <5>1. CASE k < i
            <6>1. k \in 1..(Len(s.entries) - 1)
              BY <2>3, <2>4, <4>1, <5>1
            <6>2. QED
              BY <2>6, <2>7, <4>1, <5>1, <6>1
          <5>2. CASE k > i
            <6>1. k - 1 \in 1..(Len(s.entries) - 1) /\ ~(k - 1 < i) /\ (k - 1) + 1 = k
              BY <2>3, <2>4, <4>1, <5>2
            <6>2. rest[k - 1] = s.entries[k]
              BY <2>6, <6>1
            <6>3. QED
              BY <2>7, <4>1, <6>1, <6>2
          <5>3. QED
            BY <2>3, <2>4, <4>1, <4>2, <5>1, <5>2
        <4>4. QED
          BY <2>5, <4>3 DEF Stored, ToSet
      <3>3. QED
        BY <3>1, <3>2
    <2>12. \A x \in Stored(s) : x.uuid = e.uuid => x = e
      BY <2>8, StoredDistinct
    <2>13. Tags[e] = e.tags /\ Batches[e] = {e.batch}
      BY <2>8 DEF Tags, Batches
    <2>14. Indexes(r.byTag, Stored(s) \ {e}, Tags)
      <3>1. Indexes(s.byTag, Stored(s), Tags)
        BY DEF StoreInv
      <3> HIDE DEF e
      <3>2. Indexes(WithoutEntry(s.byTag, Tags[e], e.uuid), Stored(s) \ {e}, Tags)
        BY <2>8, <2>12, <3>1, IndexWithout
      <3>3. QED
        BY <2>5, <2>8, <2>13, <3>2
    <2>15. Indexes(r.byBatch, Stored(s) \ {e}, Batches)
      <3>1. Indexes(s.byBatch, Stored(s), Batches)
        BY DEF StoreInv
      <3> HIDE DEF e
      <3>2. Indexes(WithoutEntry(s.byBatch, Batches[e], e.uuid), Stored(s) \ {e}, Batches)
        BY <2>8, <2>12, <3>1, IndexWithout
      <3>3. QED
        BY <2>5, <2>8, <2>13, <3>2
    <2>16. StoreInv(r)
      BY <2>5, <2>6, <2>10, <2>11, <2>14, <2>15 DEF StoreInv
    <2>17. QED
      BY <2>16 DEF r
  <1>3. QED
    BY <1>1, <1>2

\* No entry of that uuid is left.
LEMMA RemovedIsGone ==
    ASSUME NEW s, StoreInv(s), NEW uuid
    PROVE  \A x \in Stored(Removed(s, uuid)) : x.uuid # uuid
  <1>1. CASE Known(s, uuid) = {}
    <2>1. Removed(s, uuid) = s
      BY <1>1 DEF Removed
    <2>2. QED
      BY <1>1, <2>1 DEF Known, Stored, ToSet
  <1>2. CASE Known(s, uuid) # {}
    <2>1. PICK i : i = CHOOSE j \in Known(s, uuid) : TRUE
      OBVIOUS
    <2>2. i \in Known(s, uuid)
      BY <1>2, <2>1
    <2>3. s.entries \in Seq(Saved) /\ Len(s.entries) \in Nat /\ DOMAIN s.entries = 1..Len(s.entries)
      BY DEF StoreInv
    <2>4. i \in 1..Len(s.entries) /\ s.entries[i].uuid = uuid
      BY <2>2, <2>3 DEF Known
    <2> DEFINE rest == RemoveAt(s.entries, i)
    <2>5. Removed(s, uuid).entries = rest
      BY <1>2, <2>1 DEF Removed
    <2>6. /\ rest \in Seq(Saved) /\ Len(rest) = Len(s.entries) - 1
          /\ \A j \in 1..(Len(s.entries) - 1) :
                rest[j] = IF j < i THEN s.entries[j] ELSE s.entries[j + 1]
      BY <2>3, <2>4, RemoveAtProperties
    <2> HIDE DEF rest
    <2>7. ASSUME NEW j \in DOMAIN rest
          PROVE  rest[j].uuid # uuid
      <3> DEFINE k == IF j < i THEN j ELSE j + 1
      <3>1. j \in 1..(Len(s.entries) - 1)
        BY <2>6
      <3>2. k \in DOMAIN s.entries /\ k # i
        BY <2>3, <2>4, <3>1
      <3>3. rest[j] = s.entries[k]
        BY <2>6, <3>1
      <3> HIDE DEF k
      <3>4. QED
        BY <2>3, <2>4, <3>2, <3>3 DEF StoreInv
    <2>8. QED
      BY <2>5, <2>7 DEF Stored, ToSet
  <1>3. QED
    BY <1>1, <1>2

LEMMA InsertedKeeps ==
    ASSUME NEW s, StoreInv(s), NEW e \in Saved
    PROVE  StoreInv(Inserted(s, e))
  <1> DEFINE rest == Replaced(s, e.uuid)
             r == Inserted(s, e)
  <1>1. StoreInv(rest) /\ \A x \in Stored(rest) : x.uuid # e.uuid
    BY RemovedKeeps, RemovedIsGone DEF Replaced
  <1>2. /\ r.entries = Append(rest.entries, e)
        /\ r.byTag = WithEntry(rest.byTag, e.tags, e.uuid)
        /\ r.byBatch = WithEntry(rest.byBatch, {e.batch}, e.uuid)
    BY DEF Inserted
  <1> HIDE DEF rest, r
  <1>3. rest.entries \in Seq(Saved) /\ Len(rest.entries) \in Nat
        /\ DOMAIN rest.entries = 1..Len(rest.entries)
    BY <1>1 DEF StoreInv
  <1>4. /\ r.entries \in Seq(Saved) /\ Len(r.entries) = Len(rest.entries) + 1
        /\ DOMAIN r.entries = 1..(Len(rest.entries) + 1)
        /\ \A j \in 1..Len(rest.entries) : r.entries[j] = rest.entries[j]
        /\ r.entries[Len(rest.entries) + 1] = e
    BY <1>2, <1>3
  <1>5. Stored(r) = Stored(rest) \cup {e}
    <2>1. Stored(r) = {r.entries[j] : j \in 1..(Len(rest.entries) + 1)}
      BY <1>4 DEF Stored, ToSet
    <2>2. Stored(rest) = {rest.entries[j] : j \in 1..Len(rest.entries)}
      BY <1>3 DEF Stored, ToSet
    <2>3. 1..(Len(rest.entries) + 1) = 1..Len(rest.entries) \cup {Len(rest.entries) + 1}
      BY <1>3
    <2>4. QED
      BY <1>4, <2>1, <2>2, <2>3
  <1>6. \A i, j \in DOMAIN r.entries : r.entries[i].uuid = r.entries[j].uuid => i = j
    <2>1. \A i \in 1..Len(rest.entries) : r.entries[i].uuid # e.uuid
      BY <1>1, <1>3, <1>4 DEF Stored, ToSet
    <2>2. \A i, j \in 1..Len(rest.entries) : r.entries[i].uuid = r.entries[j].uuid => i = j
      BY <1>1, <1>3, <1>4 DEF StoreInv
    <2>3. DOMAIN r.entries = 1..Len(rest.entries) \cup {Len(rest.entries) + 1}
      BY <1>3, <1>4
    <2>4. QED
      BY <1>4, <2>1, <2>2, <2>3
  <1>7. Tags[e] = e.tags /\ Batches[e] = {e.batch}
    BY DEF Tags, Batches
  <1>8. Indexes(r.byTag, Stored(rest) \cup {e}, Tags)
    <2>1. Indexes(rest.byTag, Stored(rest), Tags)
      BY <1>1 DEF StoreInv
    <2>2. Indexes(WithEntry(rest.byTag, Tags[e], e.uuid), Stored(rest) \cup {e}, Tags)
      BY <2>1, IndexWith
    <2>3. QED
      BY <1>2, <1>7, <2>2
  <1>9. Indexes(r.byBatch, Stored(rest) \cup {e}, Batches)
    <2>1. Indexes(rest.byBatch, Stored(rest), Batches)
      BY <1>1 DEF StoreInv
    <2>2. Indexes(WithEntry(rest.byBatch, Batches[e], e.uuid), Stored(rest) \cup {e}, Batches)
      BY <2>1, IndexWith
    <2>3. QED
      BY <1>2, <1>7, <2>2
  <1>10. StoreInv(r)
    BY <1>4, <1>5, <1>6, <1>8, <1>9 DEF StoreInv
  <1>11. QED
    BY <1>10 DEF r

\* save() inserts one entry after the other.
LEMMA AllInsertedKeeps ==
    ASSUME NEW s, StoreInv(s), NEW call \in Seq(Saved)
    PROVE  StoreInv(AllInserted(s, call))
  <1> DEFINE Loop(f, n) == f = [i \in 0..n |-> IF i = 0 THEN s ELSE Inserted(f[i - 1], call[i])]
  <1>1. Len(call) \in Nat /\ \A i \in 1..Len(call) : call[i] \in Saved
    OBVIOUS
  <1>2. ASSUME NEW m \in Nat, m > 0, \E f : Loop(f, m - 1)
        PROVE  \E f : Loop(f, m)
    <2>1. PICK g : Loop(g, m - 1)
      BY <1>2
    <2> DEFINE h == [i \in 0..m |-> IF i = m THEN Inserted(g[m - 1], call[m]) ELSE g[i]]
    <2>2. \A i \in 0..(m - 1) : h[i] = g[i] /\ i # m /\ i \in 0..m
      OBVIOUS
    <2>3. h[m] = Inserted(g[m - 1], call[m]) /\ m # 0 /\ m - 1 \in 0..(m - 1)
      BY <1>2
    <2>4. \A i \in 0..(m - 1) : g[i] = IF i = 0 THEN s ELSE Inserted(g[i - 1], call[i])
      BY <2>1
    <2>5. ASSUME NEW i \in 0..m
          PROVE  h[i] = IF i = 0 THEN s ELSE Inserted(h[i - 1], call[i])
      <3>1. CASE i = m
        BY <2>2, <2>3, <3>1
      <3>2. CASE i # m
        <4>1. i \in 0..(m - 1) /\ (i # 0 => i - 1 \in 0..(m - 1))
          BY <3>2
        <4>2. i # 0 => h[i - 1] = g[i - 1]
          BY <2>2, <4>1
        <4>3. QED
          BY <2>2, <2>4, <4>1, <4>2
      <3>3. QED
        BY <3>1, <3>2
    <2>6. h = [i \in 0..m |-> h[i]]
      OBVIOUS
    <2> HIDE DEF h
    <2>7. Loop(h, m)
      BY <2>5, <2>6
    <2>8. QED
      BY <2>7
  <1>3. \A n \in Nat : \E f : Loop(f, n)
    <2> DEFINE Bad == {n \in Nat : ~\E f : Loop(f, n)}
    <2>1. ASSUME Bad # {}
          PROVE  FALSE
      <3>1. PICK m \in Bad : \A n \in Bad : m <= n
        BY <2>1, LowestNumber
      <3>2. CASE m = 0
        <4>1. Loop([i \in 0..0 |-> s], 0)
          OBVIOUS
        <4>2. QED
          BY <3>1, <3>2, <4>1
      <3>3. CASE m > 0
        <4>1. m \in Nat /\ m - 1 \in Nat /\ ~(m <= m - 1)
          BY <3>1, <3>3
        <4>2. m - 1 \notin Bad
          <5> HIDE DEF Bad
          <5>1. QED
            BY <3>1, <4>1
        <4>3. QED
          BY <1>2, <3>1, <3>3, <4>1, <4>2
      <3>4. QED
        BY <3>1, <3>2, <3>3
    <2>2. QED
      BY <2>1
  <1> DEFINE after == CHOOSE f : Loop(f, Len(call))
  <1>4. Loop(after, Len(call))
    BY <1>1, <1>3
  <1>5. AllInserted(s, call) = after[Len(call)]
    BY DEF AllInserted
  <1> HIDE DEF after
  <1>6. /\ after[0] = s
        /\ \A i \in 1..Len(call) : after[i] = Inserted(after[i - 1], call[i])
    BY <1>1, <1>4
  <1>7. \A n \in 0..Len(call) : StoreInv(after[n])
    <2> DEFINE Bad == {n \in 0..Len(call) : ~StoreInv(after[n])}
    <2>1. ASSUME Bad # {}
          PROVE  FALSE
      <3>0. Bad \in SUBSET Nat
        BY <1>1
      <3>1. PICK m \in Bad : \A n \in Bad : m <= n
        <4> HIDE DEF Bad
        <4>1. QED
          BY <2>1, <3>0, LowestNumber
      <3>2. m # 0
        BY <1>6, <3>1
      <3>3. m - 1 \in 0..Len(call) /\ m - 1 \notin Bad /\ m \in 1..Len(call)
        BY <1>1, <3>1, <3>2
      <3>4. StoreInv(Inserted(after[m - 1], call[m]))
        BY <1>1, <3>3, InsertedKeeps
      <3>5. QED
        BY <1>6, <3>1, <3>3, <3>4
    <2>2. QED
      BY <2>1
  <1>8. QED
    BY <1>1, <1>5, <1>7

\* prune(), trim(), clear() and the eviction remove one entry after the other.
LEMMA AllRemovedKeeps ==
    ASSUME NEW s, StoreInv(s), NEW doomed
    PROVE  StoreInv(AllRemoved(s, doomed))
  <1> DEFINE count == Len(s.entries)
             Then(t, i) == IF s.entries[i] \in doomed THEN Removed(t, s.entries[i].uuid) ELSE t
             Loop(f, n) == f = [i \in 0..n |-> IF i = 0 THEN s
                                              ELSE IF s.entries[i] \in doomed
                                                   THEN Removed(f[i - 1], s.entries[i].uuid)
                                              ELSE f[i - 1]]
  <1>1. count \in Nat
    BY DEF StoreInv
  <1>2. ASSUME NEW m \in Nat, m > 0, \E f : Loop(f, m - 1)
        PROVE  \E f : Loop(f, m)
    <2>1. PICK g : Loop(g, m - 1)
      BY <1>2
    <2> DEFINE h == [i \in 0..m |-> IF i = m THEN Then(g[m - 1], m) ELSE g[i]]
    <2>2. \A i \in 0..(m - 1) : h[i] = g[i] /\ i # m /\ i \in 0..m
      OBVIOUS
    <2>3. h[m] = Then(g[m - 1], m) /\ m # 0 /\ m - 1 \in 0..(m - 1)
      BY <1>2
    <2>4. \A i \in 0..(m - 1) : g[i] = IF i = 0 THEN s ELSE Then(g[i - 1], i)
      BY <2>1
    <2>5. ASSUME NEW i \in 0..m
          PROVE  h[i] = IF i = 0 THEN s ELSE Then(h[i - 1], i)
      <3>1. CASE i = m
        BY <2>2, <2>3, <3>1
      <3>2. CASE i # m
        <4>1. i \in 0..(m - 1) /\ (i # 0 => i - 1 \in 0..(m - 1))
          BY <3>2
        <4>2. i # 0 => h[i - 1] = g[i - 1]
          BY <2>2, <4>1
        <4>3. QED
          BY <2>2, <2>4, <4>1, <4>2
      <3>3. QED
        BY <3>1, <3>2
    <2>6. h = [i \in 0..m |-> h[i]]
      OBVIOUS
    <2> HIDE DEF h
    <2>7. Loop(h, m)
      BY <2>5, <2>6
    <2>8. QED
      BY <2>7
  <1>3. \A n \in Nat : \E f : Loop(f, n)
    <2> DEFINE Bad == {n \in Nat : ~\E f : Loop(f, n)}
    <2>1. ASSUME Bad # {}
          PROVE  FALSE
      <3>1. PICK m \in Bad : \A n \in Bad : m <= n
        BY <2>1, LowestNumber
      <3>2. CASE m = 0
        <4>1. Loop([i \in 0..0 |-> s], 0)
          OBVIOUS
        <4>2. QED
          BY <3>1, <3>2, <4>1
      <3>3. CASE m > 0
        <4>1. m \in Nat /\ m - 1 \in Nat /\ ~(m <= m - 1)
          BY <3>1, <3>3
        <4>2. m - 1 \notin Bad
          <5> HIDE DEF Bad
          <5>1. QED
            BY <3>1, <4>1
        <4>3. QED
          BY <1>2, <3>1, <3>3, <4>1, <4>2
      <3>4. QED
        BY <3>1, <3>2, <3>3
    <2>2. QED
      BY <2>1
  <1> DEFINE after == CHOOSE f : Loop(f, count)
  <1>4. Loop(after, count)
    BY <1>1, <1>3
  <1>5. AllRemoved(s, doomed) = after[count]
    BY DEF AllRemoved
  <1> HIDE DEF after
  <1>6. /\ after[0] = s
        /\ \A i \in 1..count : after[i] = Then(after[i - 1], i)
    BY <1>1, <1>4
  <1>7. \A n \in 0..count : StoreInv(after[n])
    <2> DEFINE Bad == {n \in 0..count : ~StoreInv(after[n])}
    <2>1. ASSUME Bad # {}
          PROVE  FALSE
      <3>0. Bad \in SUBSET Nat
        BY <1>1
      <3>1. PICK m \in Bad : \A n \in Bad : m <= n
        <4> HIDE DEF Bad
        <4>1. QED
          BY <2>1, <3>0, LowestNumber
      <3>2. m # 0
        BY <1>6, <3>1
      <3>3. m - 1 \in 0..count /\ m - 1 \notin Bad /\ m \in 1..count
        BY <1>1, <3>1, <3>2
      <3>4. StoreInv(Then(after[m - 1], m))
        BY <3>3, RemovedKeeps
      <3>5. QED
        BY <1>6, <3>1, <3>3, <3>4
    <2>2. QED
      BY <2>1
  <1>8. QED
    BY <1>1, <1>5, <1>7

-----------------------------------------------------------------------------
(* MemoryStore: pages and walks *)

\* What the indexes leave is what the query asks for.
LEMMA FoundIsAnswered ==
    ASSUME NEW s, StoreInv(s), NEW q
    PROVE  Listed(s, q, Found(s, q)) = Answer(s, q)
  <1>1. \A e \in Stored(s) : e \in Saved
    BY DEF StoreInv, Stored, ToSet
  <1>2. ASSUME NEW e \in Stored(s), NEW t
        PROVE  t \in DOMAIN s.byTag /\ e.uuid \in s.byTag[t] <=> t \in e.tags
    <2>1. Indexes(s.byTag, Stored(s), Tags)
      BY DEF StoreInv
    <2>2. t \in DOMAIN s.byTag <=> \E x \in Stored(s) : t \in Tags[x]
      BY <2>1 DEF Indexes
    <2>3. t \in DOMAIN s.byTag =>
              s.byTag[t] = {x.uuid : x \in {y \in Stored(s) : t \in Tags[y]}}
      BY <2>1 DEF Indexes
    <2>4. Tags[e] = e.tags
      BY <1>1 DEF Tags
    <2>5. \A x \in Stored(s) : x.uuid = e.uuid => x = e
      BY StoredDistinct
    <2>6. QED
      BY <2>2, <2>3, <2>4, <2>5
  <1>3. ASSUME NEW e \in Stored(s), NEW b
        PROVE  b \in DOMAIN s.byBatch /\ e.uuid \in s.byBatch[b] <=> b = e.batch
    <2>1. Indexes(s.byBatch, Stored(s), Batches)
      BY DEF StoreInv
    <2>2. b \in DOMAIN s.byBatch <=> \E x \in Stored(s) : b \in Batches[x]
      BY <2>1 DEF Indexes
    <2>3. b \in DOMAIN s.byBatch =>
              s.byBatch[b] = {x.uuid : x \in {y \in Stored(s) : b \in Batches[y]}}
      BY <2>1 DEF Indexes
    <2>4. Batches[e] = {e.batch}
      BY <1>1 DEF Batches
    <2>5. \A x \in Stored(s) : x.uuid = e.uuid => x = e
      BY StoredDistinct
    <2>6. QED
      BY <2>2, <2>3, <2>4, <2>5
  <1>4. ASSUME NEW e \in Stored(s)
        PROVE  e \in Candidates(s, q)
                 <=> (q.batch = Unset \/ e.batch = q.batch) /\ q.tags \subseteq e.tags
    <2> DEFINE byKey == (IF q.batch = Unset THEN {} ELSE {<<s.byBatch, q.batch>>})
                          \cup {<<s.byTag, t>> : t \in q.tags}
               Hit(ik) == ik[2] \in DOMAIN ik[1] /\ e.uuid \in ik[1][ik[2]]
    <2>1. e \in Candidates(s, q) <=> \A ik \in byKey : Hit(ik)
      BY DEF Candidates
    <2>2. (\A ik \in byKey : Hit(ik))
            <=> /\ q.batch # Unset => Hit(<<s.byBatch, q.batch>>)
                /\ \A t \in q.tags : Hit(<<s.byTag, t>>)
      <3> HIDE DEF Hit
      <3>1. QED
        OBVIOUS
    <2>3. \A index, k : Hit(<<index, k>>) <=> k \in DOMAIN index /\ e.uuid \in index[k]
      OBVIOUS
    <2> HIDE DEF Hit, byKey
    <2>4. QED
      BY <1>2, <1>3, <2>1, <2>2, <2>3
  <1>5. Candidates(s, q) \subseteq Stored(s)
    BY DEF Candidates
  <1>6. Found(s, q) = {e \in Stored(s) : Matches(e, q)}
    BY <1>4, <1>5 DEF Found, Matches, Within
  <1>7. QED
    BY <1>6 DEF Answer

Rows(pages) == UNION ToSet(pages)

\* The row that stands for what is owed has the lowest of its sequences, and it was
\* given, or is before the reader, or tied with one that was given.
Stands(q, o, e) == Identity(q, e) = o.id /\ e.sequence \in o.sequences
                     /\ \A n \in o.sequences : e.sequence <= n
Met(q, cursor, pages, o, e) ==
    \/ \E g \in Rows(pages) : Identity(q, g) = o.id
    \/ Beyond(e, q, cursor)
    \/ q.kind = "groups" /\ \E g \in Rows(pages) : g.sequence \in o.sequences

\* What was given is behind the reader, and nothing of it was given twice.
Behind(q, cursor, pages) == \A g \in Rows(pages) : ~Beyond(g, q, cursor)
Once(q, pages) ==
    \A i, j \in DOMAIN pages : i < j =>
        \A a \in pages[i], b \in pages[j] :
            Identity(q, a) = Identity(q, b) => q.kind = "groups" /\ b.sequence < a.sequence

Walking(q, cursor, pages) ==
    /\ q \in Queries
    /\ cursor \in [sequence : Nat, uuid : Nat]
    /\ pages \in Seq(SUBSET Saved)
    /\ Behind(q, cursor, pages) /\ Once(q, pages)

WalkInv ==
    /\ walk.stage = "walking" =>
          /\ Walking(walk.query, walk.cursor, walk.given)
          /\ \A o \in owed : \E e \in Answer(store, walk.query) :
                Stands(walk.query, o, e) /\ Met(walk.query, walk.cursor, walk.given, o, e)
    /\ WalkComplete

MemoryInv == StoreInv(store) /\ unsaved \subseteq Calls /\ WalkInv

LEMMA AnswerStored ==
    ASSUME NEW s, StoreInv(s), NEW q
    PROVE  Answer(s, q) \subseteq Stored(s) /\ Answer(s, q) \subseteq Saved
  <1>1. Stored(s) \subseteq Saved
    BY DEF StoreInv, Stored, ToSet
  <1>2. QED
    BY <1>1 DEF Answer, Listed, Families

LEMMA SameSequence ==
    ASSUME NEW a \in Saved, NEW b \in Saved, a.uuid = b.uuid
    PROVE  a.sequence = b.sequence
  BY MemoryAssumption DEF MemoryAssumption, Saved

LEMMA RowsAppended ==
    ASSUME NEW pages \in Seq(SUBSET Saved), NEW page \in SUBSET Saved
    PROVE  /\ Append(pages, page) \in Seq(SUBSET Saved)
           /\ Rows(Append(pages, page)) = Rows(pages) \cup page
           /\ \A i \in DOMAIN pages : pages[i] \subseteq Rows(pages)
  <1> DEFINE more == Append(pages, page)
  <1>1. /\ more \in Seq(SUBSET Saved) /\ DOMAIN pages = 1..Len(pages) /\ Len(pages) \in Nat
        /\ DOMAIN more = 1..(Len(pages) + 1) /\ more[Len(pages) + 1] = page
        /\ \A i \in 1..Len(pages) : more[i] = pages[i]
    OBVIOUS
  <1>2. /\ Rows(pages) = UNION {pages[i] : i \in 1..Len(pages)}
        /\ Rows(more) = UNION {more[i] : i \in 1..(Len(pages) + 1)}
    BY <1>1 DEF Rows, ToSet
  <1> HIDE DEF more
  <1>3. ASSUME NEW x
        PROVE  x \in Rows(more) <=> x \in Rows(pages) \cup page
    <2>1. x \in Rows(more) <=> \E i \in 1..(Len(pages) + 1) : x \in more[i]
      BY <1>2
    <2>2. x \in Rows(pages) <=> \E i \in 1..Len(pages) : x \in pages[i]
      BY <1>2
    <2>3. \A i \in 1..(Len(pages) + 1) : i \in 1..Len(pages) \/ i = Len(pages) + 1
      BY <1>1
    <2>4. 1..Len(pages) \subseteq 1..(Len(pages) + 1) /\ Len(pages) + 1 \in 1..(Len(pages) + 1)
      BY <1>1
    <2>5. QED
      BY <1>1, <2>1, <2>2, <2>3, <2>4
  <1>4. Rows(more) = Rows(pages) \cup page
    BY <1>3
  <1>5. QED
    BY <1>1, <1>2, <1>4 DEF more

\* What a step of the reader does: all that is left, or a page whose last row
\* separates it from the rest.
Turn(q, cursor, pages, page) ==
    LET rest == {x \in Answer(store, q) : Beyond(x, q, cursor)}
    IN  /\ walk'.query = q /\ walk'.given = Append(pages, page) /\ page \subseteq rest
        /\ \/ walk'.stage = "done" /\ page = rest
           \/ /\ walk'.stage = "walking"
              /\ \E last \in page :
                    /\ walk'.cursor = [sequence |-> last.sequence, uuid |-> last.uuid]
                    /\ \A a \in page \ {last} : Precedes(store, q, a, last)
                    /\ \A b \in rest \ page : Precedes(store, q, last, b)

LEMMA AskTurns ==
    ASSUME StoreInv(store), NEW q, NEW cursor, NEW pages, Ask(q, cursor, pages)
    PROVE  \E page : Turn(q, cursor, pages, page)
  <1> DEFINE listed == {x \in Listed(store, q, Found(store, q)) : Beyond(x, q, cursor)}
             rest == {x \in Answer(store, q) : Beyond(x, q, cursor)}
  <1>1. listed = rest
    BY FoundIsAnswered
  <1>2. CASE walk' = [stage |-> "done", query |-> q, cursor |-> Nothing,
                      given |-> Append(pages, listed)]
    BY <1>1, <1>2 DEF Turn
  <1>3. CASE \E page \in Pages(store, q, listed) : \E last \in LastRows(store, q, page) :
                walk' = [stage |-> "walking", query |-> q,
                         cursor |-> [sequence |-> last.sequence, uuid |-> last.uuid],
                         given |-> Append(pages, page)]
    <2>1. PICK page \in Pages(store, q, listed) :
              \E last \in LastRows(store, q, page) :
                  walk' = [stage |-> "walking", query |-> q,
                           cursor |-> [sequence |-> last.sequence, uuid |-> last.uuid],
                           given |-> Append(pages, page)]
      BY <1>3
    <2>2. PICK last \in LastRows(store, q, page) :
              walk' = [stage |-> "walking", query |-> q,
                       cursor |-> [sequence |-> last.sequence, uuid |-> last.uuid],
                       given |-> Append(pages, page)]
      BY <2>1
    <2>3. /\ walk'.stage = "walking" /\ walk'.given = Append(pages, page) /\ walk'.query = q
          /\ walk'.cursor = [sequence |-> last.sequence, uuid |-> last.uuid]
      BY <2>2
    <2>4. last \in page /\ page \subseteq listed
      BY DEF LastRows, Pages, kSubset
    <2>5. \A a \in page \ {last} : Precedes(store, q, a, last)
      BY DEF LastRows
    <2>6. \A b \in listed \ page : Precedes(store, q, last, b)
      BY <2>4 DEF Pages
    <2> HIDE DEF listed, rest
    <2>7. /\ walk'.query = q /\ walk'.given = Append(pages, page) /\ page \subseteq rest
          /\ walk'.stage = "walking"
          /\ \E l \in page :
                /\ walk'.cursor = [sequence |-> l.sequence, uuid |-> l.uuid]
                /\ \A a \in page \ {l} : Precedes(store, q, a, l)
                /\ \A b \in rest \ page : Precedes(store, q, l, b)
      BY <1>1, <2>3, <2>4, <2>5, <2>6
    <2>8. Turn(q, cursor, pages, page)
      BY <2>7 DEF Turn, rest
    <2>9. QED
      BY <2>8
  <1>4. QED
    BY <1>2, <1>3 DEF Ask

\* A page gives what is owed up to its cursor, but for families that tie.
LEMMA TurnGives ==
    ASSUME StoreInv(store), NEW q \in Queries, NEW cursor, NEW pages \in Seq(SUBSET Saved),
           NEW page, Turn(q, cursor, pages, page),
           NEW o, NEW e \in Answer(store, q), Stands(q, o, e), Met(q, cursor, pages, o, e)
    PROVE  /\ walk'.stage = "walking" => Met(q, walk'.cursor, walk'.given, o, e)
           /\ walk'.stage = "done" =>
                 \/ \E g \in Rows(walk'.given) : Identity(q, g) = o.id
                 \/ q.kind = "groups" /\ \E g \in Rows(walk'.given) : g.sequence \in o.sequences
  <1> DEFINE rest == {x \in Answer(store, q) : Beyond(x, q, cursor)}
  <1>1. /\ walk'.given = Append(pages, page) /\ page \subseteq rest /\ page \subseteq Saved
        /\ walk'.stage = "walking" \/ page = rest
    BY AnswerStored DEF Turn
  <1>2. Rows(walk'.given) = Rows(pages) \cup page
    BY <1>1, RowsAppended
  <1>3. Identity(q, e) = o.id /\ e.sequence \in o.sequences
    BY DEF Stands
  <1>4. CASE e \in page \/ (\E g \in Rows(pages) : Identity(q, g) = o.id)
               \/ (q.kind = "groups" /\ \E g \in Rows(pages) : g.sequence \in o.sequences)
    BY <1>2, <1>3, <1>4 DEF Met
  <1>5. CASE Beyond(e, q, cursor) /\ e \notin page
    <2>1. walk'.stage = "walking" /\ e \in rest \ page /\ walk'.stage # "done"
      BY <1>1, <1>5 DEF Turn
    <2>2. PICK last \in page :
              /\ walk'.cursor = [sequence |-> last.sequence, uuid |-> last.uuid]
              /\ \A b \in rest \ page : Precedes(store, q, last, b)
      BY <2>1 DEF Turn
    <2>3. walk'.cursor.sequence = last.sequence /\ walk'.cursor.uuid = last.uuid
      BY <2>2
    <2>4. Precedes(store, q, last, e)
      BY <2>1, <2>2
    <2>5. CASE q.kind = "oldest"
      BY <2>1, <2>3, <2>4, <2>5 DEF Precedes, Beyond, Older, Met
    <2>6. CASE q.kind = "newest"
      BY <2>1, <2>3, <2>4, <2>6 DEF Precedes, Beyond, Older, Met
    <2>7. CASE q.kind = "groups"
      <3>1. e.sequence < last.sequence \/ last.sequence = e.sequence
        BY <2>4, <2>7 DEF Precedes
      <3>2. CASE e.sequence < last.sequence
        BY <2>1, <2>3, <2>7, <3>2 DEF Beyond, Met
      <3>3. CASE last.sequence = e.sequence
        BY <1>2, <1>3, <2>1, <2>7, <3>3 DEF Met
      <3>4. QED
        BY <3>1, <3>2, <3>3
    <2>8. QED
      BY <2>5, <2>6, <2>7, MemoryAssumption DEF MemoryAssumption
  <1>6. QED
    BY <1>4, <1>5 DEF Met

\* And nothing that was given before: that is behind the cursor, and stays behind it.
LEMMA TurnOnce ==
    ASSUME StoreInv(store), NEW q, NEW cursor, NEW pages, Walking(q, cursor, pages),
           NEW page, Turn(q, cursor, pages, page)
    PROVE  /\ Once(q, walk'.given)
           /\ walk'.stage = "walking" => Walking(q, walk'.cursor, walk'.given)
  <1>1. /\ q \in Queries /\ pages \in Seq(SUBSET Saved)
        /\ cursor.sequence \in Nat /\ cursor.uuid \in Nat
        /\ Behind(q, cursor, pages) /\ Once(q, pages)
    BY DEF Walking
  <1>2. /\ walk'.given = Append(pages, page)
        /\ page \subseteq Saved /\ \A b \in page : Beyond(b, q, cursor)
    BY AnswerStored DEF Turn
  <1>3. /\ walk'.given \in Seq(SUBSET Saved) /\ Rows(walk'.given) = Rows(pages) \cup page
        /\ \A i \in DOMAIN pages : pages[i] \subseteq Rows(pages)
    BY <1>1, <1>2, RowsAppended
  <1>4. Rows(pages) \subseteq Saved
    BY <1>1 DEF Rows, ToSet
  <1>5. q.kind \in {"newest", "oldest", "groups"}
    BY <1>1, MemoryAssumption DEF MemoryAssumption
  <1>6. ASSUME NEW a \in Rows(pages), NEW b \in page, Identity(q, a) = Identity(q, b)
        PROVE  q.kind = "groups" /\ b.sequence < a.sequence
    <2>1. ~Beyond(a, q, cursor) /\ Beyond(b, q, cursor) /\ cursor # Nothing
      BY <1>1, <1>2 DEF Behind, Beyond
    <2>2. a.sequence \in Nat /\ b.sequence \in Nat
      BY <1>2, <1>4, EntryNumbers
    <2>3. q.kind = "groups"
      <3> SUFFICES ASSUME q.kind # "groups" PROVE FALSE
        OBVIOUS
      <3>1. a.uuid = b.uuid
        BY <1>6 DEF Identity
      <3>2. a.sequence = b.sequence
        BY <1>2, <1>4, <3>1, SameSequence
      <3>3. QED
        BY <2>1, <3>1, <3>2 DEF Beyond, Older
    <2>4. QED
      BY <1>1, <2>1, <2>2, <2>3 DEF Beyond
  <1>7. Once(q, walk'.given)
    <2> SUFFICES ASSUME NEW i \in DOMAIN walk'.given, NEW j \in DOMAIN walk'.given, i < j,
                        NEW a \in walk'.given[i], NEW b \in walk'.given[j],
                        Identity(q, a) = Identity(q, b)
                 PROVE  q.kind = "groups" /\ b.sequence < a.sequence
      BY DEF Once
    <2>1. /\ DOMAIN pages = 1..Len(pages) /\ Len(pages) \in Nat
          /\ i \in 1..(Len(pages) + 1) /\ j \in 1..(Len(pages) + 1)
      BY <1>1, <1>2
    <2>2. i \in DOMAIN pages /\ a \in pages[i]
      BY <1>1, <1>2, <2>1
    <2>3. CASE j \in DOMAIN pages
      <3>1. b \in pages[j]
        BY <1>1, <1>2, <2>1, <2>3
      <3>2. QED
        BY <1>1, <2>2, <2>3, <3>1 DEF Once
    <2>4. CASE j = Len(pages) + 1
      <3>1. b \in page
        BY <1>1, <1>2, <2>4
      <3>2. QED
        BY <1>3, <1>6, <2>2, <3>1
    <2>5. QED
      BY <2>1, <2>3, <2>4
  <1>8. ASSUME walk'.stage = "walking"
        PROVE  Walking(q, walk'.cursor, walk'.given)
    <2>1. PICK last \in page :
              /\ walk'.cursor = [sequence |-> last.sequence, uuid |-> last.uuid]
              /\ \A a \in page \ {last} : Precedes(store, q, a, last)
      BY <1>8 DEF Turn
    <2>2. /\ walk'.cursor.sequence = last.sequence /\ walk'.cursor.uuid = last.uuid
          /\ last \in Saved
      BY <1>2, <2>1
    <2>3. last.sequence \in Nat /\ last.uuid \in Nat /\ last.uuid # 0
      BY <2>2, MemoryAssumption DEF MemoryAssumption, Saved
    <2>4. walk'.cursor # Nothing
      BY <2>2, <2>3 DEF Nothing
    <2>5. walk'.cursor \in [sequence : Nat, uuid : Nat]
      BY <2>1, <2>3
    <2>6. ASSUME NEW g \in Rows(pages) \cup page
          PROVE  ~Beyond(g, q, walk'.cursor)
      <3>1. g.sequence \in Nat /\ g.uuid \in Nat
        BY <1>2, <1>4, EntryNumbers
      <3>2. CASE g = last
        BY <2>2, <2>3, <2>4, <3>2 DEF Beyond, Older
      <3>3. CASE g \in page \ {last}
        <4>1. Precedes(store, q, g, last)
          BY <2>1, <3>3
        <4>2. CASE q.kind = "oldest"
          BY <2>2, <2>3, <2>4, <3>1, <4>1, <4>2 DEF Precedes, Beyond, Older
        <4>3. CASE q.kind = "newest"
          BY <2>2, <2>3, <2>4, <3>1, <4>1, <4>3 DEF Precedes, Beyond, Older
        <4>4. CASE q.kind = "groups"
          BY <2>2, <2>3, <2>4, <3>1, <4>1, <4>4 DEF Precedes, Beyond
        <4>5. QED
          BY <1>5, <4>2, <4>3, <4>4
      <3>4. CASE g \in Rows(pages)
        <4>1. ~Beyond(g, q, cursor) /\ Beyond(last, q, cursor) /\ cursor # Nothing
          BY <1>1, <1>2, <3>4 DEF Behind, Beyond
        <4>2. CASE q.kind = "oldest"
          BY <1>1, <2>2, <2>3, <2>4, <3>1, <4>1, <4>2 DEF Beyond, Older
        <4>3. CASE q.kind = "newest"
          BY <1>1, <2>2, <2>3, <2>4, <3>1, <4>1, <4>3 DEF Beyond, Older
        <4>4. CASE q.kind = "groups"
          BY <1>1, <2>2, <2>3, <2>4, <3>1, <4>1, <4>4 DEF Beyond
        <4>5. QED
          BY <1>5, <4>2, <4>3, <4>4
      <3>5. QED
        BY <3>2, <3>3, <3>4
    <2>7. QED
      BY <1>1, <1>3, <1>7, <2>5, <2>6 DEF Walking, Behind
  <1>9. QED
    BY <1>7, <1>8

\* What happens to the store leaves the walk what is still listed and has not recurred.
LEMMA StoreStepWalkInv ==
    ASSUME StoreInv(store), StoreInv(store)', WalkInv, StillOwed, UNCHANGED walk
    PROVE  WalkInv'
  <1>1. CASE walk.stage = "walking"
    <2> DEFINE q == walk.query
               cursor == walk.cursor
               pages == walk.given
    <2>1. owed' = {[id |-> oe[1].id, sequences |-> oe[1].sequences \cup {oe[2].sequence}] :
                      oe \in {oe \in owed \X Answer(store', q) : Keeps(q, oe[1], oe[2])}}
      BY <1>1 DEF StillOwed
    <2>2. Walking(q, cursor, pages)
      BY <1>1 DEF WalkInv
    <2>3. ASSUME NEW kept \in owed'
          PROVE  \E e \in Answer(store', q) : Stands(q, kept, e) /\ Met(q, cursor, pages, kept, e)
      <3>1. PICK oe \in owed \X Answer(store', q) :
                /\ Keeps(q, oe[1], oe[2])
                /\ kept = [id |-> oe[1].id, sequences |-> oe[1].sequences \cup {oe[2].sequence}]
        BY <2>1
      <3>2. PICK o \in owed, e \in Answer(store', q) : oe = <<o, e>>
        BY <3>1
      <3>3. /\ kept.id = o.id /\ kept.sequences = o.sequences \cup {e.sequence}
            /\ Identity(q, e) = o.id /\ \A n \in o.sequences : e.sequence <= n
        BY <3>1, <3>2 DEF Keeps
      <3>4. PICK was \in Answer(store, q) : Stands(q, o, was) /\ Met(q, cursor, pages, o, was)
        BY <1>1 DEF WalkInv
      <3>5. e \in Saved /\ was \in Saved
        BY <3>2, <3>4, AnswerStored
      <3>6. e.sequence \in Nat /\ was.sequence \in Nat /\ e.sequence <= was.sequence
        BY <3>3, <3>4, <3>5, EntryNumbers DEF Stands
      <3>7. Stands(q, kept, e)
        BY <3>3, <3>6 DEF Stands
      <3>8. Beyond(was, q, cursor) => Beyond(e, q, cursor)
        <4>1. CASE q.kind = "groups"
          <5>1. cursor.sequence \in Nat
            BY <2>2 DEF Walking
          <5>2. QED
            BY <3>6, <4>1, <5>1 DEF Beyond
        <4>2. CASE q.kind # "groups"
          <5>1. e.uuid = was.uuid
            BY <3>3, <3>4, <4>2 DEF Stands, Identity
          <5>2. e.sequence = was.sequence
            BY <3>5, <5>1, SameSequence
          <5>3. QED
            BY <4>2, <5>1, <5>2 DEF Beyond, Older
        <4>3. QED
          BY <4>1, <4>2
      <3>9. Met(q, cursor, pages, kept, e)
        BY <3>3, <3>4, <3>8 DEF Met
      <3>10. QED
        BY <3>7, <3>9
    <2>4. WalkComplete'
      BY <1>1 DEF WalkComplete
    <2>5. QED
      BY <1>1, <2>2, <2>3, <2>4 DEF WalkInv
  <1>2. CASE walk.stage # "walking"
    <2>1. owed' = owed
      BY <1>2 DEF StillOwed
    <2>2. QED
      BY <1>2, <2>1 DEF WalkInv, WalkComplete, Given, HasId, Tied
  <1>3. QED
    BY <1>1, <1>2

LEMMA AskWalkInv ==
    ASSUME StoreInv(store), UNCHANGED store, NEW q, NEW cursor, NEW pages,
           Walking(q, cursor, pages), Ask(q, cursor, pages),
           \A o \in owed' : \E e \in Answer(store, q) :
               Stands(q, o, e) /\ Met(q, cursor, pages, o, e)
    PROVE  WalkInv'
  <1>1. q \in Queries /\ pages \in Seq(SUBSET Saved)
    BY DEF Walking
  <1>2. PICK page : Turn(q, cursor, pages, page)
    BY AskTurns
  <1>3. walk'.query = q
    BY <1>2 DEF Turn
  <1>4. ASSUME NEW o \in owed'
        PROVE  /\ walk'.stage = "walking" =>
                     \E e \in Answer(store, q) :
                         Stands(q, o, e) /\ Met(q, walk'.cursor, walk'.given, o, e)
               /\ walk'.stage = "done" =>
                     \/ \E g \in Rows(walk'.given) : Identity(q, g) = o.id
                     \/ q.kind = "groups"
                          /\ \E g \in Rows(walk'.given) : g.sequence \in o.sequences
    <2>1. PICK e \in Answer(store, q) : Stands(q, o, e) /\ Met(q, cursor, pages, o, e)
      OBVIOUS
    <2>2. QED
      BY <1>1, <1>2, <2>1, TurnGives
  <1>5. /\ Once(q, walk'.given)
        /\ walk'.stage = "walking" => Walking(q, walk'.cursor, walk'.given)
    BY <1>2, TurnOnce
  <1>6. Given' = Rows(walk'.given)
    BY DEF Given, Rows
  <1>7. WalkComplete'
    BY <1>3, <1>4, <1>5, <1>6 DEF WalkComplete, HasId, Tied, Once
  <1>8. Answer(store', q) = Answer(store, q)
    OBVIOUS
  <1>9. QED
    BY <1>3, <1>4, <1>5, <1>7, <1>8 DEF WalkInv

-----------------------------------------------------------------------------
(* MemoryStore: the theorems *)

LEMMA EmptyStore ==
    ASSUME NEW s, s = [entries |-> <<>>, byTag |-> <<>>, byBatch |-> <<>>]
    PROVE  StoreInv(s)
  <1>1. s.entries = <<>> /\ s.byTag = <<>> /\ s.byBatch = <<>>
    OBVIOUS
  <1>2. Stored(s) = {} /\ DOMAIN s.entries = {}
    BY <1>1 DEF Stored, ToSet
  <1>3. \A K : Indexes(<<>>, {}, K)
    BY DEF Indexes
  <1>4. <<>> \in Seq(Saved)
    OBVIOUS
  <1>5. QED
    BY <1>1, <1>2, <1>3, <1>4 DEF StoreInv

LEMMA InitMemoryInv ==
    ASSUME InitMemory
    PROVE  MemoryInv
  <1>1. StoreInv(store)
    BY EmptyStore DEF InitMemory
  <1>2. walk.stage = "resting"
    BY DEF InitMemory, Resting
  <1>3. QED
    BY <1>1, <1>2 DEF InitMemory, MemoryInv, WalkInv, WalkComplete

LEMMA NextMemoryInv ==
    ASSUME MemoryInv, [NextMemory]_memoryVars
    PROVE  MemoryInv'
  <1>1. StoreInv(store) /\ unsaved \subseteq Calls /\ WalkInv
    BY DEF MemoryInv
  <1>2. ASSUME NEW call \in unsaved, SaveCall(call)
        PROVE  MemoryInv'
    <2>1. call \in Seq(Saved)
      <3>1. call \in Seq(ToSet(call)) /\ ToSet(call) \subseteq Saved
        BY <1>1, <1>2, MemoryAssumption DEF MemoryAssumption, Saved
      <3>2. QED
        BY <3>1
    <2>2. StoreInv(AllInserted(store, call))
      BY <1>1, <2>1, AllInsertedKeeps
    <2>3. StoreInv(store')
      BY <1>2, <2>2, AllRemovedKeeps DEF SaveCall, Evicted
    <2>4. QED
      BY <1>1, <1>2, <2>3, StoreStepWalkInv DEF SaveCall, MemoryInv
  <1>3. ASSUME NEW before, NEW keep, NEW a, Prune(before, keep, a)
        PROVE  MemoryInv'
    BY <1>1, <1>3, AllRemovedKeeps, StoreStepWalkInv DEF Prune, MemoryInv
  <1>4. ASSUME NEW cap, Trim(cap)
        PROVE  MemoryInv'
    BY <1>1, <1>4, AllRemovedKeeps, StoreStepWalkInv DEF Trim, MemoryInv
  <1>5. ASSUME NEW a, Clear(a)
        PROVE  MemoryInv'
    <2>1. StoreInv(store')
      BY <1>1, <1>5, AllRemovedKeeps, EmptyStore DEF Clear
    <2>2. QED
      BY <1>1, <1>5, <2>1, StoreStepWalkInv DEF Clear, MemoryInv
  <1>6. ASSUME NEW q \in Queries, BeginWalk(q)
        PROVE  MemoryInv'
    <2>1. /\ store' = store /\ Ask(q, Nothing, <<>>)
          /\ owed' = {[id |-> Identity(q, e), sequences |-> {e.sequence}] :
                         e \in Answer(store, q)}
      BY <1>6 DEF BeginWalk
    <2>2. Walking(q, Nothing, <<>>)
      BY DEF Walking, Nothing, Behind, Once, Rows, ToSet
    <2>3. ASSUME NEW o \in owed'
          PROVE  \E e \in Answer(store, q) : Stands(q, o, e) /\ Met(q, Nothing, <<>>, o, e)
      <3>1. PICK e \in Answer(store, q) :
                o = [id |-> Identity(q, e), sequences |-> {e.sequence}]
        BY <2>1
      <3>2. o.id = Identity(q, e) /\ o.sequences = {e.sequence} /\ e.sequence \in Nat
        BY <1>1, <3>1, AnswerStored, EntryNumbers
      <3>3. QED
        BY <3>2 DEF Stands, Met, Beyond
    <2>4. WalkInv'
      BY <1>1, <2>1, <2>2, <2>3, AskWalkInv
    <2>5. QED
      BY <1>1, <1>6, <2>1, <2>4 DEF BeginWalk, MemoryInv
  <1>7. CASE NextPage
    <2>1. /\ store' = store /\ owed' = owed /\ walk.stage = "walking"
          /\ Ask(walk.query, walk.cursor, walk.given)
      BY <1>7 DEF NextPage
    <2>2. /\ Walking(walk.query, walk.cursor, walk.given)
          /\ \A o \in owed : \E e \in Answer(store, walk.query) :
                Stands(walk.query, o, e) /\ Met(walk.query, walk.cursor, walk.given, o, e)
      BY <1>1, <2>1 DEF WalkInv
    <2>3. WalkInv'
      BY <1>1, <2>1, <2>2, AskWalkInv
    <2>4. QED
      BY <1>1, <1>7, <2>1, <2>3 DEF NextPage, MemoryInv
  <1>8. CASE UNCHANGED memoryVars
    <2>1. StoreInv(store)' /\ WalkInv'
      BY <1>1, <1>8 DEF memoryVars, WalkInv, WalkComplete, Given, HasId, Tied
    <2>2. QED
      BY <1>1, <1>8, <2>1 DEF memoryVars, MemoryInv
  <1>9. QED
    BY <1>2, <1>3, <1>4, <1>5, <1>6, <1>7, <1>8 DEF NextMemory

\* The entries, their indexes and the walk, after any operations of the driver.
THEOREM MemoryInvariant == MemorySpec => []MemoryInv
  BY InitMemoryInv, NextMemoryInv, PTL DEF MemorySpec

\* Entries have as many uuids as there are, so none is kept twice.
LEMMA AsManyUuids ==
    ASSUME NEW s, StoreInv(s)
    PROVE  Cardinality({e.uuid : e \in Stored(s)}) = Len(s.entries)
  <1> DEFINE uuids == {e.uuid : e \in Stored(s)}
             f == [i \in 1..Len(s.entries) |-> s.entries[i].uuid]
  <1>1. s.entries \in Seq(Saved) /\ Len(s.entries) \in Nat /\ DOMAIN s.entries = 1..Len(s.entries)
    BY DEF StoreInv
  <1>2. \A u \in uuids : \E i \in 1..Len(s.entries) : f[i] = u
    BY <1>1 DEF Stored, ToSet
  <1>3. \A i \in 1..Len(s.entries) : f[i] \in uuids
    BY <1>1 DEF Stored, ToSet
  <1>4. \A i, j \in 1..Len(s.entries) : f[i] = f[j] => i = j
    BY <1>1 DEF StoreInv
  <1> HIDE DEF uuids
  <1>5. f \in [1..Len(s.entries) -> uuids]
    BY <1>3
  <1> HIDE DEF f
  <1>6. ExistsBijection(1..Len(s.entries), uuids)
    <2>1. DOMAIN f = 1..Len(s.entries)
      BY <1>5
    <2>2. f \in Injection(1..Len(s.entries), uuids)
      BY <1>4, <1>5, <2>1 DEF Injection, IsInjective
    <2>3. f \in Surjection(1..Len(s.entries), uuids)
      BY <1>2, <1>5 DEF Surjection
    <2>4. QED
      BY <2>2, <2>3 DEF ExistsBijection, Bijection
  <1>7. Cardinality(uuids) = Len(s.entries)
    BY <1>1, <1>6, FS_CountingElements
  <1>8. QED
    BY <1>7 DEF uuids

\* After any saves, replacements, evictions, prunes, trims and clears, an index has a
\* bucket for exactly the keys of the entries there are, and in it exactly these.
THEOREM MemoryIndexesAgree == MemorySpec => []IndexesAgree
  <1>1. MemoryInv => IndexesAgree
    <2> SUFFICES ASSUME MemoryInv PROVE IndexesAgree
      OBVIOUS
    <2>1. StoreInv(store)
      BY DEF MemoryInv
    <2>2. \A e \in Stored(store) : e \in Saved
      BY <2>1 DEF StoreInv, Stored, ToSet
    <2>3. \A e \in Stored(store) : Tags[e] = e.tags /\ Batches[e] = {e.batch}
      BY <2>2 DEF Tags, Batches
    <2>4. Indexes(store.byTag, Stored(store), [e \in Stored(store) |-> e.tags])
      <3>1. \A e \in Stored(store) : Tags[e] = [x \in Stored(store) |-> x.tags][e]
        BY <2>3
      <3>2. QED
        BY <2>1, <3>1, IndexKeys DEF StoreInv
    <2>5. Indexes(store.byBatch, Stored(store), [e \in Stored(store) |-> {e.batch}])
      <3>1. \A e \in Stored(store) : Batches[e] = [x \in Stored(store) |-> {x.batch}][e]
        BY <2>3
      <3>2. QED
        BY <2>1, <3>1, IndexKeys DEF StoreInv
    <2>6. QED
      BY <2>1, <2>4, <2>5, AsManyUuids DEF IndexesAgree
  <1>2. QED
    BY <1>1, MemoryInvariant, PTL

\* A walk that came to its end was given whatever its query asked for all the time, and
\* none of it twice, but for a family behind one that ties with it, one that recurred
\* and one that lost its newest occurrence.
THEOREM MemoryWalkComplete == MemorySpec => []WalkComplete
  <1>1. MemoryInv => WalkComplete
    BY DEF MemoryInv, WalkInv
  <1>2. QED
    BY <1>1, MemoryInvariant, PTL

=============================================================================
