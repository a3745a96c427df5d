-------------------------- MODULE JobQueuesProofs --------------------------
(***************************************************************************)
(* What watchers keep to.  The job watcher pairs starts with ends, for any *)
(* jobs, task runs and bounds; the dump watcher, the registry that builds  *)
(* it and the tabs that lease it, for any watchers, tabs and times.        *)
(*                                                                         *)
(* The context a pair of #activeJobs holds was opened for a job with the   *)
(* pair's key, and for the attempt which that job's next end will name.    *)
(* For a BullMQ job this speaks of the events still chained: an end stands *)
(* right behind its start, and one at the head of the chain finds the pair *)
(* its start left, or that of another job with its key.  The pair of a run *)
(* of a task holds the context of a run with its key that is not older.    *)
(*                                                                         *)
(* What a process holds is tied to the phase that waits for it, and what a *)
(* teardown has taken down to how far it came, unless it met a phase.  The *)
(* request of a tab asks for what its page wants, or was asked again.      *)
(***************************************************************************)
EXTENDS JobQueues, LiveDumps, FiniteSetTheorems, SequenceTheorems, WellFoundedInduction, TLAPS

Items == [of : Jobs \cup TaskRuns, n : Nat]
ContextRec == [batch : Nat \cup Jobs, work : Items, sampled : BOOLEAN,
               rows : SUBSET Items, flushed : BOOLEAN]
Pairs(keys) == [key : keys, context : Nat \ {0}]
Events == [phase : {"started", "terminal", "scheduled"}, n : Nat \ {0}]

WatcherTyped ==
    /\ contexts \in Seq(ContextRec)
    /\ activeJobs \subseteq Pairs({JobKey[j] : j \in Jobs})
    /\ activeTasks \subseteq Pairs({TaskKey[t] : t \in TaskRuns})
    /\ flushes \subseteq Nat
    /\ active \in BOOLEAN
    /\ cleaning \in [stage : {"none", "adapters", "flushes", "done"}, awaits : SUBSET Nat]
    /\ runStage \in [TaskRuns -> {"idle", "started", "running", "ended"}]
    /\ runContext \in [TaskRuns -> Nat]

AdaptersTyped ==
    /\ attempt \in [BullJobs -> [n : Nat, runs : BOOLEAN]]
    /\ chain \in [BullJobs -> Seq(Events)]
    /\ lookup \in [BullJobs -> BOOLEAN]
    /\ bull \in {"listening", "draining", "closed"}
    /\ job \in [TracedJobs -> [stage : {"none", "started", "running", "handled",
                                        "retrying", "ended"}, n : Nat]]
    /\ wrapped \in [TracedJobs -> Nat]
    /\ subscribed \in BOOLEAN

Typed == WatcherTyped /\ AdaptersTyped

-----------------------------------------------------------------------------
(* The inductive invariant *)

\* A pair that holds a context of job j holds that of attempt n.
HoldsAttempt(j, n) ==
    \A e \in activeJobs :
        contexts[e.context].work.of = j => contexts[e.context].work = Item(j, n)

\* A chained end stands behind its start, and the head can be passed on.
InStep(j) ==
    /\ \A i \in 2..Len(chain[j]) :
         chain[j][i].phase # "started" =>
            chain[j][i - 1] = [phase |-> "started", n |-> chain[j][i].n]
    /\ chain[j] # <<>> /\ Head(chain[j]).phase # "started" =>
         HoldsAttempt(j, Head(chain[j]).n)
    /\ attempt[j].runs =>
         IF chain[j] = <<>> THEN HoldsAttempt(j, attempt[j].n)
         ELSE chain[j][Len(chain[j])] = [phase |-> "started", n |-> attempt[j].n]

BullInv ==
    /\ \A j \in BullJobs : attempt[j].runs => attempt[j].n > 0
    /\ \A j \in BullJobs : lookup[j] => chain[j] # <<>>
    /\ bull = "listening" => \A j \in BullJobs : InStep(j)

TracedInv ==
    \A j \in TracedJobs :
        /\ job[j].stage \in {"started", "running", "handled"} =>
             HoldsAttempt(j, job[j].n)
        /\ job[j].stage # "none" => job[j].n > 0
        /\ wrapped[j] # 0 /\ job[j].stage = "running" =>
             /\ wrapped[j] \in Numbers
             /\ contexts[wrapped[j]].work = Item(j, job[j].n)

OpenedFor(c, key) ==
    \E t \in TaskRuns : contexts[c].work = TaskWorkOf(t) /\ TaskKey[t] = key

\* What the maps hold are contexts that were opened for their keys; once the
\* watcher is not active they hold nothing.
MapsHold ==
    /\ ~active => activeJobs = {} /\ activeTasks = {}
    /\ \A e \in activeJobs :
         /\ e.context \in Numbers /\ contexts[e.context].work.of \in Jobs
         /\ e.key = JobKey[contexts[e.context].work.of]
    /\ \A e \in activeTasks : e.context \in Numbers /\ OpenedFor(e.context, e.key)
    /\ \A e, d \in activeTasks : e.key = d.key => e = d
    /\ IsFiniteSet(activeTasks)
    /\ \A t \in TaskRuns : runContext[t] # 0 =>
         runContext[t] \in Numbers /\ OpenedFor(runContext[t], TaskKey[t])

\* What the map has for the key of a run that was started, and what it entered, is
\* not older than the context its start opened.
NotBefore(t, cs) ==
    \E d \in Numbers : contexts[d].work = TaskWorkOf(t) /\ \A c \in cs : d <= c
Under(key) == {e.context : e \in {x \in activeTasks : x.key = key}}
RunsFollowed ==
    \A t \in TaskRuns :
        /\ active /\ runStage[t] # "idle" => NotBefore(t, Under(TaskKey[t]))
        /\ runContext[t] # 0 => NotBefore(t, {runContext[t]})

\* The rows of jobs and of runs are where they may be.
RowsWithRun ==
    \A c \in Numbers : \A row \in contexts[c].rows :
        row.of \in TaskRuns => WithItsRun(row, c)
RowsPlaced == EndsMeetStarts /\ RowsWithRun

\* A task context is flushed, owned, or was pushed out.
TasksOwned ==
    \A c \in TaskContexts :
        ~contexts[c].flushed
        => \/ \E e \in activeTasks : e.context = c
           \/ Superseded(c)
           \/ ~active

\* cleanup(), stage by stage.
Winding ==
    /\ cleaning.stage # "none" => ~active
    /\ bull # "listening" \/ ~subscribed => ~active
    /\ bull = "closed" => Tracked = {}
    /\ cleaning.stage \in {"flushes", "done"} =>
         bull = "closed" /\ flushes \subseteq cleaning.awaits
    /\ cleaning.stage = "done" => flushes = {}

WatcherInv == WatcherTyped /\ MapsHold /\ RunsFollowed /\ RowsPlaced /\ TasksOwned
IInv == WatcherInv /\ AdaptersTyped /\ BullInv /\ TracedInv /\ Winding

-----------------------------------------------------------------------------
(* Contexts only grow *)

\* A step opens contexts or adds to them; none changes its work or forgets that
\* it was flushed.
Grown ==
    /\ Len(contexts) <= Len(contexts')
    /\ \A c \in Numbers : /\ contexts'[c].work = contexts[c].work
                          /\ contexts[c].flushed => contexts'[c].flushed

LEMMA ItemFields ==
  ASSUME NEW of, NEW n, NEW k, NEW m
  PROVE  /\ Item(of, n).of = of /\ Item(of, n).n = n
         /\ Item(of, n) = Item(k, m) <=> of = k /\ n = m
BY DEF Item

LEMMA NumbersKnown ==
  ASSUME contexts \in Seq(ContextRec)
  PROVE  /\ Len(contexts) \in Nat /\ Numbers \subseteq Nat \ {0}
         /\ \A c \in Numbers : contexts[c] \in ContextRec
         /\ NextContext = Len(contexts) + 1 /\ NextContext \notin Numbers
BY DEF Numbers, NextContext

LEMMA Opened ==
  ASSUME contexts \in Seq(ContextRec), NEW batch \in Nat \cup Jobs, NEW work \in Items,
         NEW rows \in SUBSET Items, Open(batch, work, rows)
  PROVE  /\ contexts' \in Seq(ContextRec) /\ Grown
         /\ Len(contexts') = Len(contexts) + 1
         /\ Numbers' = Numbers \cup {NextContext}
         /\ \A c \in Numbers : contexts'[c] = contexts[c]
         /\ contexts'[NextContext].work = work
         /\ contexts'[NextContext].rows = rows
         /\ contexts'[NextContext].flushed = (rows # {})
<1>1. PICK s \in Draws : contexts' = Append(contexts, Context(batch, work, s, rows))
  BY DEF Open
<1>2. s \in BOOLEAN
  BY ActiveAssumption
<1>3. Context(batch, work, s, rows) \in ContextRec
  BY <1>2 DEF Context, ContextRec
<1>4. /\ contexts' \in Seq(ContextRec) /\ Len(contexts') = Len(contexts) + 1
      /\ \A c \in 1..Len(contexts) : contexts'[c] = contexts[c]
      /\ contexts'[Len(contexts) + 1] = Context(batch, work, s, rows)
  BY <1>1, <1>3, AppendProperties
<1>5. Len(contexts) \in Nat
  BY NumbersKnown
<1>6. Numbers' = Numbers \cup {NextContext}
  BY <1>4, <1>5 DEF Numbers, NextContext
<1>7. Grown
  BY <1>4, <1>5 DEF Grown, Numbers
<1> QED BY <1>4, <1>6, <1>7 DEF Numbers, NextContext, Context

LEMMA ContextChanged ==
  ASSUME contexts \in Seq(ContextRec), NEW c \in Numbers, NEW r \in ContextRec,
         contexts' = [contexts EXCEPT ![c] = r],
         r.work = contexts[c].work, contexts[c].flushed => r.flushed
  PROVE  /\ contexts' \in Seq(ContextRec) /\ Grown
         /\ Numbers' = Numbers
         /\ \A d \in Numbers : contexts'[d] = IF d = c THEN r ELSE contexts[d]
<1>1. /\ contexts' \in Seq(ContextRec) /\ Len(contexts') = Len(contexts)
      /\ \A d \in 1..Len(contexts) : contexts'[d] = IF d = c THEN r ELSE contexts[d]
  BY ExceptSeq DEF Numbers
<1>2. Len(contexts) \in Nat
  BY NumbersKnown
<1> QED BY <1>1, <1>2 DEF Grown, Numbers

LEMMA Recorded ==
  ASSUME contexts \in Seq(ContextRec), NEW c \in Numbers, NEW row \in Items,
         contexts' = [contexts EXCEPT ![c].rows = @ \cup {row}, ![c].flushed = TRUE]
  PROVE  /\ contexts' \in Seq(ContextRec) /\ Grown
         /\ Numbers' = Numbers
         /\ \A d \in Numbers \ {c} : contexts'[d] = contexts[d]
         /\ contexts'[c].work = contexts[c].work
         /\ contexts'[c].rows = contexts[c].rows \cup {row}
         /\ contexts'[c].flushed
<1>1. contexts[c] \in ContextRec
  BY NumbersKnown
<1> DEFINE r == [contexts[c] EXCEPT !.rows = @ \cup {row}, !.flushed = TRUE]
<1>2. r \in ContextRec /\ r.work = contexts[c].work /\ r.rows = contexts[c].rows \cup {row}
      /\ r.flushed = TRUE
  BY <1>1 DEF ContextRec
<1>3. contexts' = [contexts EXCEPT ![c] = r]
  BY DEF Numbers
<1> HIDE DEF r
<1>4. /\ contexts' \in Seq(ContextRec) /\ Grown /\ Numbers' = Numbers
      /\ \A d \in Numbers : contexts'[d] = IF d = c THEN r ELSE contexts[d]
  BY <1>2, <1>3, ContextChanged
<1> QED BY <1>2, <1>4

\* Work adds a row to a context and changes nothing else of it.
LEMMA Worked ==
  ASSUME contexts \in Seq(ContextRec), NEW c \in Numbers, NEW row \in Items,
         contexts' = [contexts EXCEPT ![c].rows = @ \cup {row}]
  PROVE  /\ contexts' \in Seq(ContextRec) /\ Grown
         /\ Numbers' = Numbers
         /\ \A d \in Numbers \ {c} : contexts'[d] = contexts[d]
         /\ contexts'[c].work = contexts[c].work
         /\ contexts'[c].rows = contexts[c].rows \cup {row}
         /\ contexts'[c].flushed = contexts[c].flushed
<1>1. contexts[c] \in ContextRec
  BY NumbersKnown
<1> DEFINE r == [contexts[c] EXCEPT !.rows = @ \cup {row}]
<1>2. r \in ContextRec /\ r.work = contexts[c].work /\ r.rows = contexts[c].rows \cup {row}
      /\ r.flushed = contexts[c].flushed
  BY <1>1 DEF ContextRec
<1>3. contexts' = [contexts EXCEPT ![c] = r] /\ (contexts[c].flushed => r.flushed)
  BY <1>2 DEF Numbers
<1> HIDE DEF r
<1>4. /\ contexts' \in Seq(ContextRec) /\ Grown /\ Numbers' = Numbers
      /\ \A d \in Numbers : contexts'[d] = IF d = c THEN r ELSE contexts[d]
  BY <1>2, <1>3, ContextChanged
<1> QED BY <1>2, <1>4

\* A flag of a context is set.
LEMMA Marked ==
  ASSUME contexts \in Seq(ContextRec), NEW c \in Numbers,
         contexts' = [contexts EXCEPT ![c].flushed = TRUE]
  PROVE  /\ contexts' \in Seq(ContextRec) /\ Grown
         /\ Numbers' = Numbers
         /\ \A d \in Numbers : contexts'[d].work = contexts[d].work
                               /\ contexts'[d].rows = contexts[d].rows
<1>1. contexts[c] \in ContextRec
  BY NumbersKnown
<1> DEFINE r == [contexts[c] EXCEPT !.flushed = TRUE]
<1>2. r \in ContextRec /\ r.work = contexts[c].work /\ r.rows = contexts[c].rows
      /\ r.flushed = TRUE
  BY <1>1 DEF ContextRec
<1>3. contexts' = [contexts EXCEPT ![c] = r]
  BY DEF Numbers
<1> HIDE DEF r
<1>4. /\ contexts' \in Seq(ContextRec) /\ Grown /\ Numbers' = Numbers
      /\ \A d \in Numbers : contexts'[d] = IF d = c THEN r ELSE contexts[d]
  BY <1>2, <1>3, ContextChanged
<1> QED BY <1>2, <1>4

LEMMA KeysAfterFinite ==
  ASSUME contexts' \in Seq(ContextRec), NEW c
  PROVE  IsFiniteSet(KeysAfter(c)') /\ Cardinality(KeysAfter(c)') \in Nat
<1>1. IsFiniteSet(1..Len(contexts'))
  BY FS_Interval
<1>2. Younger(c)' \subseteq 1..Len(contexts')
  BY DEF Younger, TaskContexts, Numbers
<1> DEFINE Y == Younger(c)'
           K == KeysAfter(c)'
           f == [d \in Y |-> TaskKey[contexts'[d].work.of]]
<1>3. IsFiniteSet(Y)
  BY <1>1, <1>2, FS_Subset
<1>4. K = {f[d] : d \in Y}
  BY DEF KeysAfter, KeyOf
<1>5. f \in Surjection(Y, K)
  BY <1>4 DEF Surjection
<1> HIDE DEF Y, K, f
<1>6. IsFiniteSet(K)
  BY <1>3, <1>5, FS_Surjection
<1> QED BY <1>6, FS_CardinalityType DEF K

\* What was pushed out stays pushed out.
LEMMA SupersededKept ==
  ASSUME WatcherTyped, contexts' \in Seq(ContextRec), Grown,
         NEW c \in TaskContexts, Superseded(c)
  PROVE  Superseded(c)'
<1>1. Numbers \subseteq Numbers' /\ Len(contexts') \in Nat
  BY NumbersKnown DEF Grown, Numbers, WatcherTyped
<1>2. \A d \in TaskContexts : d \in TaskContexts'
  BY <1>1 DEF TaskContexts, Grown
<1>3. Younger(c) \subseteq Younger(c)'
  BY <1>2 DEF Younger
<1>4. \A d \in Younger(c) : contexts'[d].work = contexts[d].work
  BY DEF Younger, TaskContexts, Grown
<1>5. contexts'[c].work = contexts[c].work
  BY DEF TaskContexts, Grown
<1>6. KeyOf(c)' = KeyOf(c) /\ \A d \in Younger(c) : KeyOf(d)' = KeyOf(d)
  BY <1>4, <1>5 DEF KeyOf
<1>7. KeysAfter(c) \subseteq KeysAfter(c)'
  BY <1>3, <1>6 DEF KeysAfter
<1>8. CASE KeyOf(c) \in KeysAfter(c)
  BY <1>6, <1>7, <1>8 DEF Superseded
<1>9. CASE Cardinality(KeysAfter(c)) >= MaxActive
  <2>1. IsFiniteSet(KeysAfter(c)') /\ Cardinality(KeysAfter(c)') \in Nat
    BY KeysAfterFinite
  <2>2. Cardinality(KeysAfter(c)) <= Cardinality(KeysAfter(c)')
        /\ Cardinality(KeysAfter(c)) \in Nat
    BY <1>7, <2>1, FS_Subset, FS_CardinalityType
  <2>3. Cardinality(KeysAfter(c)') >= MaxActive
    BY <1>9, <2>1, <2>2, ActiveAssumption
  <2> QED BY <2>3 DEF Superseded
<1> QED BY <1>8, <1>9 DEF Superseded

\* As long as #activeTasks stays, every step keeps what it owns; only the start of
\* a task opens a task context.
LEMMA TasksOwnedKept ==
  ASSUME WatcherTyped, contexts' \in Seq(ContextRec), Grown, TasksOwned,
         activeTasks' = activeTasks, active' = active,
         \A c \in Numbers' \ Numbers : contexts'[c].work.n > 0
  PROVE  TasksOwned'
<1> SUFFICES ASSUME NEW c \in TaskContexts', ~contexts'[c].flushed
             PROVE  \/ \E e \in activeTasks : e.context = c
                    \/ Superseded(c)'
                    \/ ~active
  BY DEF TasksOwned
<1>1. PICK t \in TaskRuns : contexts'[c].work = TaskWorkOf(t)
  BY DEF TaskContexts
<1>2. contexts'[c].work.n = 0
  BY <1>1, ItemFields DEF TaskWorkOf
<1>3. c \in Numbers' /\ c \in Numbers
  BY <1>2 DEF TaskContexts
<1>4. c \in TaskContexts /\ ~contexts[c].flushed
  BY <1>1, <1>3 DEF TaskContexts, Grown
<1> QED BY <1>4, SupersededKept DEF TasksOwned

-----------------------------------------------------------------------------
(* The maps *)

LEMMA ContextOfPair ==
  ASSUME NEW map, NEW key
  PROVE  \/ ContextOf(map, key) = 0 /\ \A e \in map : e.key # key
         \/ \E e \in map : e.key = key /\ ContextOf(map, key) = e.context
<1>1. CASE \E e \in map : e.key = key
  <2>1. PICK e \in map : e.key = key
    BY <1>1
  <2> DEFINE d == CHOOSE e_1 \in map : e_1.key = key
  <2>2. d \in map /\ d.key = key
    BY <2>1
  <2> QED BY <1>1, <2>2 DEF ContextOf
<1>2. CASE ~\E e \in map : e.key = key
  BY <1>2 DEF ContextOf
<1> QED BY <1>1, <1>2

LEMMA Lowest ==
  ASSUME NEW S \in SUBSET Nat, S # {}
  PROVE  \E m \in S : \A n \in S : m <= n
<1>1. PICK m \in S : \A n \in S : ~(<<n, m>> \in OpToRel(<, Nat))
  BY NatLessThanWellFounded, WFMin, Zenon
<1>2. \A n \in S : ~(n < m)
  BY <1>1, Zenon DEF OpToRel
<1> QED BY <1>2

\* Among the pairs of a map one is the oldest.
LEMMA OldestPair ==
  ASSUME NEW keys, NEW map \in SUBSET Pairs(keys), map # {}
  PROVE  Oldest(map) \in map /\ \A d \in map : Oldest(map).context <= d.context
<1> DEFINE S == {e.context : e \in map}
<1>1. S \in SUBSET Nat /\ S # {}
  BY DEF Pairs
<1>2. PICK m \in S : \A n \in S : m <= n
  BY <1>1, Lowest
<1>3. PICK e \in map : e.context = m
  BY <1>2
<1>4. \A d \in map : e.context <= d.context
  BY <1>2, <1>3
<1> QED BY <1>3, <1>4 DEF Oldest

\* What Put inserts, and what it may throw out.
LEMMA PutPairs ==
  ASSUME NEW map, NEW key, NEW c
  PROVE  Put(map, key, c) \subseteq Without(map, key) \cup {[key |-> key, context |-> c]}
BY DEF Put

\* Runs are followed as long as the map of tasks only loses pairs.
LEMMA NotBeforeKept ==
  ASSUME contexts \in Seq(ContextRec), contexts' \in Seq(ContextRec), Grown,
         NEW t \in TaskRuns, NEW cs, NotBefore(t, cs), NEW ds \in SUBSET cs
  PROVE  NotBefore(t, ds)'
<1>1. Numbers \subseteq Numbers' /\ \A d \in Numbers : contexts'[d].work = contexts[d].work
  BY NumbersKnown DEF Grown, Numbers
<1> QED BY <1>1 DEF NotBefore, TaskWorkOf

LEMMA FollowedKept ==
  ASSUME WatcherTyped, RunsFollowed, contexts' \in Seq(ContextRec), Grown,
         activeTasks' \subseteq activeTasks, active' => active,
         \A k \in TaskRuns : runStage'[k] # "idle" => runStage[k] # "idle",
         runContext' = runContext
  PROVE  RunsFollowed'
<1> SUFFICES ASSUME NEW k \in TaskRuns
             PROVE  /\ active' /\ runStage'[k] # "idle" => NotBefore(k, Under(TaskKey[k]))'
                    /\ runContext'[k] # 0 => NotBefore(k, {runContext[k]})'
  BY DEF RunsFollowed, NotBefore
<1>1. contexts \in Seq(ContextRec)
  BY DEF WatcherTyped
<1>3. PICK us : us = Under(TaskKey[k])'
  OBVIOUS
<1>4. us \subseteq Under(TaskKey[k])
  BY <1>3 DEF Under
<1>5. ASSUME active', runStage'[k] # "idle" PROVE NotBefore(k, us)'
  BY <1>1, <1>4, <1>5, NotBeforeKept DEF RunsFollowed
<1>6. ASSUME runContext[k] # 0 PROVE NotBefore(k, {runContext[k]})'
  BY <1>1, <1>6, NotBeforeKept DEF RunsFollowed
<1> QED BY <1>3, <1>5, <1>6 DEF NotBefore

-----------------------------------------------------------------------------
(* The calls of the watcher about jobs *)

\* What a call about job j leaves to the adapters.
Passed(j) ==
    /\ WatcherInv' /\ Grown
    /\ \A k \in Jobs \ {j}, m \in Nat : HoldsAttempt(k, m) => HoldsAttempt(k, m)'
    /\ ~active => flushes' = flushes

Unobserved == UNCHANGED <<activeTasks, active, cleaning, runVars>>

\* No context that a call opens is a task's, and no pair but one about a context
\* opened for it comes in.
LEMMA CallKeeps ==
  ASSUME WatcherInv, Unobserved, contexts' \in Seq(ContextRec), Grown,
         \A c \in Numbers' \ Numbers : contexts'[c].work.n > 0,
         NEW j \in Jobs,
         \A e \in activeJobs' : e \in activeJobs
            \/ /\ e \in Pairs({JobKey[j]}) /\ e.context \in Numbers'
               /\ contexts'[e.context].work.of = j,
         ~active => activeJobs' = {} /\ flushes' = flushes,
         flushes' \subseteq Nat, RowsPlaced'
  PROVE  Passed(j)
<1> USE DEF Unobserved
<1>1. WatcherTyped /\ MapsHold /\ RunsFollowed /\ TasksOwned
  BY DEF WatcherInv
<1>2. Numbers \subseteq Numbers'
  BY <1>1, NumbersKnown DEF WatcherTyped, Grown, Numbers
<1>3. WatcherTyped'
  <2>1. activeJobs' \subseteq Pairs({JobKey[k] : k \in Jobs})
    BY <1>1 DEF WatcherTyped, Pairs
  <2> QED BY <1>1, <2>1 DEF WatcherTyped, runVars
<1>4. \A e \in activeJobs : e.context \in Numbers'
                            /\ contexts'[e.context].work = contexts[e.context].work
  BY <1>1, <1>2 DEF MapsHold, Grown
<1>5. MapsHold'
  <2>1. \A e \in activeJobs' :
          /\ e.context \in Numbers' /\ contexts'[e.context].work.of \in Jobs
          /\ e.key = JobKey[contexts'[e.context].work.of]
    BY <1>1, <1>4 DEF MapsHold, Pairs
  <2>2. \A e \in activeTasks : e.context \in Numbers' /\ OpenedFor(e.context, e.key)'
    BY <1>1, <1>2 DEF MapsHold, Grown, OpenedFor, TaskWorkOf
  <2>3. \A t \in TaskRuns : runContext[t] # 0 =>
          runContext[t] \in Numbers' /\ OpenedFor(runContext[t], TaskKey[t])'
    BY <1>1, <1>2 DEF MapsHold, Grown, OpenedFor, TaskWorkOf, runVars
  <2> QED BY <1>1, <2>1, <2>2, <2>3 DEF MapsHold, OpenedFor, runVars
<1>6. TasksOwned'
  BY <1>1, TasksOwnedKept
<1>7. ASSUME NEW k \in Jobs \ {j}, NEW m \in Nat, HoldsAttempt(k, m)
      PROVE  HoldsAttempt(k, m)'
  BY <1>4, <1>7 DEF HoldsAttempt, Pairs
<1>8. RunsFollowed'
  BY <1>1, FollowedKept DEF runVars
<1> QED BY <1>3, <1>5, <1>6, <1>7, <1>8 DEF Passed, WatcherInv

LEMMA BatchNamed ==
  ASSUME contexts \in Seq(ContextRec), NEW id \in {None} \cup Jobs
  PROVE  Batch(id) \in Nat \cup Jobs /\ NextContext \in Nat
BY NumbersKnown DEF Batch

\* Where a row of a run may be it may stay.
LEMMA WithItsRunKept ==
  ASSUME contexts \in Seq(ContextRec), contexts' \in Seq(ContextRec), Grown,
         NEW c \in Numbers, NEW row, WithItsRun(row, c)
  PROVE  WithItsRun(row, c)'
<1>1. Numbers \subseteq Numbers' /\ \A d \in Numbers : contexts'[d].work = contexts[d].work
  BY NumbersKnown DEF Grown, Numbers
<1>2. TaskContexts \subseteq TaskContexts' /\ TaskContexts \subseteq Numbers
  BY <1>1 DEF TaskContexts, TaskWorkOf
<1>3. \A d \in Numbers : KeyOf(d)' = KeyOf(d)
  BY <1>1 DEF KeyOf
<1>4. CASE contexts[c].work.of = row.of
  BY <1>1, <1>4 DEF WithItsRun
<1>5. CASE c \in TaskContexts /\ \E d \in TaskContexts :
              d < c /\ contexts[d].work.of = row.of /\ KeyOf(d) = KeyOf(c)
  <2>1. PICK d \in TaskContexts : d < c /\ contexts[d].work.of = row.of /\ KeyOf(d) = KeyOf(c)
    BY <1>5
  <2>2. d \in Numbers /\ KeyOf(d)' = KeyOf(c)' /\ contexts'[d].work.of = row.of
    BY <1>1, <1>2, <1>3, <2>1
  <2> QED BY <1>2, <1>5, <2>1, <2>2 DEF WithItsRun
<1> QED BY <1>4, <1>5 DEF WithItsRun

\* The rows of a context that is opened are its work.
LEMMA RowsOpened ==
  ASSUME contexts \in Seq(ContextRec), contexts' \in Seq(ContextRec), Grown, RowsPlaced,
         Numbers' = Numbers \cup {NextContext},
         \A c \in Numbers : contexts'[c] = contexts[c],
         \A row \in contexts'[NextContext].rows : row = contexts'[NextContext].work
  PROVE  RowsPlaced'
<1>1. EndsMeetStarts'
  <2> SUFFICES ASSUME NEW c \in Numbers', NEW row \in contexts'[c].rows, row.of \in Jobs,
                      row # contexts'[c].work
               PROVE  contexts'[c].work.of \in Jobs /\ SameKey(row.of, contexts'[c].work.of)
    BY DEF EndsMeetStarts, SameKey
  <2>1. c \in Numbers
    OBVIOUS
  <2> QED BY <2>1 DEF RowsPlaced, EndsMeetStarts
<1>2. RowsWithRun'
  <2> SUFFICES ASSUME NEW c \in Numbers', NEW row \in contexts'[c].rows, row.of \in TaskRuns
               PROVE  WithItsRun(row, c)'
    BY DEF RowsWithRun
  <2>1. CASE c = NextContext
    BY <2>1 DEF WithItsRun
  <2>2. CASE c \in Numbers
    BY <2>2, WithItsRunKept DEF RowsPlaced, RowsWithRun
  <2> QED BY <2>1, <2>2
<1> QED BY <1>1, <1>2 DEF RowsPlaced

LEMMA RowsAdded ==
  ASSUME contexts \in Seq(ContextRec), contexts' \in Seq(ContextRec), Grown, RowsPlaced,
         Numbers' = Numbers, NEW c \in Numbers, NEW row,
         \A d \in Numbers \ {c} : contexts'[d] = contexts[d],
         contexts'[c].work = contexts[c].work,
         contexts'[c].rows = contexts[c].rows \cup {row},
         row.of \in Jobs => \/ row = contexts[c].work
                            \/ /\ contexts[c].work.of \in Jobs
                               /\ SameKey(row.of, contexts[c].work.of),
         row.of \in TaskRuns => WithItsRun(row, c)
  PROVE  RowsPlaced'
<1>1. EndsMeetStarts'
  <2> SUFFICES ASSUME NEW d \in Numbers, NEW x \in contexts'[d].rows, x.of \in Jobs,
                      x # contexts'[d].work
               PROVE  contexts'[d].work.of \in Jobs /\ SameKey(x.of, contexts'[d].work.of)
    BY DEF EndsMeetStarts, SameKey
  <2>1. CASE d = c
    BY <2>1 DEF RowsPlaced, EndsMeetStarts
  <2>2. CASE d # c
    BY <2>2 DEF RowsPlaced, EndsMeetStarts
  <2> QED BY <2>1, <2>2
<1>2. RowsWithRun'
  <2> SUFFICES ASSUME NEW d \in Numbers, NEW x \in contexts'[d].rows, x.of \in TaskRuns
               PROVE  WithItsRun(x, d)'
    BY DEF RowsWithRun
  <2>1. WithItsRun(x, d)
    <3>1. CASE x \in contexts[d].rows
      BY <3>1 DEF RowsPlaced, RowsWithRun
    <3>2. CASE x \notin contexts[d].rows
      <4>1. d = c /\ x = row
        BY <3>2
      <4> QED BY <4>1
    <3> QED BY <3>1, <3>2
  <2> QED BY <2>1, WithItsRunKept
<1> QED BY <1>1, <1>2 DEF RowsPlaced

\* No row is added.
LEMMA RowsStay ==
  ASSUME contexts \in Seq(ContextRec), contexts' \in Seq(ContextRec), Grown, RowsPlaced,
         Numbers' = Numbers,
         \A c \in Numbers : /\ contexts'[c].work = contexts[c].work
                             /\ contexts'[c].rows = contexts[c].rows
  PROVE  RowsPlaced'
<1>1. EndsMeetStarts'
  BY DEF RowsPlaced, EndsMeetStarts
<1>2. RowsWithRun'
  BY WithItsRunKept DEF RowsPlaced, RowsWithRun
<1> QED BY <1>1, <1>2 DEF RowsPlaced

\* A call that is not observed.
LEMMA IgnoredPasses ==
  ASSUME WatcherInv, NEW j \in Jobs, Ignored, Unobserved
  PROVE  Passed(j) /\ \A m : HoldsAttempt(j, m)'
<1>1. contexts' = contexts /\ activeJobs' = {} /\ activeJobs = {} /\ flushes' = flushes
  BY DEF Ignored, WatcherInv, MapsHold
<1>2. contexts \in Seq(ContextRec) /\ Len(contexts) \in Nat /\ flushes \subseteq Nat
  BY NumbersKnown DEF WatcherInv, WatcherTyped
<1>3. Grown /\ Numbers' = Numbers
  BY <1>1, <1>2 DEF Grown, Numbers
<1>4. RowsPlaced'
  BY <1>1, <1>2, <1>3, RowsStay DEF WatcherInv
<1>5. Passed(j)
  BY <1>1, <1>2, <1>3, <1>4, CallKeeps
<1> QED BY <1>1, <1>5 DEF HoldsAttempt

LEMMA StartedPasses ==
  ASSUME WatcherInv, Unobserved, NEW j \in Jobs, NEW id \in {None} \cup Jobs,
         NEW n \in Nat \ {0}, Started(j, id, n)
  PROVE  Passed(j) /\ HoldsAttempt(j, n)'
<1>1. CASE Ignored
  BY <1>1, IgnoredPasses
<1>2. CASE active /\ Open(Batch(id), Item(j, n), {}) /\ UNCHANGED flushes
           /\ activeJobs' = Put(activeJobs, JobKey[j], NextContext)
  <2>1. Item(j, n) \in Items /\ {} \in SUBSET Items
    BY DEF Item, Items
  <2>2. contexts \in Seq(ContextRec) /\ Batch(id) \in Nat \cup Jobs /\ NextContext \in Nat \ {0}
    BY BatchNamed, NumbersKnown DEF WatcherInv, WatcherTyped
  <2>3. /\ contexts' \in Seq(ContextRec) /\ Grown
        /\ Numbers' = Numbers \cup {NextContext}
        /\ \A c \in Numbers : contexts'[c] = contexts[c]
        /\ contexts'[NextContext].work = Item(j, n)
        /\ contexts'[NextContext].rows = {}
    BY <1>2, <2>1, <2>2, Opened
  <2>4. RowsPlaced'
    BY <2>2, <2>3, RowsOpened DEF WatcherInv
  <2>5. \A e \in activeJobs' : \/ e \in activeJobs /\ e.key # JobKey[j]
                               \/ e = [key |-> JobKey[j], context |-> NextContext]
    BY <1>2, PutPairs DEF Without
  <2>6. \A e \in activeJobs' : e \in activeJobs
            \/ /\ e \in Pairs({JobKey[j]}) /\ e.context \in Numbers'
               /\ contexts'[e.context].work.of = j
    BY <2>2, <2>3, <2>5, ItemFields DEF Pairs
  <2>7. \A c \in Numbers' \ Numbers : contexts'[c].work.n > 0
    BY <2>3, ItemFields
  <2>8. Passed(j)
    BY <1>2, <2>3, <2>4, <2>6, <2>7, CallKeeps DEF WatcherInv, WatcherTyped
  <2>9. ASSUME NEW e \in activeJobs', e \in activeJobs, e.key # JobKey[j]
        PROVE  contexts'[e.context].work.of # j
    BY <2>3, <2>9 DEF WatcherInv, MapsHold
  <2> QED BY <2>3, <2>5, <2>8, <2>9 DEF HoldsAttempt
<1> QED BY <1>1, <1>2 DEF Started

LEMMA ScheduledPasses ==
  ASSUME WatcherInv, Unobserved, NEW j \in Jobs, NEW n \in Nat \ {0}, Scheduled(j, n)
  PROVE  Passed(j) /\ \A m \in Nat : HoldsAttempt(j, m) => HoldsAttempt(j, m)'
<1>1. CASE Ignored
  BY <1>1, IgnoredPasses
<1>2. CASE active /\ OpenRecordAndFlush(NextContext, Item(j, n), Item(j, n))
           /\ UNCHANGED activeJobs
  <2>1. Item(j, n) \in Items
    BY DEF Item, Items
  <2>2. contexts \in Seq(ContextRec) /\ NextContext \in Nat \ {0}
    BY NumbersKnown DEF WatcherInv, WatcherTyped
  <2>3. /\ contexts' \in Seq(ContextRec) /\ Grown
        /\ Numbers' = Numbers \cup {NextContext}
        /\ \A c \in Numbers : contexts'[c] = contexts[c]
        /\ contexts'[NextContext].work = Item(j, n)
        /\ contexts'[NextContext].rows = {Item(j, n)}
    BY <1>2, <2>1, <2>2, Opened DEF OpenRecordAndFlush
  <2>4. RowsPlaced'
    BY <2>2, <2>3, RowsOpened DEF WatcherInv
  <2>5. \A c \in Numbers' \ Numbers : contexts'[c].work.n > 0
    BY <2>3, ItemFields
  <2>6. flushes' \subseteq Nat
    BY <1>2, <2>2 DEF OpenRecordAndFlush, WatcherInv, WatcherTyped
  <2>7. Passed(j)
    BY <1>2, <2>3, <2>4, <2>5, <2>6, CallKeeps DEF WatcherInv
  <2>8. \A e \in activeJobs : contexts'[e.context].work = contexts[e.context].work
    BY <2>3 DEF WatcherInv, MapsHold
  <2> QED BY <1>2, <2>7, <2>8 DEF HoldsAttempt
<1> QED BY <1>1, <1>2 DEF Scheduled

\* The end is recorded in the context of its own start or in one of its own; the
\* pair is gone.
LEMMA FinishedPasses ==
  ASSUME WatcherInv, Unobserved, NEW j \in Jobs, NEW id \in {None} \cup Jobs,
         NEW n \in Nat \ {0}, Finished(j, id, n), HoldsAttempt(j, n)
  PROVE  Passed(j) /\ \A m : HoldsAttempt(j, m)'
<1>1. CASE Ignored
  BY <1>1, IgnoredPasses
<1>2. CASE active /\ activeJobs' = Without(activeJobs, JobKey[j]) /\ ~Ignored
  <2>1. Item(j, n) \in Items
    BY DEF Item, Items
  <2>2. contexts \in Seq(ContextRec) /\ Batch(id) \in Nat \cup Jobs /\ NextContext \in Nat \ {0}
    BY BatchNamed, NumbersKnown DEF WatcherInv, WatcherTyped
  <2>3. /\ contexts' \in Seq(ContextRec) /\ Grown /\ RowsPlaced'
        /\ \A c \in Numbers' \ Numbers : contexts'[c].work.n > 0
        /\ flushes' \subseteq Nat
    <3>1. CASE Matches(j, id)
      <4> DEFINE c == ContextOf(activeJobs, JobKey[j])
      <4>1. c # 0 /\ RecordAndFlush(c, Item(j, n))
        BY <1>2, <3>1 DEF Finished, Matches
      <4>2. PICK e \in activeJobs : e.key = JobKey[j] /\ c = e.context
        BY <4>1, ContextOfPair
      <4>3. /\ c \in Numbers
            /\ \/ Item(j, n) = contexts[c].work
               \/ contexts[c].work.of \in Jobs /\ SameKey(j, contexts[c].work.of)
        BY <4>2 DEF WatcherInv, MapsHold, HoldsAttempt, SameKey
      <4> HIDE DEF c
      <4>4. /\ contexts' \in Seq(ContextRec) /\ Grown
            /\ Numbers' = Numbers
            /\ \A d \in Numbers \ {c} : contexts'[d] = contexts[d]
            /\ contexts'[c].work = contexts[c].work
            /\ contexts'[c].rows = contexts[c].rows \cup {Item(j, n)}
        BY <2>1, <2>2, <4>1, <4>3, Recorded DEF RecordAndFlush
      <4>5. RowsPlaced'
        <5>1. Item(j, n).of = j /\ j \notin TaskRuns
          BY ItemFields, JobsAssumption
        <5> QED BY <2>2, <4>3, <4>4, <5>1, RowsAdded DEF WatcherInv
      <4>6. flushes' \subseteq Nat
        BY <2>2, <4>1, <4>3, NumbersKnown DEF RecordAndFlush, WatcherInv, WatcherTyped
      <4> QED BY <4>4, <4>5, <4>6
    <3>2. CASE ~Matches(j, id)
      <4>1. /\ Open(Batch(id), Item(j, n), {Item(j, n)})
            /\ flushes' = flushes \cup {NextContext}
        BY <1>2, <3>2 DEF Finished, OpenRecordAndFlush
      <4>2. /\ contexts' \in Seq(ContextRec) /\ Grown
            /\ Numbers' = Numbers \cup {NextContext}
            /\ \A c \in Numbers : contexts'[c] = contexts[c]
            /\ contexts'[NextContext].work = Item(j, n)
            /\ contexts'[NextContext].rows = {Item(j, n)}
        <5> DEFINE work == Item(j, n)
        <5>1. work \in Items /\ {work} \in SUBSET Items
          BY <2>1
        <5>2. Open(Batch(id), work, {work})
          BY <4>1
        <5> HIDE DEF work
        <5>3. /\ contexts' \in Seq(ContextRec) /\ Grown
              /\ Numbers' = Numbers \cup {NextContext}
              /\ \A c \in Numbers : contexts'[c] = contexts[c]
              /\ contexts'[NextContext].work = work
              /\ contexts'[NextContext].rows = {work}
          BY <2>2, <5>1, <5>2, Opened
        <5> QED BY <5>3 DEF work
      <4>3. RowsPlaced'
        BY <2>2, <4>2, RowsOpened DEF WatcherInv
      <4>4. \A c \in Numbers' \ Numbers : contexts'[c].work.n > 0
        BY <4>2, ItemFields
      <4>5. flushes' \subseteq Nat
        BY <2>2, <4>1 DEF WatcherInv, WatcherTyped
      <4> QED BY <4>2, <4>3, <4>4, <4>5
    <3> QED BY <3>1, <3>2
  <2>4. \A e \in activeJobs' : e \in activeJobs /\ e.key # JobKey[j]
    BY <1>2 DEF Without
  <2>5. Passed(j)
    BY <1>2, <2>3, <2>4, CallKeeps
  <2>6. \A e \in activeJobs' : contexts'[e.context].work.of # j
    BY <2>3, <2>4 DEF WatcherInv, MapsHold, Grown
  <2> QED BY <2>5, <2>6 DEF HoldsAttempt
<1> QED BY <1>1, <1>2 DEF Finished

\* A step that leaves the watcher alone.
LEMMA IdlePasses ==
  ASSUME WatcherInv, UNCHANGED watcherVars, NEW j
  PROVE  Passed(j) /\ \A k, n : HoldsAttempt(k, n)' = HoldsAttempt(k, n)
<1> USE DEF watcherVars
<1>1. Len(contexts) \in Nat
  BY NumbersKnown DEF WatcherInv, WatcherTyped
<1>2. Numbers' = Numbers
  BY DEF Numbers
<1>8. Grown
  BY <1>1 DEF Grown
<1>3. WatcherTyped' /\ MapsHold'
  BY <1>2 DEF WatcherInv, WatcherTyped, MapsHold, OpenedFor, TaskWorkOf
<1>4. RowsPlaced'
  BY <1>2, <1>8, RowsStay DEF WatcherInv, WatcherTyped
<1>5. RunsFollowed'
  BY <1>8, FollowedKept DEF WatcherInv, WatcherTyped, runVars
<1>7. TasksOwned'
  BY <1>2, <1>8, TasksOwnedKept DEF WatcherInv, WatcherTyped
<1>9. \A k, n : HoldsAttempt(k, n)' = HoldsAttempt(k, n)
  BY DEF HoldsAttempt
<1> QED BY <1>3, <1>4, <1>5, <1>7, <1>8, <1>9 DEF Passed, WatcherInv

-----------------------------------------------------------------------------
(* BullMQ: the events of a job *)

LEMMA EmitPasses ==
  ASSUME WatcherInv, NEW j \in BullJobs, NEW event \in Events, Emit(j, event),
         event.phase # "started" => HoldsAttempt(j, event.n)
  PROVE  /\ Passed(j) /\ UNCHANGED <<active, cleaning>>
         /\ event.phase = "started" => HoldsAttempt(j, event.n)'
         /\ event.phase = "terminal" => \A m : HoldsAttempt(j, m)'
         /\ event.phase = "scheduled" =>
              \A m \in Nat : HoldsAttempt(j, m) => HoldsAttempt(j, m)'
<1>1. /\ j \in Jobs /\ event.n \in Nat \ {0} /\ None \in {None} \cup Jobs
      /\ event.phase \in {"started", "terminal", "scheduled"}
  BY DEF Jobs, Events
<1>2. Unobserved
  BY DEF Emit, Unobserved
<1>3. CASE event.phase = "started"
  BY <1>1, <1>2, <1>3, StartedPasses DEF Emit, Unobserved
<1>4. CASE event.phase = "terminal"
  BY <1>1, <1>2, <1>4, FinishedPasses DEF Emit, Unobserved
<1>5. CASE event.phase = "scheduled"
  BY <1>1, <1>2, <1>5, ScheduledPasses DEF Emit, Unobserved
<1> QED BY <1>1, <1>3, <1>4, <1>5

\* An event joins the chain of its job.
LEMMA EventJoins ==
  ASSUME AdaptersTyped, NEW j \in BullJobs, NEW event \in Events, Enqueue(j, event)
  PROVE  /\ chain' \in [BullJobs -> Seq(Events)]
         /\ \A k \in BullJobs \ {j} : chain'[k] = chain[k]
         /\ Len(chain[j]) \in Nat /\ Len(chain'[j]) = Len(chain[j]) + 1
         /\ chain'[j] # <<>>
         /\ \A i \in 1..Len(chain[j]) : chain'[j][i] = chain[j][i]
         /\ chain'[j][Len(chain[j]) + 1] = event
         /\ Head(chain'[j]) = IF chain[j] = <<>> THEN event ELSE Head(chain[j])
<1>1. chain[j] \in Seq(Events) /\ chain'[j] = Append(chain[j], event)
  BY DEF AdaptersTyped, Enqueue
<1>2. /\ chain'[j] \in Seq(Events) /\ chain'[j] # <<>>
      /\ Len(chain'[j]) = Len(chain[j]) + 1
      /\ \A i \in 1..Len(chain[j]) : chain'[j][i] = chain[j][i]
      /\ chain'[j][Len(chain[j]) + 1] = event
  BY <1>1, AppendProperties
<1>3. Head(chain'[j]) = IF chain[j] = <<>> THEN event ELSE Head(chain[j])
  BY <1>1, HeadTailAppend
<1>4. Len(chain[j]) \in Nat
  BY <1>1
<1> QED BY <1>2, <1>3, <1>4 DEF AdaptersTyped, Enqueue

\* The head of the chain leaves it.
LEMMA EventLeaves ==
  ASSUME AdaptersTyped, NEW j \in BullJobs, chain[j] # <<>>, Pop(j)
  PROVE  /\ chain' \in [BullJobs -> Seq(Events)]
         /\ \A k \in BullJobs \ {j} : chain'[k] = chain[k]
         /\ Len(chain[j]) \in Nat \ {0} /\ Len(chain'[j]) = Len(chain[j]) - 1
         /\ \A i \in 1..Len(chain'[j]) : chain'[j][i] = chain[j][i + 1]
         /\ Head(chain[j]) = chain[j][1] /\ Head(chain[j]) \in Events
         /\ chain'[j] # <<>> => Head(chain'[j]) = chain[j][2] /\ Len(chain[j]) >= 2
         /\ chain'[j] = <<>> <=> Len(chain[j]) = 1
<1>1. chain[j] \in Seq(Events) /\ chain'[j] = Tail(chain[j])
  BY DEF AdaptersTyped, Pop
<1>2. /\ chain'[j] \in Seq(Events)
      /\ Len(chain[j]) \in Nat \ {0} /\ Len(chain'[j]) = Len(chain[j]) - 1
      /\ \A i \in 1..Len(chain'[j]) : chain'[j][i] = chain[j][i + 1]
      /\ Head(chain[j]) = chain[j][1] /\ Head(chain[j]) \in Events
  BY <1>1, HeadTailProperties
<1>3. chain'[j] = <<>> <=> Len(chain'[j]) = 0
  BY <1>2, EmptySeq
<1>4. chain'[j] # <<>> => Head(chain'[j]) = chain'[j][1]
  BY <1>2
<1> QED BY <1>2, <1>3, <1>4 DEF AdaptersTyped, Pop

LEMMA InStepKept ==
  ASSUME NEW k \in BullJobs, InStep(k), AdaptersTyped, chain'[k] = chain[k],
         attempt'[k] = attempt[k],
         \A m \in Nat : HoldsAttempt(k, m) => HoldsAttempt(k, m)'
  PROVE  InStep(k)'
<1>1. attempt[k].n \in Nat /\ chain[k] \in Seq(Events)
  BY DEF AdaptersTyped
<1>2. chain[k] # <<>> => Head(chain[k]).n \in Nat
  <2>1. chain[k] # <<>> => Head(chain[k]) \in Events
    BY <1>1, HeadTailProperties
  <2> QED BY <2>1 DEF Events
<1>3. chain'[k] # <<>> /\ Head(chain'[k]).phase # "started" => HoldsAttempt(k, Head(chain[k]).n)'
  BY <1>2 DEF InStep
<1>4. attempt'[k].runs /\ chain'[k] = <<>> => HoldsAttempt(k, attempt[k].n)'
  BY <1>1 DEF InStep
<1> QED BY <1>3, <1>4 DEF InStep

\* A step about one BullMQ job.
LEMMA BullJobStep ==
  ASSUME IInv, NEW j \in BullJobs, Passed(j), UNCHANGED <<active, cleaning, tracedVars>>,
         AdaptersTyped', bull' = bull,
         \A k \in BullJobs \ {j} : chain'[k] = chain[k] /\ attempt'[k] = attempt[k]
                                   /\ lookup'[k] = lookup[k],
         bull = "listening" => InStep(j)',
         attempt'[j].runs => attempt'[j].n > 0, lookup'[j] => chain'[j] # <<>>,
         bull = "closed" => chain'[j] = <<>>
  PROVE  IInv'
<1> USE DEF IInv, tracedVars
<1>1. \A k \in Jobs \ {j}, m \in Nat : HoldsAttempt(k, m) => HoldsAttempt(k, m)'
  BY DEF Passed
<1>2. BullInv'
  <2>1. ASSUME NEW k \in BullJobs \ {j}, bull = "listening" PROVE InStep(k)'
    BY <1>1, <2>1, InStepKept DEF BullInv, Jobs
  <2> QED BY <2>1 DEF BullInv
<1>3. TracedInv'
  <2>1. \A k \in TracedJobs : k \in Jobs \ {j} /\ job[k].n \in Nat
    BY JobsAssumption DEF Jobs, AdaptersTyped
  <2>2. Numbers \subseteq Numbers'
    BY NumbersKnown DEF Passed, WatcherInv, WatcherTyped, Grown, Numbers
  <2> QED BY <1>1, <2>1, <2>2 DEF TracedInv, Passed, Grown
<1>4. Winding'
  BY DEF Winding, Passed, Tracked
<1> QED BY <1>2, <1>3, <1>4 DEF Passed

\* The queue emits an event the adapter looks at: the start of a new attempt, or
\* the end or the delay of the one that runs.
LEMMA ObserveInStep ==
  ASSUME IInv, NEW j \in BullJobs, bull = "listening", NEW event \in Events,
         Observe(j, event), attempt' \in [BullJobs -> [n : Nat, runs : BOOLEAN]],
         \/ event.phase = "started" /\ attempt'[j] = [n |-> event.n, runs |-> TRUE]
         \/ /\ event.phase # "started" /\ ~attempt'[j].runs
            /\ attempt[j].runs /\ attempt[j].n = event.n
  PROVE  /\ Passed(j) /\ UNCHANGED <<active, cleaning>> /\ InStep(j)'
         /\ chain' \in [BullJobs -> Seq(Events)]
         /\ \A k \in BullJobs \ {j} : chain'[k] = chain[k]
         /\ chain[j] # <<>> => chain'[j] # <<>>
<1>1. WatcherInv /\ AdaptersTyped /\ InStep(j) /\ chain \in [BullJobs -> Seq(Events)]
  BY DEF IInv, BullInv, AdaptersTyped
<1>2. /\ event.n \in Nat /\ event.phase \in {"started", "terminal", "scheduled"}
      /\ event.phase = "started" => event = [phase |-> "started", n |-> event.n]
  BY DEF Events
<1>3. CASE chain[j] = <<>> /\ Emit(j, event) /\ UNCHANGED chain
  <2>1. event.phase # "started" => HoldsAttempt(j, event.n)
    BY <1>1, <1>3 DEF InStep
  <2>2. /\ Passed(j) /\ UNCHANGED <<active, cleaning>>
        /\ event.phase = "started" => HoldsAttempt(j, event.n)'
    BY <1>1, <1>3, <2>1, EmitPasses
  <2>3. chain'[j] = <<>> /\ Len(chain'[j]) = 0
    BY <1>3
  <2>4. attempt'[j].runs => HoldsAttempt(j, event.n)' /\ attempt'[j].n = event.n
    BY <2>2
  <2>5. InStep(j)'
    BY <2>3, <2>4 DEF InStep
  <2> QED BY <1>1, <1>3, <2>2, <2>5
<1>4. CASE Enqueue(j, event) /\ UNCHANGED watcherVars
  <2>1. /\ chain' \in [BullJobs -> Seq(Events)]
        /\ \A k \in BullJobs \ {j} : chain'[k] = chain[k]
        /\ Len(chain[j]) \in Nat /\ Len(chain'[j]) = Len(chain[j]) + 1
        /\ chain'[j] # <<>>
        /\ \A i \in 1..Len(chain[j]) : chain'[j][i] = chain[j][i]
        /\ chain'[j][Len(chain[j]) + 1] = event
        /\ Head(chain'[j]) = IF chain[j] = <<>> THEN event ELSE Head(chain[j])
    BY <1>1, <1>4, EventJoins
  <2>2. /\ Passed(j) /\ UNCHANGED <<active, cleaning>>
        /\ \A n : HoldsAttempt(j, n)' = HoldsAttempt(j, n)
    BY <1>1, <1>4, IdlePasses DEF watcherVars
  <2>3. chain[j] # <<>> <=> Len(chain[j]) > 0
    BY <1>1, <2>1, EmptySeq
  <2>4. ASSUME NEW i \in 2..Len(chain'[j]), chain'[j][i].phase # "started"
        PROVE  chain'[j][i - 1] = [phase |-> "started", n |-> chain'[j][i].n]
    <3>1. CASE i \in 2..Len(chain[j])
      <4>1. i \in 1..Len(chain[j]) /\ i - 1 \in 1..Len(chain[j])
        BY <2>1, <3>1
      <4> QED BY <1>1, <2>1, <2>4, <3>1, <4>1 DEF InStep
    <3>2. CASE i = Len(chain[j]) + 1
      <4>1. Len(chain[j]) \in 1..Len(chain[j]) /\ i - 1 = Len(chain[j])
        BY <2>1, <3>2
      <4>2. chain'[j][i] = event /\ attempt[j].runs /\ attempt[j].n = event.n
        BY <2>1, <2>4, <3>2
      <4>3. chain[j][Len(chain[j])] = [phase |-> "started", n |-> attempt[j].n]
        BY <1>1, <2>3, <4>1, <4>2 DEF InStep
      <4> QED BY <2>1, <4>1, <4>2, <4>3
    <3> QED BY <2>1, <3>1, <3>2
  <2>5. (chain[j] # <<>> /\ Head(chain[j]).phase # "started" =>
           HoldsAttempt(j, Head(chain[j]).n))'
    <3>1. CASE chain[j] = <<>>
      <4>1. event.phase # "started" => HoldsAttempt(j, event.n)
        BY <1>1, <3>1 DEF InStep
      <4>2. event.phase # "started" => HoldsAttempt(j, event.n)'
        BY <2>2, <4>1
      <4> QED BY <2>1, <3>1, <4>2 DEF HoldsAttempt
    <3>2. CASE chain[j] # <<>>
      <4>1. PICK h : h = Head(chain[j])
        OBVIOUS
      <4>2. h.phase # "started" => HoldsAttempt(j, h.n)
        BY <1>1, <3>2, <4>1 DEF InStep
      <4>3. h.phase # "started" => HoldsAttempt(j, h.n)'
        BY <2>2, <4>2
      <4> QED BY <2>1, <3>2, <4>1, <4>3 DEF HoldsAttempt
    <3> QED BY <3>1, <3>2
  <2>6. attempt'[j].runs =>
           chain'[j][Len(chain'[j])] = [phase |-> "started", n |-> attempt'[j].n]
    BY <1>2, <2>1
  <2>7. InStep(j)'
    BY <2>1, <2>4, <2>5, <2>6 DEF InStep
  <2> QED BY <2>1, <2>2, <2>7
<1> QED BY <1>3, <1>4 DEF Observe

LEMMA BullEventIInv ==
  ASSUME IInv, NEW j \in BullJobs, UNCHANGED tracedVars,
         ActiveEvent(j) \/ TerminalEvent(j) \/ DelayedEvent(j)
  PROVE  IInv'
<1>1. WatcherInv /\ AdaptersTyped /\ attempt[j] \in [n : Nat, runs : BOOLEAN]
  BY DEF IInv, AdaptersTyped
<1>7. \A k \in BullJobs : attempt[k].runs => attempt[k].n > 0
  BY DEF IInv, BullInv
<1>8. \A k \in BullJobs : lookup[k] => chain[k] # <<>>
  BY DEF IInv, BullInv
<1>9. attempt[j].runs => attempt[j].n > 0
  BY <1>7
<1>0. lookup[j] => chain[j] # <<>>
  BY <1>8
<1>2. PICK event \in Events :
        /\ Event(j, event.phase, event.n)
        /\ \/ event.phase = "started" /\ attempt'[j] = [n |-> event.n, runs |-> TRUE]
           \/ /\ event.phase # "started" /\ ~attempt'[j].runs
              /\ attempt[j].runs /\ attempt[j].n = event.n
  <2>1. CASE ActiveEvent(j)
    <3> DEFINE event == [phase |-> "started", n |-> attempt[j].n + 1]
    <3>1. event \in Events
      BY <1>1 DEF Events
    <3>2. attempt'[j] = [n |-> event.n, runs |-> TRUE]
      BY <1>1, <2>1 DEF ActiveEvent, AdaptersTyped
    <3> QED BY <2>1, <3>1, <3>2 DEF ActiveEvent
  <2>2. CASE TerminalEvent(j) \/ DelayedEvent(j)
    <3>0. attempt[j].runs /\ attempt' = [attempt EXCEPT ![j].runs = FALSE]
      BY <2>2 DEF TerminalEvent, DelayedEvent
    <3>1. attempt[j].runs /\ attempt[j].n \in Nat \ {0} /\ ~attempt'[j].runs
      <4>1. attempt[j].n \in Nat /\ attempt[j].n > 0
        BY <1>9, <1>1, <3>0
      <4>2. attempt'[j] = [attempt[j] EXCEPT !.runs = FALSE]
        BY <3>0 DEF AdaptersTyped, IInv
      <4> QED BY <1>1, <3>0, <4>1, <4>2
    <3>2. PICK ended \in {"terminal", "scheduled"} : Event(j, ended, attempt[j].n)
      BY <2>2 DEF TerminalEvent, DelayedEvent
    <3> DEFINE event == [phase |-> ended, n |-> attempt[j].n]
    <3>3. event \in Events
      BY <3>1 DEF Events
    <3> QED BY <3>1, <3>2, <3>3
  <2> QED BY <2>1, <2>2
<1>3. /\ attempt' \in [BullJobs -> [n : Nat, runs : BOOLEAN]]
      /\ \A k \in BullJobs \ {j} : attempt'[k] = attempt[k]
      /\ attempt'[j].runs => attempt'[j].n > 0
  <2>1. \/ attempt' = [attempt EXCEPT ![j] = [n |-> @.n + 1, runs |-> TRUE]]
        \/ attempt' = [attempt EXCEPT ![j].runs = FALSE]
    BY DEF ActiveEvent, TerminalEvent, DelayedEvent
  <2>2. /\ attempt' \in [BullJobs -> [n : Nat, runs : BOOLEAN]]
        /\ \A k \in BullJobs \ {j} : attempt'[k] = attempt[k]
    <3>1. attempt \in [BullJobs -> [n : Nat, runs : BOOLEAN]]
      BY <1>1 DEF AdaptersTyped
    <3>2. PICK a \in [n : Nat, runs : BOOLEAN] : attempt' = [attempt EXCEPT ![j] = a]
      <4>1. attempt[j].n \in Nat /\ attempt[j].n + 1 \in Nat
        BY <1>1
      <4>2. [n |-> attempt[j].n + 1, runs |-> TRUE] \in [n : Nat, runs : BOOLEAN]
        BY <4>1
      <4>3. [attempt[j] EXCEPT !.runs = FALSE] \in [n : Nat, runs : BOOLEAN]
        BY <1>1
      <4>4. CASE attempt' = [attempt EXCEPT ![j] = [n |-> @.n + 1, runs |-> TRUE]]
        BY <4>2, <4>4
      <4>5. CASE attempt' = [attempt EXCEPT ![j].runs = FALSE]
        BY <4>3, <4>5
      <4> QED BY <2>1, <4>4, <4>5
    <3> QED BY <3>1, <3>2
  <2> QED BY <1>2, <2>2 DEF Events
<1>4. UNCHANGED <<lookup, bull>>
  BY <1>2 DEF Event
<1>5. CASE bull = "listening"
  <2>1. event = [phase |-> event.phase, n |-> event.n]
    BY DEF Events
  <2>2. Observe(j, event)
    BY <1>2, <1>5, <2>1 DEF Event
  <2>3. /\ Passed(j) /\ UNCHANGED <<active, cleaning>> /\ InStep(j)'
        /\ chain' \in [BullJobs -> Seq(Events)]
        /\ \A k \in BullJobs \ {j} : chain'[k] = chain[k]
        /\ chain[j] # <<>> => chain'[j] # <<>>
    BY <1>2, <1>3, <1>5, <2>2, ObserveInStep
  <2>4. AdaptersTyped'
    BY <1>1, <1>3, <1>4, <2>3 DEF AdaptersTyped, tracedVars
  <2>5. (lookup'[j] => chain'[j] # <<>>) /\ bull # "closed"
    BY <1>0, <1>4, <1>5, <2>3
  <2> QED BY <1>3, <1>4, <2>3, <2>4, <2>5, BullJobStep
<1>6. CASE bull # "listening"
  <2>1. UNCHANGED <<chain, metadata, watcherVars>>
    BY <1>2, <1>6 DEF Event
  <2>2. Passed(j) /\ UNCHANGED <<active, cleaning>>
    BY <1>1, <2>1, IdlePasses DEF watcherVars
  <2>3. AdaptersTyped'
    BY <1>1, <1>3, <1>4, <2>1 DEF AdaptersTyped, tracedVars
  <2>4. bull = "closed" => chain'[j] = <<>>
    BY <2>1 DEF IInv, Winding, Tracked
  <2>5. (lookup'[j] => chain'[j] # <<>>) /\ chain' = chain
    BY <1>0, <1>4, <2>1
  <2> QED BY <1>3, <1>4, <1>6, <2>2, <2>3, <2>4, <2>5, BullJobStep
<1> QED BY <1>5, <1>6

LEMMA TaskStartsIInv ==
  ASSUME IInv, NEW j \in BullJobs, UNCHANGED tracedVars, TaskStarts(j)
  PROVE  IInv'
<1>1. WatcherInv /\ AdaptersTyped /\ attempt' = attempt /\ bull' = bull /\ chain[j] # <<>>
  BY DEF IInv, TaskStarts
<1>2. Passed(j) /\ UNCHANGED <<active, cleaning>>
      /\ \A m : HoldsAttempt(j, m)' = HoldsAttempt(j, m)
  BY <1>1, IdlePasses DEF TaskStarts, watcherVars
<1>3. attempt'[j].runs => attempt'[j].n > 0
  BY <1>1 DEF IInv, BullInv
<1>4. bull # "closed"
  BY <1>1 DEF IInv, Winding, Tracked
<1>5. CASE bull = "listening"
  <2>1. lookup' = [lookup EXCEPT ![j] = TRUE] /\ chain' = chain
    BY <1>5 DEF TaskStarts
  <2>2. AdaptersTyped' /\ \A k \in BullJobs \ {j} : lookup'[k] = lookup[k]
    BY <1>1, <2>1 DEF AdaptersTyped, tracedVars
  <2>3. InStep(j)'
    <3>1. InStep(j)
      BY <1>5 DEF IInv, BullInv
    <3> QED BY <1>1, <1>2, <2>1, <3>1, InStepKept
  <2> QED BY <1>1, <1>2, <1>3, <1>4, <2>1, <2>2, <2>3, BullJobStep
<1>6. CASE bull # "listening"
  <2>1. Pop(j) /\ lookup' = lookup /\ ~lookup[j]
    BY <1>6 DEF TaskStarts
  <2>2. /\ chain' \in [BullJobs -> Seq(Events)]
        /\ \A k \in BullJobs \ {j} : chain'[k] = chain[k]
    BY <1>1, <2>1, EventLeaves
  <2>3. AdaptersTyped'
    BY <1>1, <2>1, <2>2 DEF AdaptersTyped, tracedVars
  <2>4. lookup'[j] => chain'[j] # <<>>
    BY <2>1
  <2> QED BY <1>1, <1>2, <1>3, <1>4, <1>6, <2>1, <2>2, <2>3, <2>4, BullJobStep
<1> QED BY <1>5, <1>6

\* Behind a start that is passed on, an end finds the pair of its attempt; behind
\* an end stands a start.
LEMMA PoppedInStep ==
  ASSUME IInv, NEW j \in BullJobs, bull = "listening", chain[j] # <<>>, Pop(j),
         attempt' = attempt, NEW event \in Events, event = Head(chain[j]),
         event.phase = "started" => HoldsAttempt(j, event.n)',
         event.phase = "terminal" => \A m : HoldsAttempt(j, m)',
         event.phase = "scheduled" =>
            \A m \in Nat : HoldsAttempt(j, m) => HoldsAttempt(j, m)'
  PROVE  InStep(j)'
<1>1. AdaptersTyped /\ InStep(j) /\ chain[j] \in Seq(Events)
      /\ attempt[j].n \in Nat
  BY DEF IInv, BullInv, AdaptersTyped
<1>2. /\ Len(chain[j]) \in Nat \ {0} /\ Len(chain'[j]) = Len(chain[j]) - 1
      /\ \A i \in 1..Len(chain'[j]) : chain'[j][i] = chain[j][i + 1]
      /\ Head(chain[j]) = chain[j][1] /\ Head(chain[j]) \in Events
      /\ chain'[j] # <<>> => Head(chain'[j]) = chain[j][2] /\ Len(chain[j]) >= 2
      /\ chain'[j] = <<>> <=> Len(chain[j]) = 1
  BY <1>1, EventLeaves
<1>3. event = chain[j][1]
  BY <1>2
<1>4. /\ event.phase = "started" => HoldsAttempt(j, event.n)'
      /\ event.phase = "terminal" => \A m : HoldsAttempt(j, m)'
      /\ event.phase = "scheduled" =>
           \A m \in Nat : HoldsAttempt(j, m) => HoldsAttempt(j, m)'
      /\ event.phase \in {"started", "terminal", "scheduled"} /\ event.n \in Nat
  BY DEF Events
<1>5. ASSUME NEW i \in 2..Len(chain'[j]), chain'[j][i].phase # "started"
      PROVE  chain'[j][i - 1] = [phase |-> "started", n |-> chain'[j][i].n]
  <2>1. i + 1 \in 2..Len(chain[j]) /\ i \in 1..Len(chain'[j]) /\ i - 1 \in 1..Len(chain'[j])
        /\ (i - 1) + 1 = i /\ (i + 1) - 1 = i
    BY <1>2
  <2>2. chain'[j][i] = chain[j][i + 1] /\ chain'[j][i - 1] = chain[j][i]
    BY <1>2, <2>1
  <2> QED BY <1>1, <1>5, <2>1, <2>2 DEF InStep
<1>6. ASSUME chain'[j] # <<>>, NEW h, h = chain[j][2], h.phase # "started"
      PROVE  HoldsAttempt(j, h.n)'
  <2>1. 2 \in 2..Len(chain[j]) /\ 2 - 1 = 1
    BY <1>2, <1>6
  <2>2. chain[j][1] = [phase |-> "started", n |-> h.n]
    BY <1>1, <1>6, <2>1 DEF InStep
  <2>3. event.phase = "started" /\ event.n = h.n
    BY <1>3, <2>2
  <2> QED BY <1>4, <2>3
<1>7. (chain[j] # <<>> /\ Head(chain[j]).phase # "started" =>
         HoldsAttempt(j, Head(chain[j]).n))'
  <2>1. PICK h : h = chain[j][2]
    OBVIOUS
  <2>2. chain'[j] # <<>> /\ h.phase # "started" => HoldsAttempt(j, h.n)'
    BY <1>6, <2>1
  <2> QED BY <1>2, <2>1, <2>2 DEF HoldsAttempt
<1>8. ASSUME attempt[j].runs
      PROVE  IF chain'[j] = <<>> THEN HoldsAttempt(j, attempt[j].n)'
             ELSE chain'[j][Len(chain'[j])] = [phase |-> "started", n |-> attempt[j].n]
  <2>1. chain[j][Len(chain[j])] = [phase |-> "started", n |-> attempt[j].n]
    BY <1>1, <1>8 DEF InStep
  <2>2. CASE chain'[j] = <<>>
    <3>1. event.phase = "started" /\ event.n = attempt[j].n
      BY <1>2, <1>3, <2>1, <2>2
    <3>2. HoldsAttempt(j, attempt[j].n)'
      BY <1>4, <3>1 DEF HoldsAttempt
    <3> QED BY <2>2, <3>2
  <2>3. CASE chain'[j] # <<>>
    <3>1. Len(chain'[j]) \in 1..Len(chain'[j]) /\ Len(chain'[j]) + 1 = Len(chain[j])
      BY <1>2, <2>3
    <3> QED BY <1>2, <2>1, <2>3, <3>1
  <2> QED BY <2>2, <2>3
<1>9. (attempt[j].runs =>
         IF chain[j] = <<>> THEN HoldsAttempt(j, attempt[j].n)
         ELSE chain[j][Len(chain[j])] = [phase |-> "started", n |-> attempt[j].n])'
  BY <1>8 DEF HoldsAttempt
<1> QED BY <1>5, <1>7, <1>9 DEF InStep

LEMMA LookupSettlesIInv ==
  ASSUME IInv, NEW j \in BullJobs, UNCHANGED tracedVars, LookupSettles(j)
  PROVE  IInv'
<1>1. WatcherInv /\ AdaptersTyped /\ attempt' = attempt /\ bull' = bull /\ Pop(j)
  BY DEF IInv, LookupSettles
<1>2. lookup' = [lookup EXCEPT ![j] = FALSE] /\ chain[j] # <<>>
  BY DEF LookupSettles, IInv, BullInv
<1>3. /\ chain' \in [BullJobs -> Seq(Events)]
      /\ \A k \in BullJobs \ {j} : chain'[k] = chain[k]
      /\ Head(chain[j]) \in Events
  BY <1>1, <1>2, EventLeaves
<1>4. AdaptersTyped' /\ (\A k \in BullJobs \ {j} : lookup'[k] = lookup[k]) /\ ~lookup'[j]
  BY <1>1, <1>2, <1>3 DEF AdaptersTyped, tracedVars
<1>5. attempt'[j].runs => attempt'[j].n > 0
  BY <1>1 DEF IInv, BullInv
<1>6. bull # "closed"
  BY <1>2 DEF IInv, Winding, Tracked
<1>7. CASE bull # "listening"
  <2>1. UNCHANGED watcherVars
    BY <1>7 DEF LookupSettles
  <2>2. Passed(j) /\ UNCHANGED <<active, cleaning>>
    BY <1>1, <2>1, IdlePasses DEF watcherVars
  <2> QED BY <1>1, <1>3, <1>4, <1>5, <1>6, <1>7, <2>2, BullJobStep
<1>8. CASE bull = "listening"
  <2>1. PICK event \in Events : event = Head(chain[j]) /\ Emit(j, event)
    BY <1>3, <1>8 DEF LookupSettles
  <2>2. event.phase # "started" => HoldsAttempt(j, event.n)
    <3>1. InStep(j)
      BY <1>8 DEF IInv, BullInv
    <3> QED BY <1>2, <2>1, <3>1 DEF InStep
  <2>3. /\ Passed(j) /\ UNCHANGED <<active, cleaning>>
        /\ event.phase = "started" => HoldsAttempt(j, event.n)'
        /\ event.phase = "terminal" => \A m : HoldsAttempt(j, m)'
        /\ event.phase = "scheduled" =>
             \A m \in Nat : HoldsAttempt(j, m) => HoldsAttempt(j, m)'
    BY <1>1, <2>1, <2>2, EmitPasses
  <2>5. InStep(j)'
    BY <1>1, <1>2, <1>8, <2>1, <2>3, PoppedInStep
  <2> QED BY <1>1, <1>3, <1>4, <1>5, <1>6, <1>8, <2>3, <2>5, BullJobStep
<1> QED BY <1>7, <1>8

LEMMA CloseAdapterIInv ==
  ASSUME IInv, UNCHANGED tracedVars, CloseAdapter \/ CloseQueues
  PROVE  IInv'
<1>1. WatcherInv /\ UNCHANGED watcherVars /\ bull' \in {"draining", "closed"}
      /\ bull' # "listening" /\ UNCHANGED <<attempt, chain, lookup>>
      /\ (bull' = "closed" => Tracked = {})
  BY DEF IInv, CloseAdapter, CloseQueues, ChainsDrained
<1>2. \A j \in TracedJobs : Passed(j) /\ \A k, n : HoldsAttempt(k, n)' = HoldsAttempt(k, n)
  BY <1>1, IdlePasses
<1>3. WatcherInv'
  <2>1. PICK j : j = 0
    OBVIOUS
  <2>2. Passed(j)
    BY <1>1, IdlePasses
  <2> QED BY <2>2 DEF Passed
<1>4. AdaptersTyped'
  BY <1>1 DEF IInv, AdaptersTyped, tracedVars
<1>5. BullInv'
  BY <1>1 DEF IInv, BullInv
<1>6. TracedInv'
  BY <1>1 DEF IInv, TracedInv, HoldsAttempt, watcherVars, tracedVars, Numbers
<1>7. ~active
  BY DEF IInv, Winding, CloseAdapter, CloseQueues
<1>8. Winding'
  <2>1. cleaning'.stage \in {"flushes", "done"} => bull' = "closed"
    BY <1>1 DEF IInv, Winding, CloseAdapter, CloseQueues, watcherVars
  <2>2. Tracked' = Tracked
    BY <1>1 DEF Tracked
  <2> QED BY <1>1, <1>7, <2>1, <2>2 DEF IInv, Winding, watcherVars, tracedVars
<1> QED BY <1>3, <1>4, <1>5, <1>6, <1>8 DEF IInv

-----------------------------------------------------------------------------
(* The traced channels: the executions of a job *)

\* A step about one traced job.
LEMMA TracedJobStep ==
  ASSUME IInv, NEW j \in TracedJobs, Passed(j),
         UNCHANGED <<active, cleaning, bullVars, subscribed>>,
         AdaptersTyped',
         \A k \in TracedJobs \ {j} : job'[k] = job[k] /\ wrapped'[k] = wrapped[k],
         job'[j].stage \in {"started", "running", "handled"} =>
            HoldsAttempt(j, job[j].n)',
         job'[j].stage # "none" => job'[j].n > 0,
         wrapped'[j] # 0 /\ job'[j].stage = "running" =>
            /\ wrapped'[j] \in Numbers'
            /\ contexts'[wrapped'[j]].work = Item(j, job'[j].n)
  PROVE  IInv'
<1> USE DEF IInv, bullVars
<1>1. \A k \in Jobs \ {j}, m \in Nat : HoldsAttempt(k, m) => HoldsAttempt(k, m)'
  BY DEF Passed
<1>2. BullInv'
  <2>1. ASSUME NEW k \in BullJobs, bull = "listening" PROVE InStep(k)'
    <3>1. k \in Jobs \ {j} /\ InStep(k)
      BY <2>1, JobsAssumption DEF Jobs, BullInv
    <3> QED BY <1>1, <3>1, InStepKept
  <2> QED BY <2>1 DEF BullInv
<1>3. TracedInv'
  <2>1. \A k \in TracedJobs \ {j} : k \in Jobs \ {j} /\ job[k].n \in Nat
    BY DEF Jobs, AdaptersTyped
  <2>2. Numbers \subseteq Numbers'
    BY NumbersKnown DEF Passed, WatcherInv, WatcherTyped, Grown, Numbers
  <2>3. ASSUME NEW k \in TracedJobs \ {j},
               job'[k].stage \in {"started", "running", "handled"}
        PROVE  HoldsAttempt(k, job[k].n)'
    <3>1. PICK m \in Nat : m = job[k].n
      BY <2>1
    <3>2. HoldsAttempt(k, m)
      BY <2>3, <3>1 DEF TracedInv
    <3>3. HoldsAttempt(k, m)' /\ job'[k].n = m
      BY <1>1, <2>1, <3>1, <3>2
    <3> QED BY <3>3 DEF HoldsAttempt
  <2>4. ASSUME NEW k \in TracedJobs \ {j}
        PROVE  /\ job'[k].stage # "none" => job'[k].n > 0
               /\ wrapped'[k] # 0 /\ job'[k].stage = "running" =>
                    /\ wrapped'[k] \in Numbers'
                    /\ contexts'[wrapped'[k]].work = Item(k, job'[k].n)
    <3>1. job'[k] = job[k] /\ wrapped'[k] = wrapped[k]
      OBVIOUS
    <3> QED BY <2>2, <3>1 DEF TracedInv, Passed, Grown
  <2> QED BY <2>3, <2>4 DEF TracedInv
<1>4. Winding'
  BY DEF Winding, Passed, Tracked
<1> QED BY <1>2, <1>3, <1>4 DEF Passed

\* A call that the adapter has unsubscribed from: the watcher is not active.
LEMMA Untold ==
  ASSUME IInv, ~subscribed, UNCHANGED <<jobVars, activeTasks, active, cleaning, runVars>>,
         NEW j \in Jobs
  PROVE  Passed(j) /\ \A m : HoldsAttempt(j, m)'
<1>1. UNCHANGED watcherVars /\ ~active /\ activeJobs = {}
  BY DEF IInv, Winding, WatcherInv, MapsHold, watcherVars, jobVars, runVars
<1>2. Passed(j)
  BY <1>1, IdlePasses DEF IInv
<1> QED BY <1>1, <1>2 DEF HoldsAttempt, watcherVars

\* The execution of a job goes from one stage to another.
LEMMA JobGoes ==
  ASSUME AdaptersTyped, NEW j \in TracedJobs, NEW from, Goes(j, from, "running")
         \/ Goes(j, from, "handled") \/ Goes(j, from, "ended") \/ Goes(j, from, "retrying")
  PROVE  /\ job' \in [TracedJobs -> [stage : {"none", "started", "running", "handled",
                                              "retrying", "ended"}, n : Nat]]
         /\ \A k \in TracedJobs \ {j} : job'[k] = job[k]
         /\ job'[j].n = job[j].n /\ job[j].n \in Nat
         /\ job[j].stage \in from
         /\ \A to : Goes(j, from, to) => job'[j].stage = to
<1>1. job \in [TracedJobs -> [stage : {"none", "started", "running", "handled",
                                       "retrying", "ended"}, n : Nat]]
  BY DEF AdaptersTyped
<1>2. PICK to \in {"running", "handled", "ended", "retrying"} :
        job[j].stage \in from /\ job' = [job EXCEPT ![j].stage = to]
  BY DEF Goes
<1>3. job' = [job EXCEPT ![j] = [job[j] EXCEPT !.stage = to]]
  BY <1>2
<1>4. [job[j] EXCEPT !.stage = to] \in
        [stage : {"none", "started", "running", "handled", "retrying", "ended"}, n : Nat]
      /\ [job[j] EXCEPT !.stage = to].n = job[j].n
  BY <1>1
<1>5. ASSUME NEW x, Goes(j, from, x) PROVE job'[j].stage = x
  BY <1>1, <1>5 DEF Goes
<1> QED BY <1>1, <1>2, <1>3, <1>4, <1>5

LEMMA ExecuteStartIInv ==
  ASSUME IInv, NEW j \in TracedJobs, UNCHANGED bullVars, ExecuteStart(j)
  PROVE  IInv'
<1>1. WatcherInv /\ AdaptersTyped /\ j \in Jobs /\ Unobserved
  BY DEF IInv, Jobs, ExecuteStart, Tell, Unobserved
<1>2. PICK n \in Nat \ {0} : n = job[j].n + 1
  BY <1>1 DEF AdaptersTyped
<1>3. /\ job' \in [TracedJobs -> [stage : {"none", "started", "running", "handled",
                                           "retrying", "ended"}, n : Nat]]
      /\ \A k \in TracedJobs \ {j} : job'[k] = job[k]
      /\ job'[j] = [stage |-> "started", n |-> n]
  <2>1. job' = [job EXCEPT ![j] = [stage |-> "started", n |-> n]]
    BY <1>2 DEF ExecuteStart
  <2> QED BY <1>1, <2>1 DEF AdaptersTyped
<1>4. UNCHANGED <<active, cleaning, wrapped, subscribed>>
  BY DEF ExecuteStart, Tell
<1>5. AdaptersTyped'
  BY <1>1, <1>3, <1>4 DEF AdaptersTyped, bullVars
<1>6. Passed(j) /\ HoldsAttempt(j, n)'
  <2>1. CASE subscribed
    <3>1. Started(j, j, n)
      BY <1>2, <2>1 DEF ExecuteStart, Tell
    <3> QED BY <1>1, <3>1, StartedPasses
  <2>2. CASE ~subscribed
    BY <1>1, <2>2, Untold DEF ExecuteStart, Tell
  <2> QED BY <2>1, <2>2
<1>7. HoldsAttempt(j, job[j].n)'
  BY <1>3, <1>6 DEF HoldsAttempt
<1> QED BY <1>3, <1>4, <1>5, <1>6, <1>7, TracedJobStep

LEMMA ExecuteEndIInv ==
  ASSUME IInv, NEW j \in TracedJobs, UNCHANGED bullVars, ExecuteEnd(j) \/ ExecuteRetries(j)
  PROVE  IInv'
<1>1. WatcherInv /\ AdaptersTyped /\ j \in Jobs /\ Unobserved
  BY DEF IInv, Jobs, ExecuteEnd, ExecuteRetries, Tell, Unobserved
<1> DEFINE from == {"started", "handled"}
<1>2. Goes(j, from, "ended") \/ Goes(j, from, "retrying")
  BY DEF ExecuteEnd, ExecuteRetries
<1>3. /\ job' \in [TracedJobs -> [stage : {"none", "started", "running", "handled",
                                           "retrying", "ended"}, n : Nat]]
      /\ \A k \in TracedJobs \ {j} : job'[k] = job[k]
      /\ job'[j].n = job[j].n
      /\ job[j].stage \in from
      /\ \A to : Goes(j, from, to) => job'[j].stage = to
  BY <1>1, <1>2, JobGoes
<1>4. UNCHANGED <<active, cleaning, wrapped, subscribed>>
  BY DEF ExecuteEnd, ExecuteRetries, Tell
<1>5. AdaptersTyped'
  BY <1>1, <1>3, <1>4 DEF AdaptersTyped, bullVars
<1>6. PICK n \in Nat \ {0} : n = job[j].n /\ HoldsAttempt(j, n)
  <2>1. job[j].n \in Nat
    BY <1>1 DEF AdaptersTyped
  <2> QED BY <1>3, <2>1 DEF IInv, TracedInv
<1>7. Passed(j)
  <2>1. CASE subscribed /\ ExecuteEnd(j)
    <3>1. Finished(j, j, n)
      BY <1>6, <2>1 DEF ExecuteEnd, Tell
    <3> QED BY <1>1, <1>6, <3>1, FinishedPasses
  <2>2. CASE subscribed /\ ExecuteRetries(j)
    <3>1. Scheduled(j, n)
      BY <1>6, <2>2 DEF ExecuteRetries, Tell
    <3> QED BY <1>1, <3>1, ScheduledPasses
  <2>3. CASE ~subscribed
    BY <1>1, <2>3, Untold DEF ExecuteEnd, ExecuteRetries, Tell
  <2> QED BY <2>1, <2>2, <2>3
<1>8. job'[j].stage \in {"ended", "retrying"}
  BY <1>2, <1>3
<1>9. job'[j].n > 0
  BY <1>3, <1>6
<1> QED BY <1>3, <1>4, <1>5, <1>7, <1>8, <1>9, TracedJobStep

\* A step in which a handler's context is opened or changed: the maps stay.
LEMMA HandlerPasses ==
  ASSUME WatcherInv, UNCHANGED <<activeJobs, flushes>>, Unobserved, NEW j \in Jobs,
         contexts' \in Seq(ContextRec), Grown, RowsPlaced',
         \A c \in Numbers' \ Numbers : contexts'[c].work.n > 0
  PROVE  Passed(j) /\ \A m : HoldsAttempt(j, m) => HoldsAttempt(j, m)'
<1>1. flushes' \subseteq Nat /\ (~active => activeJobs' = {} /\ flushes' = flushes)
  BY DEF WatcherInv, WatcherTyped, MapsHold
<1>2. Passed(j)
  BY <1>1, CallKeeps
<1>3. \A e \in activeJobs : contexts'[e.context].work = contexts[e.context].work
  BY DEF WatcherInv, MapsHold, Grown
<1> QED BY <1>2, <1>3 DEF HoldsAttempt

LEMMA WrapJobIInv ==
  ASSUME IInv, NEW j \in TracedJobs, UNCHANGED bullVars, WrapJob(j)
  PROVE  IInv'
<1>1. WatcherInv /\ AdaptersTyped /\ j \in Jobs /\ Unobserved
      /\ contexts \in Seq(ContextRec)
  BY DEF IInv, Jobs, WrapJob, Unobserved, WatcherInv, WatcherTyped
<1> DEFINE from == {"started"}
<1>2. Goes(j, from, "running")
  BY DEF WrapJob
<1>3. /\ job' \in [TracedJobs -> [stage : {"none", "started", "running", "handled",
                                           "retrying", "ended"}, n : Nat]]
      /\ \A k \in TracedJobs \ {j} : job'[k] = job[k]
      /\ job'[j].n = job[j].n
      /\ job[j].stage \in from /\ job'[j].stage = "running"
  BY <1>1, <1>2, JobGoes
<1>4. PICK n \in Nat \ {0} : n = job[j].n /\ HoldsAttempt(j, n)
  <2>1. job[j].n \in Nat
    BY <1>1 DEF AdaptersTyped
  <2> QED BY <1>3, <2>1 DEF IInv, TracedInv
<1>5. UNCHANGED <<active, cleaning, subscribed, activeJobs, flushes>>
  BY DEF WrapJob
<1>6. /\ contexts' \in Seq(ContextRec) /\ Grown /\ RowsPlaced'
      /\ \A c \in Numbers' \ Numbers : contexts'[c].work.n > 0
      /\ wrapped' \in [TracedJobs -> Nat]
      /\ \A k \in TracedJobs \ {j} : wrapped'[k] = wrapped[k]
      /\ wrapped'[j] # 0 => /\ wrapped'[j] \in Numbers'
                            /\ contexts'[wrapped'[j]].work = Item(j, n)
  <2>1. wrapped \in [TracedJobs -> Nat]
    BY <1>1 DEF AdaptersTyped
  <2>2. CASE Open(j, Item(j, n), {}) /\ wrapped' = [wrapped EXCEPT ![j] = NextContext]
    <3>1. Item(j, n) \in Items /\ {} \in SUBSET Items /\ NextContext \in Nat \ {0}
      BY <1>1, NumbersKnown DEF Item, Items
    <3>2. /\ contexts' \in Seq(ContextRec) /\ Grown
          /\ Numbers' = Numbers \cup {NextContext}
          /\ \A c \in Numbers : contexts'[c] = contexts[c]
          /\ contexts'[NextContext].work = Item(j, n)
          /\ contexts'[NextContext].rows = {}
      BY <1>1, <2>2, <3>1, Opened
    <3>3. RowsPlaced'
      BY <1>1, <3>2, RowsOpened DEF WatcherInv
    <3>4. \A c \in Numbers' \ Numbers : contexts'[c].work.n > 0
      BY <3>2, ItemFields
    <3> QED BY <2>1, <2>2, <3>1, <3>2, <3>3, <3>4
  <2>3. CASE wrapped' = [wrapped EXCEPT ![j] = 0] /\ contexts' = contexts
    <3>1. Len(contexts) \in Nat
      BY <1>1
    <3>2. Grown /\ Numbers' = Numbers
      BY <1>1, <2>3, <3>1 DEF Grown, Numbers
    <3>3. RowsPlaced'
      BY <1>1, <2>3, <3>2, RowsStay DEF WatcherInv
    <3> QED BY <1>1, <2>1, <2>3, <3>2, <3>3
  <2> QED BY <1>4, <2>2, <2>3 DEF WrapJob
<1>7. Passed(j) /\ (HoldsAttempt(j, n) => HoldsAttempt(j, n)')
  BY <1>1, <1>5, <1>6, HandlerPasses
<1>8. AdaptersTyped'
  BY <1>1, <1>3, <1>5, <1>6 DEF AdaptersTyped, bullVars
<1>9. HoldsAttempt(j, job[j].n)' /\ job'[j].n = n
  BY <1>3, <1>4, <1>7 DEF HoldsAttempt
<1> QED BY <1>3, <1>5, <1>6, <1>7, <1>8, <1>9, TracedJobStep

\* The handler works or settles.
LEMMA HandlerIInv ==
  ASSUME IInv, NEW j \in TracedJobs, UNCHANGED bullVars, JobWork(j) \/ HandlerSettles(j)
  PROVE  IInv'
<1>1. WatcherInv /\ AdaptersTyped /\ j \in Jobs /\ Unobserved
      /\ contexts \in Seq(ContextRec)
  BY DEF IInv, Jobs, JobWork, HandlerSettles, Unobserved, WatcherInv, WatcherTyped
<1>2. job[j].stage = "running" /\ UNCHANGED <<active, cleaning, subscribed, activeJobs,
                                               flushes, wrapped>>
  BY DEF JobWork, HandlerSettles, Goes, tracedVars
<1>3. PICK n \in Nat \ {0} : n = job[j].n /\ HoldsAttempt(j, n)
  <2>1. job[j].n \in Nat
    BY <1>1 DEF AdaptersTyped
  <2> QED BY <1>2, <2>1 DEF IInv, TracedInv
<1>4. /\ job' \in [TracedJobs -> [stage : {"none", "started", "running", "handled",
                                           "retrying", "ended"}, n : Nat]]
      /\ \A k \in TracedJobs \ {j} : job'[k] = job[k]
      /\ job'[j].n = n /\ job'[j].stage # "none"
  <2>1. CASE JobWork(j)
    BY <1>1, <1>2, <1>3, <2>1 DEF JobWork, tracedVars, AdaptersTyped
  <2>2. CASE HandlerSettles(j)
    <3>1. Goes(j, {"running"}, "handled")
      BY <2>2 DEF HandlerSettles
    <3> QED BY <1>1, <1>3, <3>1, JobGoes
  <2> QED BY <2>1, <2>2
<1>5. wrapped[j] # 0 => /\ wrapped[j] \in Numbers
                        /\ contexts[wrapped[j]].work = Item(j, n)
  BY <1>2, <1>3 DEF IInv, TracedInv
<1>6. /\ contexts' \in Seq(ContextRec) /\ Grown /\ RowsPlaced' /\ Numbers' = Numbers
      /\ \A c \in Numbers : contexts'[c].work = contexts[c].work
  <2>1. CASE JobWork(j)
    <3>1. /\ wrapped[j] # 0
          /\ contexts' = [contexts EXCEPT ![wrapped[j]].rows = @ \cup {Item(j, n)}]
      BY <1>3, <2>1 DEF JobWork
    <3>2. Item(j, n) \in Items
      BY <1>1 DEF Item, Items
    <3>3. /\ contexts' \in Seq(ContextRec) /\ Grown /\ Numbers' = Numbers
          /\ \A d \in Numbers \ {wrapped[j]} : contexts'[d] = contexts[d]
          /\ contexts'[wrapped[j]].work = contexts[wrapped[j]].work
          /\ contexts'[wrapped[j]].rows = contexts[wrapped[j]].rows \cup {Item(j, n)}
      BY <1>1, <1>5, <3>1, <3>2, Worked
    <3>4. RowsPlaced'
      <4>1. Item(j, n).of = j /\ j \notin TaskRuns
        BY <1>1, ItemFields, JobsAssumption
      <4> QED BY <1>1, <1>5, <3>1, <3>3, <4>1, RowsAdded DEF WatcherInv
    <3> QED BY <3>3, <3>4
  <2>2. CASE contexts' = contexts
    <3>1. Len(contexts) \in Nat
      BY <1>1
    <3>2. Grown /\ Numbers' = Numbers
      BY <1>1, <2>2, <3>1 DEF Grown, Numbers
    <3>3. RowsPlaced'
      BY <1>1, <2>2, <3>2, RowsStay DEF WatcherInv
    <3> QED BY <1>1, <2>2, <3>2, <3>3
  <2>3. CASE wrapped[j] # 0 /\ contexts' = [contexts EXCEPT ![wrapped[j]].flushed = TRUE]
    <3>1. /\ contexts' \in Seq(ContextRec) /\ Grown /\ Numbers' = Numbers
          /\ \A d \in Numbers : contexts'[d].work = contexts[d].work
                                /\ contexts'[d].rows = contexts[d].rows
      BY <1>1, <1>5, <2>3, Marked
    <3>2. RowsPlaced'
      BY <1>1, <3>1, RowsStay DEF WatcherInv
    <3> QED BY <3>1, <3>2
  <2> QED BY <2>1, <2>2, <2>3 DEF HandlerSettles
<1>7. Passed(j) /\ (HoldsAttempt(j, n) => HoldsAttempt(j, n)')
  BY <1>1, <1>2, <1>6, HandlerPasses
<1>8. AdaptersTyped'
  BY <1>1, <1>2, <1>4 DEF AdaptersTyped, bullVars
<1>9. HoldsAttempt(j, job[j].n)'
  BY <1>3, <1>4, <1>7 DEF HoldsAttempt
<1>10. wrapped'[j] # 0 => /\ wrapped'[j] \in Numbers'
                          /\ contexts'[wrapped'[j]].work = Item(j, job'[j].n)
  BY <1>2, <1>4, <1>5, <1>6
<1>11. \A k \in TracedJobs \ {j} : wrapped'[k] = wrapped[k]
  BY <1>2
<1> QED BY <1>2, <1>4, <1>7, <1>8, <1>9, <1>10, <1>11, TracedJobStep

-----------------------------------------------------------------------------
(* Task runs *)

\* A step of the watcher itself: no pair of a job comes in.
LEMMA WatcherStep ==
  ASSUME IInv, UNCHANGED <<bullVars, attempt, chain, lookup, bull, job, wrapped>>,
         subscribed' \in BOOLEAN, WatcherInv', Grown,
         activeJobs' \subseteq activeJobs, Winding'
  PROVE  IInv'
<1> USE DEF IInv
<1>1. \A e \in activeJobs : contexts'[e.context].work = contexts[e.context].work
  BY DEF WatcherInv, MapsHold, Grown
<1>2. \A k, m : HoldsAttempt(k, m) => HoldsAttempt(k, m)'
  BY <1>1 DEF HoldsAttempt
<1>3. AdaptersTyped'
  BY DEF AdaptersTyped
<1>4. BullInv'
  <2>1. ASSUME NEW k \in BullJobs, bull = "listening" PROVE InStep(k)'
    <3>1. InStep(k)
      BY <2>1 DEF BullInv
    <3> QED BY <1>2, <3>1, InStepKept
  <2> QED BY <2>1 DEF BullInv
<1>5. TracedInv'
  <2>1. Numbers \subseteq Numbers'
    BY NumbersKnown DEF WatcherInv, WatcherTyped, Grown, Numbers
  <2>2. ASSUME NEW k \in TracedJobs,
               job'[k].stage \in {"started", "running", "handled"}
        PROVE  HoldsAttempt(k, job[k].n)'
    <3>1. PICK m : m = job[k].n
      OBVIOUS
    <3>2. HoldsAttempt(k, m)
      BY <2>2, <3>1 DEF TracedInv
    <3>3. HoldsAttempt(k, m)' /\ job'[k].n = m
      BY <1>2, <3>1, <3>2
    <3> QED BY <3>3 DEF HoldsAttempt
  <2> QED BY <2>1, <2>2 DEF TracedInv, Grown
<1> QED BY <1>3, <1>4, <1>5

LEMMA UnsubscribeIInv ==
  ASSUME IInv, UNCHANGED bullVars, Unsubscribe
  PROVE  IInv'
<1>1. UNCHANGED watcherVars /\ subscribed' = FALSE /\ UNCHANGED <<job, wrapped>>
      /\ cleaning.stage = "adapters"
  BY DEF Unsubscribe
<1>2. WatcherInv' /\ Grown
  <2>1. PICK j : j = 0
    OBVIOUS
  <2>2. Passed(j)
    BY <1>1, IdlePasses DEF IInv
  <2> QED BY <2>2 DEF Passed
<1>3. ~active
  BY <1>1 DEF IInv, Winding
<1>4. Winding'
  BY <1>1, <1>3 DEF IInv, Winding, Tracked, watcherVars, bullVars
<1> QED BY <1>1, <1>2, <1>4, WatcherStep DEF watcherVars, bullVars

\* The maps and the contexts in a step that keeps the jobs' map.
LEMMA MapsHoldKept ==
  ASSUME WatcherInv, contexts' \in Seq(ContextRec), Grown,
         activeJobs' \subseteq activeJobs,
         \A e \in activeTasks' :
            /\ e.context \in Numbers' /\ OpenedFor(e.context, e.key)'
            /\ \A d \in activeTasks' : e.key = d.key => e = d,
         IsFiniteSet(activeTasks'),
         ~active' => activeJobs' = {} /\ activeTasks' = {},
         \A t \in TaskRuns : runContext'[t] # 0 =>
            runContext'[t] \in Numbers' /\ OpenedFor(runContext[t], TaskKey[t])'
  PROVE  MapsHold'
<1>1. Numbers \subseteq Numbers'
  BY NumbersKnown DEF WatcherInv, WatcherTyped, Grown, Numbers
<1>2. \A e \in activeJobs' :
         /\ e.context \in Numbers' /\ contexts'[e.context].work.of \in Jobs
         /\ e.key = JobKey[contexts'[e.context].work.of]
  BY <1>1 DEF WatcherInv, MapsHold, Grown
<1> QED BY <1>2 DEF MapsHold

\* What a run entered stays what it is.
LEMMA EnteredKept ==
  ASSUME WatcherInv, Grown, contexts' \in Seq(ContextRec)
  PROVE  /\ Numbers \subseteq Numbers'
         /\ \A c \in Numbers : \A key : OpenedFor(c, key) => OpenedFor(c, key)'
         /\ \A t \in TaskRuns : runContext[t] # 0 =>
              /\ runContext[t] \in Numbers' /\ runContext[t] \in Numbers
              /\ \A c : c = runContext[t] => OpenedFor(c, TaskKey[t])'
<1>1. Numbers \subseteq Numbers'
  BY NumbersKnown DEF WatcherInv, WatcherTyped, Grown, Numbers
<1>2. \A c \in Numbers : \A key : OpenedFor(c, key) => OpenedFor(c, key)'
  BY DEF OpenedFor, Grown, TaskWorkOf
<1> QED BY <1>1, <1>2 DEF WatcherInv, MapsHold

LEMMA RunGoes ==
  ASSUME WatcherTyped, NEW t \in TaskRuns,
         NEW stage \in {"idle", "started", "running", "ended"}, RunIs(t, stage)
  PROVE  runStage' \in [TaskRuns -> {"idle", "started", "running", "ended"}]
BY DEF WatcherTyped, RunIs

\* A run that works adds a row to the context it entered, which is one of its key
\* and not older than its own.
LEMMA WorkPlaced ==
  ASSUME WatcherInv, NEW t \in TaskRuns, NEW c \in Numbers, OpenedFor(c, TaskKey[t]),
         NotBefore(t, {c}), NEW n \in Nat
  PROVE  WithItsRun(Item(t, n), c) /\ t \notin Jobs
<1>1. PICK d \in Numbers : contexts[d].work = TaskWorkOf(t) /\ d <= c
  BY DEF NotBefore
<1>2. d \in TaskContexts /\ KeyOf(d) = TaskKey[t] /\ contexts[d].work.of = t
  BY <1>1, ItemFields DEF TaskContexts, KeyOf, TaskWorkOf
<1>3. c \in TaskContexts /\ KeyOf(c) = TaskKey[t]
  BY ItemFields DEF OpenedFor, TaskContexts, KeyOf, TaskWorkOf
<1>4. d \in Nat /\ c \in Nat
  BY NumbersKnown DEF WatcherInv, WatcherTyped
<1>5. Item(t, n).of = t
  BY ItemFields
<1>6. CASE d = c
  BY <1>2, <1>5, <1>6, JobsAssumption DEF WithItsRun
<1>7. CASE d < c
  BY <1>2, <1>3, <1>5, <1>7, JobsAssumption DEF WithItsRun
<1> QED BY <1>1, <1>4, <1>6, <1>7

LEMMA TaskWorkIInv ==
  ASSUME IInv, UNCHANGED <<bullVars, tracedVars>>, NEW t \in TaskRuns, TaskWork(t)
  PROVE  IInv'
<1>1. WatcherInv /\ WatcherTyped /\ MapsHold /\ RunsFollowed /\ RowsPlaced /\ TasksOwned
      /\ contexts \in Seq(ContextRec)
  BY DEF IInv, WatcherInv, WatcherTyped
<1>2. UNCHANGED <<activeJobs, activeTasks, flushes, active, cleaning, runStage, runContext>>
  BY DEF TaskWork, runVars
<1>3. PICK c : c = runContext[t]
  OBVIOUS
<1>4. c # 0 /\ contexts' = [contexts EXCEPT ![c].rows = @ \cup {Item(t, 0)}]
  BY <1>3 DEF TaskWork, TaskWorkOf
<1>5. c \in Numbers /\ OpenedFor(c, TaskKey[t]) /\ NotBefore(t, {c})
  BY <1>1, <1>3, <1>4 DEF MapsHold, RunsFollowed
<1>6. Item(t, 0) \in Items /\ Item(t, 0).of = t
  BY ItemFields DEF Item, Items
<1>7. /\ contexts' \in Seq(ContextRec) /\ Grown /\ Numbers' = Numbers
      /\ \A d \in Numbers \ {c} : contexts'[d] = contexts[d]
      /\ contexts'[c].work = contexts[c].work
      /\ contexts'[c].rows = contexts[c].rows \cup {Item(t, 0)}
  BY <1>1, <1>4, <1>5, <1>6, Worked
<1>8. RowsPlaced'
  <2>1. WithItsRun(Item(t, 0), c) /\ t \notin Jobs
    BY <1>1, <1>5, WorkPlaced
  <2> QED BY <1>1, <1>5, <1>6, <1>7, <2>1, RowsAdded
<1>9. WatcherTyped'
  BY <1>1, <1>2, <1>7 DEF WatcherTyped
<1>10. MapsHold'
  <2>1. /\ \A d \in Numbers : \A key : OpenedFor(d, key) => OpenedFor(d, key)'
        /\ \A r \in TaskRuns : runContext[r] # 0 =>
             /\ runContext[r] \in Numbers'
             /\ \A d : d = runContext[r] => OpenedFor(d, TaskKey[r])'
    BY <1>1, <1>7, EnteredKept
  <2>2. \A r \in TaskRuns : runContext'[r] # 0 =>
          runContext'[r] \in Numbers' /\ OpenedFor(runContext[r], TaskKey[r])'
    BY <1>2, <2>1 DEF OpenedFor
  <2>3. \A e \in activeTasks' :
            /\ e.context \in Numbers' /\ OpenedFor(e.context, e.key)'
            /\ \A d \in activeTasks' : e.key = d.key => e = d
    BY <1>1, <1>2, <1>7, <2>1 DEF MapsHold
  <2> QED BY <1>1, <1>2, <1>7, <2>2, <2>3, MapsHoldKept DEF MapsHold
<1>11. RunsFollowed'
  BY <1>1, <1>2, <1>7, FollowedKept
<1>12. TasksOwned'
  BY <1>1, <1>2, <1>7, TasksOwnedKept
<1>13. Winding'
  BY <1>2 DEF IInv, Winding, Tracked, bullVars, tracedVars
<1>14. WatcherInv'
  BY <1>8, <1>9, <1>10, <1>11, <1>12 DEF WatcherInv
<1> QED BY <1>2, <1>7, <1>13, <1>14, WatcherStep DEF IInv, AdaptersTyped, bullVars, tracedVars

\* wrapTask enters what the map has.
LEMMA WrapTaskIInv ==
  ASSUME IInv, UNCHANGED <<bullVars, tracedVars>>, NEW t \in TaskRuns, WrapTask(t)
  PROVE  IInv'
<1>1. WatcherInv /\ WatcherTyped /\ MapsHold /\ RunsFollowed /\ RowsPlaced /\ TasksOwned
      /\ contexts \in Seq(ContextRec)
  BY DEF IInv, WatcherInv, WatcherTyped
<1>2. UNCHANGED <<contexts, activeJobs, activeTasks, flushes, active, cleaning>>
      /\ runStage[t] = "started" /\ RunIs(t, "running")
  BY DEF WrapTask
<1>3. Grown /\ Numbers' = Numbers
  <2>1. Len(contexts) \in Nat
    BY <1>1
  <2> QED BY <1>2, <2>1 DEF Grown, Numbers
<1>4. runStage' \in [TaskRuns -> {"idle", "started", "running", "ended"}]
      /\ \A r \in TaskRuns : runStage'[r] # "idle" => runStage[r] # "idle"
  BY <1>1, <1>2, RunGoes DEF RunIs, WatcherTyped
<1>5. PICK c : /\ runContext' = [runContext EXCEPT ![t] = c]
               /\ c # 0 => active /\ c = ContextOf(activeTasks, TaskKey[t])
  BY DEF WrapTask
<1>6. c # 0 => c \in Numbers /\ OpenedFor(c, TaskKey[t]) /\ NotBefore(t, {c})
  <2> SUFFICES ASSUME c # 0 PROVE c \in Numbers /\ OpenedFor(c, TaskKey[t]) /\ NotBefore(t, {c})
    OBVIOUS
  <2>1. PICK e \in activeTasks : e.key = TaskKey[t] /\ c = e.context
    BY <1>5, ContextOfPair
  <2>2. NotBefore(t, Under(TaskKey[t])) /\ c \in Under(TaskKey[t])
    BY <1>1, <1>2, <1>5, <2>1 DEF RunsFollowed, Under
  <2> QED BY <1>1, <2>1, <2>2 DEF MapsHold, NotBefore
<1>7. c \in Nat /\ runContext \in [TaskRuns -> Nat] /\ runContext' \in [TaskRuns -> Nat]
  BY <1>1, <1>5, <1>6, NumbersKnown DEF WatcherTyped
<1>8. RowsPlaced'
  BY <1>1, <1>2, <1>3, RowsStay
<1>9. WatcherTyped'
  BY <1>1, <1>2, <1>4, <1>7 DEF WatcherTyped
<1>10. MapsHold'
  <2>1. /\ \A d \in Numbers : \A key : OpenedFor(d, key) => OpenedFor(d, key)'
        /\ \A r \in TaskRuns : runContext[r] # 0 =>
             /\ runContext[r] \in Numbers'
             /\ \A d : d = runContext[r] => OpenedFor(d, TaskKey[r])'
    BY <1>1, <1>2, <1>3, EnteredKept
  <2>2. \A r \in TaskRuns : runContext'[r] # 0 =>
          runContext'[r] \in Numbers' /\ OpenedFor(runContext[r], TaskKey[r])'
    <3> SUFFICES ASSUME NEW r \in TaskRuns, NEW d, d = runContext'[r], d # 0
                 PROVE  d \in Numbers' /\ OpenedFor(d, TaskKey[r])'
      BY DEF OpenedFor
    <3>1. CASE r = t
      BY <1>3, <1>5, <1>6, <1>7, <2>1, <3>1
    <3>2. CASE r # t
      BY <1>5, <1>7, <2>1, <3>2
    <3> QED BY <3>1, <3>2
  <2>3. \A e \in activeTasks' :
            /\ e.context \in Numbers' /\ OpenedFor(e.context, e.key)'
            /\ \A d \in activeTasks' : e.key = d.key => e = d
    BY <1>1, <1>2, <1>3, <2>1 DEF MapsHold
  <2> QED BY <1>1, <1>2, <1>3, <2>2, <2>3, MapsHoldKept DEF MapsHold
<1>11. RunsFollowed'
  <2> SUFFICES ASSUME NEW r \in TaskRuns
               PROVE  /\ active' /\ runStage'[r] # "idle" => NotBefore(r, Under(TaskKey[r]))'
                      /\ runContext'[r] # 0 => NotBefore(r, {runContext[r]})'
    BY DEF RunsFollowed, NotBefore
  <2>1. active' /\ runStage'[r] # "idle" => NotBefore(r, Under(TaskKey[r]))'
    BY <1>1, <1>2, <1>3, <1>4 DEF RunsFollowed, NotBefore, Under, TaskWorkOf
  <2>2. ASSUME NEW d, d = runContext'[r], d # 0 PROVE NotBefore(r, {d})
    <3>1. CASE r = t
      BY <1>5, <1>6, <1>7, <2>2, <3>1
    <3>2. CASE r # t
      BY <1>1, <1>5, <1>7, <2>2, <3>2 DEF RunsFollowed
    <3> QED BY <3>1, <3>2
  <2>3. ASSUME NEW d, d = runContext'[r], d # 0 PROVE NotBefore(r, {d})'
    BY <1>1, <1>2, <1>3, <2>2, <2>3, NotBeforeKept
  <2> QED BY <2>1, <2>3 DEF NotBefore
<1>12. TasksOwned'
  BY <1>1, <1>2, <1>3, TasksOwnedKept
<1>13. Winding'
  BY <1>2 DEF IInv, Winding, Tracked, bullVars, tracedVars
<1>14. WatcherInv'
  BY <1>8, <1>9, <1>10, <1>11, <1>12 DEF WatcherInv
<1> QED BY <1>2, <1>3, <1>13, <1>14, WatcherStep DEF IInv, AdaptersTyped, bullVars, tracedVars

\* The new pair is in the map; what had another key is in it too, or MaxActive
\* pairs that are not older are.
LEMMA PutOwns ==
  ASSUME NEW keys, NEW map \in SUBSET Pairs(keys), IsFiniteSet(map), NEW key \in keys,
         NEW c \in Nat \ {0}, \A e \in map : e.context < c
  PROVE  /\ IsFiniteSet(Put(map, key, c))
         /\ [key |-> key, context |-> c] \in Put(map, key, c)
         /\ \A e \in map : e.key # key =>
              \/ e \in Put(map, key, c)
              \/ \E S \in SUBSET Pairs(keys) :
                   /\ S \subseteq Put(map, key, c) /\ e \notin S
                   /\ IsFiniteSet(S) /\ Cardinality(S) >= MaxActive
                   /\ \A d \in S : e.context <= d.context
<1> DEFINE new == [key |-> key, context |-> c]
           longer == Without(map, key) \cup {new}
<1>1. new \in Pairs(keys) /\ longer \in SUBSET Pairs(keys) /\ new \in longer
  BY DEF Pairs, Without
<1>2. IsFiniteSet(Without(map, key))
  BY FS_Subset DEF Without
<1>3. IsFiniteSet(longer) /\ Cardinality(longer) \in Nat
  BY <1>2, FS_AddElement, FS_CardinalityType
<1>4. Oldest(longer) \in longer /\ \A d \in longer : Oldest(longer).context <= d.context
  BY <1>1, OldestPair
<1>5. \A e \in longer : e = new \/ e \in map
  BY DEF Without
<1> HIDE DEF longer, new
<1>6. CASE Cardinality(longer) > MaxActive
  <2>1. Put(map, key, c) = longer \ {Oldest(longer)}
    BY <1>6 DEF Put, longer, new
  <2>2. /\ IsFiniteSet(longer \ {Oldest(longer)})
        /\ Cardinality(longer \ {Oldest(longer)}) = Cardinality(longer) - 1
    BY <1>3, <1>4, FS_RemoveElement
  <2>3. Cardinality(longer \ {Oldest(longer)}) >= MaxActive
    BY <1>3, <1>6, <2>2, ActiveAssumption
  <2>4. Oldest(longer) # new
    <3> SUFFICES ASSUME Oldest(longer) = new PROVE FALSE
      OBVIOUS
    <3>1. \A e \in map : e.context < new.context /\ e.context \in Nat /\ new.context \in Nat
      BY <1>1 DEF Pairs, new
    <3>2. longer = {new}
      BY <1>1, <1>4, <1>5, <3>1
    <3>3. Cardinality(longer) = 1
      BY <3>2, FS_Singleton
    <3> QED BY <1>6, <3>3, ActiveAssumption
  <2>5. new \in Put(map, key, c)
    BY <1>1, <2>1, <2>4
  <2>6. ASSUME NEW e \in map, e.key # key, e \notin Put(map, key, c)
        PROVE  \E S \in SUBSET Pairs(keys) :
                   /\ S \subseteq Put(map, key, c) /\ e \notin S
                   /\ IsFiniteSet(S) /\ Cardinality(S) >= MaxActive
                   /\ \A d \in S : e.context <= d.context
    <3>1. e \in longer
      BY <2>6 DEF longer, Without
    <3>2. e = Oldest(longer)
      BY <2>1, <2>6, <3>1
    <3> QED BY <1>1, <1>4, <2>1, <2>2, <2>3, <3>2
  <2> QED BY <2>1, <2>2, <2>5, <2>6 DEF new
<1>7. CASE ~(Cardinality(longer) > MaxActive)
  <2>1. Put(map, key, c) = longer
    BY <1>7 DEF Put, longer, new
  <2>2. \A e \in map : e.key # key => e \in longer
    BY DEF longer, Without
  <2> QED BY <1>1, <1>3, <2>1, <2>2 DEF new
<1> QED BY <1>6, <1>7

LEMMA EvictedSuperseded ==
  ASSUME contexts' \in Seq(ContextRec), NEW c, NEW S, IsFiniteSet(S),
         Cardinality(S) >= MaxActive, \A e \in S : e.key \in KeysAfter(c)',
         \A e, d \in S : e.key = d.key => e = d
  PROVE  Superseded(c)'
<1> DEFINE T == KeysAfter(c)'
           f == [e \in S |-> e.key]
<1>1. IsFiniteSet(T) /\ Cardinality(T) \in Nat /\ Cardinality(S) \in Nat
  BY KeysAfterFinite, FS_CardinalityType
<1>2. f \in [S -> T] /\ ~\E x, y \in S : x # y /\ f[x] = f[y]
  OBVIOUS
<1> HIDE DEF T, f
<1>3. ~(Cardinality(T) < Cardinality(S))
  BY <1>1, <1>2, FS_PigeonHole
<1>4. Cardinality(T) >= MaxActive
  BY <1>1, <1>3, ActiveAssumption
<1> QED BY <1>4 DEF T, Superseded

\* A context opened for a key is a task's, and has that key.
LEMMA OpenedKey ==
  ASSUME NEW c, NEW key
  PROVE  /\ c \in Numbers /\ OpenedFor(c, key) => c \in TaskContexts /\ KeyOf(c) = key
         /\ (c \in Numbers /\ OpenedFor(c, key) => c \in TaskContexts /\ KeyOf(c) = key)'
BY ItemFields DEF OpenedFor, TaskContexts, KeyOf, TaskWorkOf

\* The map took the context N of a run: what it held is still in it, or pushed out.
LEMMA TakenOwned ==
  ASSUME WatcherTyped, MapsHold, TasksOwned, contexts' \in Seq(ContextRec), Grown,
         NEW keys, activeTasks \in SUBSET Pairs(keys), NEW key \in keys, NEW N \in Nat \ {0},
         Numbers' = Numbers \cup {N}, \A c \in Numbers : c < N, OpenedFor(N, key)',
         activeTasks' = Put(activeTasks, key, N), active
  PROVE  /\ IsFiniteSet(activeTasks')
         /\ \A e \in activeTasks' : \/ e = [key |-> key, context |-> N]
                                    \/ e \in activeTasks /\ e.key # key
         /\ TasksOwned'
<1> DEFINE new == [key |-> key, context |-> N]
<1>1. /\ IsFiniteSet(activeTasks) /\ contexts \in Seq(ContextRec)
      /\ \A e \in activeTasks : /\ e.context \in Numbers /\ e.context < N
                                /\ OpenedFor(e.context, e.key)
  BY DEF WatcherTyped, MapsHold
<1>2. /\ IsFiniteSet(activeTasks')
      /\ new \in activeTasks'
      /\ \A e \in activeTasks : e.key # key =>
            \/ e \in activeTasks'
            \/ \E S \in SUBSET Pairs(keys) :
                 /\ S \subseteq activeTasks' /\ e \notin S
                 /\ IsFiniteSet(S) /\ Cardinality(S) >= MaxActive
                 /\ \A d \in S : e.context <= d.context
  BY <1>1, PutOwns
<1>3. \A e \in activeTasks' : e = new \/ (e \in activeTasks /\ e.key # key)
  BY PutPairs DEF Without
<1>4. \A c \in Numbers : /\ contexts'[c].work = contexts[c].work
                         /\ \A k : OpenedFor(c, k) => OpenedFor(c, k)'
  BY DEF Grown, OpenedFor, TaskWorkOf
<1>5. \A e \in activeTasks' : /\ e.context \in TaskContexts' /\ KeyOf(e.context)' = e.key
                              /\ e.context \in Nat
  <2> SUFFICES ASSUME NEW e \in activeTasks'
               PROVE  /\ e.context \in TaskContexts' /\ KeyOf(e.context)' = e.key
                      /\ e.context \in Nat
    OBVIOUS
  <2>1. PICK d : d = e.context
    OBVIOUS
  <2>2. d \in Numbers' /\ OpenedFor(d, e.key)' /\ d \in Nat
    BY <1>1, <1>3, <1>4, <2>1, NumbersKnown
  <2>3. d \in TaskContexts' /\ KeyOf(d)' = e.key
    BY <2>2, OpenedKey
  <2> QED BY <2>1, <2>2, <2>3 DEF KeyOf
<1>6. \A e, d \in activeTasks' : e.key = d.key => e = d
  BY <1>3 DEF MapsHold
<1>7. TasksOwned'
  <2> SUFFICES ASSUME NEW c \in TaskContexts', ~contexts'[c].flushed
               PROVE  (\E e \in activeTasks' : e.context = c) \/ Superseded(c)'
    BY DEF TasksOwned
  <2>1. CASE c = N
    BY <1>2, <2>1
  <2>2. CASE c # N
    <3>1. c \in Numbers /\ contexts'[c].work = contexts[c].work
      BY <1>4, <2>2 DEF TaskContexts
    <3>2. c \in TaskContexts /\ ~contexts[c].flushed
      BY <3>1 DEF TaskContexts, TaskWorkOf, Grown
    <3>3. CASE Superseded(c)
      BY <3>2, <3>3, SupersededKept
    <3>4. CASE \E e \in activeTasks : e.context = c
      <4>1. PICK e \in activeTasks : e.context = c
        BY <3>4
      <4>2. KeyOf(c)' = e.key /\ c \in Nat
        <5>1. OpenedFor(c, e.key)' /\ c \in Numbers' /\ c \in Nat
          BY <1>1, <1>4, <3>1, <4>1, NumbersKnown
        <5> QED BY <5>1, OpenedKey
      <4>3. ASSUME NEW d \in activeTasks', d.context > c PROVE d.key \in KeysAfter(c)'
        <5>1. PICK m : m = d.context
          OBVIOUS
        <5>2. m \in Younger(c)' /\ KeyOf(m)' = d.key
          BY <1>5, <4>3, <5>1 DEF Younger, KeyOf
        <5> QED BY <5>2 DEF KeysAfter
      <4>4. CASE e.key = key
        BY <1>1, <1>2, <4>1, <4>2, <4>3, <4>4 DEF Superseded
      <4>5. CASE e.key # key /\ e \in activeTasks'
        BY <4>1, <4>5
      <4>6. CASE e.key # key /\ e \notin activeTasks'
        <5>1. PICK S \in SUBSET Pairs(keys) :
                 /\ S \subseteq activeTasks' /\ e \notin S
                 /\ IsFiniteSet(S) /\ Cardinality(S) >= MaxActive
                 /\ \A d \in S : e.context <= d.context
          BY <1>2, <4>6
        <5>2. ASSUME NEW d \in S PROVE d.context > c
          <6>1. d \in activeTasks' /\ d.context \in Nat /\ c <= d.context
            BY <1>5, <4>1, <5>1
          <6>2. ASSUME d.context = c PROVE FALSE
            <7>1. d.key = e.key
              BY <1>5, <4>2, <6>1, <6>2 DEF KeyOf
            <7>2. d \in activeTasks
              BY <1>3, <4>6, <6>1, <7>1
            <7>3. d = e
              BY <7>1, <7>2 DEF MapsHold
            <7> QED BY <5>1, <7>3
          <6> QED BY <4>2, <6>1, <6>2
        <5>3. \A d \in S : d.key \in KeysAfter(c)'
          BY <4>3, <5>1, <5>2
        <5>4. \A d, g \in S : d.key = g.key => d = g
          BY <1>6, <5>1
        <5> QED BY <5>1, <5>3, <5>4, EvictedSuperseded
      <4> QED BY <4>4, <4>5, <4>6
    <3> QED BY <3>2, <3>3, <3>4 DEF TasksOwned
  <2> QED BY <2>1, <2>2
<1> QED BY <1>2, <1>3, <1>7

\* The context of a run that starts is the latest: it is before nothing that the
\* map had for its key.
LEMMA StartFollowed ==
  ASSUME WatcherTyped, MapsHold, RunsFollowed, contexts' \in Seq(ContextRec), Grown,
         NEW t \in TaskRuns, NEW N \in Nat \ {0},
         Numbers' = Numbers \cup {N}, \A c \in Numbers : c < N,
         contexts'[N].work = TaskWorkOf(t),
         \A e \in activeTasks' : \/ e = [key |-> TaskKey[t], context |-> N]
                                 \/ e \in activeTasks /\ e.key # TaskKey[t],
         \A r \in TaskRuns \ {t} : runStage'[r] = runStage[r],
         active, runContext' = runContext
  PROVE  RunsFollowed'
<1>1. contexts \in Seq(ContextRec) /\ \A d \in Numbers : contexts'[d].work = contexts[d].work
  BY DEF WatcherTyped, Grown
<1> SUFFICES ASSUME NEW r \in TaskRuns
             PROVE  /\ runStage'[r] # "idle" => NotBefore(r, Under(TaskKey[r]))'
                    /\ runContext[r] # 0 => NotBefore(r, {runContext[r]})'
  BY DEF RunsFollowed, NotBefore
<1>2. PICK us : us = Under(TaskKey[r])'
  OBVIOUS
<1>3. ASSUME runStage'[r] # "idle" PROVE NotBefore(r, us)'
  <2>1. CASE TaskKey[r] # TaskKey[t]
    <3>1. us \subseteq Under(TaskKey[r])
      BY <1>2, <2>1 DEF Under
    <3>2. NotBefore(r, Under(TaskKey[r]))
      BY <1>3, <2>1 DEF RunsFollowed
    <3>3. PICK vs : vs = Under(TaskKey[r])
      OBVIOUS
    <3> QED BY <1>1, <3>1, <3>2, <3>3, NotBeforeKept
  <2>2. CASE TaskKey[r] = TaskKey[t]
    <3>1. us \subseteq {N}
      BY <1>2, <2>2 DEF Under
    <3>2. \E d \in Numbers' : contexts'[d].work = TaskWorkOf(r) /\ d <= N
      <4>1. CASE r = t
        BY <4>1
      <4>2. CASE r # t
        <5>1. PICK d \in Numbers : contexts[d].work = TaskWorkOf(r)
          BY <1>3, <4>2 DEF RunsFollowed, NotBefore
        <5>2. d \in Nat /\ d < N
          BY <1>1, NumbersKnown
        <5> QED BY <1>1, <5>1, <5>2
      <4> QED BY <4>1, <4>2
    <3> QED BY <3>1, <3>2 DEF NotBefore, TaskWorkOf
  <2> QED BY <2>1, <2>2
<1>4. ASSUME runContext[r] # 0 PROVE NotBefore(r, {runContext[r]})'
  <2>1. PICK cs : cs = {runContext[r]}
    OBVIOUS
  <2>2. NotBefore(r, cs)
    BY <1>4, <2>1 DEF RunsFollowed
  <2>3. NotBefore(r, cs)'
    BY <1>1, <2>2, NotBeforeKept
  <2> QED BY <2>1, <2>3 DEF NotBefore
<1> QED BY <1>2, <1>3, <1>4 DEF NotBefore

LEMMA TaskStartedIInv ==
  ASSUME IInv, UNCHANGED <<bullVars, tracedVars>>, NEW t \in TaskRuns, TaskStarted(t)
  PROVE  IInv'
<1>1. WatcherInv /\ WatcherTyped /\ MapsHold /\ RunsFollowed /\ RowsPlaced /\ TasksOwned
      /\ contexts \in Seq(ContextRec)
  BY DEF IInv, WatcherInv, WatcherTyped
<1>2. UNCHANGED <<activeJobs, flushes, active, cleaning, runContext>>
  BY DEF TaskStarted
<1>3. runStage' \in [TaskRuns -> {"idle", "started", "running", "ended"}]
      /\ \A r \in TaskRuns \ {t} : runStage'[r] = runStage[r]
  BY <1>1, RunGoes DEF TaskStarted, RunIs, WatcherTyped
<1>4. Winding'
  BY <1>2 DEF IInv, Winding, Tracked, bullVars, tracedVars
<1>5. CASE ~active /\ UNCHANGED <<contexts, activeTasks>>
  <2>1. Grown /\ Numbers' = Numbers
    <3>1. Len(contexts) \in Nat
      BY <1>1
    <3> QED BY <1>5, <3>1 DEF Grown, Numbers
  <2>2. WatcherTyped'
    BY <1>1, <1>2, <1>3, <1>5 DEF WatcherTyped
  <2>3. MapsHold'
    BY <1>1, <1>2, <1>5, <2>1 DEF MapsHold, OpenedFor, TaskWorkOf
  <2>4. RunsFollowed'
    <3> SUFFICES ASSUME NEW r \in TaskRuns, runContext[r] # 0
                 PROVE  NotBefore(r, {runContext[r]})'
      BY <1>2, <1>5 DEF RunsFollowed, NotBefore
    <3>1. NotBefore(r, {runContext[r]})
      BY <1>1 DEF RunsFollowed
    <3> QED BY <1>2, <1>5, <2>1, <3>1 DEF NotBefore, TaskWorkOf
  <2>5. TasksOwned'
    BY <1>1, <1>2, <1>5, <2>1, TasksOwnedKept
  <2>6. RowsPlaced'
    BY <1>1, <1>5, <2>1, RowsStay
  <2> QED BY <1>2, <1>4, <2>1, <2>2, <2>3, <2>4, <2>5, <2>6, WatcherStep
          DEF IInv, AdaptersTyped, bullVars, tracedVars, WatcherInv
<1>6. CASE /\ active
           /\ Open(NextContext, TaskWorkOf(t), {})
           /\ activeTasks' = Put(activeTasks, TaskKey[t], NextContext)
  <2> DEFINE keys == {TaskKey[r] : r \in TaskRuns}
  <2>1. PICK key \in keys : key = TaskKey[t]
    OBVIOUS
  <2>2. PICK work \in Items : work = TaskWorkOf(t)
    BY DEF Item, Items, TaskWorkOf
  <2>3. PICK N \in Nat \ {0} : N = NextContext
    BY <1>1, NumbersKnown
  <2>4. /\ contexts' \in Seq(ContextRec) /\ Grown
        /\ Numbers' = Numbers \cup {N}
        /\ \A c \in Numbers : contexts'[c] = contexts[c] /\ c < N
        /\ contexts'[N].work = work /\ contexts'[N].rows = {}
    <3>1. Open(N, work, {})
      BY <1>6, <2>2, <2>3
    <3>2. /\ contexts' \in Seq(ContextRec) /\ Grown
          /\ Numbers' = Numbers \cup {N}
          /\ \A c \in Numbers : contexts'[c] = contexts[c]
          /\ contexts'[N].work = work /\ contexts'[N].rows = {}
      BY <1>1, <2>3, <3>1, Opened
    <3>3. \A c \in Numbers : c < N
      BY <1>1, <2>3, NumbersKnown DEF Numbers
    <3> QED BY <3>2, <3>3
  <2>5. OpenedFor(N, key)' /\ contexts'[N].work = TaskWorkOf(t)
    BY <2>1, <2>2, <2>4 DEF OpenedFor, TaskWorkOf
  <2>6. RowsPlaced'
    BY <1>1, <2>3, <2>4, RowsOpened
  <2>7. activeTasks \in SUBSET Pairs(keys)
    BY <1>1 DEF WatcherTyped
  <2>8. activeTasks' = Put(activeTasks, key, N)
    BY <1>6, <2>1, <2>3
  <2> HIDE DEF keys
  <2>9. /\ IsFiniteSet(activeTasks')
        /\ \A e \in activeTasks' : \/ e = [key |-> key, context |-> N]
                                   \/ e \in activeTasks /\ e.key # key
        /\ TasksOwned'
    BY <1>1, <1>6, <2>4, <2>5, <2>7, <2>8, TakenOwned
  <2>10. RunsFollowed'
    BY <1>1, <1>2, <1>3, <1>6, <2>1, <2>4, <2>5, <2>9, StartFollowed
  <2>11. WatcherTyped'
    <3>1. activeTasks' \subseteq Pairs(keys)
      BY <2>7, <2>9 DEF Pairs
    <3> QED BY <1>1, <1>2, <1>3, <2>4, <3>1 DEF WatcherTyped, keys
  <2>12. MapsHold'
    <3>1. /\ \A d \in Numbers : \A k : OpenedFor(d, k) => OpenedFor(d, k)'
          /\ \A r \in TaskRuns : runContext[r] # 0 =>
               /\ runContext[r] \in Numbers'
               /\ \A d : d = runContext[r] => OpenedFor(d, TaskKey[r])'
      BY <1>1, <2>4, EnteredKept
    <3>2. \A r \in TaskRuns : runContext'[r] # 0 =>
            runContext'[r] \in Numbers' /\ OpenedFor(runContext[r], TaskKey[r])'
      BY <1>2, <3>1 DEF OpenedFor
    <3>3. ASSUME NEW e \in activeTasks', NEW d, d = e.context
          PROVE  d \in Numbers' /\ OpenedFor(d, e.key)'
      BY <1>1, <2>4, <2>5, <2>9, <3>1, <3>3 DEF MapsHold
    <3>4. \A e \in activeTasks' :
            /\ e.context \in Numbers' /\ OpenedFor(e.context, e.key)'
            /\ \A d \in activeTasks' : e.key = d.key => e = d
      BY <1>1, <2>9, <3>3 DEF MapsHold, OpenedFor
    <3> QED BY <1>1, <1>2, <1>6, <2>4, <2>9, <3>2, <3>4, MapsHoldKept
  <2>13. WatcherInv'
    BY <2>6, <2>9, <2>10, <2>11, <2>12 DEF WatcherInv
  <2> QED BY <1>2, <1>4, <2>4, <2>13, WatcherStep
          DEF IInv, AdaptersTyped, bullVars, tracedVars
<1> QED BY <1>5, <1>6 DEF TaskStarted

LEMMA TaskFinishedIInv ==
  ASSUME IInv, UNCHANGED <<bullVars, tracedVars>>, NEW t \in TaskRuns, TaskFinished(t)
  PROVE  IInv'
<1>1. WatcherInv /\ WatcherTyped /\ MapsHold /\ RunsFollowed /\ RowsPlaced /\ TasksOwned
      /\ contexts \in Seq(ContextRec)
  BY DEF IInv, WatcherInv, WatcherTyped
<1>2. UNCHANGED <<activeJobs, active, cleaning, runContext>> /\ runStage[t] # "idle"
  BY DEF TaskFinished
<1>3. runStage' \in [TaskRuns -> {"idle", "started", "running", "ended"}]
      /\ \A r \in TaskRuns : runStage'[r] # "idle" => runStage[r] # "idle"
  BY <1>1, <1>2, RunGoes DEF TaskFinished, RunIs, WatcherTyped
<1>4. PICK key : key = TaskKey[t]
  OBVIOUS
<1>5. PICK row \in Items : /\ row = TaskEndOf(t) /\ row = Item(t, 1) /\ row.of = t
                           /\ row.n > 0
  <2>1. Item(t, 1) \in Items
    BY DEF Item, Items
  <2>2. Item(t, 1).of = t /\ Item(t, 1).n = 1
    BY ItemFields
  <2> QED BY <2>1, <2>2 DEF TaskEndOf
<1>6. /\ contexts' \in Seq(ContextRec) /\ Grown /\ RowsPlaced'
      /\ flushes' \subseteq Nat /\ (~active => flushes' = flushes)
      /\ \A c \in Numbers' \ Numbers : contexts'[c].work.n > 0
      /\ activeTasks' = IF active THEN Without(activeTasks, key) ELSE activeTasks
      /\ active => \A e \in activeTasks : e.key = key => contexts'[e.context].flushed
  <2>1. CASE ~active /\ UNCHANGED <<contexts, flushes, activeTasks>>
    <3>1. Len(contexts) \in Nat
      BY <1>1
    <3>2. Grown /\ Numbers' = Numbers
      BY <2>1, <3>1 DEF Grown, Numbers
    <3>3. RowsPlaced'
      BY <1>1, <2>1, <3>2, RowsStay
    <3> QED BY <1>1, <2>1, <3>2, <3>3 DEF WatcherTyped
  <2>2. PICK c : c = ContextOf(activeTasks, key)
    OBVIOUS
  <2>3. CASE /\ active /\ c # 0 /\ RecordAndFlush(c, row)
             /\ activeTasks' = Without(activeTasks, key)
    <3>1. PICK e \in activeTasks : e.key = key /\ c = e.context
      BY <2>2, <2>3, ContextOfPair
    <3>2. c \in Numbers /\ OpenedFor(c, key) /\ NotBefore(t, {c})
      <4>1. NotBefore(t, Under(key)) /\ c \in Under(key)
        BY <1>1, <1>2, <1>4, <2>3, <3>1 DEF RunsFollowed, Under
      <4> QED BY <1>1, <3>1, <4>1 DEF MapsHold, NotBefore
    <3>3. /\ contexts' = [contexts EXCEPT ![c].rows = @ \cup {row}, ![c].flushed = TRUE]
          /\ flushes' = flushes \cup {c}
      BY <2>3 DEF RecordAndFlush
    <3>4. /\ contexts' \in Seq(ContextRec) /\ Grown /\ Numbers' = Numbers
          /\ \A d \in Numbers \ {c} : contexts'[d] = contexts[d]
          /\ contexts'[c].work = contexts[c].work
          /\ contexts'[c].rows = contexts[c].rows \cup {row}
          /\ contexts'[c].flushed
      BY <1>1, <3>2, <3>3, Recorded
    <3>5. WithItsRun(row, c) /\ row.of \notin Jobs
      BY <1>1, <1>4, <1>5, <3>2, WorkPlaced
    <3>6. RowsPlaced'
      BY <1>1, <3>2, <3>4, <3>5, RowsAdded
    <3>7. \A d \in activeTasks : d.key = key => d = e
      BY <1>1, <3>1 DEF MapsHold
    <3>8. flushes' \subseteq Nat
      BY <1>1, <3>2, <3>3, NumbersKnown DEF WatcherTyped
    <3> QED BY <2>3, <3>1, <3>4, <3>6, <3>7, <3>8
  <2>4. CASE /\ active /\ c = 0 /\ OpenRecordAndFlush(NextContext, row, row)
             /\ activeTasks' = Without(activeTasks, key)
    <3>1. PICK N \in Nat \ {0} : N = NextContext
      BY <1>1, NumbersKnown
    <3>2. Open(N, row, {row}) /\ flushes' = flushes \cup {N}
      BY <2>4, <3>1 DEF OpenRecordAndFlush
    <3>3. /\ contexts' \in Seq(ContextRec) /\ Grown
          /\ Numbers' = Numbers \cup {NextContext}
          /\ \A d \in Numbers : contexts'[d] = contexts[d]
          /\ contexts'[NextContext].work = row
          /\ contexts'[NextContext].rows = {row}
      BY <1>1, <1>5, <3>1, <3>2, Opened
    <3>4. RowsPlaced'
      BY <1>1, <3>3, RowsOpened
    <3>5. \A e \in activeTasks : e.key # key
      <4>1. \/ \A e \in activeTasks : e.key # key
            \/ \E e \in activeTasks : e.key = key /\ c = e.context
        BY <2>2, ContextOfPair
      <4>2. \A e \in activeTasks : e.context # 0
        BY <1>1, NumbersKnown DEF MapsHold
      <4> QED BY <2>4, <4>1, <4>2
    <3>6. flushes' \subseteq Nat
      BY <1>1, <3>1, <3>2 DEF WatcherTyped
    <3> QED BY <1>5, <2>4, <3>3, <3>4, <3>5, <3>6
  <2>5. \/ ~active /\ UNCHANGED <<contexts, flushes, activeTasks>>
        \/ /\ active /\ activeTasks' = Without(activeTasks, key)
           /\ IF c # 0 THEN RecordAndFlush(c, row)
              ELSE OpenRecordAndFlush(NextContext, row, row)
    BY <1>4, <1>5, <2>2 DEF TaskFinished, RunContextOf
  <2> QED BY <2>1, <2>3, <2>4, <2>5
<1>7. activeTasks' \subseteq activeTasks
  BY <1>6 DEF Without
<1>8. WatcherTyped'
  BY <1>1, <1>2, <1>3, <1>6, <1>7 DEF WatcherTyped
<1>9. MapsHold'
  <2>1. /\ Numbers \subseteq Numbers'
        /\ \A d \in Numbers : \A k : OpenedFor(d, k) => OpenedFor(d, k)'
        /\ \A r \in TaskRuns : runContext[r] # 0 =>
             /\ runContext[r] \in Numbers'
             /\ \A d : d = runContext[r] => OpenedFor(d, TaskKey[r])'
    BY <1>1, <1>6, EnteredKept
  <2>2. \A r \in TaskRuns : runContext'[r] # 0 =>
          runContext'[r] \in Numbers' /\ OpenedFor(runContext[r], TaskKey[r])'
    BY <1>2, <2>1 DEF OpenedFor
  <2>3. \A e \in activeTasks' :
            /\ e.context \in Numbers' /\ OpenedFor(e.context, e.key)'
            /\ \A d \in activeTasks' : e.key = d.key => e = d
    BY <1>1, <1>7, <2>1 DEF MapsHold
  <2>4. IsFiniteSet(activeTasks') /\ (~active => activeTasks' = {} /\ activeJobs = {})
    BY <1>1, <1>7, FS_Subset DEF MapsHold
  <2> QED BY <1>1, <1>2, <1>6, <2>2, <2>3, <2>4, MapsHoldKept
<1>10. TasksOwned'
  <2> SUFFICES ASSUME NEW c \in TaskContexts', ~contexts'[c].flushed
               PROVE  \/ \E e \in activeTasks' : e.context = c
                      \/ Superseded(c)'
                      \/ ~active'
    BY DEF TasksOwned
  <2>1. PICK r \in TaskRuns : contexts'[c].work = TaskWorkOf(r)
    BY DEF TaskContexts
  <2>2. contexts'[c].work.n = 0
    BY <2>1, ItemFields DEF TaskWorkOf
  <2>3. c \in Numbers
    BY <1>6, <2>2 DEF TaskContexts
  <2>4. c \in TaskContexts /\ ~contexts[c].flushed
    BY <1>6, <2>1, <2>3 DEF TaskContexts, Grown
  <2>5. CASE Superseded(c)
    BY <1>1, <1>6, <2>4, <2>5, SupersededKept
  <2>6. CASE ~active
    BY <1>2, <2>6
  <2>7. CASE active /\ \E e \in activeTasks : e.context = c
    <3>1. PICK e \in activeTasks : e.context = c
      BY <2>7
    <3>2. e.key # key
      BY <1>6, <2>7, <3>1
    <3>3. e \in activeTasks'
      BY <1>6, <2>7, <3>2 DEF Without
    <3> QED BY <3>1, <3>3
  <2> QED BY <1>1, <2>4, <2>5, <2>6, <2>7 DEF TasksOwned
<1>11. Winding'
  BY <1>2, <1>6 DEF IInv, Winding, Tracked, bullVars, tracedVars
<1>12. RunsFollowed'
  BY <1>1, <1>2, <1>3, <1>6, <1>7, FollowedKept
<1>13. WatcherInv'
  BY <1>6, <1>8, <1>9, <1>10, <1>12 DEF WatcherInv
<1> QED BY <1>2, <1>6, <1>11, <1>13, WatcherStep
        DEF IInv, AdaptersTyped, bullVars, tracedVars

-----------------------------------------------------------------------------
(* Flushes and cleanup() *)

LEMMA CleanupIInv ==
  ASSUME IInv, UNCHANGED <<bullVars, tracedVars>>,
         \/ \E c \in flushes : FlushSettles(c)
         \/ CleanupBegins
         \/ AdaptersCleaned /\ AwaitFlushes
         \/ CleanupReturns
  PROVE  IInv'
<1>1. WatcherInv /\ WatcherTyped /\ MapsHold /\ RunsFollowed /\ RowsPlaced /\ TasksOwned
      /\ contexts \in Seq(ContextRec) /\ Len(contexts) \in Nat
  BY NumbersKnown DEF IInv, WatcherInv, WatcherTyped
<1>2. UNCHANGED <<contexts, runStage, runContext>>
  BY DEF FlushSettles, CleanupBegins, AwaitFlushes, CleanupReturns, storeVars, runVars
<1>3. Grown /\ Numbers' = Numbers /\ RowsPlaced'
  <2>1. Grown /\ Numbers' = Numbers
    BY <1>1, <1>2 DEF Grown, Numbers
  <2> QED BY <1>1, <1>2, <2>1, RowsStay
<1>4. CASE \/ \E c \in flushes : FlushSettles(c)
           \/ AdaptersCleaned /\ AwaitFlushes
           \/ CleanupReturns
  <2>1. UNCHANGED <<activeJobs, activeTasks, active>> /\ flushes' \subseteq flushes
    BY <1>4 DEF FlushSettles, AwaitFlushes, CleanupReturns, storeVars
  <2>2. cleaning' \in [stage : {"none", "adapters", "flushes", "done"}, awaits : SUBSET Nat]
    BY <1>1, <1>4 DEF FlushSettles, AwaitFlushes, CleanupReturns, WatcherTyped
  <2>3. WatcherTyped'
    BY <1>1, <1>2, <2>1, <2>2 DEF WatcherTyped
  <2>4. MapsHold'
    BY <1>1, <1>2, <1>3, <2>1 DEF MapsHold, OpenedFor, TaskWorkOf
  <2>5. TasksOwned'
    BY <1>1, <1>2, <1>3, <2>1, TasksOwnedKept
  <2>7. RunsFollowed'
    BY <1>1, <1>2, <1>3, <2>1, FollowedKept
  <2>6. Winding'
    <3>1. CASE \E c \in flushes : FlushSettles(c)
      BY <2>1, <3>1 DEF IInv, Winding, Tracked, bullVars, tracedVars, FlushSettles
    <3>2. CASE AdaptersCleaned /\ AwaitFlushes
      BY <2>1, <3>2 DEF IInv, Winding, Tracked, bullVars, tracedVars, AwaitFlushes,
                        AdaptersCleaned, storeVars
    <3>3. CASE CleanupReturns
      <4>1. cleaning'.stage = "done" /\ cleaning'.awaits = cleaning.awaits
            /\ cleaning.stage = "flushes" /\ flushes' = flushes
        BY <1>1, <3>3 DEF CleanupReturns, WatcherTyped, storeVars
      <4>2. flushes' = {}
        BY <3>3, <4>1 DEF CleanupReturns, IInv, Winding
      <4> QED BY <2>1, <4>1, <4>2 DEF IInv, Winding, Tracked, bullVars, tracedVars
    <3> QED BY <1>4, <3>1, <3>2, <3>3
  <2> QED BY <1>3, <2>1, <2>3, <2>4, <2>5, <2>6, <2>7, WatcherStep
          DEF IInv, AdaptersTyped, bullVars, tracedVars, WatcherInv
<1>5. CASE CleanupBegins
  <2>1. /\ active' = FALSE /\ activeJobs' = {} /\ activeTasks' = {} /\ flushes' = flushes
        /\ cleaning' = [cleaning EXCEPT !.stage = "adapters"]
    BY <1>5 DEF CleanupBegins, storeVars
  <2>2. cleaning' \in [stage : {"none", "adapters", "flushes", "done"}, awaits : SUBSET Nat]
        /\ cleaning'.stage = "adapters"
    BY <1>1, <2>1 DEF WatcherTyped
  <2>3. WatcherTyped'
    BY <1>1, <1>2, <2>1, <2>2 DEF WatcherTyped
  <2>4. MapsHold'
    BY <1>1, <1>2, <1>3, <2>1, FS_EmptySet DEF MapsHold, OpenedFor, TaskWorkOf
  <2>5. TasksOwned'
    BY <2>1 DEF TasksOwned
  <2>7. RunsFollowed'
    BY <1>1, <1>2, <1>3, <2>1, FollowedKept
  <2>6. Winding'
    BY <2>1, <2>2 DEF IInv, Winding, Tracked, bullVars, tracedVars
  <2> QED BY <1>3, <2>1, <2>3, <2>4, <2>5, <2>6, <2>7, WatcherStep
          DEF IInv, AdaptersTyped, bullVars, tracedVars, WatcherInv
<1> QED BY <1>4, <1>5

-----------------------------------------------------------------------------
(* The invariant *)

LEMMA InitIInv == Init => IInv
<1> SUFFICES ASSUME Init PROVE IInv
  OBVIOUS
<1> USE DEF Init
<1>1. contexts = <<>> /\ Numbers = {} /\ activeJobs = {} /\ activeTasks = {}
  BY DEF InitWatcher, Numbers
<1>2. contexts \in Seq(ContextRec)
  BY <1>1
<1>3. WatcherTyped
  BY <1>1, <1>2 DEF InitWatcher, WatcherTyped
<1>4. MapsHold
  BY <1>1, FS_EmptySet DEF InitWatcher, MapsHold
<1>5. RowsPlaced /\ TasksOwned
  BY <1>1 DEF RowsPlaced, EndsMeetStarts, RowsWithRun, TasksOwned, TaskContexts
<1>11. RunsFollowed
  BY <1>1 DEF InitWatcher, RunsFollowed
<1>6. \A j \in BullJobs : chain[j] = <<>> /\ attempt[j] = [n |-> 0, runs |-> FALSE]
                          /\ lookup[j] = FALSE
  BY DEF InitBull
<1>7. AdaptersTyped
  <2>1. chain \in [BullJobs -> Seq(Events)]
    BY <1>6 DEF InitBull
  <2> QED BY <2>1 DEF InitBull, InitTraced, AdaptersTyped
<1>8. BullInv
  <2>1. \A j \in BullJobs : InStep(j)
    BY <1>6 DEF InStep
  <2> QED BY <1>6, <2>1 DEF BullInv
<1>9. TracedInv
  BY DEF InitTraced, TracedInv
<1>10. Winding
  BY DEF InitBull, InitTraced, InitWatcher, Winding
<1> QED BY <1>3, <1>4, <1>5, <1>7, <1>8, <1>9, <1>10, <1>11 DEF IInv, WatcherInv

LEMMA StutterIInv ==
  ASSUME IInv, UNCHANGED vars
  PROVE  IInv'
<1>1. UNCHANGED <<watcherVars, bullVars, tracedVars>>
  BY DEF vars
<1>2. WatcherInv' /\ Grown
  <2>1. PICK j : j = 0
    OBVIOUS
  <2>2. Passed(j)
    BY <1>1, IdlePasses DEF IInv
  <2> QED BY <2>2 DEF Passed
<1>3. Winding'
  BY <1>1 DEF IInv, Winding, Tracked, watcherVars, bullVars, tracedVars
<1> QED BY <1>1, <1>2, <1>3, WatcherStep
        DEF IInv, AdaptersTyped, watcherVars, bullVars, tracedVars

LEMMA NextIInv == IInv /\ [Next]_vars => IInv'
<1> SUFFICES ASSUME IInv, [Next]_vars PROVE IInv'
  OBVIOUS
<1>1. CASE WatcherSteps /\ UNCHANGED <<bullVars, tracedVars>>
  BY <1>1, TaskStartedIInv, WrapTaskIInv, TaskWorkIInv, TaskFinishedIInv, CleanupIInv
     DEF WatcherSteps
<1>2. CASE BullSteps(BullJobs \cap present) /\ UNCHANGED tracedVars
  BY <1>2, BullEventIInv, TaskStartsIInv, LookupSettlesIInv, CloseAdapterIInv DEF BullSteps
<1>3. CASE TracedSteps(TracedJobs \cap present) /\ UNCHANGED bullVars
  BY <1>3, ExecuteStartIInv, ExecuteEndIInv, WrapJobIInv, HandlerIInv, UnsubscribeIInv
     DEF TracedSteps
<1>4. CASE UNCHANGED vars
  BY <1>4, StutterIInv
<1> QED BY <1>1, <1>2, <1>3, <1>4 DEF Next

-----------------------------------------------------------------------------
(* What the runs check, for every value of the constants *)

THEOREM JobInvariant == Spec => []IInv
BY InitIInv, NextIInv, PTL DEF Spec

\* The types of the watcher's maps and contexts and of both adapters' state.
THEOREM JobTypeCorrect == Spec => []Typed
<1>1. IInv => Typed
  BY DEF IInv, WatcherInv, Typed
<1> QED BY <1>1, JobInvariant, PTL

\* What an attempt of a job records, in its handler or at its end, is in a context
\* opened for that attempt or for a job that shares its jobKey, whatever the
\* lookups, stalls, retries and evictions in between.
THEOREM JobEndsMeetStarts == Spec => []EndsMeetStarts
<1>1. IInv => EndsMeetStarts
  BY DEF IInv, WatcherInv, RowsPlaced
<1> QED BY <1>1, JobInvariant, PTL

\* What a run recorded is in its own batch or in that of a later run with its key,
\* and flushed or still owned, unless younger runs pushed it out of the map or the
\* watcher was cleaned up.
THEOREM JobTaskRowsOwned == Spec => []TaskRowsOwned
<1>1. IInv => TaskRowsOwned
  BY DEF IInv, WatcherInv, RowsPlaced, RowsWithRun, TasksOwned, TaskRowsOwned
<1> QED BY <1>1, JobInvariant, PTL

\* cleanup() returns only after the chains have drained and the flushes have settled.
THEOREM JobCleanup == Spec => []CleanupDrains
<1>1. IInv => CleanupDrains
  BY DEF IInv, Winding, CleanupDrains
<1> QED BY <1>1, JobInvariant, PTL

-----------------------------------------------------------------------------
(* The tabs of the dumps page *)

TabsTyped ==
    /\ page \in [Tabs -> Page]
    /\ request \in [Tabs -> {"none", "set", "delete", "served"}]
    /\ stray \in [Tabs -> SUBSET {"set", "delete"}]
    /\ lease \in [Tabs -> Nat]
    /\ doubt \in [Tabs -> BOOLEAN]

\* The heartbeat runs on a page that is open and focused, and while the flag is
\* wanted; after an unmount until the microtask.
Beating(p) ==
    /\ p.wanted = p.flagOpen
    /\ p.beat # Off => p.mounted /\ p.focused /\ p.flagOpen
    /\ p.flagOpen => p.beat # Off \/ p.leaving
    /\ p.leaving => ~p.mounted
    /\ p.mounted /\ p.focused => p.beat # Off

\* The request in flight asks for what is wanted, unless that was asked for again;
\* the last one that was served left it.
Asking(t) ==
    /\ ~doubt[t] => stray[t] = {}
    /\ request[t] = "none" => ~page[t].again
    /\ request[t] \in {"set", "delete"} /\ ~page[t].again => request[t] = Call(page[t].wanted)
    /\ request[t] \in {"none", "served"} /\ ~page[t].again /\ ~doubt[t] /\ lease[t] > 0
         => page[t].wanted

TabInv == TabsTyped /\ \A t \in Tabs : Beating(page[t]) /\ Asking(t)

\* A step of tab t leaves the others alone.
Others(t) ==
    \A u \in Tabs \ {t} :
        /\ page'[u] = page[u] /\ request'[u] = request[u] /\ stray'[u] = stray[u]
        /\ lease'[u] = lease[u] /\ doubt'[u] = doubt[u]

LEMMA OneTab ==
  ASSUME TabInv, NEW t \in Tabs, TabsTyped', Others(t), Beating(page'[t]), Asking(t)'
  PROVE  TabInv'
<1>1. ASSUME NEW u \in Tabs, u # t
      PROVE  Beating(page'[u]) /\ Asking(u)'
  BY <1>1 DEF TabInv, Others, Asking
<1>2. QED
  BY <1>1 DEF TabInv

\* requestFlagState() by a page that then beats.
LEMMA RequestTabInv ==
  ASSUME TabInv, NEW t \in Tabs, NEW p \in Page, NEW want \in BOOLEAN,
         RequestFlagState(t, p, want), Beating([p EXCEPT !.wanted = want]),
         UNCHANGED <<stray, lease, doubt>>
  PROVE  TabInv'
<1>1. PICK again \in BOOLEAN : again = (request[t] # "none")
  OBVIOUS
<1> DEFINE q == [p EXCEPT !.wanted = want, !.again = again]
           r == IF request[t] # "none" THEN request[t] ELSE Call(want)
<1>2. /\ q \in Page /\ q.wanted = want /\ q.again = again
      /\ q.mounted = p.mounted /\ q.focused = p.focused /\ q.leaving = p.leaving
      /\ q.beat = p.beat /\ q.flagOpen = p.flagOpen
  BY DEF Page
<1>3. page' = [page EXCEPT ![t] = q]
  BY <1>1 DEF RequestFlagState
<1>4. r \in {"none", "set", "delete", "served"} /\ request' = [request EXCEPT ![t] = r]
  BY DEF RequestFlagState, TabInv, TabsTyped, Call
<1>5. Beating(q)
  <2>1. LET w == [p EXCEPT !.wanted = want]
        IN  /\ w.wanted = want /\ w.mounted = p.mounted /\ w.focused = p.focused
            /\ w.leaving = p.leaving /\ w.beat = p.beat /\ w.flagOpen = p.flagOpen
    BY DEF Page
  <2>2. QED
    BY <1>2, <2>1 DEF Beating
<1>6. /\ r # "none"
      /\ ~q.again => r = Call(q.wanted) /\ r # "served"
  BY <1>1, <1>2 DEF Call
<1> HIDE DEF q, r
<1>7. TabsTyped' /\ Others(t) /\ page'[t] = q /\ request'[t] = r
  BY <1>2, <1>3, <1>4 DEF TabInv, TabsTyped, Others
<1>8. Asking(t)'
  BY <1>6, <1>7 DEF TabInv, Asking
<1>9. QED
  BY <1>5, <1>7, <1>8, OneTab

\* The page changes without a request, and wants what it wanted.
LEMMA PageTabInv ==
  ASSUME TabInv, NEW t \in Tabs, NEW p \in Page, page' = [page EXCEPT ![t] = p],
         UNCHANGED <<request, stray, lease, doubt>>, Beating(p),
         p.wanted = page[t].wanted, p.again = page[t].again
  PROVE  TabInv'
<1>1. TabsTyped' /\ Others(t) /\ page'[t] = p
  BY DEF TabInv, TabsTyped, Others
<1>2. Asking(t)'
  BY <1>1 DEF TabInv, Asking
<1>3. QED
  BY <1>1, <1>2, OneTab

LEMMA OffIsABeat == Off \in Off..HeartbeatInterval
  BY HeartbeatAssumption DEF Off

LEMMA DeactivateTabInv ==
  ASSUME TabInv, NEW t \in Tabs, NEW p \in Page, Deactivate(t, p),
         UNCHANGED <<stray, lease, doubt>>, ~p.leaving, ~(p.mounted /\ p.focused)
  PROVE  TabInv'
<1> DEFINE q == [p EXCEPT !.flagOpen = FALSE, !.beat = Off]
           w == [q EXCEPT !.wanted = FALSE]
<1>1. /\ q \in Page /\ RequestFlagState(t, q, FALSE)
  BY OffIsABeat DEF Deactivate, Page
<1>2. /\ ~w.wanted /\ ~w.flagOpen /\ w.beat = Off /\ w.mounted = p.mounted
      /\ w.focused = p.focused /\ w.leaving = p.leaving
  BY DEF Page
<1>3. Beating(w)
  BY <1>2 DEF Beating
<1> HIDE DEF q
<1>4. QED
  BY <1>1, <1>3, RequestTabInv

LEMMA ActivateTabInv ==
  ASSUME TabInv, NEW t \in Tabs, NEW p \in Page, Activate(t, p),
         UNCHANGED <<stray, lease, doubt>>, p.mounted, ~p.leaving,
         p.wanted = page[t].wanted, p.again = page[t].again, p.wanted = p.flagOpen,
         p.beat # Off => p.focused /\ p.flagOpen
  PROVE  TabInv'
<1>1. CASE ~p.focused
  <2>1. Deactivate(t, p)
    BY <1>1 DEF Activate
  <2>2. QED
    BY <1>1, <2>1, DeactivateTabInv
<1>2. CASE p.focused /\ p.beat # Off
  <2>1. page' = [page EXCEPT ![t] = p] /\ UNCHANGED request
    BY <1>2 DEF Activate
  <2>2. Beating(p)
    BY <1>2 DEF Beating
  <2>3. QED
    BY <2>1, <2>2, PageTabInv
<1>3. CASE p.focused /\ p.beat = Off
  <2> DEFINE q == [p EXCEPT !.beat = HeartbeatInterval, !.flagOpen = TRUE]
             w == [q EXCEPT !.wanted = TRUE]
  <2>1. HeartbeatInterval # Off /\ HeartbeatInterval \in Off..HeartbeatInterval
    BY HeartbeatAssumption DEF Off
  <2>2. /\ q \in Page /\ q.wanted = p.wanted /\ q.again = p.again /\ q.flagOpen
        /\ q.mounted /\ q.focused /\ ~q.leaving /\ q.beat = HeartbeatInterval
    BY <1>3, <2>1 DEF Page
  <2>3. /\ w.wanted /\ w.flagOpen /\ w.mounted /\ w.focused /\ ~w.leaving
        /\ w.beat = HeartbeatInterval
    BY <1>3, <2>1 DEF Page
  <2>4. Beating(w)
    BY <2>1, <2>3 DEF Beating
  <2>5. CASE p.flagOpen
    <3>1. page' = [page EXCEPT ![t] = q] /\ UNCHANGED request
      BY <1>3, <2>5 DEF Activate
    <3>2. Beating(q)
      BY <2>1, <2>2, <2>5 DEF Beating
    <3>3. q.wanted = page[t].wanted /\ q.again = page[t].again
      BY <2>2
    <3> HIDE DEF q
    <3>4. QED
      BY <2>2, <3>1, <3>2, <3>3, PageTabInv
  <2>6. CASE ~p.flagOpen
    <3>1. RequestFlagState(t, q, TRUE)
      BY <1>3, <2>6 DEF Activate
    <3> HIDE DEF q
    <3>2. QED
      BY <2>2, <2>4, <3>1, RequestTabInv
  <2>7. QED
    BY <2>5, <2>6
<1>4. QED
  BY <1>1, <1>2, <1>3

LEMMA MountTabInv ==
  ASSUME TabInv, NEW t \in Tabs, Mount(t)
  PROVE  TabInv'
<1> DEFINE p == [page[t] EXCEPT !.mounted = TRUE, !.leaving = FALSE]
<1>1. page[t] \in Page /\ Beating(page[t])
  BY DEF TabInv, TabsTyped
<1>2. /\ p \in Page /\ p.mounted /\ ~p.leaving /\ p.wanted = page[t].wanted
      /\ p.again = page[t].again /\ p.flagOpen = page[t].flagOpen
      /\ p.beat = page[t].beat /\ p.focused = page[t].focused
  BY <1>1 DEF Page
<1>3. p.wanted = p.flagOpen /\ p.beat = Off
  BY <1>1, <1>2 DEF Beating, Mount
<1>4. Activate(t, p) /\ UNCHANGED <<stray, lease, doubt>>
  BY DEF Mount
<1> HIDE DEF p
<1>5. QED
  BY <1>2, <1>3, <1>4, ActivateTabInv

LEMMA FocusTabInv ==
  ASSUME TabInv, NEW t \in Tabs, Focus(t)
  PROVE  TabInv'
<1> DEFINE p == [page[t] EXCEPT !.focused = TRUE]
<1>1. page[t] \in Page /\ Beating(page[t]) /\ ~page[t].leaving /\ ~page[t].focused
  BY DEF TabInv, TabsTyped, Focus, Free
<1>2. /\ p \in Page /\ p.mounted = page[t].mounted /\ ~p.leaving /\ p.focused
      /\ p.wanted = page[t].wanted /\ p.again = page[t].again
      /\ p.flagOpen = page[t].flagOpen /\ p.beat = page[t].beat
  BY <1>1 DEF Page
<1>3. p.wanted = p.flagOpen /\ p.beat = Off
  BY <1>1, <1>2 DEF Beating
<1>4. UNCHANGED <<stray, lease, doubt>>
  BY DEF Focus
<1>5. CASE p.mounted
  <2>1. Activate(t, p)
    BY <1>5 DEF Focus
  <2> HIDE DEF p
  <2>2. QED
    BY <1>2, <1>3, <1>4, <1>5, <2>1, ActivateTabInv
<1>6. CASE ~p.mounted
  <2>1. page' = [page EXCEPT ![t] = p] /\ UNCHANGED request
    BY <1>6 DEF Focus
  <2>2. Beating(p)
    BY <1>1, <1>2, <1>6 DEF Beating
  <2> HIDE DEF p
  <2>3. QED
    BY <1>2, <1>4, <2>1, <2>2, PageTabInv
<1>7. QED
  BY <1>5, <1>6

LEMMA BlurTabInv ==
  ASSUME TabInv, NEW t \in Tabs, Blur(t)
  PROVE  TabInv'
<1> DEFINE p == [page[t] EXCEPT !.focused = FALSE]
<1>1. page[t] \in Page /\ Beating(page[t]) /\ ~page[t].leaving
  BY DEF TabInv, TabsTyped, Blur, Free
<1>2. /\ p \in Page /\ p.mounted = page[t].mounted /\ ~p.leaving /\ ~p.focused
      /\ p.wanted = page[t].wanted /\ p.again = page[t].again
      /\ p.flagOpen = page[t].flagOpen /\ p.beat = page[t].beat
  BY <1>1 DEF Page
<1>3. UNCHANGED <<stray, lease, doubt>>
  BY DEF Blur
<1>4. CASE p.mounted
  <2>1. Deactivate(t, p)
    BY <1>4 DEF Blur
  <2> HIDE DEF p
  <2>2. QED
    BY <1>2, <1>3, <2>1, DeactivateTabInv
<1>5. CASE ~p.mounted
  <2>1. page' = [page EXCEPT ![t] = p] /\ UNCHANGED request
    BY <1>5 DEF Blur
  <2>2. Beating(p)
    BY <1>1, <1>2, <1>5 DEF Beating
  <2> HIDE DEF p
  <2>3. QED
    BY <1>2, <1>3, <2>1, <2>2, PageTabInv
<1>6. QED
  BY <1>4, <1>5

LEMMA UnmountTabInv ==
  ASSUME TabInv, NEW t \in Tabs, Unmount(t)
  PROVE  TabInv'
<1> DEFINE p == [page[t] EXCEPT !.mounted = FALSE, !.beat = Off, !.leaving = TRUE]
<1>1. page[t] \in Page /\ Beating(page[t]) /\ page \in [Tabs -> Page]
  BY DEF TabInv, TabsTyped
<1>2. /\ p \in Page /\ ~p.mounted /\ p.leaving /\ p.beat = Off
      /\ p.wanted = page[t].wanted /\ p.again = page[t].again /\ p.flagOpen = page[t].flagOpen
  BY <1>1, OffIsABeat DEF Page
<1>3. Beating(p)
  BY <1>1, <1>2 DEF Beating
<1>4. page' = [page EXCEPT ![t] = p] /\ UNCHANGED <<request, stray, lease, doubt>>
  BY <1>1 DEF Unmount
<1> HIDE DEF p
<1>5. QED
  BY <1>2, <1>3, <1>4, PageTabInv

LEMMA MicrotaskTabInv ==
  ASSUME TabInv, NEW t \in Tabs, Microtask(t)
  PROVE  TabInv'
<1> DEFINE p == [page[t] EXCEPT !.leaving = FALSE]
<1>1. page[t] \in Page /\ Beating(page[t]) /\ page[t].leaving
  BY DEF TabInv, TabsTyped, Microtask
<1>2. /\ p \in Page /\ p.mounted = page[t].mounted /\ ~p.leaving /\ p.beat = page[t].beat
      /\ p.wanted = page[t].wanted /\ p.again = page[t].again
      /\ p.flagOpen = page[t].flagOpen
  BY <1>1 DEF Page
<1>3. UNCHANGED <<stray, lease, doubt>>
  BY DEF Microtask
<1>4. ~p.mounted /\ p.beat = Off
  BY <1>1, <1>2 DEF Beating
<1>5. CASE p.flagOpen
  <2> DEFINE q == [p EXCEPT !.flagOpen = FALSE]
             w == [q EXCEPT !.wanted = FALSE]
  <2>1. RequestFlagState(t, q, FALSE) /\ q \in Page
    BY <1>2, <1>5 DEF Microtask, Page
  <2>2. ~w.mounted /\ ~w.leaving /\ w.beat = Off /\ ~w.flagOpen /\ ~w.wanted
    <3> HIDE DEF p
    <3>1. QED
      BY <1>2, <1>4 DEF Page
  <2>3. Beating(w)
    BY <2>2 DEF Beating
  <2> HIDE DEF q
  <2>4. QED
    BY <1>3, <2>1, <2>3, RequestTabInv
<1>6. CASE ~p.flagOpen
  <2>1. page' = [page EXCEPT ![t] = p] /\ UNCHANGED request
    BY <1>6 DEF Microtask
  <2>2. Beating(p)
    BY <1>1, <1>2, <1>4, <1>6 DEF Beating
  <2> HIDE DEF p
  <2>3. QED
    BY <1>2, <1>3, <2>1, <2>2, PageTabInv
<1>7. QED
  BY <1>5, <1>6

LEMMA HeartbeatTabInv ==
  ASSUME TabInv, NEW t \in Tabs, Heartbeat(t)
  PROVE  TabInv'
<1> DEFINE p == [page[t] EXCEPT !.beat = HeartbeatInterval]
           w == [p EXCEPT !.wanted = TRUE]
<1>1. page[t] \in Page /\ Beating(page[t]) /\ page[t].beat = 0 /\ page[t].beat # Off
  BY DEF TabInv, TabsTyped, Heartbeat, Off
<1>2. HeartbeatInterval # Off /\ HeartbeatInterval \in Off..HeartbeatInterval
  BY HeartbeatAssumption DEF Off
<1>3. p \in Page
  BY <1>1, <1>2 DEF Page
<1>4. /\ w.beat = HeartbeatInterval /\ w.wanted /\ w.flagOpen = page[t].flagOpen
      /\ w.mounted = page[t].mounted /\ w.focused = page[t].focused
      /\ w.leaving = page[t].leaving
  BY <1>1, <1>2 DEF Page
<1>5. Beating(w)
  BY <1>1, <1>2, <1>4 DEF Beating
<1>6. RequestFlagState(t, p, TRUE) /\ UNCHANGED <<stray, lease, doubt>>
  BY DEF Heartbeat
<1> HIDE DEF p
<1>7. QED
  BY <1>3, <1>5, <1>6, RequestTabInv

LEMMA VanishTabInv ==
  ASSUME TabInv, NEW t \in Tabs, Vanish(t)
  PROVE  TabInv'
<1> DEFINE p == [NewPage EXCEPT !.gone = TRUE]
           s == stray[t] \cup ({request[t]} \cap {"set", "delete"})
<1>1. /\ p \in Page /\ p.wanted = FALSE /\ p.flagOpen = FALSE /\ p.beat = Off
      /\ ~p.leaving /\ ~p.mounted /\ ~p.again
  BY OffIsABeat DEF NewPage, Page
<1>2. /\ page' = [page EXCEPT ![t] = p] /\ request' = [request EXCEPT ![t] = "none"]
      /\ stray' = [stray EXCEPT ![t] = s] /\ doubt' = [doubt EXCEPT ![t] = TRUE]
      /\ lease' = lease
  BY DEF Vanish
<1>3. s \in SUBSET {"set", "delete"}
  BY DEF TabInv, TabsTyped
<1> HIDE DEF p, s
<1>4. TabsTyped' /\ Others(t) /\ page'[t] = p /\ request'[t] = "none" /\ doubt'[t]
  BY <1>1, <1>2, <1>3 DEF TabInv, TabsTyped, Others
<1>5. Beating(page'[t])
  BY <1>1, <1>4 DEF Beating
<1>6. Asking(t)'
  BY <1>1, <1>4 DEF Asking
<1>7. QED
  BY <1>4, <1>5, <1>6, OneTab

LEMMA ServeTabInv ==
  ASSUME TabInv, NEW t \in Tabs, Serve(t)
  PROVE  TabInv'
<1>1. PICK d \in BOOLEAN : d = (stray[t] # {})
  OBVIOUS
<1> DEFINE l == IF request[t] = "set" THEN LeaseTime ELSE 0
<1>2. /\ page' = page /\ request' = [request EXCEPT ![t] = "served"] /\ stray' = stray
      /\ lease' = [lease EXCEPT ![t] = l] /\ doubt' = [doubt EXCEPT ![t] = d]
  BY <1>1 DEF Serve, Served, NewExpiry
<1>3. l \in Nat
  BY HeartbeatAssumption
<1>4. /\ TabsTyped' /\ Others(t) /\ page'[t] = page[t] /\ request'[t] = "served"
      /\ stray'[t] = stray[t] /\ doubt'[t] = d /\ lease'[t] = l
  BY <1>2, <1>3 DEF TabInv, TabsTyped, Others
<1>5. request[t] \in {"set", "delete"} /\ Asking(t) /\ Beating(page[t]) /\ page[t].wanted \in BOOLEAN
  BY DEF Serve, TabInv, TabsTyped, Page
<1>6. ~page[t].again /\ l > 0 => page[t].wanted
  BY <1>5, <1>3 DEF Asking, Call
<1> HIDE DEF l
<1>7. Asking(t)'
  BY <1>1, <1>4, <1>6 DEF Asking
<1>8. QED
  BY <1>4, <1>5, <1>7, OneTab

LEMMA ServeStrayTabInv ==
  ASSUME TabInv, NEW t \in Tabs, ServeStray(t)
  PROVE  TabInv'
<1>1. PICK call \in stray[t] : /\ stray' = [stray EXCEPT ![t] = @ \ {call}]
                               /\ Served(t, call) \/ UNCHANGED lease
  BY DEF ServeStray
<1>2. PICK l \in Nat : lease' = [lease EXCEPT ![t] = l]
  <2>1. CASE Served(t, call)
    BY <2>1, HeartbeatAssumption DEF Served, NewExpiry
  <2>2. CASE UNCHANGED lease
    BY <2>2 DEF TabInv, TabsTyped
  <2>3. QED
    BY <1>1, <2>1, <2>2
<1>3. UNCHANGED <<page, request>> /\ doubt' = [doubt EXCEPT ![t] = TRUE]
  BY DEF ServeStray
<1>4. /\ TabsTyped' /\ Others(t) /\ page'[t] = page[t] /\ request'[t] = request[t] /\ doubt'[t]
  BY <1>1, <1>2, <1>3 DEF TabInv, TabsTyped, Others
<1>5. Asking(t)' /\ Beating(page[t])
  BY <1>4 DEF Asking, TabInv
<1>6. QED
  BY <1>4, <1>5, OneTab

\* The answer to a request: either what was wanted meanwhile is asked for, or the
\* tab has none.
LEMMA SettledProperties ==
  ASSUME TabInv, NEW t \in Tabs, Settled(t)
  PROVE  /\ page' \in [Tabs -> Page] /\ request' \in [Tabs -> {"none", "set", "delete", "served"}]
         /\ Beating(page'[t]) /\ page'[t].wanted = page[t].wanted /\ ~page'[t].again
         /\ request'[t] = IF page[t].again THEN Call(page[t].wanted) ELSE "none"
         /\ \A u \in Tabs \ {t} : page'[u] = page[u] /\ request'[u] = request[u]
<1> DEFINE p == [page[t] EXCEPT !.again = FALSE]
<1>1. page[t] \in Page /\ Beating(page[t])
  BY DEF TabInv, TabsTyped
<1>2. /\ p \in Page /\ ~p.again /\ p.mounted = page[t].mounted /\ p.focused = page[t].focused
      /\ p.leaving = page[t].leaving /\ p.beat = page[t].beat
      /\ p.flagOpen = page[t].flagOpen /\ p.wanted = page[t].wanted
  BY <1>1 DEF Page
<1>3. page' = [page EXCEPT ![t] = p]
  BY DEF Settled, TabInv, TabsTyped
<1> HIDE DEF p
<1>4. Beating(p)
  BY <1>1, <1>2 DEF Beating
<1>5. QED
  BY <1>2, <1>3, <1>4 DEF Settled, Reconcile, Call, TabInv, TabsTyped

LEMMA AnsweredTabInv ==
  ASSUME TabInv, NEW t \in Tabs, Answered(t)
  PROVE  TabInv'
<1>1. /\ Settled(t) /\ request[t] = "served" /\ UNCHANGED <<stray, lease, doubt>>
      /\ Asking(t)
  BY DEF Answered, TabInv
<1>2. TabsTyped' /\ Others(t)
  BY <1>1, SettledProperties DEF TabInv, TabsTyped, Others
<1>3. Asking(t)'
  BY <1>1, SettledProperties DEF Asking, Call
<1>4. QED
  BY <1>1, <1>2, <1>3, SettledProperties, OneTab

LEMMA RejectedTabInv ==
  ASSUME TabInv, NEW t \in Tabs, Rejected(t)
  PROVE  TabInv'
<1>1. /\ Settled(t) /\ request[t] \in {"set", "delete"}
      /\ stray' = [stray EXCEPT ![t] = @ \cup {request[t]}]
      /\ doubt' = [doubt EXCEPT ![t] = TRUE] /\ UNCHANGED lease
  BY DEF Rejected
<1>2. TabsTyped' /\ Others(t) /\ doubt'[t]
  BY <1>1, SettledProperties DEF TabInv, TabsTyped, Others
<1>3. Asking(t)'
  BY <1>1, <1>2, SettledProperties DEF Asking, Call
<1>4. QED
  BY <1>1, <1>2, <1>3, SettledProperties, OneTab

LEMMA ElapseTabInv ==
  ASSUME TabInv, Elapse
  PROVE  TabInv'
<1>1. ASSUME NEW t \in Tabs
      PROVE  /\ page'[t] \in Page /\ lease'[t] \in Nat /\ Beating(page'[t])
             /\ page'[t].wanted = page[t].wanted /\ page'[t].again = page[t].again
             /\ lease'[t] > 0 => lease[t] > 0
  <2>1. page[t] \in Page /\ Beating(page[t]) /\ lease[t] \in Nat
    BY DEF TabInv, TabsTyped
  <2>2. page[t].beat \in Off..HeartbeatInterval
    BY <2>1 DEF Page
  <2> DEFINE b == IF page[t].beat > 0 THEN page[t].beat - 1 ELSE page[t].beat
             p == [page[t] EXCEPT !.beat = b]
  <2>3. b \in Off..HeartbeatInterval /\ (b = Off <=> page[t].beat = Off)
    BY <2>2, HeartbeatAssumption DEF Off
  <2> HIDE DEF b
  <2>4. /\ p \in Page /\ p.beat = b /\ p.mounted = page[t].mounted
        /\ p.focused = page[t].focused /\ p.leaving = page[t].leaving
        /\ p.flagOpen = page[t].flagOpen /\ p.wanted = page[t].wanted
        /\ p.again = page[t].again
    BY <2>1, <2>3 DEF Page
  <2>5. Beating(p)
    BY <2>1, <2>3, <2>4 DEF Beating
  <2>6. page'[t] = p
    BY DEF Elapse, b
  <2>7. lease'[t] \in Nat /\ (lease'[t] > 0 => lease[t] > 0)
    BY <2>1 DEF Elapse, Remaining
  <2> HIDE DEF p
  <2>8. QED
    BY <2>4, <2>5, <2>6, <2>7
<1>2. UNCHANGED <<request, stray, doubt>>
  BY DEF Elapse
<1>3. TabsTyped'
  BY <1>1, <1>2 DEF TabInv, TabsTyped, Elapse
<1>4. ASSUME NEW t \in Tabs
      PROVE  Asking(t)'
  BY <1>1, <1>2 DEF TabInv, Asking
<1>5. QED
  BY <1>1, <1>3, <1>4 DEF TabInv

LEMMA TabInvLease == TabInv => LeaseFollowsPage
<1>1. ASSUME TabInv, NEW t \in Tabs, request[t] = "none", ~page[t].leaving, ~doubt[t]
      PROVE  /\ lease[t] > 0 => Focused(t)
             /\ Focused(t) => page[t].wanted
  <2>1. Beating(page[t]) /\ Asking(t)
    BY <1>1 DEF TabInv
  <2>2. QED
    BY <1>1, <2>1 DEF Beating, Asking, Focused
<1>2. QED
  BY <1>1 DEF LeaseFollowsPage

-----------------------------------------------------------------------------
(* The process: the inductive invariant *)

Instances == [name : ToSet(Names), by : Loops]
Dump == [registered : BOOLEAN, generation : Nat, active : BOOLEAN, published : BOOLEAN,
         waiting : SUBSET Nat]
Read == [stage : {"none", "leases", "flag", "answered"}, generation : Nat, active : BOOLEAN]
Loop == [stage : {"off", "next", "awaiting", "done"}, left : Seq(ToSet(Names)),
         at : ToSet(Names)]
Places == {"idle", "make", "fanout", "setup", "register", "router", "logger", "done"}

RegistryTyped ==
    /\ dump \in Dump /\ refresh \in Read
    /\ registered \in Seq(Instances)
    /\ loop \in [Loops -> Loop]
    /\ cleaned \in Nat

ProviderTyped ==
    /\ phase \in [Phases -> Places]
    /\ container \in {"empty", "making", "made"} /\ store \in {"none", "open", "closed"}
    /\ setup \in {"none", "pending", "made", "failed"} /\ fanout \in {"none", "pending", "set"}
    /\ held \in BOOLEAN /\ watchers \in BOOLEAN /\ running \in BOOLEAN /\ poll \in BOOLEAN
    /\ adapters \in Int /\ bridges \in Int
    /\ retention \subseteq {"initial", "interval"}
    /\ prune \in {"none", "lease", "write", "prune"}
    /\ teardown \in {"none", "prune", "pruned", "watchers", "reading", "recorder", "fanout",
                     "store", "done"}
    /\ calm \in BOOLEAN
    /\ open \subseteq Tabs

\* What cleanup() cannot be overtaken in, and names are not taken twice.
Retired == ~dump.registered => ~dump.active /\ ~dump.published
Claimed ==
    /\ \A i \in DOMAIN registered : registered[i].name \in claimed
    /\ \A i, j \in DOMAIN registered :
          registered[i].name = registered[j].name => registered[i] = registered[j]

\* Nothing that was begun is under way but for a phase that waits for it.
Begun ==
    /\ container = "making" => \E c \in Phases : phase[c] = "make"
    /\ \A c \in Phases : phase[c] \notin {"idle", "make"} => container = "made"
    /\ fanout = "pending" => \E c \in Phases : phase[c] = "fanout"
    /\ setup # "none" => \E c \in Loops : phase[c] = "setup"
    /\ \A c \in Loops : loop[c].stage \in {"next", "awaiting"} => phase[c] = "register" /\ watchers

\* What the process holds until its store is closed.
Holds ==
    teardown # "done" =>
        /\ held <=> container = "made"
        /\ held <=> store = "open"
        /\ running \/ poll => held

\* The watchers that cleanup() has still before it.
Left == {registered[i] : i \in {j \in DOMAIN registered : cleaned <= j}}
Dumps(W) == \E w \in W : Kind[w.name] = "dump"

\* Whatever observes or reads is before the cleanup.
Kept ==
    teardown \in {"none", "prune", "pruned", "watchers"} =>
        /\ observing \subseteq Left
        /\ \A w \in observing : Kind[w.name] # "dump"
        /\ dump.registered \/ refresh # NoRefresh => Dumps(Left)
        /\ open # {} /\ teardown = "none" => Dumps(Left)
        /\ \A c \in Loops : loop[c].stage = "awaiting" => Instance(loop[c].at, c) \in Left
        /\ teardown # "watchers" => cleaned = 0
        /\ cleaned = 0 /\ (~watchers \/ teardown = "watchers") => registered = <<>>

\* What each stage of the teardown has put behind it.
Wound ==
    /\ teardown # "none" => Calm /\ retention = {}
    /\ teardown \notin {"none", "prune"} => prune = "none"
    /\ teardown \in {"reading", "recorder", "fanout", "store", "done"} =>
         observing = {} /\ ~dump.registered /\ refresh = NoRefresh /\ ~running
    /\ teardown \in {"recorder", "fanout", "store", "done"} => ~poll
    /\ IF teardown \in {"store", "done"} \/ fanout # "set"
       THEN adapters = 0 /\ bridges = 0
       ELSE adapters = 1 /\ bridges = 1
    /\ teardown = "done" => store # "open"

\* A teardown that met a phase under way leaves it running, and promises nothing.
Undisturbed == teardown = "none" \/ calm

ProcessInv ==
    /\ RegistryTyped /\ ProviderTyped /\ Retired /\ Claimed
    /\ Undisturbed => Begun /\ Holds /\ Kept /\ Wound

DumpsInv == TabInv /\ ProcessInv

LEMMA ProcessInvProperties ==
  ASSUME ProcessInv
  PROVE  TeardownLeavesNothing /\ BuiltOnce
<1>1. TeardownLeavesNothing
  BY DEF ProcessInv, Undisturbed, Wound, Retired, TeardownLeavesNothing, Quiet
<1>2. BuiltOnce
  <2>1. ASSUME teardown = "none"
        PROVE  adapters <= 1 /\ bridges <= 1
    BY <2>1 DEF ProcessInv, Undisturbed, Wound
  <2>2. \A v, w \in Made : v.name = w.name => v = w
    BY DEF ProcessInv, Claimed, Made
  <2>3. QED
    BY <2>1, <2>2 DEF BuiltOnce
<1>3. QED
  BY <1>1, <1>2

-----------------------------------------------------------------------------
(* The phases *)

\* What the registry holds does not change.
RegistryStill == UNCHANGED <<dump, refresh, registered, claimed, observing, cleaned>>

LEMMA StillRegistered ==
  ASSUME ProcessInv, RegistryStill, loop' \in [Loops -> Loop]
  PROVE  RegistryTyped' /\ Retired' /\ Claimed' /\ Left' = Left
BY DEF ProcessInv, RegistryTyped, Retired, Claimed, Left, RegistryStill

LEMMA BeginProcessInv ==
  ASSUME ProcessInv, NEW c \in Phases, Begin(c), UNCHANGED <<fixedVars, tabVars, timing>>
  PROVE  ProcessInv'
<1>1. /\ RegistryStill /\ loop' = loop /\ teardown = "none" /\ phase[c] = "idle"
      /\ phase' = [phase EXCEPT ![c] = "make"]
      /\ container' = IF container = "empty" THEN "making" ELSE container
      /\ UNCHANGED <<held, store, setup, watchers, fanout, adapters, bridges, running, poll,
                     retention, prune, teardown, calm, open>>
  BY DEF Begin, At, RegistryStill, registryVars, dumpVars, timeVars, downVars, timing
<1>2. RegistryTyped' /\ Retired' /\ Claimed' /\ Left' = Left
  BY <1>1, StillRegistered DEF ProcessInv, RegistryTyped
<1>3. ProviderTyped'
  BY <1>1 DEF ProcessInv, ProviderTyped, Places
<1>4. Undisturbed /\ Begun /\ Holds /\ Kept /\ Wound
  BY <1>1 DEF ProcessInv, Undisturbed
<1>5. Begun'
  BY <1>1, <1>4 DEF ProcessInv, ProviderTyped, Begun, Phases, Loops
<1>6. Holds'
  BY <1>1, <1>4 DEF Holds
<1>7. Kept'
  BY <1>1, <1>2, <1>4 DEF Kept, RegistryStill
<1>8. Wound'
  BY <1>1, <1>4 DEF Wound, RegistryStill
<1>9. QED
  BY <1>2, <1>3, <1>5, <1>6, <1>7, <1>8 DEF ProcessInv

LEMMA RecorderMadeProcessInv ==
  ASSUME ProcessInv, RecorderMade, UNCHANGED <<fixedVars, tabVars, timing>>
  PROVE  ProcessInv'
<1>1. /\ RegistryStill /\ loop' = loop /\ container = "making" /\ container' = "made"
      /\ held' = TRUE /\ store' = "open"
      /\ UNCHANGED <<phase, setup, watchers, fanout, adapters, bridges, running, poll,
                     retention, prune, teardown, calm, open>>
  BY DEF RecorderMade, RegistryStill, registryVars, dumpVars, timeVars, downVars, timing
<1>2. RegistryTyped' /\ Retired' /\ Claimed' /\ Left' = Left
  BY <1>1, StillRegistered DEF ProcessInv, RegistryTyped
<1>3. ProviderTyped'
  BY <1>1 DEF ProcessInv, ProviderTyped
<1>4. ASSUME Undisturbed
      PROVE  Begun' /\ Holds' /\ Kept' /\ Wound'
  <2>1. Begun /\ Holds /\ Kept /\ Wound
    BY <1>4 DEF ProcessInv
  <2>2. teardown = "none"
    BY <1>1, <2>1 DEF Begun, Wound, Calm
  <2>3. Begun' /\ Holds'
    BY <1>1, <2>1 DEF Begun, Holds
  <2>4. Kept'
    BY <1>1, <1>2, <2>1 DEF Kept, RegistryStill
  <2>5. Wound'
    BY <1>1, <2>1, <2>2 DEF Wound
  <2>6. QED
    BY <2>3, <2>4, <2>5
<1>5. QED
  BY <1>1, <1>2, <1>3, <1>4 DEF ProcessInv, Undisturbed

LEMMA EnsureFanoutProcessInv ==
  ASSUME ProcessInv, NEW c \in Phases, EnsureFanout(c), UNCHANGED <<fixedVars, tabVars, timing>>
  PROVE  ProcessInv'
<1>1. /\ RegistryStill /\ loop' = loop /\ phase[c] = "make" /\ container = "made"
      /\ phase' = [phase EXCEPT ![c] = "fanout"]
      /\ fanout' = IF fanout = "none" THEN "pending" ELSE fanout
      /\ UNCHANGED <<container, held, store, setup, watchers, adapters, bridges, running, poll,
                     retention, prune, teardown, calm, open>>
  BY DEF EnsureFanout, At, RegistryStill, registryVars, dumpVars, timeVars, downVars, timing
<1>2. RegistryTyped' /\ Retired' /\ Claimed' /\ Left' = Left
  BY <1>1, StillRegistered DEF ProcessInv, RegistryTyped
<1>3. ProviderTyped'
  BY <1>1 DEF ProcessInv, ProviderTyped, Places
<1>4. ASSUME Undisturbed
      PROVE  Begun' /\ Holds' /\ Kept' /\ Wound'
  <2>1. Begun /\ Holds /\ Kept /\ Wound
    BY <1>4 DEF ProcessInv
  <2>2. teardown = "none"
    BY <1>1, <2>1 DEF Wound, Calm
  <2>3. Begun'
    BY <1>1, <2>1 DEF ProcessInv, ProviderTyped, Begun, Phases, Loops
  <2>4. Holds'
    BY <1>1, <2>1 DEF Holds
  <2>5. Kept'
    BY <1>1, <1>2, <2>1 DEF Kept, RegistryStill
  <2>6. Wound'
    BY <1>1, <1>3, <2>1, <2>2 DEF Wound
  <2>7. QED
    BY <2>3, <2>4, <2>5, <2>6
<1>5. QED
  BY <1>1, <1>2, <1>3, <1>4 DEF ProcessInv, Undisturbed

LEMMA FanoutMadeProcessInv ==
  ASSUME ProcessInv, FanoutMade, UNCHANGED <<fixedVars, tabVars, timing>>
  PROVE  ProcessInv'
<1>1. /\ RegistryStill /\ loop' = loop /\ fanout = "pending" /\ fanout' = "set"
      /\ adapters' = adapters + 1 /\ bridges' = bridges + 1
      /\ UNCHANGED <<phase, container, held, store, setup, watchers, running, poll,
                     retention, prune, teardown, calm, open>>
  BY DEF FanoutMade, RegistryStill, registryVars, dumpVars, timeVars, downVars, timing
<1>2. RegistryTyped' /\ Retired' /\ Claimed' /\ Left' = Left
  BY <1>1, StillRegistered DEF ProcessInv, RegistryTyped
<1>3. ProviderTyped'
  BY <1>1 DEF ProcessInv, ProviderTyped
<1>4. ASSUME Undisturbed
      PROVE  Begun' /\ Holds' /\ Kept' /\ Wound'
  <2>1. Begun /\ Holds /\ Kept /\ Wound
    BY <1>4 DEF ProcessInv
  <2>2. teardown = "none"
    BY <1>1, <2>1 DEF Begun, Wound, Calm
  <2>3. Begun' /\ Holds'
    BY <1>1, <2>1 DEF Begun, Holds
  <2>4. Kept'
    BY <1>1, <1>2, <2>1 DEF Kept, RegistryStill
  <2>5. Wound'
    BY <1>1, <2>1, <2>2 DEF Wound
  <2>6. QED
    BY <2>3, <2>4, <2>5
<1>5. QED
  BY <1>1, <1>2, <1>3, <1>4 DEF ProcessInv, Undisturbed

\* A call of register() by a phase, or the wait for the registry.
LEMMA WatchersOfProperties ==
  ASSUME ProcessInv, NEW c \in Loops, WatchersOf(c)
  PROVE  /\ loop' \in [Loops -> Loop]
         /\ phase' = [phase EXCEPT ![c] = IF watchers THEN "register" ELSE "setup"]
         /\ setup' \in {"none", "pending", "made", "failed"}
         /\ IF watchers THEN setup' = setup ELSE loop' = loop
         /\ \A d \in Loops \ {c} : loop'[d] = loop[d]
         /\ \A d \in Loops : loop'[d].stage = "awaiting" => loop'[d] = loop[d]
<1>1. loop \in [Loops -> Loop] /\ setup \in {"none", "pending", "made", "failed"}
  BY DEF ProcessInv, RegistryTyped, ProviderTyped
<1>2. CASE watchers
  <2>1. /\ phase' = [phase EXCEPT ![c] = "register"] /\ setup' = setup
        /\ loop' = [d \in Loops |-> IF d \notin {c} THEN loop[d]
                     ELSE [stage |-> "next", at |-> Early,
                           left |-> IF d = "boot" THEN <<Early>> ELSE Names]]
    BY <1>2 DEF WatchersOf, At, BeginRegister
  <2>2. /\ Early \in ToSet(Names) /\ Names \in Seq(ToSet(Names))
        /\ <<Early>> \in Seq(ToSet(Names))
    BY RegistryAssumption DEF RegistryAssumption
  <2>3. [stage |-> "next", at |-> Early, left |-> IF c = "boot" THEN <<Early>> ELSE Names] \in Loop
    BY <2>2 DEF Loop
  <2>4. QED
    BY <1>1, <1>2, <2>1, <2>3
<1>3. CASE ~watchers
  BY <1>1, <1>3 DEF WatchersOf, At
<1>4. QED
  BY <1>2, <1>3

LEMMA FanoutAwaitedProcessInv ==
  ASSUME ProcessInv, NEW c \in Phases, FanoutAwaited(c), UNCHANGED <<fixedVars, tabVars, timing>>
  PROVE  ProcessInv'
<1>1. /\ RegistryStill /\ phase[c] = "fanout" /\ fanout # "pending"
      /\ UNCHANGED <<container, held, store, watchers, fanout, adapters, bridges, running, poll,
                     retention, prune, teardown, calm, open>>
  BY DEF FanoutAwaited, RegistryStill, dumpVars, timeVars, downVars, timing
<1>2. \/ c \in Loops /\ WatchersOf(c)
      \/ /\ \E p \in {"done", "router", "logger"} : phase' = [phase EXCEPT ![c] = p]
         /\ UNCHANGED <<setup, loop>>
  BY DEF FanoutAwaited, Phases, Loops, At
<1>3. /\ loop' \in [Loops -> Loop] /\ setup' \in {"none", "pending", "made", "failed"}
      /\ \E p \in {"register", "setup", "done", "router", "logger"} :
            /\ phase' = [phase EXCEPT ![c] = p]
            /\ loop' = loop \/ (c \in Loops /\ p = "register" /\ watchers)
            /\ setup' = setup \/ (c \in Loops /\ p = "setup")
      /\ \A d \in Loops \ {c} : loop'[d] = loop[d]
      /\ \A d \in Loops : loop'[d].stage = "awaiting" => loop'[d] = loop[d]
  <2>1. CASE c \in Loops /\ WatchersOf(c)
    BY <2>1, WatchersOfProperties
  <2>2. CASE /\ \E p \in {"done", "router", "logger"} : phase' = [phase EXCEPT ![c] = p]
             /\ UNCHANGED <<setup, loop>>
    BY <2>2 DEF ProcessInv, RegistryTyped, ProviderTyped
  <2>3. QED
    BY <1>2, <2>1, <2>2
<1>4. RegistryTyped' /\ Retired' /\ Claimed' /\ Left' = Left
  BY <1>1, <1>3, StillRegistered
<1>5. ProviderTyped'
  BY <1>1, <1>3 DEF ProcessInv, ProviderTyped, Places
<1>6. ASSUME Undisturbed
      PROVE  Begun' /\ Holds' /\ Kept' /\ Wound'
  <2>1. Begun /\ Holds /\ Kept /\ Wound /\ phase \in [Phases -> Places]
    BY <1>6 DEF ProcessInv, ProviderTyped
  <2>2. teardown = "none"
    BY <1>1, <2>1 DEF Wound, Calm
  <2>3. Begun'
    BY <1>1, <1>3, <2>1 DEF Begun, Phases, Loops
  <2>4. Holds'
    BY <1>1, <2>1 DEF Holds
  <2>5. Kept'
    BY <1>1, <1>3, <1>4, <2>1 DEF Kept, RegistryStill
  <2>6. Wound'
    BY <1>1, <2>1, <2>2 DEF Wound
  <2>7. QED
    BY <2>3, <2>4, <2>5, <2>6
<1>7. QED
  BY <1>1, <1>4, <1>5, <1>6 DEF ProcessInv, Undisturbed

LEMMA RoutesRegisteredProcessInv ==
  ASSUME ProcessInv, RoutesRegistered, UNCHANGED <<fixedVars, tabVars, timing>>
  PROVE  ProcessInv'
<1>1. /\ RegistryStill /\ loop' = loop /\ phase["start"] = "router"
      /\ phase' = [phase EXCEPT !["start"] = "done"]
      /\ UNCHANGED <<container, held, store, setup, watchers, fanout, adapters, bridges, running,
                     poll, retention, prune, teardown, calm, open>>
  BY DEF RoutesRegistered, At, RegistryStill, registryVars, dumpVars, timeVars, downVars, timing
<1>2. RegistryTyped' /\ Retired' /\ Claimed' /\ Left' = Left
  BY <1>1, StillRegistered DEF ProcessInv, RegistryTyped
<1>3. ProviderTyped'
  BY <1>1 DEF ProcessInv, ProviderTyped, Places, Phases, Loops
<1>4. ASSUME Undisturbed
      PROVE  Begun' /\ Holds' /\ Kept' /\ Wound'
  <2>1. Begun /\ Holds /\ Kept /\ Wound /\ phase \in [Phases -> Places]
    BY <1>4 DEF ProcessInv, ProviderTyped
  <2>2. teardown = "none"
    BY <1>1, <2>1 DEF Wound, Calm, Phases
  <2>3. Begun'
    BY <1>1, <2>1 DEF Begun, Phases, Loops
  <2>4. Holds'
    BY <1>1, <2>1 DEF Holds
  <2>5. Kept'
    BY <1>1, <1>2, <2>1 DEF Kept, RegistryStill
  <2>6. Wound'
    BY <1>1, <2>1, <2>2 DEF Wound
  <2>7. QED
    BY <2>3, <2>4, <2>5, <2>6
<1>5. QED
  BY <1>1, <1>2, <1>3, <1>4 DEF ProcessInv, Undisturbed

LEMMA StartRecorderProcessInv ==
  ASSUME ProcessInv, StartRecorder, UNCHANGED <<fixedVars, tabVars, timing>>
  PROVE  ProcessInv'
<1>1. /\ RegistryStill /\ phase["ready"] = "logger"
      /\ UNCHANGED <<container, held, store, watchers, fanout, adapters, bridges,
                     retention, prune, teardown, calm, open>>
      /\ running' \in BOOLEAN /\ poll' \in BOOLEAN
  BY DEF StartRecorder, RegistryStill, dumpVars, downVars, timing, ProcessInv, ProviderTyped
<1>2. /\ loop' \in [Loops -> Loop] /\ setup' \in {"none", "pending", "made", "failed"}
      /\ \E p \in {"register", "setup", "done"} :
            /\ phase' = [phase EXCEPT !["ready"] = p]
            /\ loop' = loop \/ (p = "register" /\ watchers)
            /\ setup' = setup \/ p = "setup"
      /\ \A d \in Loops \ {"ready"} : loop'[d] = loop[d]
      /\ \A d \in Loops : loop'[d].stage = "awaiting" => loop'[d] = loop[d]
  <2>1. CASE enabled
    BY <2>1, WatchersOfProperties DEF StartRecorder, Loops
  <2>2. CASE ~enabled
    BY <2>2 DEF StartRecorder, At, ProcessInv, RegistryTyped, ProviderTyped
  <2>3. QED
    BY <2>1, <2>2
<1>3. RegistryTyped' /\ Retired' /\ Claimed' /\ Left' = Left
  BY <1>1, <1>2, StillRegistered
<1>4. ProviderTyped'
  BY <1>1, <1>2 DEF ProcessInv, ProviderTyped, Places, Phases, Loops
<1>5. ASSUME Undisturbed
      PROVE  Begun' /\ Holds' /\ Kept' /\ Wound'
  <2>1. Begun /\ Holds /\ Kept /\ Wound /\ phase \in [Phases -> Places]
    BY <1>5 DEF ProcessInv, ProviderTyped
  <2>2. teardown = "none"
    BY <1>1, <2>1 DEF Wound, Calm, Phases
  <2>3. Begun'
    BY <1>1, <1>2, <2>1 DEF Begun, Phases, Loops
  <2>4. container = "made"
    BY <1>1, <2>1 DEF Begun, Phases
  <2>5. Holds'
    BY <1>1, <2>1, <2>2, <2>4 DEF Holds
  <2>6. Kept'
    BY <1>1, <1>2, <1>3, <2>1 DEF Kept, RegistryStill
  <2>7. Wound'
    BY <1>1, <2>1, <2>2 DEF Wound
  <2>8. QED
    BY <2>3, <2>5, <2>6, <2>7
<1>6. QED
  BY <1>1, <1>3, <1>4, <1>5 DEF ProcessInv, Undisturbed

LEMMA EmitterMadeProcessInv ==
  ASSUME ProcessInv, EmitterMade, UNCHANGED <<fixedVars, tabVars, timing>>
  PROVE  ProcessInv'
<1>1. /\ RegistryStill /\ loop' = loop /\ setup = "pending" /\ setup' \in {"made", "failed"}
      /\ UNCHANGED <<phase, container, held, store, watchers, fanout, adapters, bridges, running,
                     poll, retention, prune, teardown, calm, open>>
  BY DEF EmitterMade, RegistryStill, registryVars, dumpVars, timeVars, downVars, timing
<1>2. RegistryTyped' /\ Retired' /\ Claimed' /\ Left' = Left
  BY <1>1, StillRegistered DEF ProcessInv, RegistryTyped
<1>3. ProviderTyped'
  BY <1>1 DEF ProcessInv, ProviderTyped
<1>4. ASSUME Undisturbed
      PROVE  Begun' /\ Holds' /\ Kept' /\ Wound'
  <2>1. Begun /\ Holds /\ Kept /\ Wound
    BY <1>4 DEF ProcessInv
  <2>2. Begun' /\ Holds'
    BY <1>1, <2>1 DEF Begun, Holds
  <2>3. Kept'
    BY <1>1, <1>2, <2>1 DEF Kept, RegistryStill
  <2>4. Wound'
    BY <1>1, <2>1 DEF Wound, Calm, RegistryStill
  <2>5. QED
    BY <2>2, <2>3, <2>4
<1>5. QED
  BY <1>1, <1>2, <1>3, <1>4 DEF ProcessInv, Undisturbed

LEMMA SetupAwaitedProcessInv ==
  ASSUME ProcessInv, SetupAwaited, UNCHANGED <<fixedVars, tabVars, timing>>
  PROVE  ProcessInv'
<1>1. /\ RegistryStill /\ setup \in {"made", "failed"} /\ setup' = "none"
      /\ watchers' = (watchers \/ setup = "made")
      /\ UNCHANGED <<container, held, store, fanout, adapters, bridges, running,
                     poll, prune, teardown, calm, open>>
  BY DEF SetupAwaited, RegistryStill, dumpVars, downVars, timing
<1> DEFINE went == IF watchers' THEN "register" ELSE "done"
<1>2. /\ phase' = [c \in Phases |-> IF c \in Waiting THEN went ELSE phase[c]]
      /\ retention' \subseteq {"initial", "interval"}
      /\ IF watchers' THEN BeginRegister(Waiting) ELSE loop' = loop
  BY DEF SetupAwaited, StartRetention, ProcessInv, ProviderTyped
<1>3. /\ loop' \in [Loops -> Loop]
      /\ \A d \in Loops : loop'[d] # loop[d] => d \in Waiting /\ watchers'
      /\ \A d \in Loops : loop'[d].stage = "awaiting" => loop'[d] = loop[d]
  <2>1. loop \in [Loops -> Loop]
    BY DEF ProcessInv, RegistryTyped
  <2>2. CASE watchers'
    <3>1. loop' = [d \in Loops |-> IF d \notin Waiting THEN loop[d]
                     ELSE [stage |-> "next", at |-> Early,
                           left |-> IF d = "boot" THEN <<Early>> ELSE Names]]
      BY <1>2, <2>2 DEF BeginRegister
    <3>2. /\ Early \in ToSet(Names) /\ Names \in Seq(ToSet(Names))
          /\ <<Early>> \in Seq(ToSet(Names))
      BY RegistryAssumption DEF RegistryAssumption
    <3>3. \A d : [stage |-> "next", at |-> Early,
                  left |-> IF d = "boot" THEN <<Early>> ELSE Names] \in Loop
      BY <3>2 DEF Loop
    <3>4. QED
      BY <2>1, <2>2, <3>1, <3>3
  <2>3. CASE ~watchers'
    BY <1>2, <2>1, <2>3
  <2>4. QED
    BY <2>2, <2>3
<1>4. RegistryTyped' /\ Retired' /\ Claimed' /\ Left' = Left
  BY <1>1, <1>3, StillRegistered
<1>5. ProviderTyped'
  BY <1>1, <1>2 DEF ProcessInv, ProviderTyped, Places
<1>6. ASSUME Undisturbed
      PROVE  Begun' /\ Holds' /\ Kept' /\ Wound'
  <2>1. /\ Begun /\ Holds /\ Kept /\ Wound /\ phase \in [Phases -> Places]
        /\ watchers \in BOOLEAN
    BY <1>6 DEF ProcessInv, ProviderTyped
  <2>2. teardown = "none"
    BY <1>1, <2>1 DEF Begun, Wound, Calm, Loops, Phases
  <2>3. Begun'
    <3>1. \A c \in Phases : phase[c] \in {"make", "fanout"} => phase'[c] = phase[c]
      BY <1>2 DEF Waiting
    <3>2. \A c \in Phases : phase'[c] \notin {"idle", "make"} => phase[c] \notin {"idle", "make"}
      BY <1>2 DEF Waiting
    <3>3. ASSUME NEW c \in Loops, loop'[c].stage \in {"next", "awaiting"}
          PROVE  phase'[c] = "register" /\ watchers'
      <4>1. CASE c \in Waiting /\ watchers'
        BY <1>2, <4>1 DEF Loops, Phases
      <4>2. CASE loop'[c] = loop[c] /\ ~(c \in Waiting /\ watchers')
        BY <1>1, <1>2, <2>1, <3>3, <4>2 DEF Begun, Waiting, Loops, Phases
      <4>3. QED
        BY <1>3, <4>1, <4>2
    <3>4. QED
      BY <1>1, <2>1, <3>1, <3>2, <3>3 DEF Begun
  <2>4. Holds'
    BY <1>1, <2>1 DEF Holds
  <2>5. Kept'
    BY <1>1, <1>3, <1>4, <2>1 DEF Kept, RegistryStill
  <2>6. Wound'
    BY <1>1, <2>1, <2>2 DEF Wound
  <2>7. QED
    BY <2>3, <2>4, <2>5, <2>6
<1>7. QED
  BY <1>1, <1>4, <1>5, <1>6 DEF ProcessInv, Undisturbed

LEMMA WatchersRegisteredProcessInv ==
  ASSUME ProcessInv, NEW c \in Loops, WatchersRegistered(c),
         UNCHANGED <<fixedVars, tabVars, timing>>
  PROVE  ProcessInv'
<1>1. /\ RegistryStill /\ loop' = loop /\ phase[c] = "register" /\ loop[c].stage = "done"
      /\ phase' = [phase EXCEPT ![c] = "done"]
      /\ UNCHANGED <<container, held, store, setup, watchers, fanout, adapters, bridges, running,
                     poll, prune, teardown, calm, open>>
  BY DEF WatchersRegistered, At, RegistryStill, registryVars, dumpVars, downVars, timing
<1>2. RegistryTyped' /\ Retired' /\ Claimed' /\ Left' = Left
  BY <1>1, StillRegistered DEF ProcessInv, RegistryTyped
<1>3. retention' \subseteq {"initial", "interval"}
  BY DEF WatchersRegistered, StartRetention, ProcessInv, ProviderTyped
<1>4. ProviderTyped'
  BY <1>1, <1>3 DEF ProcessInv, ProviderTyped, Places, Phases, Loops
<1>5. ASSUME Undisturbed
      PROVE  Begun' /\ Holds' /\ Kept' /\ Wound'
  <2>1. Begun /\ Holds /\ Kept /\ Wound /\ phase \in [Phases -> Places]
    BY <1>5 DEF ProcessInv, ProviderTyped
  <2>2. teardown = "none"
    BY <1>1, <2>1 DEF Wound, Calm, Loops, Phases
  <2>3. Begun'
    BY <1>1, <2>1 DEF Begun, Phases, Loops
  <2>4. Holds'
    BY <1>1, <2>1 DEF Holds
  <2>5. Kept'
    BY <1>1, <1>2, <2>1 DEF Kept, RegistryStill
  <2>6. Wound'
    BY <1>1, <2>1, <2>2 DEF Wound
  <2>7. QED
    BY <2>3, <2>4, <2>5, <2>6
<1>6. QED
  BY <1>1, <1>2, <1>4, <1>5 DEF ProcessInv, Undisturbed

-----------------------------------------------------------------------------
(* Timers, reads and the teardown *)

LEMMA TimersProcessInv ==
  ASSUME ProcessInv, Timers, UNCHANGED <<fixedVars, tabVars, timing>>
  PROVE  ProcessInv'
<1>1. /\ RegistryStill /\ loop' = loop
      /\ UNCHANGED <<phase, container, held, store, setup, watchers, fanout, adapters, bridges,
                     running, teardown, calm, open>>
      /\ poll' = poll \/ (running /\ poll' = TRUE)
      /\ prune' = prune \/ retention # {}
      /\ prune' \in {"none", "lease", "write", "prune"} /\ retention' \subseteq retention
      /\ poll' \in BOOLEAN
  BY DEF Timers, PollTimer, PruneTimer, RegistryStill, registryVars, dumpVars, lifeVars, downVars,
         timing, ProcessInv, ProviderTyped
<1>2. RegistryTyped' /\ Retired' /\ Claimed' /\ Left' = Left
  BY <1>1, StillRegistered DEF ProcessInv, RegistryTyped
<1>3. ProviderTyped'
  BY <1>1 DEF ProcessInv, ProviderTyped
<1>4. ASSUME Undisturbed
      PROVE  Begun' /\ Holds' /\ Kept' /\ Wound'
  <2>1. Begun /\ Holds /\ Kept /\ Wound
    BY <1>4 DEF ProcessInv
  <2>2. Begun' /\ Holds'
    BY <1>1, <2>1 DEF Begun, Holds
  <2>3. Kept'
    BY <1>1, <1>2, <2>1 DEF Kept, RegistryStill
  <2>4. Wound'
    BY <1>1, <2>1 DEF Wound, Calm, RegistryStill
  <2>5. QED
    BY <2>2, <2>3, <2>4
<1>5. QED
  BY <1>1, <1>2, <1>3, <1>4 DEF ProcessInv, Undisturbed

LEMMA PollAnsweredProcessInv ==
  ASSUME ProcessInv, PollAnswered, UNCHANGED <<fixedVars, tabVars, timing>>
  PROVE  ProcessInv'
<1>1. /\ RegistryStill /\ loop' = loop /\ poll /\ poll' = FALSE
      /\ UNCHANGED <<phase, container, held, store, setup, watchers, fanout, adapters, bridges,
                     running, prune, retention, calm, open>>
      /\ teardown' = IF teardown = "reading" THEN "recorder" ELSE teardown
  BY DEF PollAnswered, RegistryStill, registryVars, dumpVars, lifeVars, timing
<1>2. RegistryTyped' /\ Retired' /\ Claimed' /\ Left' = Left
  BY <1>1, StillRegistered DEF ProcessInv, RegistryTyped
<1>3. ProviderTyped'
  <2>1. poll' \in BOOLEAN
    BY <1>1
  <2>2. teardown' \in {"none", "prune", "pruned", "watchers", "reading", "recorder", "fanout",
                       "store", "done"}
    BY <1>1 DEF ProcessInv, ProviderTyped
  <2>3. QED
    BY <1>1, <2>1, <2>2 DEF ProcessInv, ProviderTyped
<1>4. ASSUME Undisturbed
      PROVE  Begun' /\ Holds' /\ Kept' /\ Wound'
  <2>1. Begun /\ Holds /\ Kept /\ Wound
    BY <1>4 DEF ProcessInv
  <2>2. Begun' /\ Holds'
    BY <1>1, <2>1 DEF Begun, Holds
  <2>3. Kept'
    BY <1>1, <1>2, <2>1 DEF Kept, RegistryStill
  <2>4. Wound'
    BY <1>1, <2>1 DEF Wound, Calm, RegistryStill
  <2>5. QED
    BY <2>2, <2>3, <2>4
<1>5. QED
  BY <1>1, <1>2, <1>3, <1>4 DEF ProcessInv, Undisturbed

LEMMA PruneAnsweredProcessInv ==
  ASSUME ProcessInv, PruneAnswered, UNCHANGED <<fixedVars, tabVars, timing>>
  PROVE  ProcessInv'
<1>1. /\ RegistryStill /\ loop' = loop /\ prune # "none"
      /\ UNCHANGED <<phase, container, held, store, setup, watchers, fanout, adapters, bridges,
                     running, poll, retention, calm, open>>
      /\ prune' \in {"none", "lease", "write", "prune"}
      /\ teardown' = IF teardown = "prune" /\ prune' = "none" THEN "pruned" ELSE teardown
  BY DEF PruneAnswered, RegistryStill, registryVars, dumpVars, lifeVars, timing,
         ProcessInv, ProviderTyped
<1>2. RegistryTyped' /\ Retired' /\ Claimed' /\ Left' = Left
  BY <1>1, StillRegistered DEF ProcessInv, RegistryTyped
<1>3. ProviderTyped'
  BY <1>1 DEF ProcessInv, ProviderTyped
<1>4. ASSUME Undisturbed
      PROVE  Begun' /\ Holds' /\ Kept' /\ Wound'
  <2>1. Begun /\ Holds /\ Kept /\ Wound
    BY <1>4 DEF ProcessInv
  <2>2. Begun' /\ Holds'
    BY <1>1, <2>1 DEF Begun, Holds
  <2>3. Kept'
    BY <1>1, <1>2, <2>1 DEF Kept, RegistryStill
  <2>4. Wound'
    BY <1>1, <2>1 DEF Wound, Calm, RegistryStill
  <2>5. QED
    BY <2>2, <2>3, <2>4
<1>5. QED
  BY <1>1, <1>2, <1>3, <1>4 DEF ProcessInv, Undisturbed

LEMMA BeginTeardownProcessInv ==
  ASSUME ProcessInv, BeginTeardown, UNCHANGED <<fixedVars, tabVars, timing>>
  PROVE  ProcessInv'
<1>1. PICK found \in BOOLEAN : found = Calm
  BY DEF Calm
<1>2. /\ RegistryStill /\ loop' = loop /\ teardown = "none" /\ calm' = found /\ retention' = {}
      /\ UNCHANGED <<phase, container, held, store, setup, watchers, fanout, adapters, bridges,
                     running, poll, prune, open>>
      /\ teardown' = IF prune = "none" THEN "pruned" ELSE "prune"
  BY <1>1 DEF BeginTeardown, PruneOver, RegistryStill, registryVars, dumpVars, lifeVars, timing
<1>3. RegistryTyped' /\ Retired' /\ Claimed' /\ Left' = Left
  BY <1>2, StillRegistered DEF ProcessInv, RegistryTyped
<1>4. ProviderTyped'
  BY <1>2 DEF ProcessInv, ProviderTyped
<1>5. ASSUME Undisturbed'
      PROVE  Begun' /\ Holds' /\ Kept' /\ Wound'
  <2>1. Begun /\ Holds /\ Kept /\ Wound
    BY <1>2 DEF ProcessInv, Undisturbed
  <2>2. Calm
    BY <1>1, <1>2, <1>5 DEF Undisturbed
  <2>3. Begun' /\ Holds'
    BY <1>2, <2>1 DEF Begun, Holds
  <2>4. Kept'
    BY <1>2, <1>3, <2>1 DEF Kept, RegistryStill
  <2>5. Wound'
    BY <1>2, <2>1, <2>2 DEF Wound, Calm
  <2>6. QED
    BY <2>3, <2>4, <2>5
<1>6. QED
  BY <1>3, <1>4, <1>5 DEF ProcessInv

LEMMA ReverseProperties ==
  ASSUME NEW S, NEW s \in Seq(S)
  PROVE  /\ Reverse(s) \in Seq(S) /\ Len(Reverse(s)) = Len(s)
         /\ \A i \in DOMAIN s : s[i] = Reverse(s)[Len(s) - i + 1]
         /\ \A i \in DOMAIN s : Reverse(s)[i] = s[Len(s) - i + 1]
BY DEF Reverse

LEMMA CleanWatchersProcessInv ==
  ASSUME ProcessInv, CleanWatchers, UNCHANGED <<fixedVars, tabVars, timing>>
  PROVE  ProcessInv'
<1>1. /\ teardown = "pruned" /\ teardown' = "watchers"
      /\ UNCHANGED <<dump, refresh, claimed, loop, observing>>
      /\ UNCHANGED <<phase, container, held, store, setup, watchers, fanout, adapters, bridges,
                     running, poll, prune, retention, calm, open>>
      /\ IF watchers THEN registered' = Reverse(registered) /\ cleaned' = 1
         ELSE UNCHANGED <<registered, cleaned>>
  BY DEF CleanWatchers, BeginCleanup, registryVars, dumpVars, lifeVars, timeVars, timing
<1>2. registered \in Seq(Instances)
  BY DEF ProcessInv, RegistryTyped
<1>3. RegistryTyped' /\ Retired'
  BY <1>1, <1>2, ReverseProperties DEF ProcessInv, RegistryTyped, Retired
<1>4. ProviderTyped'
  BY <1>1 DEF ProcessInv, ProviderTyped
<1>5. Claimed'
  <2>1. CASE watchers
    <3>1. \A i \in DOMAIN registered' : \E j \in DOMAIN registered : registered'[i] = registered[j]
      <4>1. ASSUME NEW i \in DOMAIN registered'
            PROVE  \E j \in DOMAIN registered : registered'[i] = registered[j]
        <5>1. i \in DOMAIN registered /\ Len(registered) - i + 1 \in DOMAIN registered
          BY <1>1, <1>2, <2>1, ReverseProperties
        <5>2. QED
          BY <1>1, <1>2, <2>1, <5>1, ReverseProperties
      <4>2. QED
        BY <4>1
    <3>2. QED
      BY <1>1, <3>1 DEF ProcessInv, Claimed
  <2>2. CASE ~watchers
    BY <1>1, <2>2 DEF ProcessInv, Claimed
  <2>3. QED
    BY <2>1, <2>2
<1>6. ASSUME Undisturbed
      PROVE  Begun' /\ Holds' /\ Kept' /\ Wound'
  <2>1. Begun /\ Holds /\ Kept /\ Wound
    BY <1>6 DEF ProcessInv
  <2>2. Begun' /\ Holds'
    BY <1>1, <2>1 DEF Begun, Holds
  <2>3. cleaned = 0
    BY <1>1, <2>1 DEF Kept
  <2>4. Left \subseteq Left'
    <3>1. CASE watchers
      <4>1. ASSUME NEW i \in DOMAIN registered
            PROVE  registered[i] \in Left'
        <5>1. /\ Len(registered) - i + 1 \in DOMAIN registered' /\ 1 <= Len(registered) - i + 1
              /\ registered[i] = registered'[Len(registered) - i + 1]
          BY <1>1, <1>2, <3>1, ReverseProperties
        <5>2. QED
          BY <1>1, <3>1, <5>1 DEF Left
      <4>2. QED
        BY <4>1 DEF Left
    <3>2. CASE ~watchers
      BY <1>1, <3>2 DEF Left
    <3>3. QED
      BY <3>1, <3>2
  <2>5. cleaned' = 0 => registered' = <<>>
    BY <1>1, <2>1, <2>3 DEF Kept
  <2>6. Kept'
    BY <1>1, <2>1, <2>4, <2>5 DEF Kept, Dumps
  <2>7. Wound'
    BY <1>1, <2>1 DEF Wound, Calm
  <2>8. QED
    BY <2>2, <2>6, <2>7
<1>7. QED
  BY <1>1, <1>3, <1>4, <1>5, <1>6 DEF ProcessInv, Undisturbed

LEMMA ShutDownRecorderProcessInv ==
  ASSUME ProcessInv, ShutDownRecorder, UNCHANGED <<fixedVars, tabVars, timing>>
  PROVE  ProcessInv'
<1>1. /\ teardown = "watchers"
      /\ teardown' = IF held /\ poll THEN "reading" ELSE "recorder"
      /\ running' = (running /\ ~held)
      /\ UNCHANGED <<phase, container, held, store, setup, watchers, fanout, adapters, bridges,
                     poll, prune, retention, calm, open>>
      /\ UNCHANGED <<dump, refresh, loop, observing>>
      /\ \/ cleaned = Len(registered) + 1 /\ registered' = <<>> /\ claimed' = {} /\ cleaned' = 0
         \/ cleaned = 0 /\ UNCHANGED <<registered, claimed, cleaned>>
  BY DEF ShutDownRecorder, EndCleanup, registryVars, dumpVars, lifeVars, timing
<1>2. RegistryTyped' /\ Retired' /\ Claimed'
  <2>1. CASE registered' = <<>> /\ cleaned' = 0
    <3>1. registered' \in Seq(Instances) /\ DOMAIN registered' = {}
      BY <2>1
    <3>2. QED
      BY <1>1, <2>1, <3>1 DEF ProcessInv, RegistryTyped, Retired, Claimed
  <2>2. CASE UNCHANGED <<registered, claimed, cleaned>>
    BY <1>1, <2>2 DEF ProcessInv, RegistryTyped, Retired, Claimed
  <2>3. QED
    BY <1>1, <2>1, <2>2
<1>3. ProviderTyped'
  BY <1>1 DEF ProcessInv, ProviderTyped
<1>4. ASSUME Undisturbed
      PROVE  Begun' /\ Holds' /\ Kept' /\ Wound'
  <2>1. Begun /\ Holds /\ Kept /\ Wound
    BY <1>4 DEF ProcessInv
  <2>2. Begun' /\ Holds'
    BY <1>1, <2>1 DEF Begun, Holds
  <2>3. Kept'
    BY <1>1 DEF Kept
  <2>4. Left = {}
    <3>1. registered \in Seq(Instances)
      BY DEF ProcessInv, RegistryTyped
    <3>2. CASE cleaned = Len(registered) + 1
      BY <3>1, <3>2 DEF Left
    <3>3. CASE cleaned = 0
      BY <1>1, <2>1, <3>3 DEF Kept, Left
    <3>4. QED
      BY <1>1, <3>2, <3>3
  <2>5. observing = {} /\ ~dump.registered /\ refresh = NoRefresh
    BY <1>1, <2>1, <2>4 DEF Kept, Dumps
  <2>6. ~running' /\ (teardown' = "recorder" => ~poll)
    BY <1>1, <2>1 DEF Holds
  <2>7. Wound'
    BY <1>1, <2>1, <2>5, <2>6 DEF Wound, Calm
  <2>8. QED
    BY <2>2, <2>3, <2>7
<1>5. QED
  BY <1>1, <1>2, <1>3, <1>4 DEF ProcessInv, Undisturbed

LEMMA RecorderStoppedProcessInv ==
  ASSUME ProcessInv, RecorderStopped, UNCHANGED <<fixedVars, tabVars, timing>>
  PROVE  ProcessInv'
<1>1. /\ RegistryStill /\ loop' = loop /\ teardown = "recorder" /\ teardown' = "fanout"
      /\ UNCHANGED <<phase, container, held, store, setup, watchers, fanout, adapters, bridges,
                     running, poll, prune, retention, calm, open>>
  BY DEF RecorderStopped, RegistryStill, registryVars, dumpVars, lifeVars, timeVars, timing
<1>2. RegistryTyped' /\ Retired' /\ Claimed'
  BY <1>1, StillRegistered DEF ProcessInv, RegistryTyped
<1>3. ProviderTyped'
  BY <1>1 DEF ProcessInv, ProviderTyped
<1>4. ASSUME Undisturbed
      PROVE  Begun' /\ Holds' /\ Kept' /\ Wound'
  <2>1. Begun /\ Holds /\ Kept /\ Wound
    BY <1>4 DEF ProcessInv
  <2>2. Begun' /\ Holds' /\ Kept'
    BY <1>1, <2>1 DEF Begun, Holds, Kept
  <2>3. Wound'
    BY <1>1, <2>1 DEF Wound, Calm, RegistryStill
  <2>4. QED
    BY <2>2, <2>3
<1>5. QED
  BY <1>1, <1>2, <1>3, <1>4 DEF ProcessInv, Undisturbed

LEMMA CloseFanoutProcessInv ==
  ASSUME ProcessInv, CloseFanout, UNCHANGED <<fixedVars, tabVars, timing>>
  PROVE  ProcessInv'
<1>1. /\ RegistryStill /\ loop' = loop /\ teardown = "fanout" /\ teardown' = "store"
      /\ fanout # "pending"
      /\ UNCHANGED <<phase, container, held, store, setup, watchers, fanout,
                     running, poll, prune, retention, calm, open>>
      /\ IF fanout = "set" THEN adapters' = adapters - 1 /\ bridges' = bridges - 1
         ELSE UNCHANGED <<adapters, bridges>>
  BY DEF CloseFanout, RegistryStill, registryVars, dumpVars, timeVars, timing
<1>2. RegistryTyped' /\ Retired' /\ Claimed'
  BY <1>1, StillRegistered DEF ProcessInv, RegistryTyped
<1>3. ProviderTyped'
  BY <1>1 DEF ProcessInv, ProviderTyped
<1>4. ASSUME Undisturbed
      PROVE  Begun' /\ Holds' /\ Kept' /\ Wound'
  <2>1. Begun /\ Holds /\ Kept /\ Wound
    BY <1>4 DEF ProcessInv
  <2>2. Begun' /\ Holds' /\ Kept'
    BY <1>1, <2>1 DEF Begun, Holds, Kept
  <2>3. Wound'
    BY <1>1, <2>1 DEF Wound, Calm, RegistryStill
  <2>4. QED
    BY <2>2, <2>3
<1>5. QED
  BY <1>1, <1>2, <1>3, <1>4 DEF ProcessInv, Undisturbed

LEMMA CloseStoreProcessInv ==
  ASSUME ProcessInv, CloseStore, UNCHANGED <<fixedVars, tabVars, timing>>
  PROVE  ProcessInv'
<1>1. /\ RegistryStill /\ loop' = loop /\ teardown = "store" /\ teardown' = "done"
      /\ store' = (IF held THEN "closed" ELSE store)
      /\ held' = FALSE /\ watchers' = FALSE
      /\ fanout' = (IF fanout = "set" THEN "none" ELSE fanout)
      /\ UNCHANGED <<phase, container, setup, adapters, bridges,
                     running, poll, prune, retention, calm, open>>
  BY DEF CloseStore, RegistryStill, registryVars, dumpVars, timeVars, timing
<1>2. RegistryTyped' /\ Retired' /\ Claimed'
  BY <1>1, StillRegistered DEF ProcessInv, RegistryTyped
<1>3. ProviderTyped'
  BY <1>1 DEF ProcessInv, ProviderTyped
<1>4. ASSUME Undisturbed
      PROVE  Begun' /\ Holds' /\ Kept' /\ Wound'
  <2>1. Begun /\ Holds /\ Kept /\ Wound
    BY <1>4 DEF ProcessInv
  <2>2. \A c \in Phases : phase[c] # "register"
    BY <1>1, <2>1 DEF Wound, Calm
  <2>3. Begun'
    BY <1>1, <2>1, <2>2 DEF Begun, Loops, Phases
  <2>4. Holds' /\ Kept'
    BY <1>1 DEF Holds, Kept
  <2>5. store' # "open"
    BY <1>1, <2>1 DEF Holds
  <2>6. Wound'
    BY <1>1, <2>1, <2>5 DEF Wound, Calm, RegistryStill
  <2>7. QED
    BY <2>3, <2>4, <2>6
<1>5. QED
  BY <1>1, <1>2, <1>3, <1>4 DEF ProcessInv, Undisturbed

-----------------------------------------------------------------------------
(* The registry and the dump watcher *)

ProviderFrame == UNCHANGED <<lifeVars, timeVars, downVars, open>>

LEMMA StillProvided ==
  ASSUME ProcessInv, ProviderFrame
  PROVE  /\ ProviderTyped' /\ (Undisturbed' => Undisturbed)
         /\ Holds => Holds'
         /\ UNCHANGED <<phase, watchers, teardown, open>>
BY DEF ProviderFrame, ProcessInv, ProviderTyped, Undisturbed, Holds, lifeVars, timeVars, downVars

\* A loop that goes on is the call of a phase, before the teardown.
LEMMA LoopUnderWay ==
  ASSUME ProcessInv, Undisturbed, NEW c \in Loops, loop[c].stage \in {"next", "awaiting"}
  PROVE  teardown = "none" /\ cleaned = 0 /\ watchers
<1>1. Begun /\ Kept /\ Wound
  BY DEF ProcessInv
<1>2. phase[c] = "register" /\ watchers
  BY <1>1 DEF Begun
<1>3. teardown = "none"
  BY <1>1, <1>2 DEF Wound, Calm, Loops, Phases
<1>4. QED
  BY <1>1, <1>2, <1>3 DEF Kept

\* A loop takes a step: it is the call of the same phase.
LEMMA LoopGoesOn ==
  ASSUME ProcessInv, Undisturbed, NEW c \in Loops, loop[c].stage \in {"next", "awaiting"},
         ProviderFrame, \A d \in Loops \ {c} : loop'[d] = loop[d]
  PROVE  Begun'
<1>1. Begun
  BY DEF ProcessInv
<1>2. UNCHANGED <<phase, container, fanout, setup, watchers>>
  BY DEF ProviderFrame, lifeVars
<1>3. \A d \in Loops : loop'[d].stage \in {"next", "awaiting"} => phase[d] = "register" /\ watchers
  BY <1>1 DEF Begun
<1>4. QED
  BY <1>1, <1>2, <1>3 DEF Begun

LEMMA RegisterDumpProperties ==
  ASSUME dump \in Dump, refresh \in Read, RegisterDump
  PROVE  dump' \in Dump /\ refresh' \in Read /\ dump'.registered
<1> DEFINE g == dump.generation + 1
           d == [dump EXCEPT !.registered = TRUE, !.generation = g, !.waiting = @ \cup {g}]
<1>1. g \in Nat
  BY DEF Dump
<1>2. d \in Dump /\ d.registered
  BY <1>1 DEF Dump
<1>3. dump' = d /\ Refresh(d)
  BY DEF RegisterDump
<1> HIDE DEF d
<1>4. [stage |-> "leases", generation |-> d.generation, active |-> FALSE] \in Read
  BY <1>2 DEF Dump, Read
<1>5. QED
  BY <1>2, <1>3, <1>4 DEF Refresh

LEMMA RegisterNextProcessInv ==
  ASSUME ProcessInv, NEW c \in Loops, RegisterNext(c), ProviderFrame
  PROVE  ProcessInv'
<1>1. PICK i \in Ahead(c) :
        /\ claimed' = claimed \cup {loop[c].left[i]}
        /\ registered' = Append(registered, Instance(loop[c].left[i], c))
        /\ loop' = [loop EXCEPT ![c] = [stage |-> "awaiting", left |-> After(c, i),
                                         at |-> loop[c].left[i]]]
        /\ observing' = IF Kind[loop[c].left[i]] = "direct"
                        THEN observing \cup {Instance(loop[c].left[i], c)} ELSE observing
        /\ IF Kind[loop[c].left[i]] = "dump" THEN RegisterDump ELSE UNCHANGED dumpVars
  BY DEF RegisterNext, Claim
<1> DEFINE n == loop[c].left[i]
           new == Instance(n, c)
<1>2. loop[c].stage = "next" /\ cleaned' = cleaned
  BY DEF RegisterNext
<1>3. /\ dump \in Dump /\ refresh \in Read /\ registered \in Seq(Instances)
      /\ loop \in [Loops -> Loop] /\ cleaned \in Nat
  BY DEF ProcessInv, RegistryTyped
<1>4. n \in ToSet(Names) /\ n \notin claimed /\ After(c, i) \in Seq(ToSet(Names))
  <2>1. loop[c].left \in Seq(ToSet(Names)) /\ i \in 1..Len(loop[c].left) /\ n \notin claimed
    BY <1>3 DEF Loop, Ahead
  <2>2. n \in ToSet(Names)
    BY <2>1
  <2>3. QED
    BY <2>1, <2>2 DEF After
<1>5. new \in Instances /\ new.name = n
  BY <1>4 DEF Instance, Instances
<1>6. dump' \in Dump /\ refresh' \in Read /\ (Kind[n] # "dump" => UNCHANGED <<dump, refresh>>)
      /\ (Kind[n] = "dump" => dump'.registered)
  BY <1>1, <1>3, RegisterDumpProperties DEF dumpVars
<1>7. [stage |-> "awaiting", left |-> After(c, i), at |-> n] \in Loop
  BY <1>4 DEF Loop
<1> HIDE DEF n, new
<1>8. /\ claimed' = claimed \cup {n} /\ registered' = Append(registered, new)
      /\ loop' = [loop EXCEPT ![c] = [stage |-> "awaiting", left |-> After(c, i), at |-> n]]
      /\ observing' = IF Kind[n] = "direct" THEN observing \cup {new} ELSE observing
      /\ new = Instance(n, c)
  BY <1>1 DEF n, new
<1>9. /\ registered' \in Seq(Instances) /\ Len(registered') = Len(registered) + 1
      /\ registered'[Len(registered) + 1] = new
      /\ \A j \in DOMAIN registered : registered'[j] = registered[j]
      /\ DOMAIN registered' = DOMAIN registered \cup {Len(registered) + 1}
  BY <1>3, <1>5, <1>8
<1>10. RegistryTyped'
  BY <1>2, <1>3, <1>6, <1>7, <1>8, <1>9 DEF RegistryTyped
<1>11. Retired'
  BY <1>6 DEF ProcessInv, Retired
<1>12. Claimed'
  <2>1. \A j \in DOMAIN registered : registered[j].name \in claimed
    BY DEF ProcessInv, Claimed
  <2>2. \A j \in DOMAIN registered' : registered'[j].name \in claimed'
    BY <1>5, <1>8, <1>9, <2>1
  <2>3. ASSUME NEW j \in DOMAIN registered', NEW k \in DOMAIN registered',
               registered'[j].name = registered'[k].name
        PROVE  registered'[j] = registered'[k]
    BY <1>4, <1>5, <1>9, <2>1, <2>3 DEF ProcessInv, Claimed
  <2>4. QED
    BY <2>2, <2>3 DEF Claimed
<1>13. ASSUME Undisturbed
       PROVE  Begun' /\ Holds' /\ Kept' /\ Wound'
  <2>1. Begun /\ Holds /\ Kept /\ Wound
    BY <1>13 DEF ProcessInv
  <2>2. teardown = "none" /\ cleaned = 0 /\ watchers
    BY <1>2, <1>13, LoopUnderWay
  <2>3. UNCHANGED <<phase, watchers, teardown, open>>
    BY StillProvided
  <2>4. Begun'
    BY <1>2, <1>3, <1>8, <1>13, LoopGoesOn
  <2>5. Left \subseteq Left' /\ new \in Left'
    <3>1. \A j \in DOMAIN registered : cleaned <= j => registered[j] \in Left'
      BY <1>2, <1>9 DEF Left
    <3>2. Len(registered) + 1 \in DOMAIN registered' /\ cleaned' <= Len(registered) + 1
      BY <1>2, <1>3, <1>9, <2>2
    <3>3. QED
      BY <1>9, <3>1, <3>2 DEF Left
  <2>6. Kept'
    <3>1. observing' \subseteq Left' /\ \A w \in observing' : Kind[w.name] # "dump"
      BY <1>5, <1>8, <2>1, <2>2, <2>5 DEF Kept
    <3>2. dump'.registered \/ refresh' # NoRefresh => Dumps(Left')
      BY <1>5, <1>6, <2>1, <2>2, <2>5 DEF Kept, Dumps
    <3>3. open # {} => Dumps(Left')
      BY <2>1, <2>2, <2>5 DEF Kept, Dumps
    <3>4. \A d \in Loops : loop'[d].stage = "awaiting" => Instance(loop'[d].at, d) \in Left'
      BY <1>3, <1>8, <2>1, <2>2, <2>5 DEF Kept
    <3>5. QED
      BY <1>2, <2>2, <2>3, <3>1, <3>2, <3>3, <3>4 DEF Kept
  <2>7. Wound'
    BY <2>1, <2>2, <2>3 DEF Wound, ProviderFrame, lifeVars
  <2>8. QED
    BY <2>1, <2>4, <2>6, <2>7, StillProvided
<1>14. QED
  BY <1>10, <1>11, <1>12, <1>13, StillProvided DEF ProcessInv

\* The other steps of a loop: it stays in its phase, and what it has constructed may
\* have subscribed.
LEMMA LoopProcessInv ==
  ASSUME ProcessInv, NEW c \in Loops, loop[c].stage \in {"next", "awaiting"}, ProviderFrame,
         UNCHANGED <<dump, refresh, registered, claimed, cleaned>>,
         NEW l \in Loop, loop' = [loop EXCEPT ![c] = l], l.stage # "awaiting",
         \/ observing' = observing
         \/ /\ loop[c].stage = "awaiting" /\ Kind[loop[c].at] = "late"
            /\ observing' = observing \cup {Instance(loop[c].at, c)}
  PROVE  ProcessInv'
<1>1. RegistryTyped' /\ Retired' /\ Claimed' /\ Left' = Left
  BY DEF ProcessInv, RegistryTyped, Retired, Claimed, Left
<1>2. loop \in [Loops -> Loop]
  BY DEF ProcessInv, RegistryTyped
<1>3. ASSUME Undisturbed
      PROVE  Begun' /\ Holds' /\ Kept' /\ Wound'
  <2>1. Begun /\ Holds /\ Kept /\ Wound
    BY <1>3 DEF ProcessInv
  <2>2. teardown = "none" /\ cleaned = 0 /\ watchers
    BY <1>3, LoopUnderWay
  <2>3. UNCHANGED <<phase, watchers, teardown, open>>
    BY StillProvided
  <2>4. Begun'
    BY <1>2, <1>3, LoopGoesOn
  <2>5. observing' \subseteq Left /\ \A w \in observing' : Kind[w.name] # "dump"
    BY <2>1, <2>2 DEF Kept, Instance
  <2>6. Kept'
    BY <1>1, <1>2, <2>1, <2>2, <2>3, <2>5 DEF Kept
  <2>7. Wound'
    BY <2>1, <2>2, <2>3 DEF Wound, ProviderFrame, lifeVars
  <2>8. QED
    BY <2>1, <2>4, <2>6, <2>7, StillProvided
<1>4. QED
  BY <1>1, <1>3, StillProvided DEF ProcessInv

LEMMA LoopStepsProcessInv ==
  ASSUME ProcessInv, NEW c \in Loops, CreateFails(c) \/ RegisterReturns(c) \/ LoopEnds(c),
         ProviderFrame
  PROVE  ProcessInv'
<1>1. loop \in [Loops -> Loop] /\ loop[c] \in Loop
  BY DEF ProcessInv, RegistryTyped
<1>2. CASE CreateFails(c)
  <2>1. PICK i \in Ahead(c) : loop' = [loop EXCEPT ![c].left = After(c, i)]
    BY <1>2 DEF CreateFails
  <2> DEFINE l == [loop[c] EXCEPT !.left = After(c, i)]
  <2>2. After(c, i) \in Seq(ToSet(Names))
    BY <1>1 DEF After, Ahead, Loop
  <2>3. l \in Loop /\ l.stage = loop[c].stage
    BY <1>1, <2>2 DEF Loop
  <2>4. loop' = [loop EXCEPT ![c] = l]
    BY <1>1, <2>1
  <2>5. loop[c].stage = "next" /\ UNCHANGED <<dump, refresh, registered, claimed, observing, cleaned>>
    BY <1>2 DEF CreateFails, dumpVars
  <2> HIDE DEF l
  <2>6. QED
    BY <2>3, <2>4, <2>5, LoopProcessInv
<1>3. CASE RegisterReturns(c)
  <2> DEFINE l == [loop[c] EXCEPT !.stage = "next"]
  <2>1. l \in Loop /\ l.stage = "next"
    BY <1>1 DEF Loop
  <2>2. loop' = [loop EXCEPT ![c] = l]
    BY <1>1, <1>3 DEF RegisterReturns
  <2>3. /\ loop[c].stage = "awaiting" /\ UNCHANGED <<dump, refresh, registered, claimed, cleaned>>
        /\ \/ observing' = observing
           \/ Kind[loop[c].at] = "late" /\ observing' = observing \cup {Instance(loop[c].at, c)}
    BY <1>3 DEF RegisterReturns, dumpVars
  <2> HIDE DEF l
  <2>4. QED
    BY <2>1, <2>2, <2>3, LoopProcessInv
<1>4. CASE LoopEnds(c)
  <2> DEFINE l == [loop[c] EXCEPT !.stage = "done"]
  <2>1. l \in Loop /\ l.stage = "done"
    BY <1>1 DEF Loop
  <2>2. loop' = [loop EXCEPT ![c] = l]
    BY <1>1, <1>4 DEF LoopEnds
  <2>3. loop[c].stage = "next" /\ UNCHANGED <<dump, refresh, registered, claimed, observing, cleaned>>
    BY <1>4 DEF LoopEnds, dumpVars
  <2> HIDE DEF l
  <2>4. QED
    BY <2>1, <2>2, <2>3, LoopProcessInv
<1>5. QED
  BY <1>2, <1>3, <1>4

LEMMA CleanupNextProcessInv ==
  ASSUME ProcessInv, CleanupNext, ProviderFrame
  PROVE  ProcessInv'
<1> DEFINE w == registered[cleaned]
<1>1. /\ dump \in Dump /\ refresh \in Read /\ registered \in Seq(Instances) /\ cleaned \in Nat
      /\ loop \in [Loops -> Loop]
  BY DEF ProcessInv, RegistryTyped
<1>2. /\ cleaned \in DOMAIN registered /\ cleaned # 0
      /\ UNCHANGED <<registered, claimed, loop>>
  BY <1>1 DEF CleanupNext
<1>3. \/ /\ Kind[w.name] # "dump" /\ observing' = observing \ {w} /\ cleaned' = cleaned + 1
         /\ UNCHANGED <<dump, refresh>>
      \/ /\ Kind[w.name] = "dump" /\ CleanupDump /\ UNCHANGED <<observing, cleaned>>
      \/ /\ Kind[w.name] = "dump" /\ ~dump.registered /\ refresh = NoRefresh
         /\ cleaned' = cleaned + 1 /\ UNCHANGED <<dump, refresh, observing>>
  BY DEF CleanupNext, dumpVars
<1>4. CleanupDump => /\ dump' \in Dump /\ refresh' = refresh /\ ~dump'.registered
                     /\ ~dump'.active /\ ~dump'.published
  <2>1. dump.generation + 1 \in Nat
    BY <1>1 DEF Dump
  <2>2. QED
    BY <1>1, <2>1 DEF CleanupDump, Dump
<1>5. RegistryTyped' /\ Retired' /\ Claimed'
  BY <1>1, <1>2, <1>3, <1>4 DEF ProcessInv, RegistryTyped, Retired, Claimed
<1>6. ASSUME Undisturbed
      PROVE  Begun' /\ Holds' /\ Kept' /\ Wound'
  <2>1. Begun /\ Holds /\ Kept /\ Wound
    BY <1>6 DEF ProcessInv
  <2>2. UNCHANGED <<phase, container, setup, watchers, fanout, teardown, open>>
    BY DEF ProviderFrame, lifeVars, downVars
  <2>3. Begun'
    BY <1>2, <2>1, <2>2 DEF Begun
  <2>4. Wound'
    <3>1. teardown \in {"reading", "recorder", "fanout", "store", "done"} =>
             observing' = {} /\ ~dump'.registered /\ refresh' = NoRefresh
      BY <1>3, <1>4, <2>1 DEF Wound
    <3>2. QED
      BY <2>1, <2>2, <3>1 DEF Wound, Calm, ProviderFrame, lifeVars, timeVars
  <2>5. ASSUME teardown \in {"none", "prune", "pruned", "watchers"}
        PROVE  Kept'
    <3>1. teardown = "watchers"
      BY <1>2, <2>1, <2>5 DEF Kept
    <3>2. \A c \in Loops : loop[c].stage # "awaiting"
      BY <2>1, <3>1 DEF Begun, Wound, Calm, Loops, Phases
    <3>3. w \in Left /\ cleaned' # 0
      BY <1>1, <1>2, <1>3 DEF Left
    <3>4. CASE cleaned' = cleaned + 1
      <4>1. Left \ {w} \subseteq Left'
        <5>1. ASSUME NEW j \in DOMAIN registered, cleaned <= j, registered[j] # w
              PROVE  j \in DOMAIN registered' /\ cleaned' <= j /\ registered'[j] = registered[j]
          BY <1>1, <1>2, <3>4, <5>1
        <5>2. QED
          BY <5>1 DEF Left
      <4>2. CASE Kind[w.name] # "dump"
        <5>1. observing' = observing \ {w} /\ UNCHANGED <<dump, refresh>>
          BY <1>3, <4>2
        <5>2. Dumps(Left) => Dumps(Left')
          BY <4>1, <4>2 DEF Dumps
        <5>3. QED
          BY <1>2, <2>1, <2>2, <3>1, <3>2, <3>3, <4>1, <5>1, <5>2 DEF Kept
      <4>3. CASE Kind[w.name] = "dump"
        <5>1. ~dump'.registered /\ refresh' = NoRefresh /\ observing' = observing
          BY <1>1, <1>3, <3>4, <4>3
        <5>2. observing \subseteq Left'
          BY <2>1, <3>1, <4>1, <4>3 DEF Kept
        <5>3. QED
          BY <1>2, <2>1, <2>2, <3>1, <3>2, <3>3, <5>1, <5>2 DEF Kept
      <4>4. QED
        BY <4>2, <4>3
    <3>5. CASE cleaned' = cleaned
      <4>1. Left' = Left /\ Kind[w.name] = "dump" /\ observing' = observing
        BY <1>1, <1>2, <1>3, <3>5 DEF Left
      <4>2. Dumps(Left')
        BY <3>3, <4>1 DEF Dumps
      <4>3. QED
        BY <1>2, <2>1, <2>2, <3>1, <3>2, <3>3, <4>1, <4>2 DEF Kept
    <3>6. QED
      BY <1>3, <3>4, <3>5
  <2>6. CASE teardown \notin {"none", "prune", "pruned", "watchers"}
    BY <2>1, <2>2, <2>3, <2>4, <2>6, StillProvided DEF Kept
  <2>7. QED
    BY <2>1, <2>3, <2>4, <2>5, <2>6, StillProvided
<1>7. QED
  BY <1>5, <1>6, StillProvided DEF ProcessInv

\* What the dump watcher reads in a life of its own.
LEMMA ReadsProcessInv ==
  ASSUME ProcessInv, ProviderFrame, UNCHANGED <<registered, claimed, loop, observing, cleaned>>,
         dump' \in Dump, refresh' \in Read, Retired',
         dump'.registered \/ refresh' # NoRefresh =>
            \/ dump.registered \/ refresh # NoRefresh
            \/ open # {} /\ teardown = "none"
  PROVE  ProcessInv'
<1>1. RegistryTyped' /\ Claimed' /\ Left' = Left
  BY DEF ProcessInv, RegistryTyped, Claimed, Left
<1>2. ASSUME Undisturbed
      PROVE  Begun' /\ Holds' /\ Kept' /\ Wound'
  <2>1. Begun /\ Holds /\ Kept /\ Wound
    BY <1>2 DEF ProcessInv
  <2>2. UNCHANGED <<phase, container, setup, watchers, fanout, teardown, open>>
    BY DEF ProviderFrame, lifeVars, downVars
  <2>3. Begun'
    BY <2>1, <2>2 DEF Begun
  <2>4. Kept'
    BY <1>1, <2>1, <2>2 DEF Kept
  <2>5. Wound'
    BY <2>1, <2>2 DEF Wound, Calm, ProviderFrame, lifeVars, timeVars
  <2>6. QED
    BY <2>1, <2>3, <2>4, <2>5, StillProvided
<1>3. QED
  BY <1>1, <1>2, StillProvided DEF ProcessInv

\* A read answers, or settles into the watcher it was started by.
LEMMA DumpReadsProcessInv ==
  ASSUME ProcessInv, ReadFlag \/ (\E leased \in BOOLEAN : ReadLeases(leased)) \/ ReadFails \/ Settle,
         RestOfProvider, open' = open
  PROVE  ProcessInv'
<1>1. ProviderFrame /\ UNCHANGED <<registered, claimed, loop, observing, cleaned>>
  BY DEF RestOfProvider, ProviderFrame
<1>2. dump \in Dump /\ refresh \in Read /\ Retired
  BY DEF ProcessInv, RegistryTyped
<1>3. CASE ReadFlag \/ ReadFails \/ \E leased \in BOOLEAN : ReadLeases(leased)
  <2>1. PICK s \in {"flag", "answered"}, a \in BOOLEAN :
          refresh' = [refresh EXCEPT !.stage = s, !.active = a]
    <3>1. CASE ReadFlag \/ ReadFails
      <4>1. refresh' = [refresh EXCEPT !.stage = "answered"]
        BY <3>1 DEF ReadFlag, ReadFails
      <4>2. refresh.active \in BOOLEAN
            /\ refresh' = [refresh EXCEPT !.stage = "answered", !.active = refresh.active]
        BY <1>2, <4>1 DEF Read
      <4>3. QED
        BY <4>2
    <3>2. CASE \E leased \in BOOLEAN : ReadLeases(leased)
      BY <3>2 DEF ReadLeases
    <3>3. QED
      BY <1>3, <3>1, <3>2
  <2>2. refresh # NoRefresh /\ dump' = dump
    <3>1. refresh.stage # "none"
      BY <1>3 DEF ReadFlag, ReadFails, ReadLeases
    <3>2. dump' = dump
      BY <1>3 DEF ReadFlag, ReadFails, ReadLeases
    <3>3. NoRefresh.stage = "none"
      BY DEF NoRefresh
    <3>4. QED
      BY <3>1, <3>2, <3>3
  <2>3. refresh' \in Read
    BY <1>2, <2>1 DEF Read
  <2>4. QED
    BY <1>1, <1>2, <2>2, <2>3, ReadsProcessInv DEF Retired
<1>4. CASE Settle
  <2>1. PICK a \in BOOLEAN :
          a = (IF Current(refresh.generation) THEN refresh.active ELSE dump.active)
    BY <1>2 DEF Dump, Read
  <2>2. PICK p \in BOOLEAN : p = (dump.published \/ \E g \in dump.waiting : Current(g))
    OBVIOUS
  <2>3. dump' = [dump EXCEPT !.active = a, !.published = p, !.waiting = {}]
    BY <1>4, <2>1, <2>2 DEF Settle
  <2>4. dump' \in Dump /\ dump'.registered = dump.registered /\ dump'.active = a
        /\ dump'.published = p
    BY <1>2, <2>3 DEF Dump
  <2>5. Retired'
    BY <1>2, <2>1, <2>2, <2>4 DEF Retired, Current
  <2>6. refresh' = NoRefresh /\ NoRefresh \in Read
    BY <1>4 DEF Settle, NoRefresh, Read
  <2>7. QED
    BY <1>1, <2>4, <2>5, <2>6, ReadsProcessInv
<1>5. QED
  BY <1>3, <1>4

LEMMA PollDumpProcessInv ==
  ASSUME ProcessInv, PollDump
  PROVE  ProcessInv'
<1>1. ProviderFrame /\ UNCHANGED <<registered, claimed, loop, observing, cleaned>>
  BY DEF PollDump, RestOfProvider, ProviderFrame
<1>2. dump \in Dump /\ refresh \in Read /\ Retired
  BY DEF ProcessInv, RegistryTyped
<1>3. dump.published /\ dump' = dump /\ Refresh(dump)
  BY DEF PollDump, Poll
<1>4. refresh' \in Read
  <2>1. [stage |-> "leases", generation |-> dump.generation, active |-> FALSE] \in Read
    BY <1>2 DEF Dump, Read
  <2>2. QED
    BY <1>2, <1>3, <2>1 DEF Refresh
<1>5. dump.registered
  BY <1>2, <1>3 DEF Retired
<1>6. Retired'
  BY <1>3, <1>5 DEF Retired
<1>7. QED
  BY <1>1, <1>2, <1>3, <1>4, <1>5, <1>6, ReadsProcessInv

LEMMA WatchingProperties == /\ Watching \in Dump /\ NoRefresh \in Read /\ Watching.registered
BY DEF Watching, InitialDump, Dump, NoRefresh, Read

LEMMA RestartProcessInv ==
  ASSUME ProcessInv, Restart
  PROVE  ProcessInv'
<1>1. /\ ProviderFrame /\ UNCHANGED <<registered, claimed, loop, observing, cleaned>>
      /\ dump' = Watching /\ refresh' = NoRefresh /\ open # {} /\ teardown = "none"
  BY DEF Restart, RestOfProvider, ProviderFrame
<1>2. Retired'
  BY <1>1, WatchingProperties DEF Retired
<1>3. QED
  BY <1>1, <1>2, WatchingProperties, ReadsProcessInv

LEMMA StillProcessInv ==
  ASSUME ProcessInv, UNCHANGED <<providerVars, open>>
  PROVE  ProcessInv'
BY DEF ProcessInv, RegistryTyped, ProviderTyped, Retired, Claimed, Undisturbed, Begun, Holds, Kept,
       Left, Wound, Calm, providerVars, registryVars, dumpVars, lifeVars, timeVars, downVars

LEMMA LifecycleProcessInv ==
  ASSUME ProcessInv, Lifecycle
  PROVE  ProcessInv'
<1>1. UNCHANGED <<fixedVars, tabVars, timing>>
  BY DEF Lifecycle
<1>2. CASE Steps
  <2>1. CASE RecorderMade \/ FanoutMade \/ RoutesRegistered \/ StartRecorder \/ EmitterMade \/ SetupAwaited
    BY <1>1, <2>1, RecorderMadeProcessInv, FanoutMadeProcessInv, RoutesRegisteredProcessInv,
       StartRecorderProcessInv, EmitterMadeProcessInv, SetupAwaitedProcessInv
  <2>2. CASE \E c \in Phases : EnsureFanout(c) \/ FanoutAwaited(c)
    BY <1>1, <2>2, EnsureFanoutProcessInv, FanoutAwaitedProcessInv
  <2>3. CASE \E c \in Loops : WatchersRegistered(c)
    BY <1>1, <2>3, WatchersRegisteredProcessInv
  <2>4. CASE CleanWatchers \/ ShutDownRecorder \/ RecorderStopped \/ CloseFanout \/ CloseStore
    BY <1>1, <2>4, CleanWatchersProcessInv, ShutDownRecorderProcessInv,
       RecorderStoppedProcessInv, CloseFanoutProcessInv, CloseStoreProcessInv
  <2>5. CASE RegistrySteps /\ ProviderStill /\ UNCHANGED failures
    <3>1. ProviderFrame
      BY <1>1, <2>5 DEF ProviderStill, ProviderFrame, timing
    <3>2. CASE \E c \in Loops : RegisterNext(c)
      BY <3>1, <3>2, RegisterNextProcessInv
    <3>3. CASE \E c \in Loops : CreateFails(c) \/ RegisterReturns(c) \/ LoopEnds(c)
      BY <3>1, <3>3, LoopStepsProcessInv
    <3>4. CASE CleanupNext
      BY <3>1, <3>4, CleanupNextProcessInv
    <3>5. QED
      BY <2>5, <3>2, <3>3, <3>4 DEF RegistrySteps
  <2>6. QED
    BY <1>2, <2>1, <2>2, <2>3, <2>4, <2>5 DEF Steps
<1>3. CASE PollAnswered \/ PruneAnswered \/ BeginTeardown \/ Timers
  BY <1>1, <1>3, PollAnsweredProcessInv, PruneAnsweredProcessInv, BeginTeardownProcessInv,
     TimersProcessInv
<1>4. CASE \E c \in Phases : Begin(c)
  BY <1>1, <1>4, BeginProcessInv
<1>5. QED
  BY <1>2, <1>3, <1>4 DEF Lifecycle

-----------------------------------------------------------------------------
(* The theorems *)

LEMMA RetainedProperties ==
  /\ Retained \in Seq(Instances)
  /\ \A i, j \in DOMAIN Retained : Retained[i].name = Retained[j].name => Retained[i] = Retained[j]
  /\ \A n \in ToSet(Names) : \E i \in DOMAIN Retained : Retained[i].name = n
<1> DEFINE early == CHOOSE i \in DOMAIN Names : Names[i] = Early
           order == <<Early>> \o RemoveAt(Names, early)
<1>1. Names \in Seq(ToSet(Names)) /\ Early \in ToSet(Names)
  BY RegistryAssumption DEF RegistryAssumption
<1>2. early \in 1..Len(Names) /\ Names[early] = Early
  BY <1>1 DEF ToSet
<1> HIDE DEF early
<1>3. /\ RemoveAt(Names, early) \in Seq(ToSet(Names))
      /\ \A i \in 1..Len(Names) : i # early =>
            \E j \in DOMAIN RemoveAt(Names, early) : RemoveAt(Names, early)[j] = Names[i]
  <2> DEFINE before == SubSeq(Names, 1, early - 1)
             behind == SubSeq(Names, early + 1, Len(Names))
  <2>1. /\ before \in Seq(ToSet(Names)) /\ Len(before) = early - 1
        /\ \A i \in 1..(early - 1) : before[i] = Names[i]
    BY <1>1, <1>2
  <2>2. /\ behind \in Seq(ToSet(Names)) /\ Len(behind) = Len(Names) - early
        /\ \A i \in 1..(Len(Names) - early) : behind[i] = Names[early + i]
    BY <1>1, <1>2
  <2>3. RemoveAt(Names, early) = before \o behind
    BY DEF RemoveAt
  <2> HIDE DEF before, behind
  <2>4. before \o behind \in Seq(ToSet(Names))
    BY <2>1, <2>2
  <2>5. ASSUME NEW i \in 1..Len(Names), i # early
        PROVE  \E j \in DOMAIN (before \o behind) : (before \o behind)[j] = Names[i]
    <3>1. CASE i < early
      <4>1. i \in DOMAIN (before \o behind) /\ (before \o behind)[i] = Names[i]
        BY <1>1, <1>2, <2>1, <2>2, <3>1
      <4>2. QED
        BY <4>1
    <3>2. CASE i > early
      <4>1. i - early \in 1..(Len(Names) - early)
        BY <1>1, <1>2, <3>2
      <4>2. behind[i - early] = Names[i]
        BY <1>1, <1>2, <2>2, <4>1
      <4>3. i - 1 \in DOMAIN (before \o behind) /\ (before \o behind)[i - 1] = behind[i - early]
        BY <1>1, <1>2, <2>1, <2>2, <3>2, <4>1
      <4>4. QED
        BY <4>2, <4>3
    <3>3. QED
      BY <1>1, <1>2, <2>5, <3>1, <3>2
  <2>6. QED
    BY <2>3, <2>4, <2>5
<1>4. order \in Seq(ToSet(Names)) /\ \A n \in ToSet(Names) : \E i \in DOMAIN order : order[i] = n
  <2> DEFINE rest == RemoveAt(Names, early)
  <2>1. rest \in Seq(ToSet(Names)) /\ <<Early>> \in Seq(ToSet(Names)) /\ order = <<Early>> \o rest
    BY <1>1, <1>3
  <2>2. order \in Seq(ToSet(Names)) /\ Len(order) = Len(rest) + 1 /\ order[1] = Early
        /\ \A j \in DOMAIN rest : order[j + 1] = rest[j]
    <3>1. order \in Seq(ToSet(Names))
      BY <1>1, <2>1
    <3> HIDE DEF rest, order
    <3>2. Len(rest) \in Nat /\ DOMAIN rest = 1..Len(rest)
      BY <2>1
    <3>3. Len(<<Early>>) = 1 /\ <<Early>>[1] = Early
      OBVIOUS
    <3>4. Len(order) = Len(<<Early>>) + Len(rest)
      BY <2>1
    <3>5. \A j \in 1..(Len(<<Early>>) + Len(rest)) :
             order[j] = IF j <= Len(<<Early>>) THEN <<Early>>[j] ELSE rest[j - Len(<<Early>>)]
      BY <2>1
    <3>6. order[1] = Early
      BY <3>2, <3>3, <3>5
    <3>7. ASSUME NEW j \in DOMAIN rest
          PROVE  order[j + 1] = rest[j]
      <4>1. j + 1 \in 1..(Len(<<Early>>) + Len(rest)) /\ ~(j + 1 <= 1) /\ (j + 1) - 1 = j
        BY <3>2, <3>3
      <4>2. QED
        BY <3>3, <3>5, <4>1
    <3>8. QED
      BY <3>1, <3>2, <3>3, <3>4, <3>6, <3>7
  <2>3. ASSUME NEW n \in ToSet(Names)
        PROVE  \E i \in DOMAIN order : order[i] = n
    <3>1. PICK k \in 1..Len(Names) : Names[k] = n
      BY <1>1 DEF ToSet
    <3>2. CASE k = early
      BY <1>2, <2>1, <2>2, <3>1, <3>2
    <3>3. CASE k # early
      <4>1. PICK j \in DOMAIN rest : rest[j] = n
        BY <1>3, <3>1, <3>3
      <4>2. j + 1 \in DOMAIN order /\ order[j + 1] = n
        <5> HIDE DEF rest, order
        <5>1. QED
          BY <2>1, <2>2, <4>1
      <4>3. QED
        BY <4>2
    <3>4. QED
      BY <3>2, <3>3
  <2>4. QED
    BY <2>2, <2>3
<1>5. Retained = [i \in DOMAIN order |->
                    Instance(order[i], IF order[i] = Early THEN "boot" ELSE "ready")]
  BY DEF Retained, early
<1> HIDE DEF order
<1>6. \A i \in DOMAIN order : Retained[i] \in Instances /\ Retained[i].name = order[i]
  BY <1>4, <1>5 DEF Instance, Instances, Loops
<1>7. Retained \in Seq(Instances)
  BY <1>4, <1>5, <1>6
<1>8. \A i, j \in DOMAIN Retained : Retained[i].name = Retained[j].name => Retained[i] = Retained[j]
  BY <1>5, <1>6
<1>9. QED
  BY <1>4, <1>5, <1>6, <1>7, <1>8

LEMMA InitDumpsInv ==
  ASSUME InitScene
  PROVE  DumpsInv
<1>1. TabInv
  <2>1. NewPage \in Page /\ Beating(NewPage) /\ ~NewPage.again
    BY OffIsABeat DEF NewPage, Page, Beating
  <2>2. QED
    BY <2>1 DEF InitScene, InitTabs, TabInv, TabsTyped, Asking
<1>2. PICK scene \in Scenes : open = scene.tabs
  BY DEF InitScene
<1>3. open \subseteq Tabs /\ (open # {} => \E n \in ToSet(Names) : Kind[n] = "dump")
  BY <1>2, ScenesAssumption
<1>4. Early \in ToSet(Names)
  BY RegistryAssumption DEF RegistryAssumption
<1>5. CASE open = {}
  <2>1. InitProvider
    BY <1>5 DEF InitScene
  <2>2. RegistryTyped
    <3>1. InitialDump \in Dump /\ NoRefresh \in Read
      BY DEF InitialDump, NoRefresh, Dump, Read
    <3>2. [stage |-> "off", left |-> <<>>, at |-> Early] \in Loop
      BY <1>4 DEF Loop
    <3>3. QED
      BY <2>1, <3>1, <3>2 DEF InitProvider, InitRegistry, InitDump, RegistryTyped
  <2>3. ProviderTyped
    <3>1. phase \in [Phases -> Places]
      BY <2>1 DEF InitProvider, Places
    <3>2. /\ container = "empty" /\ store = "none" /\ setup = "none" /\ fanout = "none"
          /\ held = FALSE /\ watchers = FALSE /\ running = FALSE /\ poll = FALSE
          /\ adapters = 0 /\ bridges = 0
      BY <2>1 DEF InitProvider
    <3>3. retention = {} /\ prune = "none" /\ teardown = "none" /\ calm = TRUE
      BY <2>1 DEF InitProvider
    <3>4. /\ container \in {"empty", "making", "made"} /\ store \in {"none", "open", "closed"}
          /\ setup \in {"none", "pending", "made", "failed"} /\ fanout \in {"none", "pending", "set"}
      BY <3>2
    <3>5. /\ held \in BOOLEAN /\ watchers \in BOOLEAN /\ running \in BOOLEAN /\ poll \in BOOLEAN
          /\ calm \in BOOLEAN
      BY <3>2, <3>3
    <3>6. adapters \in Int /\ bridges \in Int
      BY <3>2
    <3>7. /\ retention \subseteq {"initial", "interval"} /\ prune \in {"none", "lease", "write", "prune"}
          /\ teardown \in {"none", "prune", "pruned", "watchers", "reading", "recorder", "fanout",
                           "store", "done"}
      BY <3>3
    <3>8. QED
      BY <1>3, <3>1, <3>4, <3>5, <3>6, <3>7 DEF ProviderTyped
  <2>4. Retired /\ Claimed
    BY <2>1 DEF InitProvider, InitRegistry, InitDump, InitialDump, Retired, Claimed
  <2>5. Begun /\ Holds
    BY <2>1 DEF InitProvider, InitRegistry, Begun, Holds
  <2>6. Kept
    BY <1>5, <2>1 DEF InitProvider, InitRegistry, InitDump, InitialDump, Kept
  <2>7. Wound
    BY <2>1 DEF InitProvider, Wound
  <2>8. QED
    BY <1>1, <2>2, <2>3, <2>4, <2>5, <2>6, <2>7 DEF DumpsInv, ProcessInv
<1>6. CASE open # {}
  <2>1. InitServing
    BY <1>6 DEF InitScene
  <2>2. registered = Retained /\ claimed = ToSet(Names) /\ cleaned = 0
    BY <2>1 DEF InitServing
  <2>3. RegistryTyped
    <3>1. [stage |-> "done", left |-> <<>>, at |-> Early] \in Loop
      BY <1>4 DEF Loop
    <3>2. QED
      BY <2>1, <3>1, RetainedProperties, WatchingProperties DEF InitServing, RegistryTyped
  <2>4. ProviderTyped
    <3>1. phase \in [Phases -> Places]
      BY <2>1 DEF InitServing, Places
    <3>2. /\ container = "made" /\ store = "open" /\ setup = "none" /\ fanout = "set"
          /\ held = TRUE /\ watchers = TRUE /\ running = TRUE /\ poll = FALSE
          /\ adapters = 1 /\ bridges = 1
      BY <2>1 DEF InitServing
    <3>3. retention = {"interval"} /\ prune = "none" /\ teardown = "none" /\ calm = TRUE
      BY <2>1 DEF InitServing
    <3>4. /\ container \in {"empty", "making", "made"} /\ store \in {"none", "open", "closed"}
          /\ setup \in {"none", "pending", "made", "failed"} /\ fanout \in {"none", "pending", "set"}
      BY <3>2
    <3>5. /\ held \in BOOLEAN /\ watchers \in BOOLEAN /\ running \in BOOLEAN /\ poll \in BOOLEAN
          /\ calm \in BOOLEAN
      BY <3>2, <3>3
    <3>6. adapters \in Int /\ bridges \in Int
      BY <3>2
    <3>7. /\ retention \subseteq {"initial", "interval"} /\ prune \in {"none", "lease", "write", "prune"}
          /\ teardown \in {"none", "prune", "pruned", "watchers", "reading", "recorder", "fanout",
                           "store", "done"}
      BY <3>3
    <3>8. QED
      BY <1>3, <3>1, <3>4, <3>5, <3>6, <3>7 DEF ProviderTyped
  <2>5. Retired
    BY <2>1, WatchingProperties DEF InitServing, Retired
  <2>6. Claimed
    <3>1. \A i \in DOMAIN Retained : Retained[i].name \in ToSet(Names)
      <4>1. \A w \in Instances : w.name \in ToSet(Names)
        BY DEF Instances
      <4>2. \A i \in DOMAIN Retained : Retained[i] \in Instances
        BY RetainedProperties
      <4>3. QED
        BY <4>1, <4>2
    <3>2. QED
      BY <2>2, <3>1, RetainedProperties DEF Claimed
  <2>7. Begun /\ Holds
    BY <2>1 DEF InitServing, Begun, Holds
  <2>8. Left = ToSet(Retained)
    <3>1. \A j \in DOMAIN Retained : 0 <= j
      BY RetainedProperties
    <3>2. QED
      BY <2>2, <3>1 DEF Left, ToSet
  <2>9. Dumps(Left)
    BY <1>3, <1>6, <2>8, RetainedProperties DEF Dumps, ToSet
  <2>10. Kept
    BY <2>1, <2>2, <2>8, <2>9 DEF InitServing, Kept
  <2>11. Wound
    BY <2>1 DEF InitServing, Wound
  <2>12. QED
    BY <1>1, <2>3, <2>4, <2>5, <2>6, <2>7, <2>10, <2>11 DEF DumpsInv, ProcessInv
<1>7. QED
  BY <1>5, <1>6

LEMMA VisitDumpsInv ==
  ASSUME DumpsInv, NEW t \in Tabs, Visit(t)
  PROVE  DumpsInv'
<1>1. TabInv /\ ProcessInv
  BY DEF DumpsInv
<1>2. UNCHANGED <<providerVars, open>>
  BY DEF Visit, Rest, timing
<1>3. \/ Microtask(t) \/ Heartbeat(t) \/ Answered(t) \/ Serve(t) \/ ServeStray(t)
      \/ Rejected(t) \/ Vanish(t) \/ Mount(t) \/ Focus(t) \/ Blur(t) \/ Unmount(t)
  BY DEF Visit
<1>4. TabInv'
  BY <1>1, <1>3, MicrotaskTabInv, HeartbeatTabInv, AnsweredTabInv, ServeTabInv, ServeStrayTabInv,
     RejectedTabInv, VanishTabInv, MountTabInv, FocusTabInv, BlurTabInv, UnmountTabInv
<1>5. QED
  BY <1>1, <1>2, <1>4, StillProcessInv DEF DumpsInv

LEMMA StillTabInv ==
  ASSUME TabInv, UNCHANGED tabVars
  PROVE  TabInv'
BY DEF TabInv, TabsTyped, Asking, tabVars

LEMMA NextDumpsInv ==
  ASSUME DumpsInv, [NextScene]_sceneVars
  PROVE  DumpsInv'
<1>1. TabInv /\ ProcessInv
  BY DEF DumpsInv
<1>2. CASE Lifecycle
  BY <1>1, <1>2, LifecycleProcessInv, StillTabInv DEF Lifecycle, DumpsInv
<1>3. CASE ReadFlags
  <2>1. /\ ReadFlag \/ (\E leased \in BOOLEAN : ReadLeases(leased)) \/ ReadFails \/ Settle
        /\ RestOfProvider /\ open' = open /\ UNCHANGED tabVars
    <3>1. Leases \subseteq BOOLEAN
      BY DEF Leases
    <3>2. QED
      BY <1>3, <3>1 DEF ReadFlags, timing
  <2>2. QED
    BY <1>1, <2>1, DumpReadsProcessInv, StillTabInv DEF DumpsInv
<1>4. CASE ReadIsLost
  BY <1>1, <1>4, DumpReadsProcessInv, StillTabInv DEF ReadIsLost, DumpsInv
<1>5. CASE PollDump
  BY <1>1, <1>5, PollDumpProcessInv, StillTabInv DEF PollDump, DumpsInv
<1>6. CASE Restart
  BY <1>1, <1>6, RestartProcessInv, StillTabInv DEF Restart, DumpsInv
<1>7. CASE \E t \in open : Visit(t)
  BY <1>1, <1>7, VisitDumpsInv DEF ProcessInv, ProviderTyped
<1>8. CASE Tick
  BY <1>1, <1>8, ElapseTabInv, StillProcessInv DEF Tick, DumpsInv
<1>9. CASE UNCHANGED sceneVars
  BY <1>1, <1>9, StillTabInv, StillProcessInv DEF sceneVars, timing, DumpsInv
<1>10. QED
  BY <1>2, <1>3, <1>4, <1>5, <1>6, <1>7, <1>8, <1>9 DEF NextScene

\* What a process and the tabs of its dumps page keep to, at every step.
THEOREM DumpsInvariant == SceneSpec => []DumpsInv
<1>1. InitScene => DumpsInv
  BY InitDumpsInv
<1>2. DumpsInv /\ [NextScene]_sceneVars => DumpsInv'
  BY NextDumpsInv
<1>3. QED
  BY <1>1, <1>2, PTL DEF SceneSpec

\* A lease is held only for a page that is open and focused, and such a page has asked
\* for one, once a tab has its answer and nothing it sent went astray: for any tabs,
\* heartbeat interval and lease time, whatever the tabs and the server do in between.
THEOREM DumpsLeaseFollowsPage == SceneSpec => []LeaseFollowsPage
<1>1. DumpsInv => LeaseFollowsPage
  BY TabInvLease DEF DumpsInv
<1>2. QED
  BY <1>1, DumpsInvariant, PTL

\* Each watcher is constructed once and there is one fan-out with one bridge, however
\* boot(), start() and ready() overlap, for any enabled watchers.
THEOREM DumpsBuiltOnce == SceneSpec => []BuiltOnce
<1>1. DumpsInv => BuiltOnce
  BY ProcessInvProperties DEF DumpsInv
<1>2. QED
  BY <1>1, DumpsInvariant, PTL

\* A teardown that met no phase under way leaves nothing behind: neither watcher nor
\* timer, bridge, fan-out, read or prune, and the store is closed last.
THEOREM DumpsTeardown == SceneSpec => []TeardownLeavesNothing
<1>1. DumpsInv => TeardownLeavesNothing
  BY ProcessInvProperties DEF DumpsInv
<1>2. QED
  BY <1>1, DumpsInvariant, PTL

=============================================================================
