--------------------------- MODULE RecorderProofs ---------------------------
(***************************************************************************)
(* Proofs about Recorder for every set of batches, every caps and every    *)
(* bound.                                                                  *)
(*                                                                         *)
(* First type correctness, the ownership of the grace window and the       *)
(* sticky sampling decision, then on top of their invariant:               *)
(*                                                                         *)
(* OrderKept: no entry is stored twice or out of the order in which        *)
(* record() stamped it.  A batch has one context that records, its own     *)
(* while it is open and then the continuation; the other one is empty.     *)
(* Rows, the synthetic entry being written and the buffer of the recording *)
(* context stand in line, below the next sequence.                         *)
(*                                                                         *)
(* NoEntryLost: no step takes an accepted entry out of that line, except   *)
(* with a batch that was decided against.                                  *)
(*                                                                         *)
(* RefusalsAreAccounted, SampledBatchesInFull: what the caps refused is    *)
(* counted once, by a context or by one entry. Between the flushes of a    *)
(* sampled context no buffered entry reports anything, so a new report     *)
(* never takes the place of an old one.                                    *)
(***************************************************************************)
EXTENDS RecorderAccounting, StoreLemmas

\* Who may run when: an activation of the batch's context is the head of its
\* flush chain, the continuation is flushed only after its window ended.
OwnedBy(b) ==
    /\ run[Main(b)] # Idle => queue[b] # <<>>
    /\ run[Late(b)].chained => queue[b] # <<>> /\ run[Main(b)] = Idle
    /\ run[Late(b)] # Idle => phase[b] = "finished" /\ continued[b]
    /\ continued[b] => phase[b] # "open"
Ownership == \A b \in Batches : OwnedBy(b)

\* The stages a sampled-out context can be in, by its retention.
DecisionByStage ==
    \A c \in Contexts :
        ~sampled[c[1]] =>
            /\ run[c].stage = "tags" => retention[c] = "pending"
            /\ run[c].stage \in {"saving", "trimming"} => retention[c] = "kept"
            /\ run[c].stage = "returned" /\ run[c].mode = "final"
                  => retention[c] # "pending"

\* An entry is a report or was accepted as one of its type.
Kind(e) == <<e.origin, IF e.origin = "report" THEN Report ELSE e.type>>
Reporting == <<"report", Report>>
Recorded(t) == <<"record", t>>
KindCount(kind, s) == Cardinality({i \in 1..Len(s) : Kind(s[i]) = kind})

\* The counters charge at least the accepted entries that are buffered, and these are
\* within the caps; a counter need not be, because the continuation charges whatever
\* was moved into it.  A synthetic entry is a report.
Fits(t, s, charged) ==
    KindCount(Recorded(t), s) <= charged[t] /\ KindCount(Recorded(t), s) <= Cap[t]
Charged ==
    /\ \A c \in Contexts, t \in Types : Fits(t, buffer[c], counters[c])
    /\ \A c \in Contexts :
          \A i \in 1..Len(run[c].synth) : Kind(run[c].synth[i]) = Reporting

\* bufferedEntries never exceeds what the buffer holds: the buffer only grows
\* while an activation is suspended.
SnapshotIsPrefix == \A c \in Contexts : run[c].size <= Len(buffer[c])

IInv == /\ TypeOK /\ Charged /\ SnapshotIsPrefix
        /\ Ownership /\ DecisionByStage
        /\ WindowOwned /\ SamplingDecision

-----------------------------------------------------------------------------
(* The operators of the model *)

LEMMA ContextsOf ==
    ASSUME NEW b \in Batches
    PROVE  /\ Main(b) \in Contexts /\ Late(b) \in Contexts
           /\ Main(b) # Late(b)
           /\ Main(b)[1] = b /\ Late(b)[1] = b
  BY DEF Main, Late, Contexts

LEMMA ContextsDiffer ==
    ASSUME NEW b \in Batches, NEW d \in Batches, b # d
    PROVE  /\ Main(b) # Main(d) /\ Late(b) # Late(d)
           /\ Main(b) # Late(d) /\ Late(b) # Main(d)
  BY DEF Main, Late

LEMMA ContextShape ==
    ASSUME NEW c \in Contexts
    PROVE  \E b \in Batches : c = Main(b) \/ c = Late(b)
  BY DEF Main, Late, Contexts

LEMMA IdleType == Idle \in Activation
  <1>1. <<>> \in Seq(EntryRec)
    BY EmptySeq
  <1>2. QED
    BY <1>1 DEF Idle, Activation, Stages, Modes

LEMMA AtType ==
    ASSUME NEW stage \in Stages, NEW mode \in Modes, NEW size \in Nat,
           NEW synth \in Seq(EntryRec), NEW chained \in BOOLEAN
    PROVE  At(stage, mode, size, synth, chained) \in Activation
  BY DEF At, Activation

\* #reportTruncation changes notes only: the buffer keeps its length and the
\* types of its entries, and the entry it may create is a report.
Reports(synth) == \A i \in 1..Len(synth) : Kind(synth[i]) = Reporting

LEMMA NotedEffect ==
    ASSUME NEW buf \in Seq(EntryRec), NEW size \in Nat,
           NEW synth \in Seq(EntryRec), NEW count \in Nat, nextSeq \in Nat
    PROVE  LET noted == Noted(buf, size, synth, count) IN
           /\ noted.buffer \in Seq(EntryRec)
           /\ Len(noted.buffer) = Len(buf)
           /\ \A i \in 1..Len(buf) : Kind(noted.buffer[i]) = Kind(buf[i])
           /\ noted.synth \in Seq(EntryRec)
           /\ Reports(synth) => Reports(noted.synth)
  <1>1. \A e \in EntryRec : /\ [e EXCEPT !.note = count] \in EntryRec
                            /\ Kind([e EXCEPT !.note = count]) = Kind(e)
    BY DEF EntryRec, Kind
  <1>2. ASSUME synth # <<>>
        PROVE  /\ <<[synth[1] EXCEPT !.note = count]>> \in Seq(EntryRec)
               /\ Reports(synth) => Reports(<<[synth[1] EXCEPT !.note = count]>>)
    <2>1. Len(synth) \in Nat \ {0}
      BY <1>2, EmptySeq
    <2>2. synth[1] \in EntryRec
      BY <2>1, ElementOfSeq
    <2> DEFINE e == [synth[1] EXCEPT !.note = count]
    <2>3. e \in EntryRec /\ Kind(e) = Kind(synth[1])
      BY <2>2, <1>1
    <2>4. <<e>> \in Seq(EntryRec) /\ Len(<<e>>) = 1 /\ <<e>>[1] = e
      BY <2>3
    <2>5. Reports(synth) => Reports(<<e>>)
      <3> HIDE DEF e
      <3>1. \A i \in 1..Len(<<e>>) : Kind(<<e>>[i]) = Kind(synth[1])
        BY <2>3, <2>4
      <3>2. QED
        BY <2>1, <3>1 DEF Reports
    <2>6. QED
      BY <2>4, <2>5
  <1>3. ASSUME NEW k
        PROVE  LET new == [buf EXCEPT ![k].note = count] IN
               /\ new \in Seq(EntryRec)
               /\ Len(new) = Len(buf)
               /\ \A i \in 1..Len(buf) : Kind(new[i]) = Kind(buf[i])
    <2>1. CASE k \in 1..Len(buf)
      <3>1. buf[k] \in EntryRec
        BY <2>1, ElementOfSeq
      <3>2. [buf[k] EXCEPT !.note = count] \in EntryRec
        BY <3>1, <1>1
      <3>3. QED
        BY <2>1, <3>1, <3>2, <1>1, ExceptSeq
    <2>2. CASE k \notin 1..Len(buf)
      <3>1. DOMAIN buf = 1..Len(buf)
        BY LenProperties
      <3>2. [buf EXCEPT ![k].note = count] = buf
        BY <2>2, <3>1, LenProperties
      <3>3. QED
        BY <3>2
    <2>3. QED
      BY <2>1, <2>2
  <1>4. DEFINE report == [seq |-> nextSeq, type |-> Report, note |-> count, origin |-> "report"]
  <1>5. <<report>> \in Seq(EntryRec) /\ Reports(<<report>>)
    BY ConstantsAssumption DEF ConstantsAssumption, EntryRec, Reports, Kind, Reporting
  <1>6. CASE count = 0
    BY <1>6 DEF Noted
  <1>7. CASE count # 0 /\ synth # <<>> /\ Carriers(buf, size) = {}
    BY <1>7, <1>2 DEF Noted
  <1>8. CASE /\ count # 0
             /\ ~(synth # <<>> /\ Carriers(buf, size) = {})
             /\ size > 0
    <2>1. Noted(buf, size, synth, count) =
            [buffer |-> [buf EXCEPT ![FirstCarrier(buf, size)].note = count],
             synth |-> synth]
      BY <1>8 DEF Noted
    <2> DEFINE new == [buf EXCEPT ![FirstCarrier(buf, size)].note = count]
    <2>2. /\ new \in Seq(EntryRec) /\ Len(new) = Len(buf)
          /\ \A i \in 1..Len(buf) : Kind(new[i]) = Kind(buf[i])
      BY <1>3
    <2> HIDE DEF new
    <2>3. Noted(buf, size, synth, count) = [buffer |-> new, synth |-> synth]
      BY <2>1 DEF new
    <2>4. QED
      BY <2>2, <2>3
  <1>9. CASE /\ count # 0
             /\ ~(synth # <<>> /\ Carriers(buf, size) = {})
             /\ ~(size > 0)
    <2>1. Noted(buf, size, synth, count) = [buffer |-> buf, synth |-> <<report>>]
      BY <1>9 DEF Noted
    <2>2. QED
      BY <2>1, <1>5
  <1>10. QED
    BY <1>6, <1>7, <1>8, <1>9

\* A prefix or a suffix of a buffer is a sequence of entries.
LEMMA SliceType ==
    ASSUME NEW s \in Seq(EntryRec), NEW m \in Nat \ {0}, NEW n \in Nat,
           n <= Len(s)
    PROVE  SubSeq(s, m, n) \in Seq(EntryRec)
  <1>1. \A i \in m..n : s[i] \in EntryRec
    BY ElementOfSeq, LenProperties
  <1>2. QED
    BY <1>1, SubSeqProperties

-----------------------------------------------------------------------------
(* Counting the entries of a kind *)

Positions(kind, s) == {i \in 1..Len(s) : Kind(s[i]) = kind}

LEMMA PositionsFinite ==
    ASSUME NEW s \in Seq(EntryRec), NEW kind
    PROVE  /\ IsFiniteSet(Positions(kind, s))
           /\ KindCount(kind, s) = Cardinality(Positions(kind, s))
           /\ KindCount(kind, s) \in Nat
  <1>1. IsFiniteSet(1..Len(s))
    BY LenProperties, FS_Interval
  <1>2. Positions(kind, s) \in SUBSET (1..Len(s))
    BY DEF Positions
  <1>3. IsFiniteSet(Positions(kind, s))
    BY <1>1, <1>2, FS_Subset
  <1>4. KindCount(kind, s) = Cardinality(Positions(kind, s))
    BY DEF KindCount, Positions
  <1>5. QED
    BY <1>3, <1>4, FS_CardinalityType

\* Fewer of a type when its positions map injectively.
LEMMA CountByInjection ==
    ASSUME NEW s \in Seq(EntryRec), NEW u \in Seq(EntryRec), NEW kind,
           NEW f \in [Positions(kind, u) -> Positions(kind, s)],
           \A i, j \in Positions(kind, u) : f[i] = f[j] => i = j
    PROVE  KindCount(kind, u) <= KindCount(kind, s)
  <1>1. f \in Injection(Positions(kind, u), Positions(kind, s))
    BY DEF Injection, IsInjective
  <1>2. Cardinality(Positions(kind, u)) <= Cardinality(Positions(kind, s))
    BY <1>1, PositionsFinite, FS_Injection
  <1>3. QED
    BY <1>2, PositionsFinite

LEMMA CountEmpty ==
    ASSUME NEW kind
    PROVE  KindCount(kind, <<>>) = 0
  <1>1. {i \in 1..Len(<<>>) : Kind(<<>>[i]) = kind} = {}
    OBVIOUS
  <1>2. QED
    BY <1>1, FS_EmptySet DEF KindCount

LEMMA CountAppend ==
    ASSUME NEW s \in Seq(EntryRec), NEW e \in EntryRec, NEW kind
    PROVE  KindCount(kind, Append(s, e)) =
             IF Kind(e) = kind THEN KindCount(kind, s) + 1 ELSE KindCount(kind, s)
  <1>1. /\ Append(s, e) \in Seq(EntryRec)
        /\ Len(Append(s, e)) = Len(s) + 1
        /\ \A i \in 1..Len(s) : Append(s, e)[i] = s[i]
        /\ Append(s, e)[Len(s) + 1] = e
        /\ Len(s) \in Nat
    BY AppendProperties, LenProperties
  <1>2. Positions(kind, Append(s, e)) =
          IF Kind(e) = kind THEN Positions(kind, s) \cup {Len(s) + 1}
                        ELSE Positions(kind, s)
    BY <1>1 DEF Positions
  <1>3. Len(s) + 1 \notin Positions(kind, s)
    BY <1>1 DEF Positions
  <1>4. Cardinality(Positions(kind, s) \cup {Len(s) + 1})
          = Cardinality(Positions(kind, s)) + 1
    BY <1>3, PositionsFinite, FS_AddElement
  <1>5. QED
    BY <1>1, <1>2, <1>4, PositionsFinite

LEMMA CountSlice ==
    ASSUME NEW s \in Seq(EntryRec), NEW m \in Nat \ {0}, NEW n \in Nat,
           n <= Len(s), NEW kind
    PROVE  KindCount(kind, SubSeq(s, m, n)) <= KindCount(kind, s)
  <1> DEFINE u == SubSeq(s, m, n)
             f == [i \in Positions(kind, u) |-> m + i - 1]
  <1>1. /\ u \in Seq(EntryRec)
        /\ Len(u) = IF m <= n THEN n - m + 1 ELSE 0
        /\ \A i \in 1..(n - m + 1) : u[i] = s[m + i - 1]
    <2>1. \A i \in m..n : s[i] \in EntryRec
      BY ElementOfSeq, LenProperties
    <2>2. QED
      BY <2>1, SubSeqProperties
  <1>2. Len(s) \in Nat
    BY LenProperties
  <1>3. \A i \in Positions(kind, u) : m + i - 1 \in Positions(kind, s)
    BY <1>1, <1>2 DEF Positions
  <1>4. f \in [Positions(kind, u) -> Positions(kind, s)]
    BY <1>3
  <1>5. \A i, j \in Positions(kind, u) : f[i] = f[j] => i = j
    BY <1>1 DEF Positions
  <1>6. QED
    BY <1>1, <1>4, <1>5, CountByInjection

\* Entries of another type in front do not count.
LEMMA CountPrefixed ==
    ASSUME NEW s \in Seq(EntryRec), NEW p \in Seq(EntryRec), NEW kind,
           \A i \in 1..Len(p) : Kind(p[i]) # kind
    PROVE  KindCount(kind, p \o s) <= KindCount(kind, s)
  <1> DEFINE u == p \o s
             f == [i \in Positions(kind, u) |-> i - Len(p)]
  <1>1. /\ u \in Seq(EntryRec)
        /\ Len(u) = Len(p) + Len(s)
        /\ \A i \in 1..(Len(p) + Len(s)) :
              u[i] = IF i <= Len(p) THEN p[i] ELSE s[i - Len(p)]
    BY ConcatProperties
  <1>2. Len(s) \in Nat /\ Len(p) \in Nat
    BY LenProperties
  <1>3. \A i \in Positions(kind, u) : i - Len(p) \in Positions(kind, s)
    BY <1>1, <1>2 DEF Positions
  <1>4. f \in [Positions(kind, u) -> Positions(kind, s)]
    BY <1>3
  <1>5. \A i, j \in Positions(kind, u) : f[i] = f[j] => i = j
    BY <1>1, <1>2 DEF Positions
  <1>6. QED
    BY <1>1, <1>4, <1>5, CountByInjection

LEMMA CountSameKinds ==
    ASSUME NEW s \in Seq(EntryRec), NEW u \in Seq(EntryRec), NEW kind,
           Len(u) = Len(s), \A i \in 1..Len(s) : Kind(u[i]) = Kind(s[i])
    PROVE  KindCount(kind, u) = KindCount(kind, s)
  <1>1. Positions(kind, u) = Positions(kind, s)
    BY DEF Positions
  <1>2. QED
    BY <1>1, PositionsFinite

LEMMA KindsDiffer ==
    /\ \A t : Recorded(t) # Reporting
    /\ \A t, u : Recorded(t) = Recorded(u) => t = u
  BY DEF Recorded, Reporting

\* What was charged stays charged when there is less of it.
LEMMA FewerFit ==
    ASSUME NEW s \in Seq(EntryRec), NEW u \in Seq(EntryRec), NEW t \in Types,
           NEW charged \in [Types -> Nat], Fits(t, s, charged),
           KindCount(Recorded(t), u) <= KindCount(Recorded(t), s)
    PROVE  Fits(t, u, charged)
  <1>1. /\ KindCount(Recorded(t), s) \in Nat /\ KindCount(Recorded(t), u) \in Nat
        /\ charged[t] \in Nat /\ Cap[t] \in Nat
    BY PositionsFinite, ConstantsAssumption DEF ConstantsAssumption
  <1>2. QED
    BY <1>1 DEF Fits

LEMMA NothingFits ==
    ASSUME NEW t \in Types, NEW charged \in [Types -> Nat]
    PROVE  Fits(t, <<>>, charged)
  BY CountEmpty, ConstantsAssumption DEF ConstantsAssumption, Fits

\* A counter charges accepted entries of its type, and reports of its type as well.
LEMMA RecountCharges ==
    ASSUME NEW s \in Seq(EntryRec), NEW t \in Types
    PROVE  Recount(s)[t] \in Nat /\ KindCount(Recorded(t), s) <= Recount(s)[t]
  <1> DEFINE ofType == {i \in 1..Len(s) : s[i].type = t}
  <1>1. IsFiniteSet(ofType)
    <2>1. ofType \subseteq 1..Len(s)
      OBVIOUS
    <2>2. IsFiniteSet(1..Len(s))
      BY LenProperties, FS_Interval
    <2>3. QED
      BY <2>1, <2>2, FS_Subset
  <1>2. Positions(Recorded(t), s) \subseteq ofType
    <2>1. \A i \in 1..Len(s) : Kind(s[i]) = Recorded(t) => s[i].type = t
      BY ElementOfSeq DEF Kind, Recorded, EntryRec
    <2>2. QED
      BY <2>1 DEF Positions
  <1>3. Recount(s)[t] = Cardinality(ofType)
    BY DEF Recount, CountOf
  <1>4. QED
    BY <1>1, <1>2, <1>3, PositionsFinite, FS_Subset, FS_CardinalityType

-----------------------------------------------------------------------------
(* What a call of #flushContext does before its first await *)

LEMMA FlushContextEffect ==
    ASSUME TypeOK, NEW c \in Contexts, NEW mode \in Modes,
           NEW chained \in BOOLEAN, FlushContext(c, mode, chained)
    PROVE  /\ buffer' \in [Contexts -> Seq(EntryRec)]
           /\ \A d \in Contexts, t \in Types :
                 KindCount(Recorded(t), buffer'[d]) <= KindCount(Recorded(t), buffer[d])
           /\ truncated' \in [Contexts -> Nat]
           /\ nextSeq' \in Nat
           /\ \E stage \in {"tags", "saving", "returned"}, size \in Nat,
                 synth \in Seq(EntryRec), decision \in {"pending", "kept", "dropped"} :
                 /\ Reports(synth)
                 /\ size <= Len(buffer'[c])
                 /\ run' = [run EXCEPT ![c] = At(stage, mode, size, synth, chained)]
                 /\ retention' = [retention EXCEPT ![c] = decision]
                 /\ ~Undecided(c) => decision = retention[c]
                 /\ stage = "tags" => Undecided(c) /\ decision = "pending"
                 /\ stage = "saving" => sampled[c[1]] \/ decision = "kept"
                 /\ stage = "returned" /\ mode = "final"
                       => sampled[c[1]] \/ decision # "pending"
  <1> DEFINE size == Len(buffer[c])
             noted == Noted(buffer[c], size, <<>>, truncated[c])
             empty == size = 0 /\ noted.synth = <<>>
             Outcome(stage, n, synth, decision) ==
                 /\ Reports(synth)
                 /\ n <= Len(buffer'[c])
                 /\ run' = [run EXCEPT ![c] = At(stage, mode, n, synth, chained)]
                 /\ retention' = [retention EXCEPT ![c] = decision]
                 /\ ~Undecided(c) => decision = retention[c]
                 /\ stage = "tags" => Undecided(c) /\ decision = "pending"
                 /\ stage = "saving" => sampled[c[1]] \/ decision = "kept"
                 /\ stage = "returned" /\ mode = "final"
                       => sampled[c[1]] \/ decision # "pending"
  <1>1. /\ size \in Nat
        /\ buffer[c] \in Seq(EntryRec)
        /\ <<>> \in Seq(EntryRec) /\ Reports(<<>>)
    BY EmptySeq, LenProperties DEF TypeOK, Reports
  <1>2. /\ noted.buffer \in Seq(EntryRec)
        /\ noted.synth \in Seq(EntryRec)
        /\ Len(noted.synth) \in Nat
        /\ Reports(noted.synth)
        /\ Len(noted.buffer) = size
        /\ \A kind : KindCount(kind, noted.buffer) = KindCount(kind, buffer[c])
    <2>1. truncated[c] \in Nat /\ nextSeq \in Nat
      BY DEF TypeOK
    <2> DEFINE n == Noted(buffer[c], size, <<>>, truncated[c])
    <2>e. /\ n.buffer \in Seq(EntryRec)
          /\ Len(n.buffer) = Len(buffer[c])
          /\ \A i \in 1..Len(buffer[c]) : Kind(n.buffer[i]) = Kind(buffer[c][i])
          /\ n.synth \in Seq(EntryRec)
          /\ Reports(<<>>) => Reports(n.synth)
      <3> HIDE DEF size
      <3> QED BY <1>1, <2>1, NotedEffect
    <2>2. /\ noted.buffer \in Seq(EntryRec) /\ noted.synth \in Seq(EntryRec)
          /\ Reports(noted.synth)
          /\ Len(noted.buffer) = Len(buffer[c])
          /\ \A i \in 1..Len(buffer[c]) : Kind(noted.buffer[i]) = Kind(buffer[c][i])
      BY <1>1, <2>e
    <2>3. \A kind : KindCount(kind, noted.buffer) = KindCount(kind, buffer[c])
      BY <1>1, <2>2, CountSameKinds
    <2>4. QED
      BY <2>2, <2>3, LenProperties
  <1>3. /\ retention \in [Contexts -> {"pending", "kept", "dropped"}]
        /\ retention = [retention EXCEPT ![c] = retention[c]]
    BY DEF TypeOK
  <1>c. /\ \A d \in Contexts : buffer[d] \in Seq(EntryRec)
        /\ \A d \in Contexts, t \in Types :
              KindCount(Recorded(t), buffer[d]) <= KindCount(Recorded(t), buffer[d])
        /\ \A kind : KindCount(kind, <<>>) <= KindCount(kind, buffer[c])
    <2>1. \A d \in Contexts : buffer[d] \in Seq(EntryRec)
      BY DEF TypeOK
    <2>2. \A d \in Contexts, t \in Types : KindCount(Recorded(t), buffer[d]) \in Nat
      BY <2>1, PositionsFinite
    <2>3. \A kind : KindCount(kind, buffer[c]) \in Nat /\ KindCount(kind, <<>>) = 0
      BY <2>1, PositionsFinite, CountEmpty
    <2>4. QED
      BY <2>1, <2>2, <2>3
  <1>l. /\ 0 <= Len(buffer[c]) /\ 0 <= Len(<<>>)
        /\ \A s : [buffer EXCEPT ![c] = s][c] = s
        /\ size <= size
    BY <1>1 DEF TypeOK
  <1>4. CASE /\ Undecided(c) /\ mode = "intermediate"
             /\ run' = [run EXCEPT ![c] = At("returned", mode, 0, <<>>, chained)]
             /\ UNCHANGED <<retention, buffer, truncated, nextSeq>>
    <2>1. Outcome("returned", 0, <<>>, "pending")
      BY <1>1, <1>l, <1>3, <1>4 DEF Undecided
    <2>2. QED
      BY <2>1, <1>1, <1>c, <1>4 DEF TypeOK
  <1>5. CASE /\ ~(Undecided(c) /\ mode = "intermediate")
             /\ TakeTruncated(c)
             /\ nextSeq' = nextSeq + Len(noted.synth)
    <2>1. truncated' \in [Contexts -> Nat] /\ nextSeq' \in Nat
      BY <1>2, <1>5 DEF TypeOK, TakeTruncated
    <2>2. CASE /\ empty
               /\ retention' = IF Undecided(c)
                               THEN [retention EXCEPT ![c] = "dropped"]
                               ELSE retention
               /\ run' = [run EXCEPT ![c] = At("returned", mode, 0, <<>>, chained)]
               /\ UNCHANGED buffer
      <3>1. CASE Undecided(c)
        <4>1. Outcome("returned", 0, <<>>, "dropped")
          BY <1>1, <1>l, <2>2, <3>1
        <4>2. QED
          BY <4>1, <1>1, <1>c, <2>1, <2>2 DEF TypeOK
      <3>2. CASE ~Undecided(c)
        <4>1. Outcome("returned", 0, <<>>, retention[c])
          BY <1>1, <1>3, <1>l, <2>2, <3>2 DEF Undecided, TypeOK
        <4>2. QED
          BY <4>1, <1>1, <1>3, <1>c, <2>1, <2>2 DEF TypeOK
      <3>3. QED
        BY <3>1, <3>2
    <2>3. CASE /\ ~sampled[c[1]] /\ retention[c] = "dropped"
               /\ buffer' = [buffer EXCEPT ![c] = <<>>]
               /\ run' = [run EXCEPT ![c] = At("returned", mode, 0, <<>>, chained)]
               /\ UNCHANGED retention
      <3>1. Outcome("returned", 0, <<>>, "dropped")
        BY <1>1, <1>3, <1>l, <2>3 DEF Undecided
      <3>2. QED
        BY <3>1, <1>1, <1>c, <2>1, <2>3 DEF TypeOK
    <2>4. CASE /\ Undecided(c)
               /\ buffer' = [buffer EXCEPT ![c] = noted.buffer]
               /\ retention' = [retention EXCEPT ![c] = "kept"]
               /\ run' = [run EXCEPT ![c] =
                             At("saving", mode, size, noted.synth, chained)]
      <3>1. Outcome("saving", size, noted.synth, "kept")
        BY <1>1, <1>l, <1>2, <2>4
      <3>2. QED
        BY <3>1, <1>1, <1>2, <1>c, <2>1, <2>4 DEF TypeOK
    <2>5. CASE /\ Undecided(c)
               /\ buffer' = [buffer EXCEPT ![c] = noted.buffer]
               /\ UNCHANGED retention
               /\ run' = [run EXCEPT ![c] =
                             At("tags", mode, size, noted.synth, chained)]
      <3>1. Outcome("tags", size, noted.synth, "pending")
        BY <1>1, <1>l, <1>2, <1>3, <2>5 DEF Undecided
      <3>2. QED
        BY <3>1, <1>1, <1>2, <1>c, <2>1, <2>5 DEF TypeOK
    <2>6. CASE /\ sampled[c[1]] \/ retention[c] = "kept"
               /\ buffer' = [buffer EXCEPT ![c] = noted.buffer]
               /\ UNCHANGED retention
               /\ run' = [run EXCEPT ![c] =
                             At("saving", mode, size, noted.synth, chained)]
      <3>1. size <= Len(buffer'[c]) /\ Reports(noted.synth)
        BY <1>1, <1>l, <1>2, <2>6
      <3>2. retention' = [retention EXCEPT ![c] = retention[c]]
        BY <1>3, <2>6
      <3>3. Outcome("saving", size, noted.synth, retention[c])
        <4> HIDE DEF size, noted
        <4> QED BY <3>1, <3>2, <2>6
      <3>4. /\ buffer' \in [Contexts -> Seq(EntryRec)]
            /\ \A d \in Contexts, t \in Types :
                  KindCount(Recorded(t), buffer'[d]) <= KindCount(Recorded(t), buffer[d])
        BY <1>2, <1>c, <2>6 DEF TypeOK
      <3>5. retention[c] \in {"pending", "kept", "dropped"}
        BY <1>3
      <3>6. size \in Nat /\ noted.synth \in Seq(EntryRec) /\ "saving" \in {"tags", "saving", "returned"}
        BY <1>1, <1>2
      <3>7. QED
        <4> HIDE DEF size, noted
        <4> QED BY <2>1, <3>3, <3>4, <3>5, <3>6
    <2>7. QED
      BY <1>5, <2>2, <2>3, <2>4, <2>5, <2>6 DEF FlushContext
  <1>6. QED
    BY <1>4, <1>5 DEF FlushContext

-----------------------------------------------------------------------------
(* The invariant holds initially *)

LEMMA InitIInv == Init => IInv
  <1> SUFFICES ASSUME Init PROVE IInv
    OBVIOUS
  <1> USE ConstantsAssumption
  <1>1. TypeOK
    <2>1. <<>> \in Seq(EntryRec) /\ <<>> \in Seq(Modes)
      BY EmptySeq
    <2>2. QED
      BY <2>1, IdleType DEF Init, TypeOK
  <1>2. Charged
    <2>1. \A c \in Contexts, t \in Types : Fits(t, buffer[c], counters[c])
      BY NothingFits DEF Init
    <2>2. QED
      BY <2>1 DEF Init, Charged, Idle
  <1>3. Ownership
    BY ContextsOf DEF Init, Ownership, OwnedBy, Idle
  <1>4. DecisionByStage
    BY DEF Init, DecisionByStage, Idle
  <1>5. WindowOwned
    BY DEF Init, WindowOwned
  <1>6. SamplingDecision
    BY ContextsOf DEF Init, SamplingDecision
  <1>7. SnapshotIsPrefix
    BY DEF Init, SnapshotIsPrefix, Idle
  <1>8. QED
    BY <1>1, <1>2, <1>3, <1>4, <1>5, <1>6, <1>7 DEF IInv

-----------------------------------------------------------------------------
(* Recording preserves it *)

LEMMA RecordingContextOf ==
    ASSUME NEW b \in Batches
    PROVE  /\ RecordingContext(b) \in Contexts
           /\ RecordingContext(b)[1] = b
  BY ContextsOf DEF RecordingContext

LEMMA ContinuePreserves ==
    ASSUME TypeOK, Ownership, DecisionByStage, SamplingDecision,
           NEW b \in Batches, Continue(b),
           UNCHANGED <<sampled, phase, flushing, stored>>
    PROVE  /\ continued' \in [Batches -> BOOLEAN]
           /\ retention' \in [Contexts -> {"pending", "kept", "dropped"}]
           /\ Ownership' /\ DecisionByStage' /\ SamplingDecision'
  <1> USE ContextsOf
  <1>1. CASE ~(phase[b] = "closed" /\ ~continued[b])
    <2>1. UNCHANGED <<continued, retention>>
      BY <1>1 DEF Continue
    <2>2. QED
      BY <2>1 DEF TypeOK, flushing, Ownership, OwnedBy, DecisionByStage, SamplingDecision
  <1>2. CASE phase[b] = "closed" /\ ~continued[b]
    <2>1. /\ continued' = [continued EXCEPT ![b] = TRUE]
          /\ retention' = [retention EXCEPT ![Late(b)] = retention[Main(b)]]
      BY <1>2 DEF Continue
    <2>2. run[Late(b)] = Idle
      BY <1>2 DEF Ownership, OwnedBy
    <2>3. Ownership'
      BY <1>2, <2>1 DEF TypeOK, flushing, Ownership, OwnedBy
    <2>4. DecisionByStage'
      BY <2>1, <2>2 DEF TypeOK, flushing, DecisionByStage, Idle
    <2>5. SamplingDecision'
      BY <2>1, ContextsDiffer DEF TypeOK, flushing, SamplingDecision
    <2>6. QED
      BY <2>1, <2>3, <2>4, <2>5 DEF TypeOK
  <1>3. QED
    BY <1>1, <1>2

LEMMA AcceptPreserves ==
    ASSUME IInv, NEW b \in Batches, NEW t \in Types, Accept(b, t)
    PROVE  IInv'
  <1> DEFINE c == RecordingContext(b)
             e == [seq |-> nextSeq, type |-> t, note |-> 0, origin |-> "record"]
  <1> USE ConstantsAssumption DEF IInv
  <1>1. /\ c \in Contexts
        /\ e \in EntryRec
        /\ buffer[c] \in Seq(EntryRec)
        /\ counters[c] \in [Types -> Nat]
        /\ counters[c][t] < Cap[t]
        /\ buffer' = [buffer EXCEPT ![c] = Append(@, e)]
        /\ counters' = [counters EXCEPT ![c][t] = @ + 1]
        /\ nextSeq' = nextSeq + 1
    BY RecordingContextOf DEF Accept, Room, TypeOK, EntryRec
  <1>2. UNCHANGED <<sampled, phase, truncated, flushing, stored, history>>
    BY DEF Accept
  <1>3. /\ continued' \in [Batches -> BOOLEAN]
        /\ retention' \in [Contexts -> {"pending", "kept", "dropped"}]
        /\ Ownership' /\ DecisionByStage' /\ SamplingDecision'
    BY <1>2, ContinuePreserves DEF Accept
  <1> HIDE DEF c, e
  <1>4. TypeOK'
    <2>1. buffer' \in [Contexts -> Seq(EntryRec)]
      BY <1>1, AppendProperties DEF TypeOK
    <2>2. counters' \in [Contexts -> [Types -> Nat]]
      BY <1>1 DEF TypeOK
    <2>3. nextSeq' \in Nat
      BY <1>1 DEF TypeOK
    <2>4. QED
      BY <1>2, <1>3, <2>1, <2>2, <2>3 DEF TypeOK, flushing, history
  <1>5. Charged'
    <2>1. ASSUME NEW d \in Contexts, NEW u \in Types
          PROVE  Fits(u, buffer'[d], counters'[d])
      <3>1. CASE d = c
        <4>1. /\ buffer'[d] = Append(buffer[c], e)
              /\ counters'[d] = [counters[c] EXCEPT ![t] = @ + 1]
          BY <1>1, <3>1 DEF TypeOK
        <4>2. /\ KindCount(Recorded(u), buffer[c]) \in Nat /\ Fits(u, buffer[c], counters[c])
              /\ counters[c][u] \in Nat /\ Cap[u] \in Nat
          BY <1>1, PositionsFinite DEF Charged
        <4>3. KindCount(Recorded(u), Append(buffer[c], e)) =
                IF u = t THEN KindCount(Recorded(u), buffer[c]) + 1
                         ELSE KindCount(Recorded(u), buffer[c])
          <5>1. Kind(e) = Recorded(t)
            BY DEF e, Kind, Recorded
          <5>2. QED
            BY <1>1, <5>1, CountAppend, KindsDiffer
        <4>4. counters'[d][u] = IF u = t THEN counters[c][u] + 1 ELSE counters[c][u]
          BY <1>1, <4>1
        <4>5. KindCount(Recorded(u), buffer[c]) <= counters[c][u]
              /\ KindCount(Recorded(u), buffer[c]) <= Cap[u]
          BY <4>2 DEF Fits
        <4>6. counters[c][t] + 1 <= Cap[t]
          BY <1>1
        <4>7. KindCount(Recorded(u), Append(buffer[c], e)) <= counters'[d][u]
          BY <4>2, <4>3, <4>4, <4>5
        <4>8. KindCount(Recorded(u), Append(buffer[c], e)) <= Cap[u]
          BY <4>2, <4>3, <4>5, <4>6
        <4>9. QED
          BY <4>1, <4>7, <4>8 DEF Fits
      <3>2. CASE d # c
        BY <1>1, <3>2 DEF Charged, TypeOK
      <3>3. QED
        BY <3>1, <3>2
    <2>2. QED
      BY <1>2, <2>1 DEF Charged, flushing
  <1>6. SnapshotIsPrefix'
    <2>1. Len(buffer[c]) \in Nat /\ Len(Append(buffer[c], e)) = Len(buffer[c]) + 1
      BY <1>1, LenProperties, AppendProperties
    <2>2. \A d \in Contexts : run[d].size \in Nat
      BY DEF TypeOK, Activation
    <2>3. QED
      BY <1>1, <1>2, <2>1, <2>2 DEF SnapshotIsPrefix, TypeOK, flushing
  <1>7. WindowOwned'
    BY <1>2 DEF WindowOwned, flushing
  <1>8. QED
    BY <1>3, <1>4, <1>5, <1>6, <1>7

LEMMA RefusePreserves ==
    ASSUME IInv, NEW b \in Batches, NEW t \in Types, Refuse(b, t)
    PROVE  IInv'
  <1> USE ConstantsAssumption DEF IInv
  <1>1. /\ RecordingContext(b) \in Contexts
        /\ truncated' = [truncated EXCEPT ![RecordingContext(b)] = @ + 1]
        /\ dropped' = [dropped EXCEPT ![b] = @ + 1]
    BY RecordingContextOf DEF Refuse
  <1>2. UNCHANGED <<sampled, phase, buffer, counters, flushing, stored, nextSeq, failures>>
    BY DEF Refuse
  <1>3. /\ continued' \in [Batches -> BOOLEAN]
        /\ retention' \in [Contexts -> {"pending", "kept", "dropped"}]
        /\ Ownership' /\ DecisionByStage' /\ SamplingDecision'
    BY <1>2, ContinuePreserves DEF Refuse
  <1>4. TypeOK'
    <2>1. truncated' \in [Contexts -> Nat] /\ dropped' \in [Batches -> Nat]
      BY <1>1 DEF TypeOK
    <2>2. QED
      BY <1>2, <1>3, <2>1 DEF TypeOK, flushing
  <1>5. Charged' /\ SnapshotIsPrefix' /\ WindowOwned'
    BY <1>2 DEF Charged, SnapshotIsPrefix, WindowOwned, flushing
  <1>6. QED
    BY <1>3, <1>4, <1>5

LEMMA FlushPreserves ==
    ASSUME IInv, NEW b \in Batches, NEW mode \in Modes, Flush(b, mode)
    PROVE  IInv'
  <1> USE DEF IInv
  <1>1. /\ queue' = [queue EXCEPT ![b] = Append(@, mode)]
        /\ UNCHANGED <<sampled, context, run, armed, stored, nextSeq, history>>
    BY DEF Flush
  <1>2. /\ queue' \in [Batches -> Seq(Modes)]
        /\ \A d \in Batches : queue[d] # <<>> => queue'[d] # <<>>
    <2>1. queue[b] \in Seq(Modes)
      BY DEF TypeOK
    <2>2. Append(queue[b], mode) \in Seq(Modes) /\ Append(queue[b], mode) # <<>>
      BY <2>1, AppendProperties
    <2>3. QED
      BY <1>1, <2>2 DEF TypeOK
  <1>3. TypeOK'
    BY <1>1, <1>2 DEF TypeOK, context, history
  <1>4. Ownership'
    BY <1>1, <1>2 DEF Ownership, OwnedBy, context
  <1>5. /\ Charged' /\ SnapshotIsPrefix' /\ DecisionByStage'
        /\ WindowOwned' /\ SamplingDecision'
    BY <1>1 DEF Charged, SnapshotIsPrefix, DecisionByStage, WindowOwned,
                SamplingDecision, context
  <1>6. QED
    BY <1>3, <1>4, <1>5

-----------------------------------------------------------------------------
(* Entering #flushContext preserves it *)

\* A step of one batch disturbs the ownership of that batch only.
LEMMA OwnershipStep ==
    ASSUME Ownership, NEW b \in Batches, OwnedBy(b)',
           \A d \in Batches \ {b} :
              /\ run'[Main(d)] = run[Main(d)] /\ run'[Late(d)] = run[Late(d)]
              /\ queue'[d] = queue[d] /\ phase'[d] = phase[d]
              /\ continued'[d] = continued[d]
    PROVE  Ownership'
  BY DEF Ownership, OwnedBy

\* What entering #flushContext on a context of a batch does to the invariant,
\* whatever happens to the window and to the chain at the same step.
LEMMA EnterPreserves ==
    ASSUME IInv, NEW b \in Batches, NEW c \in {Main(b), Late(b)},
           c = Late(b) => continued[b],
           NEW mode \in Modes, NEW chained \in BOOLEAN,
           FlushContext(c, mode, chained),
           UNCHANGED <<sampled, continued, counters, stored>>,
           \A d \in Batches : phase'[d] # "open" =>
              phase[d] # "open" \/ (d = b /\ phase[b] = "closed")
    PROVE  /\ buffer' \in [Contexts -> Seq(EntryRec)]
           /\ retention' \in [Contexts -> {"pending", "kept", "dropped"}]
           /\ truncated' \in [Contexts -> Nat]
           /\ nextSeq' \in Nat
           /\ run' \in [Contexts -> Activation]
           /\ \A d \in Contexts : d # c => run'[d] = run[d]
           /\ run'[c].chained = chained
           /\ Charged' /\ SnapshotIsPrefix'
           /\ DecisionByStage' /\ SamplingDecision'
  <1> USE DEF IInv
  <1>1. c \in Contexts /\ c[1] = b
    BY ContextsOf
  <1>2. PICK stage \in {"tags", "saving", "returned"}, size \in Nat,
             synth \in Seq(EntryRec), decision \in {"pending", "kept", "dropped"} :
          /\ Reports(synth)
          /\ size <= Len(buffer'[c])
          /\ run' = [run EXCEPT ![c] = At(stage, mode, size, synth, chained)]
          /\ retention' = [retention EXCEPT ![c] = decision]
          /\ ~Undecided(c) => decision = retention[c]
          /\ stage = "tags" => Undecided(c) /\ decision = "pending"
          /\ stage = "saving" => sampled[c[1]] \/ decision = "kept"
          /\ stage = "returned" /\ mode = "final"
                => sampled[c[1]] \/ decision # "pending"
    <2>1. TypeOK /\ FlushContext(c, mode, chained)
      OBVIOUS
    <2> HIDE DEF IInv
    <2>2. QED
      BY <1>1, <2>1, FlushContextEffect
  <1>3. /\ buffer' \in [Contexts -> Seq(EntryRec)]
        /\ \A d \in Contexts, t \in Types :
              KindCount(Recorded(t), buffer'[d]) <= KindCount(Recorded(t), buffer[d])
        /\ truncated' \in [Contexts -> Nat]
        /\ nextSeq' \in Nat
        /\ \A d \in Contexts : d # c => buffer'[d] = buffer[d]
    <2>1. \A d \in Contexts : d # c => buffer'[d] = buffer[d]
      BY DEF FlushContext, TypeOK
    <2>2. QED
      BY <1>1, <2>1, FlushContextEffect
  <1> DEFINE a == At(stage, mode, size, synth, chained)
  <1>4. /\ a \in Activation
        /\ a.stage = stage /\ a.mode = mode /\ a.size = size
        /\ a.synth = synth /\ a.chained = chained
    BY AtType DEF At, Stages
  <1> HIDE DEF a
  <1>5. /\ run' \in [Contexts -> Activation]
        /\ run'[c] = a
        /\ \A d \in Contexts : d # c => run'[d] = run[d]
        /\ retention' \in [Contexts -> {"pending", "kept", "dropped"}]
        /\ retention'[c] = decision
        /\ \A d \in Contexts : d # c => retention'[d] = retention[d]
    BY <1>1, <1>2, <1>4 DEF TypeOK, a
  <1>6. Charged'
    <2>1. ASSUME NEW d \in Contexts, NEW t \in Types
          PROVE  Fits(t, buffer'[d], counters'[d])
      <3>1. /\ KindCount(Recorded(t), buffer'[d]) <= KindCount(Recorded(t), buffer[d])
            /\ Fits(t, buffer[d], counters[d]) /\ counters'[d] = counters[d]
        BY <1>3 DEF Charged
      <3>2. /\ buffer'[d] \in Seq(EntryRec) /\ buffer[d] \in Seq(EntryRec)
            /\ counters[d] \in [Types -> Nat]
        BY <1>3 DEF TypeOK
      <3>3. QED
        BY <3>1, <3>2, FewerFit
    <2>2. ASSUME NEW d \in Contexts
          PROVE  \A i \in 1..Len(run'[d].synth) : Kind(run'[d].synth[i]) = Reporting
      BY <1>2, <1>4, <1>5 DEF Charged, Reports
    <2>3. QED
      BY <2>1, <2>2 DEF Charged
  <1>7. SnapshotIsPrefix'
    BY <1>2, <1>3, <1>4, <1>5 DEF SnapshotIsPrefix
  <1>8. DecisionByStage'
    <2>1. ASSUME NEW d \in Contexts, ~sampled[d[1]], d = c
          PROVE  /\ a.stage = "tags" => decision = "pending"
                 /\ a.stage \in {"saving", "trimming"} => decision = "kept"
                 /\ a.stage = "returned" /\ a.mode = "final" => decision # "pending"
      BY <1>2, <1>4, <2>1
    <2>2. QED
      BY <1>5, <2>1 DEF DecisionByStage
  <1>9. SamplingDecision'
    <2>1. ASSUME NEW d \in Batches, ~sampled[d]
          PROVE  /\ stored[d] # <<>> => retention'[Main(d)] = "kept"
                 /\ phase'[d] # "open" => retention'[Main(d)] # "pending"
                 /\ continued[d] => retention'[Late(d)] = retention'[Main(d)]
      <3>1. CASE d # b
        BY <1>5, <2>1, <3>1, ContextsOf, ContextsDiffer DEF SamplingDecision
      <3>2. CASE d = b /\ c = Main(b)
        <4>1. retention[Main(b)] # "pending" => decision = retention[Main(b)]
          BY <1>2, <3>2 DEF Undecided
        <4>2. continued[b] => phase[b] # "open"
          BY DEF Ownership, OwnedBy
        <4>3. phase'[b] # "open" => phase[b] # "open"
          OBVIOUS
        <4>4. QED
          BY <1>5, <2>1, <3>2, <4>1, <4>2, <4>3, ContextsOf DEF SamplingDecision
      <3>3. CASE d = b /\ c = Late(b)
        <4>1. continued[b] /\ phase[b] # "open"
          BY <3>3 DEF Ownership, OwnedBy
        <4>2. retention[Late(b)] = retention[Main(b)] /\ retention[Main(b)] # "pending"
          BY <2>1, <3>3, <4>1 DEF SamplingDecision
        <4>3. decision = retention[Late(b)]
          BY <1>2, <3>3, <4>2 DEF Undecided
        <4>4. QED
          BY <1>5, <2>1, <3>3, <4>2, <4>3, ContextsOf DEF SamplingDecision
      <3>4. QED
        BY <3>1, <3>2, <3>3
    <2>2. QED
      BY <2>1 DEF SamplingDecision
  <1>10. QED
    BY <1>3, <1>4, <1>5, <1>6, <1>7, <1>8, <1>9

LEMMA TailOfQueue ==
    ASSUME TypeOK, NEW b \in Batches, queue[b] # <<>>
    PROVE  [queue EXCEPT ![b] = Tail(@)] \in [Batches -> Seq(Modes)]
  <1>1. Tail(queue[b]) \in Seq(Modes)
    BY HeadTailProperties DEF TypeOK
  <1>2. QED
    BY <1>1 DEF TypeOK

LEMMA HeadOfQueue ==
    ASSUME TypeOK, NEW b \in Batches, queue[b] # <<>>
    PROVE  Head(queue[b]) \in Modes
  BY HeadTailProperties DEF TypeOK

\* Ending a window: no activation of the continuation was possible before.
LEMMA FinishPreserves ==
    ASSUME TypeOK, WindowOwned, NEW b \in Batches, Finish(b)
    PROVE  /\ phase' \in [Batches -> {"open", "closed", "finished"}]
           /\ armed' \in [Batches -> BOOLEAN]
           /\ phase'[b] = "finished"
           /\ \A d \in Batches : d # b => phase'[d] = phase[d]
           /\ WindowOwned'
  BY DEF TypeOK, WindowOwned, Finish

LEMMA StartFlushPreserves ==
    ASSUME IInv, NEW b \in Batches, StartFlush(b)
    PROVE  IInv'
  <1> USE DEF IInv
  <1> DEFINE mode == Head(queue[b])
             expires == mode = "final" /\ phase[b] = "closed"
  <1>1. /\ queue[b] # <<>> /\ mode \in Modes
        /\ run[Main(b)] = Idle /\ ~run[Late(b)].chained
        /\ Main(b) \in Contexts /\ Late(b) \in Contexts /\ Main(b) # Late(b)
        /\ UNCHANGED <<sampled, continued, counters, stored, history>>
    BY HeadOfQueue, ContextsOf DEF StartFlush, Quiet
  <1>2. CASE expires /\ continued[b]
    <2>1. /\ Finish(b) /\ FlushContext(Late(b), "final", TRUE)
          /\ queue' = queue
      BY <1>2 DEF StartFlush, FlushContinuation
    <2>2. /\ phase' \in [Batches -> {"open", "closed", "finished"}]
          /\ armed' \in [Batches -> BOOLEAN]
          /\ phase'[b] = "finished"
          /\ \A d \in Batches : d # b => phase'[d] = phase[d]
          /\ WindowOwned'
      BY <2>1, FinishPreserves
    <2>3. /\ buffer' \in [Contexts -> Seq(EntryRec)]
          /\ retention' \in [Contexts -> {"pending", "kept", "dropped"}]
          /\ truncated' \in [Contexts -> Nat]
          /\ nextSeq' \in Nat
          /\ run' \in [Contexts -> Activation]
          /\ \A d \in Contexts : d # Late(b) => run'[d] = run[d]
          /\ run'[Late(b)].chained = TRUE
          /\ Charged' /\ SnapshotIsPrefix'
          /\ DecisionByStage' /\ SamplingDecision'
      <3>1. \A d \in Batches : phase'[d] # "open" =>
               phase[d] # "open" \/ (d = b /\ phase[b] = "closed")
        BY <1>2, <2>2
      <3>2. "final" \in Modes
        BY DEF Modes
      <3>3. QED
        BY <1>1, <1>2, <2>1, <3>1, <3>2, EnterPreserves
    <2>4. TypeOK'
      BY <1>1, <2>1, <2>2, <2>3 DEF TypeOK, history
    <2>5. Ownership'
      <3>1. OwnedBy(b)'
        BY <1>1, <1>2, <2>1, <2>2, <2>3 DEF OwnedBy
      <3>2. QED
        BY <1>1, <2>1, <2>2, <2>3, <3>1, ContextsOf, ContextsDiffer, OwnershipStep
    <2>6. QED
      BY <2>2, <2>3, <2>4, <2>5
  <1>3. CASE expires /\ ~continued[b]
    <2>1. /\ Finish(b)
          /\ UNCHANGED <<retention, buffer, truncated, run, nextSeq>>
          /\ queue' = [queue EXCEPT ![b] = Tail(@)]
      BY <1>3 DEF StartFlush, FlushContinuation
    <2>2. /\ phase' \in [Batches -> {"open", "closed", "finished"}]
          /\ armed' \in [Batches -> BOOLEAN]
          /\ phase'[b] = "finished"
          /\ \A d \in Batches : d # b => phase'[d] = phase[d]
          /\ WindowOwned'
      BY <2>1, FinishPreserves
    <2>3. TypeOK'
      BY <1>1, <2>1, <2>2, TailOfQueue DEF TypeOK, history
    <2>4. Ownership'
      BY <1>1, <2>1, <2>2, ContextsOf DEF Ownership, OwnedBy, TypeOK
    <2>5. Charged' /\ SnapshotIsPrefix' /\ DecisionByStage'
      BY <1>1, <2>1 DEF Charged, SnapshotIsPrefix, DecisionByStage
    <2>6. SamplingDecision'
      BY <1>1, <1>3, <2>1, <2>2 DEF SamplingDecision
    <2>7. QED
      BY <2>2, <2>3, <2>4, <2>5, <2>6
  <1>4. CASE ~expires
    <2>1. /\ FlushContext(Main(b), mode, TRUE)
          /\ UNCHANGED <<phase, queue, armed>>
      BY <1>4 DEF StartFlush
    <2>2. /\ buffer' \in [Contexts -> Seq(EntryRec)]
          /\ retention' \in [Contexts -> {"pending", "kept", "dropped"}]
          /\ truncated' \in [Contexts -> Nat]
          /\ nextSeq' \in Nat
          /\ run' \in [Contexts -> Activation]
          /\ \A d \in Contexts : d # Main(b) => run'[d] = run[d]
          /\ run'[Main(b)].chained = TRUE
          /\ Charged' /\ SnapshotIsPrefix'
          /\ DecisionByStage' /\ SamplingDecision'
      <3> HIDE DEF mode
      <3> QED BY <1>1, <2>1, EnterPreserves
    <2>3. TypeOK'
      BY <1>1, <2>1, <2>2 DEF TypeOK, history
    <2>4. Ownership'
      <3>1. OwnedBy(b)'
        BY <1>1, <2>1, <2>2 DEF Ownership, OwnedBy
      <3>2. QED
        BY <1>1, <2>1, <2>2, <3>1, ContextsOf, ContextsDiffer, OwnershipStep
    <2>5. WindowOwned'
      BY <2>1 DEF WindowOwned
    <2>6. QED
      BY <2>2, <2>3, <2>4, <2>5
  <1>5. QED
    BY <1>2, <1>3, <1>4

LEMMA LateTimerPreserves ==
    ASSUME IInv, NEW b \in Batches, LateTimer(b)
    PROVE  IInv'
  <1> USE DEF IInv
  <1>1. /\ armed[b] /\ phase[b] = "closed" /\ Finish(b)
        /\ Main(b) \in Contexts /\ Late(b) \in Contexts /\ Main(b) # Late(b)
        /\ UNCHANGED <<sampled, continued, counters, queue, stored, history>>
    BY ContextsOf DEF LateTimer, WindowOwned
  <1>2. /\ phase' \in [Batches -> {"open", "closed", "finished"}]
        /\ armed' \in [Batches -> BOOLEAN]
        /\ phase'[b] = "finished"
        /\ \A d \in Batches : d # b => phase'[d] = phase[d]
        /\ WindowOwned'
    BY <1>1, FinishPreserves
  <1>3. CASE continued[b]
    <2>1. FlushContext(Late(b), "final", FALSE)
      BY <1>3 DEF LateTimer, FlushContinuation
    <2>2. /\ buffer' \in [Contexts -> Seq(EntryRec)]
          /\ retention' \in [Contexts -> {"pending", "kept", "dropped"}]
          /\ truncated' \in [Contexts -> Nat]
          /\ nextSeq' \in Nat
          /\ run' \in [Contexts -> Activation]
          /\ \A d \in Contexts : d # Late(b) => run'[d] = run[d]
          /\ run'[Late(b)].chained = FALSE
          /\ Charged' /\ SnapshotIsPrefix'
          /\ DecisionByStage' /\ SamplingDecision'
      <3>1. \A d \in Batches : phase'[d] # "open" =>
               phase[d] # "open" \/ (d = b /\ phase[b] = "closed")
        BY <1>1, <1>2
      <3>2. "final" \in Modes
        BY DEF Modes
      <3>3. QED
        BY <1>1, <1>3, <2>1, <3>1, <3>2, EnterPreserves
    <2>3. TypeOK'
      BY <1>1, <1>2, <2>2 DEF TypeOK, history
    <2>4. Ownership'
      BY <1>1, <1>2, <1>3, <2>2, ContextsOf, ContextsDiffer DEF Ownership, OwnedBy
    <2>5. QED
      BY <1>2, <2>2, <2>3, <2>4
  <1>4. CASE ~continued[b]
    <2>1. UNCHANGED <<retention, buffer, truncated, run, nextSeq>>
      BY <1>4 DEF LateTimer, FlushContinuation
    <2>2. TypeOK'
      BY <1>1, <1>2, <2>1 DEF TypeOK, history
    <2>3. Ownership'
      BY <1>1, <1>2, <2>1 DEF Ownership, OwnedBy
    <2>4. Charged' /\ SnapshotIsPrefix' /\ DecisionByStage'
      BY <1>1, <2>1 DEF Charged, SnapshotIsPrefix, DecisionByStage
    <2>5. SamplingDecision'
      BY <1>1, <1>2, <2>1 DEF SamplingDecision
    <2>6. QED
      BY <1>2, <2>2, <2>3, <2>4, <2>5
  <1>5. QED
    BY <1>3, <1>4

-----------------------------------------------------------------------------
(* The store's answers preserve it *)

\* A suspended activation that moves to another stage keeps its owner.
LEMMA StageKeepsOwner ==
    ASSUME TypeOK, Ownership, NEW b \in Batches, NEW c \in {Main(b), Late(b)},
           run[c] # Idle, run' \in [Contexts -> Activation],
           \A d \in Contexts : d # c => run'[d] = run[d],
           run'[c].chained = run[c].chained,
           UNCHANGED <<phase, continued, queue>>
    PROVE  Ownership'
  <1>1. OwnedBy(b)'
    BY ContextsOf DEF Ownership, OwnedBy, Idle
  <1>2. QED
    BY <1>1, ContextsOf, ContextsDiffer, OwnershipStep

LEMMA NotIdle ==
    ASSUME NEW c, run[c].stage # "idle"
    PROVE  run[c] # Idle
  BY DEF Idle

\* A sampled-out context that waits for the monitored tags is the batch's own,
\* still open and without a continuation.
LEMMA UndecidedIsMain ==
    ASSUME TypeOK, Ownership, DecisionByStage, SamplingDecision,
           NEW b \in Batches, NEW c \in {Main(b), Late(b)},
           ~sampled[b], run[c].stage = "tags"
    PROVE  /\ c = Main(b) /\ retention[Main(b)] = "pending"
           /\ phase[b] = "open" /\ ~continued[b] /\ stored[b] = <<>>
  <1>1. c \in Contexts /\ c[1] = b /\ run[c] # Idle
    BY ContextsOf, NotIdle
  <1>2. retention[c] = "pending"
    BY <1>1 DEF DecisionByStage
  <1>3. c = Main(b)
    <2>1. SUFFICES ASSUME c = Late(b) PROVE FALSE
      OBVIOUS
    <2>2. continued[b] /\ phase[b] # "open"
      BY <1>1, <2>1 DEF Ownership, OwnedBy
    <2>3. QED
      BY <1>2, <2>1, <2>2 DEF SamplingDecision
  <1>4. QED
    BY <1>2, <1>3 DEF Ownership, OwnedBy, SamplingDecision, TypeOK

LEMMA TagsKeepSamplingDecision ==
    ASSUME IInv, NEW b \in Batches, NEW c \in {Main(b), Late(b)},
           run[c].stage = "tags",
           \A d \in Contexts : d # c => retention'[d] = retention[d],
           UNCHANGED <<sampled, phase, continued, stored>>
    PROVE  SamplingDecision'
  <1> USE DEF IInv
  <1>1. ASSUME NEW d \in Batches, ~sampled[d], d # b
        PROVE  /\ retention'[Main(d)] = retention[Main(d)]
               /\ retention'[Late(d)] = retention[Late(d)]
    BY <1>1, ContextsOf, ContextsDiffer
  <1>2. ~sampled[b] => phase[b] = "open" /\ ~continued[b] /\ stored[b] = <<>>
    BY UndecidedIsMain
  <1>3. QED
    BY <1>1, <1>2 DEF SamplingDecision

\* What a step of one context must ensure for the charges and the snapshots.
LEMMA ChargedStep ==
    ASSUME Charged, SnapshotIsPrefix, NEW c \in Contexts,
           UNCHANGED counters,
           \A d \in Contexts : d # c => buffer'[d] = buffer[d] /\ run'[d] = run[d],
           \A t \in Types : Fits(t, buffer'[c], counters[c]),
           Reports(run'[c].synth), run'[c].size <= Len(buffer'[c])
    PROVE  Charged' /\ SnapshotIsPrefix'
  <1>1. SnapshotIsPrefix'
    BY DEF SnapshotIsPrefix
  <1>2. ASSUME NEW d \in Contexts, NEW t \in Types
        PROVE  Fits(t, buffer'[d], counters'[d])
    <2>1. CASE d = c
      BY <2>1
    <2>2. CASE d # c
      BY <2>2 DEF Charged
    <2>3. QED
      BY <2>1, <2>2
  <1>3. ASSUME NEW d \in Contexts
        PROVE  \A i \in 1..Len(run'[d].synth) : Kind(run'[d].synth[i]) = Reporting
    BY DEF Charged, Reports
  <1>4. QED
    BY <1>1, <1>2, <1>3 DEF Charged

LEMMA DecideByTagsPreserves ==
    ASSUME IInv, NEW b \in Batches, NEW c \in {Main(b), Late(b)}, DecideByTags(c)
    PROVE  IInv'
  <1> USE DEF IInv
  <1> DEFINE size == Len(buffer[c])
             noted == Noted(buffer[c], size, run[c].synth, truncated[c])
  <1>1. /\ c \in Contexts /\ c[1] = b
        /\ run[c].stage = "tags" /\ run[c] # Idle /\ run[c] \in Activation
        /\ truncated' = [truncated EXCEPT ![c] = 0]
        /\ UNCHANGED <<sampled, phase, continued, counters, queue, armed,
                       stored, nextSeq, history>>
    BY ContextsOf, NotIdle DEF DecideByTags, TakeTruncated, TypeOK
  <1>2. /\ noted.buffer \in Seq(EntryRec) /\ noted.synth \in Seq(EntryRec)
        /\ Len(noted.buffer) = size /\ size \in Nat
        /\ \A i \in 1..Len(noted.synth) : Kind(noted.synth[i]) = Reporting
        /\ \A kind : KindCount(kind, noted.buffer) = KindCount(kind, buffer[c])
    <2>1. /\ truncated[c] \in Nat /\ nextSeq \in Nat
          /\ buffer[c] \in Seq(EntryRec) /\ run[c].synth \in Seq(EntryRec)
          /\ size \in Nat
          /\ Reports(run[c].synth)
      BY <1>1, LenProperties DEF TypeOK, Activation, Charged, Reports
    <2>2. /\ noted.buffer \in Seq(EntryRec)
          /\ Len(noted.buffer) = Len(buffer[c])
          /\ \A i \in 1..Len(buffer[c]) : Kind(noted.buffer[i]) = Kind(buffer[c][i])
          /\ noted.synth \in Seq(EntryRec)
          /\ Reports(run[c].synth) => Reports(noted.synth)
      <3> HIDE DEF size
      <3> QED BY <2>1, NotedEffect
    <2>3. \A kind : KindCount(kind, noted.buffer) = KindCount(kind, buffer[c])
      BY <2>1, <2>2, CountSameKinds
    <2>4. QED
      BY <2>1, <2>2, <2>3 DEF Reports
  <1>3. CASE /\ retention' = [retention EXCEPT ![c] = "kept"]
             /\ buffer' = [buffer EXCEPT ![c] = noted.buffer]
             /\ run' = [run EXCEPT ![c].stage = "saving", ![c].size = size,
                                   ![c].synth = noted.synth]
    <2>1. /\ run' \in [Contexts -> Activation]
          /\ \A d \in Contexts : d # c => run'[d] = run[d]
          /\ run'[c].chained = run[c].chained
          /\ run'[c].stage = "saving" /\ run'[c].size = size
          /\ run'[c].synth = noted.synth
      BY <1>1, <1>2, <1>3 DEF TypeOK, Activation, Stages
    <2>2. /\ buffer' \in [Contexts -> Seq(EntryRec)]
          /\ buffer'[c] = noted.buffer
          /\ \A d \in Contexts : d # c => buffer'[d] = buffer[d]
          /\ retention' \in [Contexts -> {"pending", "kept", "dropped"}]
          /\ retention'[c] = "kept"
          /\ \A d \in Contexts : d # c => retention'[d] = retention[d]
      BY <1>1, <1>2, <1>3 DEF TypeOK
    <2>3. TypeOK'
      BY <1>1, <2>1, <2>2 DEF TypeOK, history
    <2>4. Charged' /\ SnapshotIsPrefix'
      <3>1. \A t \in Types : Fits(t, buffer'[c], counters[c])
        <4> HIDE DEF size, noted
        <4> QED BY <1>1, <1>2, <2>2 DEF Charged, Fits
      <3>2. Reports(run'[c].synth) /\ run'[c].size <= Len(buffer'[c])
        <4> HIDE DEF size, noted
        <4> QED BY <1>2, <2>1, <2>2 DEF Reports
      <3>3. QED
        BY <1>1, <2>1, <2>2, <3>1, <3>2, ChargedStep
    <2>5. Ownership'
      BY <1>1, <2>1, StageKeepsOwner
    <2>6. DecisionByStage'
      BY <1>1, <2>1, <2>2 DEF DecisionByStage
    <2>7. SamplingDecision'
      BY <1>1, <2>2, TagsKeepSamplingDecision
    <2>8. WindowOwned'
      BY <1>1 DEF WindowOwned
    <2>9. QED
      BY <2>3, <2>4, <2>5, <2>6, <2>7, <2>8
  <1>4. CASE /\ retention' = [retention EXCEPT ![c] = "dropped"]
             /\ buffer' = [buffer EXCEPT ![c] = <<>>]
             /\ run' = [run EXCEPT ![c].stage = "returned", ![c].size = 0,
                                   ![c].synth = <<>>]
    <2>1. /\ run' \in [Contexts -> Activation]
          /\ \A d \in Contexts : d # c => run'[d] = run[d]
          /\ run'[c].chained = run[c].chained
          /\ run'[c].stage = "returned" /\ run'[c].size = 0
          /\ run'[c].synth = <<>>
      BY <1>1, <1>4, EmptySeq DEF TypeOK, Activation, Stages
    <2>2. /\ buffer' \in [Contexts -> Seq(EntryRec)]
          /\ buffer'[c] = <<>>
          /\ \A d \in Contexts : d # c => buffer'[d] = buffer[d]
          /\ retention' \in [Contexts -> {"pending", "kept", "dropped"}]
          /\ retention'[c] = "dropped"
          /\ \A d \in Contexts : d # c => retention'[d] = retention[d]
      BY <1>1, <1>4, EmptySeq DEF TypeOK
    <2>3. TypeOK'
      BY <1>1, <2>1, <2>2 DEF TypeOK, history
    <2>4. Charged' /\ SnapshotIsPrefix'
      <3>1. \A t \in Types : Fits(t, <<>>, counters[c])
        BY <1>1, NothingFits DEF TypeOK
      <3>2. Reports(<<>>) /\ 0 <= Len(<<>>)
        BY DEF Reports
      <3>3. QED
        BY <1>1, <2>1, <2>2, <3>1, <3>2, ChargedStep
    <2>5. Ownership'
      BY <1>1, <2>1, StageKeepsOwner
    <2>6. DecisionByStage'
      BY <1>1, <2>1, <2>2 DEF DecisionByStage
    <2>7. SamplingDecision'
      BY <1>1, <2>2, TagsKeepSamplingDecision
    <2>8. WindowOwned'
      BY <1>1 DEF WindowOwned
    <2>9. QED
      BY <2>3, <2>4, <2>5, <2>6, <2>7, <2>8
  <1>5. QED
    BY <1>3, <1>4 DEF DecideByTags

LEMMA SaveCommitsPreserves ==
    ASSUME IInv, NEW b \in Batches, NEW c \in {Main(b), Late(b)}, SaveCommits(c)
    PROVE  IInv'
  <1> USE DEF IInv
  <1>1. /\ c \in Contexts /\ c[1] = b
        /\ run[c].stage = "saving" /\ run[c] # Idle /\ run[c] \in Activation
        /\ stored' = [stored EXCEPT ![b] = @ \o Drained(c)]
        /\ buffer' = [buffer EXCEPT ![c] = Arrivals(c)]
        /\ run' = [run EXCEPT ![c].stage = "trimming", ![c].size = 0,
                              ![c].synth = <<>>]
        /\ UNCHANGED <<sampled, phase, continued, retention, counters, truncated,
                       queue, armed, nextSeq, history>>
    BY ContextsOf, NotIdle DEF SaveCommits, TypeOK
  <1>2. /\ buffer[c] \in Seq(EntryRec) /\ run[c].synth \in Seq(EntryRec)
        /\ run[c].size \in Nat /\ Len(buffer[c]) \in Nat
        /\ run[c].size <= Len(buffer[c])
    BY <1>1, LenProperties DEF TypeOK, Activation, SnapshotIsPrefix
  <1>3. Drained(c) \in Seq(EntryRec) /\ Arrivals(c) \in Seq(EntryRec)
    BY <1>2, SliceType, ConcatProperties DEF Drained, Arrivals
  <1>4. /\ run' \in [Contexts -> Activation]
        /\ \A d \in Contexts : d # c => run'[d] = run[d]
        /\ run'[c].chained = run[c].chained
        /\ run'[c].stage = "trimming" /\ run'[c].size = 0
        /\ run'[c].synth = <<>>
    BY <1>1, EmptySeq DEF TypeOK, Activation, Stages
  <1>5. /\ buffer' \in [Contexts -> Seq(EntryRec)]
        /\ buffer'[c] = Arrivals(c)
        /\ \A d \in Contexts : d # c => buffer'[d] = buffer[d]
        /\ Len(buffer'[c]) \in Nat
    BY <1>1, <1>3, LenProperties DEF TypeOK
  <1>6. stored' \in [Batches -> Seq(EntryRec)]
    BY <1>1, <1>3, ConcatProperties DEF TypeOK
  <1>7. TypeOK'
    BY <1>1, <1>4, <1>5, <1>6 DEF TypeOK, history
  <1>8. Charged'
    <2>1. ASSUME NEW t \in Types PROVE Fits(t, Arrivals(c), counters[c])
      <3>1. KindCount(Recorded(t), Arrivals(c)) <= KindCount(Recorded(t), buffer[c])
        BY <1>2, CountSlice DEF Arrivals
      <3>2. Fits(t, buffer[c], counters[c]) /\ counters[c] \in [Types -> Nat]
        BY <1>1 DEF Charged, TypeOK
      <3>3. QED
        BY <1>2, <1>3, <3>1, <3>2, FewerFit
    <2>2. QED
      BY <1>1, <1>4, <1>5, <2>1 DEF Charged
  <1>9. SnapshotIsPrefix'
    <2>1. run'[c].size <= Len(buffer'[c])
      BY <1>4, <1>5
    <2>2. ASSUME NEW d \in Contexts, d # c PROVE run'[d].size <= Len(buffer'[d])
      BY <1>4, <1>5, <2>2 DEF SnapshotIsPrefix
    <2>3. QED
      BY <2>1, <2>2 DEF SnapshotIsPrefix
  <1>10. Ownership'
    BY <1>1, <1>4, StageKeepsOwner
  <1>11. DecisionByStage'
    BY <1>1, <1>4 DEF DecisionByStage
  <1>12. SamplingDecision'
    <2>1. ~sampled[b] => retention[Main(b)] = "kept"
      <3>1. ~sampled[b] => retention[c] = "kept"
        BY <1>1 DEF DecisionByStage
      <3>2. c = Late(b) => continued[b]
        BY <1>1 DEF Ownership, OwnedBy
      <3>3. QED
        BY <3>1, <3>2 DEF SamplingDecision
    <2>2. QED
      BY <1>1, <2>1 DEF SamplingDecision, TypeOK
  <1>13. WindowOwned'
    BY <1>1 DEF WindowOwned
  <1>14. QED
    BY <1>7, <1>8, <1>9, <1>10, <1>11, <1>12, <1>13

\* The requeued buffer charges no more than the buffer did.
LEMMA RequeuedEffect ==
    ASSUME IInv, NEW c \in Contexts
    PROVE  /\ Requeued(c) \in Seq(EntryRec)
           /\ \A t \in Types : KindCount(Recorded(t), Requeued(c)) <= KindCount(Recorded(t), buffer[c])
  <1> USE ConstantsAssumption
  <1> DEFINE whole == IF Len(buffer[c]) < BufferLimit
                      THEN run[c].synth \o buffer[c] ELSE buffer[c]
  <1>1. /\ buffer[c] \in Seq(EntryRec) /\ run[c].synth \in Seq(EntryRec)
        /\ \A i \in 1..Len(run[c].synth) : Kind(run[c].synth[i]) = Reporting
    BY DEF IInv, TypeOK, Activation, Charged
  <1>2. whole \in Seq(EntryRec) /\ Len(whole) \in Nat
    BY <1>1, ConcatProperties, LenProperties
  <1>3. ASSUME NEW t \in Types PROVE KindCount(Recorded(t), whole) <= KindCount(Recorded(t), buffer[c])
    <2>1. KindCount(Recorded(t), run[c].synth \o buffer[c]) <= KindCount(Recorded(t), buffer[c])
      BY <1>1, CountPrefixed, KindsDiffer
    <2>2. KindCount(Recorded(t), buffer[c]) \in Nat
      BY <1>1, PositionsFinite
    <2>3. QED
      BY <2>1, <2>2
  <1> HIDE DEF whole
  <1> DEFINE n == IF Len(whole) <= BufferLimit THEN Len(whole) ELSE BufferLimit
  <1>4. n \in Nat /\ n <= Len(whole)
    BY <1>2
  <1>5. Requeued(c) = SubSeq(whole, 1, n)
    BY DEF Requeued, Capped, whole
  <1> HIDE DEF n
  <1>6. Requeued(c) \in Seq(EntryRec)
    BY <1>2, <1>4, <1>5, SliceType
  <1>7. ASSUME NEW t \in Types PROVE KindCount(Recorded(t), Requeued(c)) <= KindCount(Recorded(t), buffer[c])
    <2>1. KindCount(Recorded(t), SubSeq(whole, 1, n)) <= KindCount(Recorded(t), whole)
      BY <1>2, <1>4, CountSlice
    <2>2. KindCount(Recorded(t), Requeued(c)) <= KindCount(Recorded(t), whole)
      BY <2>1, <1>5
    <2>3. /\ KindCount(Recorded(t), Requeued(c)) \in Nat /\ KindCount(Recorded(t), whole) \in Nat
          /\ KindCount(Recorded(t), buffer[c]) \in Nat
      BY <1>1, <1>2, <1>6, PositionsFinite
    <2>4. QED
      BY <2>2, <2>3, <1>3
  <1>8. QED
    BY <1>6, <1>7

LEMMA SaveRejectsPreserves ==
    ASSUME IInv, NEW b \in Batches, NEW c \in {Main(b), Late(b)}, SaveRejects(c)
    PROVE  IInv'
  <1>1. /\ c \in Contexts /\ c[1] = b
        /\ run[c].stage = "saving" /\ run[c] # Idle /\ run[c] \in Activation
        /\ buffer' = [buffer EXCEPT ![c] = Requeued(c)]
        /\ run' = [run EXCEPT ![c].stage = "threw", ![c].size = 0,
                              ![c].synth = <<>>]
        /\ failures' = failures + 1
        /\ UNCHANGED <<sampled, phase, continued, retention, counters, truncated,
                       queue, armed, stored, nextSeq, dropped>>
    BY ContextsOf, NotIdle DEF SaveRejects, IInv, TypeOK
  <1>2. /\ Requeued(c) \in Seq(EntryRec)
        /\ \A t \in Types : KindCount(Recorded(t), Requeued(c)) <= KindCount(Recorded(t), buffer[c])
    BY <1>1, RequeuedEffect
  <1> USE DEF IInv
  <1>3. /\ run' \in [Contexts -> Activation]
        /\ \A d \in Contexts : d # c => run'[d] = run[d]
        /\ run'[c].chained = run[c].chained
        /\ run'[c].stage = "threw" /\ run'[c].size = 0
        /\ run'[c].synth = <<>>
    BY <1>1, EmptySeq DEF TypeOK, Activation, Stages
  <1>4. /\ buffer' \in [Contexts -> Seq(EntryRec)]
        /\ buffer'[c] = Requeued(c)
        /\ \A d \in Contexts : d # c => buffer'[d] = buffer[d]
        /\ Len(buffer'[c]) \in Nat
    BY <1>1, <1>2, LenProperties DEF TypeOK
  <1>5. TypeOK'
    BY <1>1, <1>3, <1>4 DEF TypeOK
  <1>6. Charged'
    <2>1. ASSUME NEW t \in Types PROVE Fits(t, Requeued(c), counters[c])
      <3>1. /\ Fits(t, buffer[c], counters[c]) /\ counters[c] \in [Types -> Nat]
            /\ buffer[c] \in Seq(EntryRec)
        BY <1>1 DEF Charged, TypeOK
      <3>2. QED
        BY <1>2, <3>1, FewerFit
    <2>2. QED
      BY <1>1, <1>3, <1>4, <2>1 DEF Charged
  <1>7. SnapshotIsPrefix'
    <2>1. run'[c].size <= Len(buffer'[c])
      BY <1>3, <1>4
    <2>2. ASSUME NEW d \in Contexts, d # c PROVE run'[d].size <= Len(buffer'[d])
      BY <1>3, <1>4, <2>2 DEF SnapshotIsPrefix
    <2>3. QED
      BY <2>1, <2>2 DEF SnapshotIsPrefix
  <1>8. Ownership'
    BY <1>1, <1>3, StageKeepsOwner
  <1>9. DecisionByStage'
    BY <1>1, <1>3 DEF DecisionByStage
  <1>10. SamplingDecision' /\ WindowOwned'
    BY <1>1 DEF SamplingDecision, WindowOwned
  <1>11. QED
    BY <1>5, <1>6, <1>7, <1>8, <1>9, <1>10

LEMMA TrimPreserves ==
    ASSUME IInv, NEW b \in Batches, NEW c \in {Main(b), Late(b)},
           TrimResolves(c) \/ TrimRejects(c)
    PROVE  IInv'
  <1> USE DEF IInv
  <1>1. PICK stage \in {"returned", "threw"} :
          /\ run' = [run EXCEPT ![c].stage = stage]
          /\ failures' \in Nat
    BY DEF TrimResolves, TrimRejects, TypeOK, history
  <1>2. /\ c \in Contexts /\ c[1] = b
        /\ run[c].stage = "trimming" /\ run[c] # Idle /\ run[c] \in Activation
        /\ UNCHANGED <<sampled, context, queue, armed, stored, nextSeq, dropped>>
    BY ContextsOf, NotIdle DEF TrimResolves, TrimRejects, TypeOK, history
  <1>3. /\ run' \in [Contexts -> Activation]
        /\ \A d \in Contexts : d # c => run'[d] = run[d]
        /\ run'[c].chained = run[c].chained
        /\ run'[c].stage = stage /\ run'[c].size = run[c].size
        /\ run'[c].synth = run[c].synth
    BY <1>1, <1>2 DEF TypeOK, Activation, Stages
  <1>4. TypeOK'
    BY <1>1, <1>2, <1>3 DEF TypeOK, context
  <1>5. Charged' /\ SnapshotIsPrefix'
    BY <1>2, <1>3 DEF Charged, SnapshotIsPrefix, context
  <1>6. Ownership'
    BY <1>2, <1>3, StageKeepsOwner DEF context
  <1>7. DecisionByStage'
    BY <1>2, <1>3 DEF DecisionByStage, context
  <1>8. SamplingDecision' /\ WindowOwned'
    BY <1>2 DEF SamplingDecision, WindowOwned, context
  <1>9. QED
    BY <1>4, <1>5, <1>6, <1>7, <1>8

-----------------------------------------------------------------------------
(* The end of an activation preserves it *)

LEMMA IdleFields ==
    /\ Idle \in Activation
    /\ Reports(Idle.synth) /\ Idle.size = 0 /\ Idle.stage = "idle"
    /\ Idle.chained = FALSE
  BY IdleType DEF Idle, Reports

\* The move into the continuation and the opening of its window.
LEMMA CloseEffect ==
    ASSUME IInv, NEW b \in Batches, MoveArrivals(b), Arm(b),
           phase[b] = "open", run[Main(b)].stage = "returned",
           run[Main(b)].mode = "final",
           run' = [run EXCEPT ![Main(b)] = Idle],
           queue' = [queue EXCEPT ![b] = Tail(@)],
           UNCHANGED <<sampled, stored, nextSeq, history>>
    PROVE  IInv'
  <1> USE ConstantsAssumption DEF IInv
  <1>1. /\ Main(b) \in Contexts /\ Late(b) \in Contexts /\ Main(b) # Late(b)
        /\ Main(b)[1] = b /\ Late(b)[1] = b
        /\ run[Main(b)] # Idle /\ run[Late(b)] = Idle /\ ~continued[b]
        /\ queue[b] # <<>>
    BY ContextsOf, NotIdle DEF Ownership, OwnedBy
  <1>2. /\ phase' \in [Batches -> {"open", "closed", "finished"}]
        /\ armed' \in [Batches -> BOOLEAN]
        /\ phase'[b] # "open"
        /\ \A d \in Batches : d # b => phase'[d] = phase[d]
        /\ WindowOwned'
    BY DEF Arm, TypeOK, WindowOwned
  <1>3. /\ run' \in [Contexts -> Activation]
        /\ run'[Main(b)] = Idle
        /\ \A d \in Contexts : d # Main(b) => run'[d] = run[d]
        /\ queue' \in [Batches -> Seq(Modes)]
        /\ \A d \in Batches : d # b => queue'[d] = queue[d]
    BY <1>1, IdleType, TailOfQueue DEF TypeOK
  <1>4. \A t \in Types : Fits(t, buffer[Main(b)], counters[Main(b)])
    BY <1>1 DEF Charged
  <1>5. ASSUME NEW d \in Batches, ~sampled[d]
        PROVE  /\ stored[d] # <<>> => retention[Main(d)] = "kept"
               /\ phase'[d] # "open" => retention[Main(d)] # "pending"
               /\ continued[d] => retention[Late(d)] = retention[Main(d)]
    <2>1. ~sampled[b] => retention[Main(b)] # "pending"
      BY <1>1 DEF DecisionByStage
    <2>2. QED
      BY <1>2, <1>5, <2>1 DEF SamplingDecision
  <1>6. CASE ~(buffer[Main(b)] # <<>> \/ truncated[Main(b)] > 0)
    <2>1. UNCHANGED <<continued, retention, buffer, truncated, counters>>
      BY <1>6 DEF MoveArrivals
    <2>2. TypeOK'
      BY <1>2, <1>3, <2>1 DEF TypeOK, history
    <2>3. Charged' /\ SnapshotIsPrefix'
      <3>1. \A t \in Types : Fits(t, buffer'[Main(b)], counters[Main(b)])
        BY <1>4, <2>1
      <3>2. 0 <= Len(buffer'[Main(b)])
        BY <1>1, <2>1, LenProperties DEF TypeOK
      <3>3. QED
        BY <1>1, <1>3, <2>1, <3>1, <3>2, IdleFields, ChargedStep
    <2>4. Ownership'
      <3>1. OwnedBy(b)'
        BY <1>1, <1>3, <2>1, IdleFields DEF OwnedBy
      <3>2. QED
        BY <1>1, <1>2, <1>3, <2>1, <3>1, ContextsOf, ContextsDiffer, OwnershipStep
    <2>5. DecisionByStage'
      BY <1>3, <2>1, IdleFields DEF DecisionByStage
    <2>6. SamplingDecision'
      BY <1>5, <2>1 DEF SamplingDecision
    <2>7. QED
      BY <1>2, <2>2, <2>3, <2>4, <2>5, <2>6
  <1>7. CASE buffer[Main(b)] # <<>> \/ truncated[Main(b)] > 0
    <2>1. /\ continued' = [continued EXCEPT ![b] = TRUE]
          /\ retention' = [retention EXCEPT ![Late(b)] = retention[Main(b)]]
          /\ buffer' = [buffer EXCEPT ![Late(b)] = buffer[Main(b)], ![Main(b)] = <<>>]
          /\ truncated' = [truncated EXCEPT ![Late(b)] = truncated[Main(b)],
                                            ![Main(b)] = 0]
          /\ counters' = [counters EXCEPT ![Late(b)] = Recount(buffer[Main(b)])]
      BY <1>7 DEF MoveArrivals
    <2>2. /\ Recount(buffer[Main(b)]) \in [Types -> Nat]
          /\ \A t \in Types :
                KindCount(Recorded(t), buffer[Main(b)]) <= Recount(buffer[Main(b)])[t]
      <3>1. buffer[Main(b)] \in Seq(EntryRec)
        BY <1>1 DEF TypeOK
      <3>2. QED
        BY <3>1, RecountCharges DEF Recount
    <2>3. /\ continued' \in [Batches -> BOOLEAN]
          /\ continued'[b] = TRUE
          /\ \A d \in Batches : d # b => continued'[d] = continued[d]
      BY <2>1 DEF TypeOK
    <2>4. /\ retention' \in [Contexts -> {"pending", "kept", "dropped"}]
          /\ retention'[Late(b)] = retention[Main(b)]
          /\ \A d \in Contexts : d # Late(b) => retention'[d] = retention[d]
      BY <1>1, <2>1 DEF TypeOK
    <2>5. /\ buffer' \in [Contexts -> Seq(EntryRec)]
          /\ buffer'[Main(b)] = <<>> /\ buffer'[Late(b)] = buffer[Main(b)]
          /\ \A d \in Contexts : d # Main(b) /\ d # Late(b) => buffer'[d] = buffer[d]
      BY <1>1, <2>1, EmptySeq DEF TypeOK
    <2>6. /\ counters' \in [Contexts -> [Types -> Nat]]
          /\ \A t \in Types :
                KindCount(Recorded(t), buffer[Main(b)]) <= counters'[Late(b)][t]
          /\ \A d \in Contexts : d # Late(b) => counters'[d] = counters[d]
      BY <1>1, <2>1, <2>2 DEF TypeOK
    <2>7. TypeOK'
      <3>1. truncated' \in [Contexts -> Nat]
        BY <1>1, <2>1 DEF TypeOK
      <3>2. QED
        BY <1>2, <1>3, <2>3, <2>4, <2>5, <2>6, <3>1 DEF TypeOK, history
    <2>8. Charged'
      <3>1. ASSUME NEW d \in Contexts, NEW t \in Types
            PROVE  Fits(t, buffer'[d], counters'[d])
        <4>1. CASE d = Main(b)
          <5>1. counters'[d] \in [Types -> Nat] /\ buffer'[d] = <<>>
            BY <4>1, <2>5, <2>6
          <5>2. QED
            BY <5>1, NothingFits
        <4>2. CASE d = Late(b)
          BY <1>4, <2>5, <2>6, <4>2 DEF Fits
        <4>3. CASE d # Main(b) /\ d # Late(b)
          BY <2>5, <2>6, <4>3 DEF Charged
        <4>4. QED
          BY <4>1, <4>2, <4>3
      <3>2. ASSUME NEW d \in Contexts
            PROVE  \A i \in 1..Len(run'[d].synth) : Kind(run'[d].synth[i]) = Reporting
        BY <1>3, IdleFields DEF Charged, Reports
      <3>3. QED
        BY <3>1, <3>2 DEF Charged
    <2>9. SnapshotIsPrefix'
      <3>1. \A d \in Contexts : Len(buffer'[d]) \in Nat
        BY <2>5, LenProperties
      <3>2. run'[Main(b)].size = 0 /\ run'[Late(b)].size = 0
        BY <1>1, <1>3, IdleFields
      <3>3. ASSUME NEW d \in Contexts PROVE run'[d].size <= Len(buffer'[d])
        <4>1. CASE d = Main(b) \/ d = Late(b)
          BY <3>1, <3>2, <4>1
        <4>2. CASE d # Main(b) /\ d # Late(b)
          BY <1>3, <2>5, <4>2 DEF SnapshotIsPrefix
        <4>3. QED
          BY <4>1, <4>2
      <3>4. QED
        BY <3>3 DEF SnapshotIsPrefix
    <2>10. Ownership'
      <3>1. OwnedBy(b)'
        BY <1>1, <1>2, <1>3, <2>3, IdleFields DEF OwnedBy
      <3>2. QED
        BY <1>1, <1>2, <1>3, <2>3, <3>1, ContextsOf, ContextsDiffer, OwnershipStep
    <2>11. DecisionByStage'
      BY <1>1, <1>3, <2>4, IdleFields DEF DecisionByStage
    <2>12. SamplingDecision'
      <3>1. ASSUME NEW d \in Batches, d # b
            PROVE  /\ retention'[Main(d)] = retention[Main(d)]
                   /\ retention'[Late(d)] = retention[Late(d)]
        BY <2>4, <3>1, ContextsOf, ContextsDiffer
      <3>2. QED
        BY <1>1, <1>5, <2>3, <2>4, <3>1 DEF SamplingDecision
    <2>13. QED
      BY <1>2, <2>7, <2>8, <2>9, <2>10, <2>11, <2>12
  <1>8. QED
    BY <1>6, <1>7

\* An activation that is over leaves its context idle.
LEMMA SettlePreserves ==
    ASSUME IInv, NEW b \in Batches, NEW c \in {Main(b), Late(b)}, Over(c),
           run' = [run EXCEPT ![c] = Idle],
           queue' = IF c = Main(b) \/ run[c].chained
                    THEN [queue EXCEPT ![b] = Tail(@)] ELSE queue,
           UNCHANGED <<sampled, context, armed, stored, nextSeq, history>>
    PROVE  IInv'
  <1> USE DEF IInv
  <1>1. /\ Main(b) \in Contexts /\ Late(b) \in Contexts /\ Main(b) # Late(b)
        /\ c \in Contexts /\ c[1] = b /\ run[c] # Idle
    BY ContextsOf, NotIdle DEF Over
  <1>2. /\ run' \in [Contexts -> Activation]
        /\ run'[c] = Idle
        /\ \A d \in Contexts : d # c => run'[d] = run[d]
    BY <1>1, IdleType DEF TypeOK
  <1>3. /\ queue' \in [Batches -> Seq(Modes)]
        /\ \A d \in Batches : d # b => queue'[d] = queue[d]
        /\ ~(c = Main(b) \/ run[c].chained) => queue'[b] = queue[b]
    <2>1. c = Main(b) \/ run[c].chained => queue[b] # <<>>
      BY <1>1 DEF Ownership, OwnedBy
    <2>2. QED
      BY <2>1, TailOfQueue DEF TypeOK
  <1>4. TypeOK'
    BY <1>2, <1>3 DEF TypeOK, context, history
  <1>5. Charged' /\ SnapshotIsPrefix'
    <2>1. /\ \A t \in Types : Fits(t, buffer'[c], counters[c])
          /\ 0 <= Len(buffer'[c])
      BY <1>1, LenProperties DEF Charged, TypeOK, context
    <2>2. QED
      BY <1>1, <1>2, <2>1, IdleFields, ChargedStep DEF context
  <1>6. Ownership'
    <2>1. OwnedBy(b)'
      <3>1. CASE c = Main(b)
        BY <1>1, <1>2, <3>1, IdleFields DEF Ownership, OwnedBy, context
      <3>2. CASE c = Late(b)
        BY <1>1, <1>2, <1>3, <3>2, IdleFields DEF Ownership, OwnedBy, context
      <3>3. QED
        BY <3>1, <3>2
    <2>2. QED
      BY <1>2, <1>3, <2>1, ContextsOf, ContextsDiffer, OwnershipStep DEF context
  <1>7. DecisionByStage'
    BY <1>2, IdleFields DEF DecisionByStage, context
  <1>8. SamplingDecision' /\ WindowOwned'
    BY DEF SamplingDecision, WindowOwned, context
  <1>9. QED
    BY <1>4, <1>5, <1>6, <1>7, <1>8

LEMMA SettleMainPreserves ==
    ASSUME IInv, NEW b \in Batches, SettleMain(b)
    PROVE  IInv'
  <1>1. /\ Over(Main(b))
        /\ run' = [run EXCEPT ![Main(b)] = Idle]
        /\ queue' = [queue EXCEPT ![b] = Tail(@)]
        /\ UNCHANGED <<sampled, stored, nextSeq, history>>
    BY DEF SettleMain
  <1>2. CASE /\ run[Main(b)].stage = "returned" /\ run[Main(b)].mode = "final"
             /\ phase[b] = "open"
    BY <1>1, <1>2, CloseEffect DEF SettleMain
  <1>3. CASE ~(/\ run[Main(b)].stage = "returned" /\ run[Main(b)].mode = "final"
               /\ phase[b] = "open")
    BY <1>1, <1>3, SettlePreserves DEF SettleMain
  <1>4. QED
    BY <1>2, <1>3

LEMMA SettleLatePreserves ==
    ASSUME IInv, NEW b \in Batches, SettleLate(b)
    PROVE  IInv'
  <1>1. Late(b) # Main(b)
    BY ContextsOf
  <1>2. QED
    BY <1>1, SettlePreserves DEF SettleLate

-----------------------------------------------------------------------------
(* The theorems *)

\* The strengthening is preserved by every step of the recorder.
LEMMA NextIInv == IInv /\ [Next]_vars => IInv'
  <1> SUFFICES ASSUME IInv, [Next]_vars PROVE IInv'
    OBVIOUS
  <1>1. CASE UNCHANGED vars
    BY <1>1 DEF IInv, TypeOK, Charged, SnapshotIsPrefix, Ownership, OwnedBy,
                DecisionByStage, WindowOwned, SamplingDecision,
                vars, context, flushing, history
  <1>2. ASSUME NEW b \in Batches, NEW t \in Types, Accept(b, t) PROVE IInv'
    BY <1>2, AcceptPreserves
  <1>3. ASSUME NEW b \in Batches, NEW t \in Types, Refuse(b, t) PROVE IInv'
    BY <1>3, RefusePreserves
  <1>4. ASSUME NEW b \in Batches, NEW mode \in Modes, Flush(b, mode) PROVE IInv'
    BY <1>4, FlushPreserves
  <1>5. ASSUME NEW b \in Batches, StartFlush(b) PROVE IInv'
    BY <1>5, StartFlushPreserves
  <1>6. ASSUME NEW b \in Batches, SettleMain(b) PROVE IInv'
    BY <1>6, SettleMainPreserves
  <1>7. ASSUME NEW b \in Batches, SettleLate(b) PROVE IInv'
    BY <1>7, SettleLatePreserves
  <1>8. ASSUME NEW b \in Batches, LateTimer(b) PROVE IInv'
    BY <1>8, LateTimerPreserves
  <1>9. ASSUME NEW b \in Batches, NEW c \in {Main(b), Late(b)}, Storage(c)
        PROVE  IInv'
    BY <1>9, DecideByTagsPreserves, SaveCommitsPreserves, SaveRejectsPreserves,
       TrimPreserves DEF Storage
  <1>10. QED
    BY <1>1, <1>2, <1>3, <1>4, <1>5, <1>6, <1>7, <1>8, <1>9 DEF Next, Host

LEMMA Invariant == Spec => []IInv
  BY InitIInv, NextIInv, PTL DEF Spec

\* Every variable of the recorder keeps its type.
THEOREM TypeCorrect == Spec => []TypeOK
  <1>1. IInv => TypeOK
    BY DEF IInv
  <1>2. QED
    BY <1>1, Invariant, PTL

\* The grace timer of #armLateEntryWindow exists exactly while its window is
\* open: close, expiry by a second final flush and the timer itself move both
\* together.
THEOREM WindowsAreOwned == Spec => []WindowOwned
  <1>1. IInv => WindowOwned
    BY DEF IInv
  <1>2. QED
    BY <1>1, Invariant, PTL

\* A sampled-out batch is stored whole or not at all, however records, flushes,
\* the late timer and the answers of the store interleave.
THEOREM SamplingIsSticky == Spec => []SamplingDecision
  <1>1. IInv => SamplingDecision
    BY DEF IInv
  <1>2. QED
    BY <1>1, Invariant, PTL

-----------------------------------------------------------------------------
(* The order of the entries of a batch *)

Rising(s) == \A i, j \in 1..Len(s) : i < j => s[i].seq < s[j].seq
Precedes(s, u) == \A i \in 1..Len(s), j \in 1..Len(u) : s[i].seq < u[j].seq
Under(s, n) == \A i \in 1..Len(s) : s[i].seq < n

InLine(rows, synth, buf, n) ==
    /\ Rising(rows) /\ Rising(synth) /\ Rising(buf)
    /\ Precedes(rows, synth) /\ Precedes(rows, buf) /\ Precedes(synth, buf)
    /\ Under(rows, n) /\ Under(synth, n) /\ Under(buf, n)

\* The context of a batch that does not record.
Dormant(b) == IF phase[b] = "open" THEN Late(b) ELSE Main(b)

\* Only a flush that is to be saved holds a synthetic entry, and a flush that waits
\* for the monitored tags has something to decide about.
Suspended(c) ==
    /\ run[c].stage \notin {"tags", "saving"} => run[c].synth = <<>>
    /\ run[c].stage = "tags" => run[c].synth # <<>> \/ buffer[c] # <<>>

BatchInLine(b) ==
    /\ InLine(stored[b], run[RecordingContext(b)].synth,
              buffer[RecordingContext(b)], nextSeq)
    /\ buffer[Dormant(b)] = <<>> /\ run[Dormant(b)].synth = <<>>
    /\ phase[b] # "open" => truncated[Main(b)] = 0
    /\ Suspended(Main(b)) /\ Suspended(Late(b))

OInv == \A b \in Batches : BatchInLine(b)

-----------------------------------------------------------------------------
(* Sequences in line *)

Seqs == Seq(EntryRec)

LEMMA EntrySeq ==
    ASSUME NEW s \in Seqs
    PROVE  /\ Len(s) \in Nat
           /\ \A i \in 1..Len(s) : s[i] \in EntryRec /\ s[i].seq \in Nat
  <1>1. \A i \in 1..Len(s) : s[i] \in EntryRec
    BY ElementOfSeq DEF Seqs
  <1>2. QED
    BY <1>1, LenProperties DEF Seqs, EntryRec

LEMMA EmptyInLine ==
    /\ Rising(<<>>)
    /\ \A s, n : Precedes(s, <<>>) /\ Precedes(<<>>, s) /\ Under(<<>>, n)
  BY DEF Rising, Precedes, Under

LEMMA ConcatRising ==
    ASSUME NEW s \in Seqs, NEW u \in Seqs, Rising(s), Rising(u), Precedes(s, u)
    PROVE  s \o u \in Seqs /\ Rising(s \o u)
  <1>1. /\ s \o u \in Seqs
        /\ Len(s \o u) = Len(s) + Len(u)
        /\ \A i \in 1..(Len(s) + Len(u)) :
              (s \o u)[i] = IF i <= Len(s) THEN s[i] ELSE u[i - Len(s)]
    BY ConcatProperties DEF Seqs
  <1>2. Len(s) \in Nat /\ Len(u) \in Nat
    BY EntrySeq
  <1>3. ASSUME NEW i \in 1..Len(s \o u), NEW j \in 1..Len(s \o u), i < j
        PROVE  (s \o u)[i].seq < (s \o u)[j].seq
    <2>1. CASE j <= Len(s)
      BY <1>1, <1>2, <1>3, <2>1 DEF Rising
    <2>2. CASE i <= Len(s) /\ j > Len(s)
      <3>1. i \in 1..Len(s) /\ j - Len(s) \in 1..Len(u)
        BY <1>1, <1>2, <2>2
      <3>2. (s \o u)[i] = s[i] /\ (s \o u)[j] = u[j - Len(s)]
        BY <1>1, <1>2, <2>2
      <3>3. QED
        BY <3>1, <3>2 DEF Precedes
    <2>3. CASE i > Len(s)
      <3>1. i - Len(s) \in 1..Len(u) /\ j - Len(s) \in 1..Len(u)
            /\ i - Len(s) < j - Len(s)
        BY <1>1, <1>2, <1>3, <2>3
      <3>2. (s \o u)[i] = u[i - Len(s)] /\ (s \o u)[j] = u[j - Len(s)]
        BY <1>1, <1>2, <1>3, <2>3
      <3>3. QED
        BY <3>1, <3>2 DEF Rising
    <2>4. QED
      BY <1>1, <1>2, <1>3, <2>1, <2>2, <2>3
  <1>4. QED
    BY <1>1, <1>3 DEF Rising

\* What holds of the entries of both parts holds of the whole.
LEMMA ConcatBounds ==
    ASSUME NEW s \in Seqs, NEW u \in Seqs
    PROVE  /\ \A v : Precedes(s, v) /\ Precedes(u, v) => Precedes(s \o u, v)
           /\ \A v : Precedes(v, s) /\ Precedes(v, u) => Precedes(v, s \o u)
           /\ \A n : Under(s, n) /\ Under(u, n) => Under(s \o u, n)
  <1>1. /\ Len(s \o u) = Len(s) + Len(u)
        /\ \A i \in 1..(Len(s) + Len(u)) :
              (s \o u)[i] = IF i <= Len(s) THEN s[i] ELSE u[i - Len(s)]
    BY ConcatProperties DEF Seqs
  <1>2. Len(s) \in Nat /\ Len(u) \in Nat
    BY EntrySeq
  <1>3. ASSUME NEW i \in 1..Len(s \o u)
        PROVE  \/ i \in 1..Len(s) /\ (s \o u)[i] = s[i]
               \/ i - Len(s) \in 1..Len(u) /\ (s \o u)[i] = u[i - Len(s)]
    BY <1>1, <1>2
  <1>4. QED
    BY <1>3 DEF Precedes, Under

LEMMA SliceInLine ==
    ASSUME NEW s \in Seqs, NEW m \in Nat \ {0}, NEW n \in Nat, n <= Len(s)
    PROVE  /\ SubSeq(s, m, n) \in Seqs
           /\ Rising(s) => Rising(SubSeq(s, m, n))
           /\ \A v : Precedes(v, s) => Precedes(v, SubSeq(s, m, n))
           /\ \A v : Precedes(s, v) => Precedes(SubSeq(s, m, n), v)
           /\ \A k : Under(s, k) => Under(SubSeq(s, m, n), k)
  <1> DEFINE u == SubSeq(s, m, n)
  <1>1. /\ u \in Seqs
        /\ Len(u) = IF m <= n THEN n - m + 1 ELSE 0
        /\ \A i \in 1..(n - m + 1) : u[i] = s[m + i - 1]
    <2>1. \A i \in m..n : s[i] \in EntryRec
      BY EntrySeq
    <2>2. QED
      BY <2>1, SubSeqProperties DEF Seqs
  <1>2. \A i \in 1..Len(u) : m + i - 1 \in 1..Len(s) /\ u[i] = s[m + i - 1]
    BY <1>1, EntrySeq
  <1> HIDE DEF u
  <1>3. ASSUME Rising(s), NEW i \in 1..Len(u), NEW j \in 1..Len(u), i < j
        PROVE  u[i].seq < u[j].seq
    <2>1. Len(u) \in Nat
      BY <1>1, EntrySeq
    <2>2. m + i - 1 < m + j - 1
      BY <1>3, <2>1
    <2>3. QED
      BY <1>2, <1>3, <2>2 DEF Rising
  <1>4. Rising(s) => Rising(u)
    BY <1>3 DEF Rising
  <1>5. QED
    BY <1>1, <1>2, <1>4 DEF Precedes, Under, u

\* A buffer cut in two keeps its order.
LEMMA CutInLine ==
    ASSUME NEW s \in Seqs, NEW n \in Nat, n <= Len(s), Rising(s)
    PROVE  Precedes(SubSeq(s, 1, n), SubSeq(s, n + 1, Len(s)))
  <1>1. \A i \in 1..Len(s) : s[i] \in EntryRec
    BY EntrySeq
  <1>2. Len(s) \in Nat
    BY EntrySeq
  <1>3. /\ Len(SubSeq(s, 1, n)) = n
        /\ \A i \in 1..n : SubSeq(s, 1, n)[i] = s[i]
    <2>1. \A i \in 1..n : s[i] \in EntryRec
      BY <1>1, <1>2
    <2>2. QED
      BY <1>2, <2>1, SubSeqProperties
  <1>4. \A i \in 1..Len(SubSeq(s, n + 1, Len(s))) :
           /\ n + i \in (n + 1)..Len(s)
           /\ SubSeq(s, n + 1, Len(s))[i] = s[n + i]
    <2>1. \A i \in (n + 1)..Len(s) : s[i] \in EntryRec
      BY <1>1, <1>2
    <2> DEFINE m == n + 1
               u == SubSeq(s, m, Len(s))
    <2>2. m \in Nat /\ Len(s) \in Nat
      BY <1>2
    <2> HIDE DEF m
    <2>3. /\ Len(u) = IF m <= Len(s) THEN Len(s) - m + 1 ELSE 0
          /\ \A i \in 1..(Len(s) - m + 1) : u[i] = s[m + i - 1]
      BY <2>1, <2>2, SubSeqProperties DEF m
    <2> HIDE DEF u
    <2>4. ASSUME NEW i \in 1..Len(u)
          PROVE  m + i - 1 \in m..Len(s) /\ u[i] = s[m + i - 1] /\ i \in Int
      BY <2>2, <2>3
    <2>5. \A i \in Int : m + i - 1 = n + i
      BY DEF m
    <2>6. QED
      BY <2>4, <2>5 DEF m, u
  <1>5. QED
    BY <1>2, <1>3, <1>4 DEF Precedes, Rising

-----------------------------------------------------------------------------
(* What the operators of the recorder do to a line *)

LEMMA AppendInLine ==
    ASSUME NEW rows \in Seqs, NEW synth \in Seqs, NEW buf \in Seqs, NEW n \in Nat,
           InLine(rows, synth, buf, n), NEW e \in EntryRec, e.seq = n
    PROVE  InLine(rows, synth, Append(buf, e), n + 1)
  <1>1. /\ Len(Append(buf, e)) = Len(buf) + 1
        /\ \A i \in 1..Len(buf) : Append(buf, e)[i] = buf[i]
        /\ Append(buf, e)[Len(buf) + 1] = e
    BY AppendProperties DEF Seqs
  <1>2. Len(buf) \in Nat /\ \A i \in 1..Len(buf) : buf[i].seq \in Nat
    BY EntrySeq
  <1>3. \A i \in 1..Len(Append(buf, e)) :
           \/ i \in 1..Len(buf) /\ Append(buf, e)[i] = buf[i]
           \/ i = Len(buf) + 1 /\ Append(buf, e)[i] = e
    BY <1>1, <1>2
  <1>4. Rising(Append(buf, e))
    BY <1>1, <1>2, <1>3 DEF Rising, InLine, Under
  <1>5. Precedes(rows, Append(buf, e)) /\ Precedes(synth, Append(buf, e))
    BY <1>3 DEF Precedes, InLine, Under
  <1>6. Under(Append(buf, e), n + 1)
    BY <1>2, <1>3 DEF Under, InLine
  <1>7. \A s \in Seqs : Under(s, n) => Under(s, n + 1)
    BY EntrySeq DEF Under
  <1>8. QED
    BY <1>4, <1>5, <1>6, <1>7 DEF InLine

LEMMA LaterInLine ==
    ASSUME NEW rows \in Seqs, NEW synth \in Seqs, NEW buf \in Seqs,
           NEW n \in Nat, NEW k \in Nat, n <= k, InLine(rows, synth, buf, n)
    PROVE  InLine(rows, synth, buf, k)
  <1>1. \A s \in Seqs : Under(s, n) => Under(s, k)
    BY EntrySeq DEF Under
  <1>2. QED
    BY <1>1 DEF InLine

\* #reportTruncation moves no entry: it changes a note, the note of the synthetic
\* entry, or creates one behind everything that was stored.
SameLine(s, u) == Len(u) = Len(s) /\ \A i \in 1..Len(s) : u[i].seq = s[i].seq

KeepsLine(buf, size, synth, noted) ==
    /\ SameLine(buf, noted.buffer)
    /\ \/ noted.synth = synth
       \/ /\ synth # <<>> /\ Len(noted.synth) = 1
          /\ noted.synth[1].seq = synth[1].seq
       \/ /\ synth = <<>> /\ size = 0
          /\ Len(noted.synth) = 1 /\ noted.synth[1].seq = nextSeq

LEMMA NotedOrder ==
    ASSUME NEW buf \in Seqs, NEW size \in Nat, NEW synth \in Seqs, NEW count \in Nat
    PROVE  KeepsLine(buf, size, synth, Noted(buf, size, synth, count))
  <1>1. SameLine(buf, buf)
    BY DEF SameLine
  <1>2. ASSUME NEW k
        PROVE  SameLine(buf, [buf EXCEPT ![k].note = count])
    <2>1. CASE k \in 1..Len(buf)
      <3>1. buf[k] \in EntryRec
        BY <2>1, EntrySeq
      <3>2. /\ [buf[k] EXCEPT !.note = count] \in EntryRec
            /\ [buf[k] EXCEPT !.note = count].seq = buf[k].seq
        BY <3>1 DEF EntryRec
      <3>3. QED
        BY <2>1, <3>1, <3>2, ExceptSeq DEF SameLine, Seqs
    <2>2. CASE k \notin 1..Len(buf)
      <3>1. DOMAIN buf = 1..Len(buf)
        BY LenProperties DEF Seqs
      <3>2. [buf EXCEPT ![k].note = count] = buf
        BY <2>2, <3>1, LenProperties DEF Seqs
      <3>3. QED
        BY <3>2 DEF SameLine
    <2>3. QED
      BY <2>1, <2>2
  <1>3. CASE count = 0
    BY <1>1, <1>3 DEF Noted, KeepsLine
  <1>4. CASE count # 0 /\ synth # <<>> /\ Carriers(buf, size) = {}
    <2> DEFINE e == [synth[1] EXCEPT !.note = count]
    <2>1. 1 \in 1..Len(synth)
      BY <1>4, EmptySeq, LenProperties DEF Seqs
    <2>2. e.seq = synth[1].seq
      BY <2>1, EntrySeq DEF EntryRec
    <2>3. Noted(buf, size, synth, count) = [buffer |-> buf, synth |-> <<e>>]
      BY <1>4 DEF Noted
    <2> HIDE DEF e
    <2>4. QED
      BY <1>1, <1>4, <2>2, <2>3 DEF KeepsLine
  <1>5. CASE /\ count # 0
             /\ ~(synth # <<>> /\ Carriers(buf, size) = {})
             /\ size > 0
    <2> DEFINE new == [buf EXCEPT ![FirstCarrier(buf, size)].note = count]
    <2>1. Noted(buf, size, synth, count) = [buffer |-> new, synth |-> synth]
      BY <1>5 DEF Noted
    <2>2. SameLine(buf, new)
      BY <1>2
    <2> HIDE DEF new
    <2>3. QED
      BY <2>1, <2>2 DEF KeepsLine
  <1>6. CASE /\ count # 0
             /\ ~(synth # <<>> /\ Carriers(buf, size) = {})
             /\ ~(size > 0)
    <2>1. size = 0 /\ Carriers(buf, size) = {} /\ synth = <<>>
      BY <1>6 DEF Carriers
    <2> DEFINE e == [seq |-> nextSeq, type |-> Report, note |-> count, origin |-> "report"]
    <2>2. e.seq = nextSeq
      OBVIOUS
    <2>3. Noted(buf, size, synth, count) = [buffer |-> buf, synth |-> <<e>>]
      BY <1>6 DEF Noted
    <2> HIDE DEF e
    <2>4. QED
      BY <1>1, <2>1, <2>2, <2>3 DEF KeepsLine
  <1>7. QED
    BY <1>3, <1>4, <1>5, <1>6

\* The three cases of NotedOrder keep a line.
LEMMA RelabelInLine ==
    ASSUME NEW rows \in Seqs, NEW synth \in Seqs, NEW buf \in Seqs, NEW n \in Nat,
           InLine(rows, synth, buf, n),
           NEW newSynth \in Seqs, NEW newBuf \in Seqs, SameLine(buf, newBuf)
    PROVE  /\ newSynth = synth => InLine(rows, newSynth, newBuf, n)
           /\ /\ synth # <<>> /\ Len(newSynth) = 1 /\ newSynth[1].seq = synth[1].seq
              => InLine(rows, newSynth, newBuf, n)
           /\ /\ synth = <<>> /\ buf = <<>>
              /\ Len(newSynth) = 1 /\ newSynth[1].seq = n
              => InLine(rows, newSynth, newBuf, n + 1)
  <1>1. /\ Rising(newBuf) /\ Under(newBuf, n)
        /\ \A s : Precedes(s, buf) => Precedes(s, newBuf)
    BY DEF SameLine, InLine, Rising, Under, Precedes
  <1>2. newSynth = synth => InLine(rows, newSynth, newBuf, n)
    BY <1>1 DEF InLine
  <1>3. ASSUME synth # <<>>, Len(newSynth) = 1, newSynth[1].seq = synth[1].seq
        PROVE  InLine(rows, newSynth, newBuf, n)
    <2>1. 1 \in 1..Len(synth)
      BY <1>3, EmptySeq, LenProperties DEF Seqs
    <2>2. \A i \in 1..Len(newSynth) : i = 1
      BY <1>3
    <2>3. /\ Rising(newSynth) /\ Under(newSynth, n)
          /\ Precedes(rows, newSynth)
          /\ Precedes(newSynth, newBuf)
      BY <1>1, <1>3, <2>1, <2>2 DEF InLine, Rising, Under, Precedes
    <2>4. QED
      BY <1>1, <2>3 DEF InLine
  <1>4. ASSUME synth = <<>>, buf = <<>>, Len(newSynth) = 1, newSynth[1].seq = n
        PROVE  InLine(rows, newSynth, newBuf, n + 1)
    <2>1. \A i \in 1..Len(newSynth) : i = 1
      BY <1>4
    <2>2. Len(newBuf) = 0
      BY <1>4 DEF SameLine
    <2>3. /\ Rising(newSynth) /\ Under(newSynth, n + 1)
          /\ Precedes(rows, newSynth) /\ Precedes(newSynth, newBuf)
      BY <1>4, <2>1, <2>2 DEF InLine, Rising, Under, Precedes
    <2>4. Under(rows, n + 1) /\ Under(newBuf, n + 1)
      BY <2>2, EntrySeq DEF InLine, Under
    <2>5. QED
      BY <1>1, <2>3, <2>4 DEF InLine
  <1>5. QED
    BY <1>2, <1>3, <1>4

\* The rows that are saved leave the front of the line, what was recorded since stays.
LEMMA CommitInLine ==
    ASSUME NEW rows \in Seqs, NEW synth \in Seqs, NEW buf \in Seqs, NEW n \in Nat,
           InLine(rows, synth, buf, n), NEW k \in Nat, k <= Len(buf)
    PROVE  InLine(rows \o (synth \o SubSeq(buf, 1, k)), <<>>,
                  SubSeq(buf, k + 1, Len(buf)), n)
  <1> DEFINE saved == SubSeq(buf, 1, k)
             rest == SubSeq(buf, k + 1, Len(buf))
  <1>1. /\ saved \in Seqs /\ Rising(saved) /\ Under(saved, n)
        /\ Precedes(rows, saved) /\ Precedes(synth, saved)
    BY SliceInLine DEF InLine
  <1>2. /\ rest \in Seqs /\ Rising(rest) /\ Under(rest, n)
        /\ Precedes(rows, rest) /\ Precedes(synth, rest)
    <2>1. Len(buf) \in Nat /\ Len(buf) <= Len(buf) /\ k + 1 \in Nat \ {0}
      BY EntrySeq
    <2>2. QED
      BY <2>1, SliceInLine DEF InLine
  <1>3. Precedes(saved, rest)
    BY CutInLine DEF InLine
  <1> HIDE DEF saved, rest
  <1> DEFINE drained == synth \o saved
  <1>4. /\ drained \in Seqs /\ Rising(drained)
        /\ Under(drained, n) /\ Precedes(rows, drained) /\ Precedes(drained, rest)
    BY <1>1, <1>2, <1>3, ConcatRising, ConcatBounds DEF InLine
  <1> HIDE DEF drained
  <1>5. /\ Rising(rows \o drained) /\ Under(rows \o drained, n)
        /\ Precedes(rows \o drained, rest)
    BY <1>2, <1>4, ConcatRising, ConcatBounds DEF InLine
  <1>6. InLine(rows \o drained, <<>>, rest, n)
    BY <1>2, <1>5, EmptyInLine DEF InLine
  <1>7. QED
    BY <1>6 DEF saved, rest, drained

\* A rejected save puts the synthetic entry back in front and may cut the newest.
LEMMA RequeueInLine ==
    ASSUME NEW rows \in Seqs, NEW c, NEW n \in Nat,
           run[c].synth \in Seqs, buffer[c] \in Seqs,
           InLine(rows, run[c].synth, buffer[c], n)
    PROVE  InLine(rows, <<>>, Requeued(c), n)
  <1> USE ConstantsAssumption
  <1> DEFINE whole == IF Len(buffer[c]) < BufferLimit
                      THEN run[c].synth \o buffer[c] ELSE buffer[c]
  <1>1. /\ whole \in Seqs /\ Rising(whole) /\ Under(whole, n)
        /\ Precedes(rows, whole)
    BY ConcatRising, ConcatBounds DEF InLine
  <1> HIDE DEF whole
  <1> DEFINE k == IF Len(whole) <= BufferLimit THEN Len(whole) ELSE BufferLimit
  <1>2. k \in Nat /\ k <= Len(whole)
    BY <1>1, EntrySeq
  <1>3. Requeued(c) = SubSeq(whole, 1, k)
    BY DEF Requeued, Capped, whole
  <1> HIDE DEF k
  <1>4. /\ Rising(Requeued(c)) /\ Under(Requeued(c), n)
        /\ Precedes(rows, Requeued(c))
    BY <1>1, <1>2, <1>3, SliceInLine
  <1>5. QED
    BY <1>4, EmptyInLine DEF InLine

-----------------------------------------------------------------------------
(* Entering #flushContext *)

LEMMA OnlyItsContext ==
    ASSUME TypeOK, NEW c \in Contexts, NEW mode, NEW chained,
           FlushContext(c, mode, chained)
    PROVE  \A d \in Contexts : d # c =>
              /\ buffer'[d] = buffer[d] /\ run'[d] = run[d]
              /\ truncated'[d] = truncated[d]
  BY DEF FlushContext, TakeTruncated, TypeOK

\* A context with nothing to flush returns at once.
LEMMA EnterEmpty ==
    ASSUME TypeOK, NEW c \in Contexts, NEW mode \in Modes, NEW chained \in BOOLEAN,
           FlushContext(c, mode, chained), buffer[c] = <<>>, truncated[c] = 0
    PROVE  /\ buffer'[c] = <<>> /\ truncated'[c] = 0 /\ nextSeq' = nextSeq
           /\ run'[c].stage = "returned" /\ run'[c].synth = <<>>
  <1>1. Noted(buffer[c], Len(buffer[c]), <<>>, truncated[c])
          = [buffer |-> <<>>, synth |-> <<>>]
    BY DEF Noted
  <1>2. Len(buffer[c]) = 0
    OBVIOUS
  <1> DEFINE a == At("returned", mode, 0, <<>>, chained)
  <1>3. a.stage = "returned" /\ a.synth = <<>>
    BY DEF At
  <1> HIDE DEF a
  <1>4. /\ run' = [run EXCEPT ![c] = a]
        /\ buffer' = buffer \/ buffer' = [buffer EXCEPT ![c] = <<>>]
        /\ truncated' = truncated \/ truncated' = [truncated EXCEPT ![c] = 0]
        /\ nextSeq' = nextSeq
    <2>1. nextSeq + Len(<<>>) = nextSeq
      BY DEF TypeOK
    <2>2. QED
      BY <1>1, <1>2, <2>1 DEF FlushContext, TakeTruncated, a
  <1>5. QED
    BY <1>3, <1>4 DEF TypeOK

\* A flush of a context keeps its line, whatever is drained, reported or dropped.
LEMMA EnterInLine ==
    ASSUME TypeOK, NEW c \in Contexts, NEW mode \in Modes, NEW chained \in BOOLEAN,
           FlushContext(c, mode, chained),
           NEW rows \in Seqs, InLine(rows, <<>>, buffer[c], nextSeq),
           nextSeq' \in Nat
    PROVE  /\ nextSeq <= nextSeq'
           /\ InLine(rows, run'[c].synth, buffer'[c], nextSeq')
           /\ Suspended(c)'
  <1> DEFINE size == Len(buffer[c])
             noted == Noted(buffer[c], size, <<>>, truncated[c])
             a(stage, n, synth) == At(stage, mode, n, synth, chained)
  <1>1. /\ buffer[c] \in Seqs /\ size \in Nat /\ truncated[c] \in Nat
        /\ nextSeq \in Nat /\ <<>> \in Seqs
    BY EmptySeq, LenProperties DEF TypeOK, Seqs
  <1>2. /\ noted.buffer \in Seqs /\ noted.synth \in Seqs
        /\ SameLine(buffer[c], noted.buffer)
        /\ \/ noted.synth = <<>>
           \/ /\ size = 0 /\ Len(noted.synth) = 1
              /\ noted.synth[1].seq = nextSeq
    <2> HIDE DEF size
    <2>1. noted.buffer \in Seqs /\ noted.synth \in Seqs
      BY <1>1, NotedEffect DEF Seqs
    <2>2. KeepsLine(buffer[c], size, <<>>, noted)
      BY <1>1, NotedOrder
    <2> HIDE DEF noted
    <2>3. QED
      BY <2>1, <2>2 DEF KeepsLine
  <1> HIDE DEF noted, size
  <1>3. /\ Len(noted.synth) \in Nat
        /\ InLine(rows, noted.synth, noted.buffer, nextSeq + Len(noted.synth))
        /\ noted.buffer = <<>> => size = 0
    <2>1. size = 0 => buffer[c] = <<>>
      BY <1>1, EmptySeq DEF Seqs, size
    <2>2. CASE noted.synth = <<>>
      <3>1. InLine(rows, noted.synth, noted.buffer, nextSeq)
        BY <1>1, <1>2, <2>2, RelabelInLine
      <3>2. nextSeq + Len(noted.synth) = nextSeq /\ Len(noted.synth) = 0
        BY <1>1, <2>2
      <3>3. noted.buffer = <<>> => size = 0
        BY <1>2 DEF SameLine, size
      <3>4. QED
        BY <3>1, <3>2, <3>3
    <2>3. CASE /\ size = 0 /\ Len(noted.synth) = 1
               /\ noted.synth[1].seq = nextSeq
      <3>1. InLine(rows, noted.synth, noted.buffer, nextSeq + 1)
        BY <1>1, <1>2, <2>1, <2>3, RelabelInLine
      <3>2. nextSeq + Len(noted.synth) = nextSeq + 1 /\ Len(noted.synth) \in Nat
        BY <2>3
      <3>3. QED
        BY <2>3, <3>1, <3>2
    <2>4. QED
      BY <1>2, <2>2, <2>3
  <1>4. InLine(rows, <<>>, <<>>, nextSeq)
    BY EmptyInLine DEF InLine
  <1>5. \A stage, n, synth : /\ a(stage, n, synth).stage = stage
                             /\ a(stage, n, synth).synth = synth
    BY DEF At
  <1>6. \A act : /\ [run EXCEPT ![c] = act][c] = act
    BY DEF TypeOK
  <1>7. \A buf : [buffer EXCEPT ![c] = buf][c] = buf
    BY DEF TypeOK
  <1> HIDE DEF a
  <1>8. CASE /\ run' = [run EXCEPT ![c] = a("returned", 0, <<>>)]
             /\ buffer' = buffer \/ buffer' = [buffer EXCEPT ![c] = <<>>]
             /\ nextSeq' = nextSeq \/ nextSeq' = nextSeq + Len(noted.synth)
    <2>1. run'[c].stage = "returned" /\ run'[c].synth = <<>>
      BY <1>5, <1>6, <1>8
    <2>2. nextSeq <= nextSeq'
      BY <1>1, <1>3, <1>8
    <2>3. InLine(rows, <<>>, buffer'[c], nextSeq)
      BY <1>4, <1>7, <1>8
    <2>4. buffer'[c] \in Seqs
      BY <1>1, <1>7, <1>8
    <2>5. InLine(rows, <<>>, buffer'[c], nextSeq')
      BY <1>1, <2>2, <2>3, <2>4, LaterInLine
    <2>6. QED
      BY <2>1, <2>2, <2>5 DEF Suspended
  <1>9. CASE /\ \E stage \in {"tags", "saving"} :
                   run' = [run EXCEPT ![c] = a(stage, size, noted.synth)]
             /\ buffer' = [buffer EXCEPT ![c] = noted.buffer]
             /\ nextSeq' = nextSeq + Len(noted.synth)
             /\ ~(size = 0 /\ noted.synth = <<>>)
    <2>1. run'[c].stage \in {"tags", "saving"} /\ run'[c].synth = noted.synth
      <3>1. PICK stage \in {"tags", "saving"} :
               run' = [run EXCEPT ![c] = a(stage, size, noted.synth)]
        BY <1>9
      <3>2. run'[c] = a(stage, size, noted.synth)
        BY <1>6, <3>1
      <3>3. QED
        BY <1>5, <3>2
    <2>2. buffer'[c] = noted.buffer
      BY <1>7, <1>9
    <2>3. nextSeq <= nextSeq'
      BY <1>1, <1>3, <1>9
    <2>4. run'[c].synth # <<>> \/ buffer'[c] # <<>>
      BY <1>3, <1>9, <2>1, <2>2
    <2>5. QED
      BY <1>3, <1>9, <2>1, <2>2, <2>3, <2>4 DEF Suspended
  <1>10. QED
    <2>1. CASE Undecided(c) /\ mode = "intermediate"
      BY <1>8, <2>1 DEF FlushContext, a
    <2>2. CASE ~(Undecided(c) /\ mode = "intermediate")
      BY <1>8, <1>9, <2>2 DEF FlushContext, a, noted, size
    <2>3. QED
      BY <2>1, <2>2

-----------------------------------------------------------------------------
(* Every step keeps the line *)

\* A step of one batch leaves the lines of the others as they are.
LEMMA OrderStep ==
    ASSUME IInv, IInv', OInv, NEW b \in Batches, nextSeq <= nextSeq',
           \A d \in Batches \ {b} : phase'[d] = phase[d] /\ stored'[d] = stored[d],
           \A d \in Contexts : d # Main(b) /\ d # Late(b) =>
              /\ buffer'[d] = buffer[d] /\ run'[d] = run[d]
              /\ truncated'[d] = truncated[d],
           BatchInLine(b)'
    PROVE  OInv'
  <1>1. SUFFICES ASSUME NEW d \in Batches, d # b PROVE BatchInLine(d)'
    BY DEF OInv
  <1>2. /\ Main(d) \in Contexts /\ Late(d) \in Contexts
        /\ Main(d) # Main(b) /\ Main(d) # Late(b)
        /\ Late(d) # Main(b) /\ Late(d) # Late(b)
    BY <1>1, ContextsOf, ContextsDiffer
  <1>3. BatchInLine(d)
    BY DEF OInv
  <1>4. /\ RecordingContext(d)' = RecordingContext(d)
        /\ Dormant(d)' = Dormant(d)
        /\ RecordingContext(d) \in {Main(d), Late(d)}
        /\ Dormant(d) \in {Main(d), Late(d)}
        /\ phase'[d] = phase[d]
    BY <1>1, <1>2 DEF RecordingContext, Dormant, Main, Late
  <1>5. /\ stored[d] \in Seqs /\ nextSeq \in Nat /\ nextSeq' \in Nat
        /\ \A c \in Contexts : run[c].synth \in Seqs /\ buffer[c] \in Seqs
    BY DEF IInv, TypeOK, Activation, Seqs
  <1>6. InLine(stored[d], run[RecordingContext(d)].synth,
               buffer[RecordingContext(d)], nextSeq')
    BY <1>2, <1>3, <1>4, <1>5, LaterInLine DEF BatchInLine
  <1>7. /\ stored'[d] = stored[d]
        /\ \A c \in {Main(d), Late(d)} :
              /\ buffer'[c] = buffer[c] /\ run'[c] = run[c]
              /\ truncated'[c] = truncated[c]
    BY <1>1, <1>2
  <1>8. InLine(stored[d], run[RecordingContext(d)].synth,
               buffer[RecordingContext(d)], nextSeq)'
    BY <1>4, <1>6, <1>7
  <1>9. /\ (buffer[Dormant(d)] = <<>> /\ run[Dormant(d)].synth = <<>>)'
        /\ (phase[d] # "open" => truncated[Main(d)] = 0)'
    BY <1>3, <1>4, <1>7 DEF BatchInLine
  <1>10. Suspended(Main(d))' /\ Suspended(Late(d))'
    BY <1>3, <1>7 DEF BatchInLine, Suspended, Main, Late
  <1>11. QED
    BY <1>8, <1>9, <1>10 DEF BatchInLine

\* What is known of a batch before a step.
LEMMA BatchFacts ==
    ASSUME IInv, OInv, NEW b \in Batches
    PROVE  /\ Main(b) \in Contexts /\ Late(b) \in Contexts /\ Main(b) # Late(b)
           /\ Main(b)[1] = b /\ Late(b)[1] = b
           /\ stored[b] \in Seqs /\ nextSeq \in Nat
           /\ \A c \in Contexts : /\ run[c].synth \in Seqs /\ buffer[c] \in Seqs
                                  /\ truncated[c] \in Nat /\ run[c] \in Activation
           /\ BatchInLine(b)
           /\ phase[b] = "open" => /\ RecordingContext(b) = Main(b)
                                   /\ Dormant(b) = Late(b)
           /\ phase[b] # "open" => /\ RecordingContext(b) = Late(b)
                                   /\ Dormant(b) = Main(b)
  BY ContextsOf DEF IInv, TypeOK, Activation, Seqs, OInv, RecordingContext, Dormant

LEMMA AcceptOrder ==
    ASSUME IInv, IInv', OInv, NEW b \in Batches, NEW t \in Types, Accept(b, t)
    PROVE  OInv'
  <1> DEFINE c == RecordingContext(b)
             e == [seq |-> nextSeq, type |-> t, note |-> 0, origin |-> "record"]
  <1>1. /\ c \in {Main(b), Late(b)} /\ c \in Contexts /\ c # Dormant(b)
        /\ Dormant(b) \in Contexts
        /\ e \in EntryRec /\ e.seq = nextSeq
        /\ buffer' = [buffer EXCEPT ![c] = Append(@, e)]
        /\ nextSeq' = nextSeq + 1
        /\ UNCHANGED <<phase, truncated, run, stored>>
    BY BatchFacts DEF Accept, RecordingContext, Dormant, EntryRec, flushing
  <1> HIDE DEF e
  <1>2. /\ buffer'[c] = Append(buffer[c], e)
        /\ \A d \in Contexts : d # c => buffer'[d] = buffer[d]
    BY <1>1 DEF IInv, TypeOK
  <1>3. InLine(stored[b], run[c].synth, buffer'[c], nextSeq')
    BY <1>1, <1>2, BatchFacts, AppendInLine DEF BatchInLine
  <1>4. RecordingContext(b)' = c /\ Dormant(b)' = Dormant(b)
    BY <1>1 DEF RecordingContext, Dormant, Main, Late
  <1> HIDE DEF c
  <1>5. /\ InLine(stored[b], run[RecordingContext(b)].synth,
                  buffer[RecordingContext(b)], nextSeq)'
        /\ (buffer[Dormant(b)] = <<>> /\ run[Dormant(b)].synth = <<>>)'
        /\ (phase[b] # "open" => truncated[Main(b)] = 0)'
    <2>1. /\ BatchInLine(b) /\ Dormant(b) \in Contexts
          /\ stored'[b] = stored[b] /\ phase'[b] = phase[b]
          /\ truncated'[Main(b)] = truncated[Main(b)]
          /\ run' = run
      BY <1>1, BatchFacts DEF Dormant
    <2>2. InLine(stored[b], run[RecordingContext(b)].synth,
                 buffer[RecordingContext(b)], nextSeq)'
      BY <1>3, <1>4, <2>1
    <2>3. buffer'[Dormant(b)] = buffer[Dormant(b)]
      BY <1>1, <1>2, <2>1
    <2>4. (buffer[Dormant(b)] = <<>> /\ run[Dormant(b)].synth = <<>>)'
      BY <1>4, <2>1, <2>3 DEF BatchInLine
    <2>5. (phase[b] # "open" => truncated[Main(b)] = 0)'
      BY <2>1 DEF BatchInLine, Main
    <2>6. QED
      BY <2>2, <2>4, <2>5
  <1>6. Append(buffer[c], e) # <<>>
    BY <1>1, BatchFacts, AppendProperties DEF Seqs
  <1>7. Suspended(Main(b))' /\ Suspended(Late(b))'
    <2>1. /\ BatchInLine(b) /\ Main(b) \in Contexts /\ Late(b) \in Contexts
          /\ run' = run
      BY <1>1, BatchFacts
    <2>2. \A d \in Contexts : buffer[d] # <<>> => buffer'[d] # <<>>
      BY <1>2, <1>6
    <2>3. Suspended(Main(b)) /\ Suspended(Late(b))
      BY <2>1 DEF BatchInLine
    <2>4. QED
      BY <2>1, <2>2, <2>3 DEF Suspended, Main, Late
  <1>8. BatchInLine(b)'
    BY <1>5, <1>7 DEF BatchInLine
  <1>9. nextSeq <= nextSeq'
    BY <1>1, BatchFacts
  <1>10. QED
    BY <1>1, <1>2, <1>8, <1>9, OrderStep

\* Steps that move no entry and change no stage but to or from one without entries.
LEMMA QuietOrder ==
    ASSUME IInv, IInv', OInv, NEW b \in Batches,
           UNCHANGED <<phase, buffer, stored, nextSeq>>,
           \A d \in Contexts : truncated'[d] = truncated[d] \/ d = RecordingContext(b),
           \A d \in Contexts :
              \/ run'[d] = run[d]
              \/ /\ d \in {Main(b), Late(b)} /\ run[d].synth = <<>>
                 /\ run'[d].synth = <<>> /\ run'[d].stage # "tags"
    PROVE  OInv'
  <1>1. \A d \in Batches : /\ RecordingContext(d)' = RecordingContext(d)
                           /\ Dormant(d)' = Dormant(d)
    BY DEF RecordingContext, Dormant, Main, Late
  <1>2. \A d \in Contexts : run'[d].synth = run[d].synth
    OBVIOUS
  <1>3. ASSUME NEW d \in Batches PROVE BatchInLine(d)'
    <2>1. /\ BatchInLine(d)
          /\ Main(d) \in Contexts /\ Late(d) \in Contexts
          /\ RecordingContext(d) \in Contexts /\ Dormant(d) \in Contexts
          /\ phase[d] # "open" => Main(d) # RecordingContext(b)
      BY BatchFacts, ContextsDiffer DEF RecordingContext, Dormant
    <2>2. /\ InLine(stored[d], run[RecordingContext(d)].synth,
                    buffer[RecordingContext(d)], nextSeq)'
          /\ (buffer[Dormant(d)] = <<>> /\ run[Dormant(d)].synth = <<>>)'
          /\ (phase[d] # "open" => truncated[Main(d)] = 0)'
      BY <1>1, <1>2, <2>1 DEF BatchInLine
    <2>3. Suspended(Main(d))' /\ Suspended(Late(d))'
      BY <2>1 DEF BatchInLine, Suspended, Main, Late
    <2>4. QED
      BY <2>2, <2>3 DEF BatchInLine
  <1>4. QED
    BY <1>3 DEF OInv

\* A flush of the batch's own context, which records while the batch is open and is
\* empty afterwards.
LEMMA MainFlushOrder ==
    ASSUME IInv, IInv', OInv, NEW b \in Batches, NEW mode \in Modes,
           FlushContext(Main(b), mode, TRUE), run[Main(b)] = Idle,
           UNCHANGED <<phase, stored>>
    PROVE  OInv'
  <1>1. /\ TypeOK /\ nextSeq' \in Nat /\ TRUE \in BOOLEAN
        /\ run[Main(b)].synth = <<>>
    BY DEF IInv, TypeOK, Idle
  <1>2. \A d \in Contexts : d # Main(b) =>
           /\ buffer'[d] = buffer[d] /\ run'[d] = run[d]
           /\ truncated'[d] = truncated[d]
    BY <1>1, BatchFacts, OnlyItsContext
  <1>3. /\ RecordingContext(b)' = RecordingContext(b)
        /\ Dormant(b)' = Dormant(b)
    BY DEF RecordingContext, Dormant, Main, Late
  <1>4. CASE phase[b] = "open"
    <2>1. InLine(stored[b], <<>>, buffer[Main(b)], nextSeq)
      BY <1>1, <1>4, BatchFacts DEF BatchInLine
    <2>2. /\ nextSeq <= nextSeq'
          /\ InLine(stored[b], run'[Main(b)].synth, buffer'[Main(b)], nextSeq')
          /\ Suspended(Main(b))'
      BY <1>1, <2>1, BatchFacts, EnterInLine
    <2>3. /\ (buffer[Late(b)] = <<>> /\ run[Late(b)].synth = <<>>)'
          /\ Suspended(Late(b))'
      BY <1>2, <1>4, BatchFacts DEF BatchInLine, Suspended, Late
    <2>4. BatchInLine(b)'
      BY <1>3, <1>4, <2>2, <2>3, BatchFacts DEF BatchInLine
    <2>5. QED
      BY <1>2, <2>2, <2>4, OrderStep
  <1>5. CASE phase[b] # "open"
    <2>1. buffer[Main(b)] = <<>> /\ truncated[Main(b)] = 0
      BY <1>5, BatchFacts DEF BatchInLine
    <2>2. /\ buffer'[Main(b)] = <<>> /\ truncated'[Main(b)] = 0 /\ nextSeq' = nextSeq
          /\ run'[Main(b)].stage = "returned" /\ run'[Main(b)].synth = <<>>
      BY <1>1, <2>1, BatchFacts, EnterEmpty
    <2>3. Suspended(Main(b))' /\ Suspended(Late(b))'
      BY <1>2, <2>2, BatchFacts DEF BatchInLine, Suspended, Main, Late
    <2>4. InLine(stored[b], run'[Late(b)].synth, buffer'[Late(b)], nextSeq')
      BY <1>2, <1>5, <2>2, BatchFacts DEF BatchInLine
    <2>5. BatchInLine(b)'
      BY <1>3, <1>5, <2>2, <2>3, <2>4, BatchFacts DEF BatchInLine
    <2>6. nextSeq <= nextSeq'
      BY <2>2, BatchFacts
    <2>7. QED
      BY <1>2, <2>5, <2>6, OrderStep
  <1>6. QED
    BY <1>4, <1>5

\* The window ends with a flush of the continuation.
LEMMA WindowEndsOrder ==
    ASSUME IInv, IInv', OInv, NEW b \in Batches, NEW chained \in BOOLEAN,
           FlushContext(Late(b), "final", chained), phase[b] = "closed",
           phase' = [phase EXCEPT ![b] = "finished"], UNCHANGED stored
    PROVE  OInv'
  <1>1. /\ TypeOK /\ nextSeq' \in Nat /\ "final" \in Modes
        /\ run[Late(b)] = Idle /\ Idle.synth = <<>>
        /\ phase'[b] = "finished"
        /\ \A d \in Batches \ {b} : phase'[d] = phase[d]
    BY DEF IInv, TypeOK, Idle, Modes, Ownership, OwnedBy
  <1>2. \A d \in Contexts : d # Late(b) =>
           /\ buffer'[d] = buffer[d] /\ run'[d] = run[d]
           /\ truncated'[d] = truncated[d]
    BY <1>1, BatchFacts, OnlyItsContext
  <1>3. RecordingContext(b)' = Late(b) /\ Dormant(b)' = Main(b)
    BY <1>1 DEF RecordingContext, Dormant, Main, Late
  <1>4. InLine(stored[b], <<>>, buffer[Late(b)], nextSeq)
    BY <1>1, BatchFacts DEF BatchInLine
  <1>5. /\ nextSeq <= nextSeq'
        /\ InLine(stored[b], run'[Late(b)].synth, buffer'[Late(b)], nextSeq')
        /\ Suspended(Late(b))'
    BY <1>1, <1>4, BatchFacts, EnterInLine
  <1>6. /\ (buffer[Main(b)] = <<>> /\ run[Main(b)].synth = <<>>)'
        /\ truncated'[Main(b)] = 0
        /\ Suspended(Main(b))'
    BY <1>2, BatchFacts DEF BatchInLine, Suspended, Main
  <1>7. BatchInLine(b)'
    BY <1>3, <1>5, <1>6 DEF BatchInLine
  <1>8. QED
    BY <1>1, <1>2, <1>5, <1>7, OrderStep

\* A window that collected nothing ends by itself.
LEMMA WindowShutOrder ==
    ASSUME IInv, IInv', OInv, NEW b \in Batches, phase[b] = "closed",
           phase' = [phase EXCEPT ![b] = "finished"],
           UNCHANGED <<buffer, truncated, run, nextSeq, stored>>
    PROVE  OInv'
  <1>1. /\ phase'[b] = "finished"
        /\ \A d \in Batches \ {b} : phase'[d] = phase[d]
    BY DEF IInv, TypeOK
  <1>2. RecordingContext(b)' = Late(b) /\ Dormant(b)' = Main(b)
    BY <1>1 DEF RecordingContext, Dormant, Main, Late
  <1>3. Suspended(Main(b))' /\ Suspended(Late(b))'
    BY BatchFacts DEF BatchInLine, Suspended, Main, Late
  <1>4. BatchInLine(b)'
    BY <1>1, <1>2, <1>3, BatchFacts DEF BatchInLine
  <1>5. nextSeq <= nextSeq'
    BY BatchFacts
  <1>6. QED
    BY <1>1, <1>4, <1>5, OrderStep

LEMMA StartFlushOrder ==
    ASSUME IInv, IInv', OInv, NEW b \in Batches, StartFlush(b)
    PROVE  OInv'
  <1> DEFINE mode == Head(queue[b])
             expires == mode = "final" /\ phase[b] = "closed"
  <1>1. /\ TypeOK /\ nextSeq' \in Nat
        /\ mode \in Modes /\ "final" \in Modes
        /\ run[Main(b)] = Idle /\ Idle.synth = <<>> /\ Idle.stage = "idle"
        /\ UNCHANGED stored
    BY HeadOfQueue DEF StartFlush, Quiet, IInv, TypeOK, Modes, Idle
  <1>2. CASE expires /\ continued[b]
    <2>1. /\ FlushContext(Late(b), "final", TRUE)
          /\ phase' = [phase EXCEPT ![b] = "finished"]
      BY <1>2 DEF StartFlush, FlushContinuation, Finish
    <2>2. QED
      BY <1>1, <1>2, <2>1, WindowEndsOrder
  <1>3. CASE expires /\ ~continued[b]
    <2>1. /\ UNCHANGED <<buffer, truncated, run, nextSeq>>
          /\ phase' = [phase EXCEPT ![b] = "finished"]
      BY <1>3 DEF StartFlush, FlushContinuation, Finish
    <2>2. QED
      BY <1>1, <1>3, <2>1, WindowShutOrder
  <1>4. CASE ~expires
    <2>1. FlushContext(Main(b), mode, TRUE) /\ UNCHANGED phase
      BY <1>4 DEF StartFlush
    <2> HIDE DEF mode
    <2>2. QED
      BY <1>1, <2>1, MainFlushOrder
  <1>5. QED
    BY <1>2, <1>3, <1>4

LEMMA LateTimerOrder ==
    ASSUME IInv, IInv', OInv, NEW b \in Batches, LateTimer(b)
    PROVE  OInv'
  <1>1. /\ phase[b] = "closed" /\ phase' = [phase EXCEPT ![b] = "finished"]
        /\ UNCHANGED stored
    BY DEF LateTimer, Finish, IInv, WindowOwned
  <1>2. CASE continued[b]
    <2>1. FlushContext(Late(b), "final", FALSE)
      BY <1>2 DEF LateTimer, FlushContinuation
    <2>2. QED
      BY <1>1, <2>1, WindowEndsOrder
  <1>3. CASE ~continued[b]
    <2>1. UNCHANGED <<buffer, truncated, run, nextSeq>>
      BY <1>3 DEF LateTimer, FlushContinuation
    <2>2. QED
      BY <1>1, <2>1, WindowShutOrder
  <1>4. QED
    BY <1>2, <1>3

\* A suspended activation of the dormant context has nothing to decide, save or cut.
LEMMA DormantIdles ==
    ASSUME IInv, OInv, NEW b \in Batches, NEW c \in {Main(b), Late(b)},
           c = Dormant(b)
    PROVE  /\ run[c].stage # "tags"
           /\ buffer[c] = <<>> /\ run[c].synth = <<>> /\ run[c].size = 0
  <1>1. BatchInLine(b) /\ Dormant(b) \in Contexts
    BY BatchFacts DEF Dormant
  <1>2. /\ buffer[c] = <<>> /\ run[c].synth = <<>> /\ Suspended(c)
    BY <1>1 DEF BatchInLine
  <1>3. run[c].size \in Nat /\ run[c].size <= Len(buffer[c])
    BY <1>1, BatchFacts DEF IInv, SnapshotIsPrefix, Activation
  <1>4. QED
    BY <1>2, <1>3 DEF Suspended

\* What a step of an activation must leave of its context.
LEMMA StorageStep ==
    ASSUME IInv, IInv', OInv, NEW b \in Batches, NEW c \in {Main(b), Late(b)},
           UNCHANGED <<phase, nextSeq>>,
           \A d \in Batches \ {b} : stored'[d] = stored[d],
           \A d \in Contexts : d # c =>
              buffer'[d] = buffer[d] /\ run'[d] = run[d] /\ truncated'[d] = truncated[d],
           truncated'[c] = truncated[c] \/ truncated'[c] = 0,
           c = RecordingContext(b) =>
              InLine(stored'[b], run'[c].synth, buffer'[c], nextSeq),
           c = Dormant(b) =>
              stored'[b] = stored[b] /\ buffer'[c] = <<>> /\ run'[c].synth = <<>>,
           Suspended(c)'
    PROVE  OInv'
  <1>1. /\ RecordingContext(b)' = RecordingContext(b)
        /\ Dormant(b)' = Dormant(b)
        /\ RecordingContext(b) # Dormant(b)
        /\ RecordingContext(b) \in {Main(b), Late(b)}
        /\ Dormant(b) \in {Main(b), Late(b)}
        /\ Main(b) \in Contexts /\ Late(b) \in Contexts /\ Main(b) # Late(b)
    BY BatchFacts DEF RecordingContext, Dormant
  <1>2. BatchInLine(b)
    BY BatchFacts
  <1>3. Suspended(Main(b))' /\ Suspended(Late(b))'
    <2>1. \A d \in {Main(b), Late(b)} : d # c => Suspended(d)'
      BY <1>1, <1>2 DEF BatchInLine, Suspended, Main, Late
    <2>2. QED
      BY <2>1 DEF Suspended, Main, Late
  <1>4. (phase[b] # "open" => truncated[Main(b)] = 0)'
    BY <1>1, <1>2 DEF BatchInLine
  <1>5. CASE c = RecordingContext(b)
    <2>1. InLine(stored[b], run[RecordingContext(b)].synth,
                 buffer[RecordingContext(b)], nextSeq)'
      BY <1>1, <1>5
    <2>2. (buffer[Dormant(b)] = <<>> /\ run[Dormant(b)].synth = <<>>)'
      BY <1>1, <1>2, <1>5 DEF BatchInLine
    <2>3. QED
      BY <1>1, <1>3, <1>4, <2>1, <2>2, OrderStep, BatchFacts DEF BatchInLine
  <1>6. CASE c = Dormant(b)
    <2>1. InLine(stored[b], run[RecordingContext(b)].synth,
                 buffer[RecordingContext(b)], nextSeq)'
      BY <1>1, <1>2, <1>6 DEF BatchInLine
    <2>2. (buffer[Dormant(b)] = <<>> /\ run[Dormant(b)].synth = <<>>)'
      BY <1>1, <1>6
    <2>3. QED
      BY <1>1, <1>3, <1>4, <2>1, <2>2, OrderStep, BatchFacts DEF BatchInLine
  <1>7. QED
    BY <1>1, <1>5, <1>6

LEMMA DecideByTagsOrder ==
    ASSUME IInv, IInv', OInv, NEW b \in Batches, NEW c \in {Main(b), Late(b)},
           DecideByTags(c)
    PROVE  OInv'
  <1> DEFINE size == Len(buffer[c])
             noted == Noted(buffer[c], size, run[c].synth, truncated[c])
  <1>1. /\ c \in Contexts /\ run[c].stage = "tags" /\ c # Dormant(b)
        /\ c = RecordingContext(b)
        /\ buffer[c] \in Seqs /\ run[c].synth \in Seqs /\ truncated[c] \in Nat
        /\ size \in Nat
        /\ InLine(stored[b], run[c].synth, buffer[c], nextSeq)
        /\ run[c].synth # <<>> \/ buffer[c] # <<>>
        /\ UNCHANGED <<phase, nextSeq, stored>>
        /\ truncated' = [truncated EXCEPT ![c] = 0]
    <2>1. c \in Contexts /\ run[c].stage = "tags" /\ BatchInLine(b)
      BY BatchFacts DEF DecideByTags
    <2>2. c # Dormant(b)
      BY <2>1, DormantIdles
    <2>3. c = RecordingContext(b)
      BY <2>2 DEF RecordingContext, Dormant
    <2>4. QED
      BY <2>1, <2>2, <2>3, BatchFacts, EntrySeq
      DEF DecideByTags, TakeTruncated, BatchInLine, Suspended
  <1>2. truncated'[c] = 0 /\ \A d \in Contexts : d # c => truncated'[d] = truncated[d]
    BY <1>1 DEF IInv, TypeOK
  <1>3. CASE /\ buffer' = [buffer EXCEPT ![c] = noted.buffer]
             /\ run' = [run EXCEPT ![c].stage = "saving", ![c].size = size,
                                   ![c].synth = noted.synth]
    <2>1. /\ buffer'[c] = noted.buffer /\ run'[c].synth = noted.synth
          /\ run'[c].stage = "saving"
          /\ \A d \in Contexts : d # c => buffer'[d] = buffer[d] /\ run'[d] = run[d]
      BY <1>1, <1>3, BatchFacts DEF IInv, TypeOK, Activation
    <2>2. noted.buffer \in Seqs /\ noted.synth \in Seqs
      <3> HIDE DEF size
      <3> QED BY <1>1, BatchFacts, NotedEffect DEF Seqs
    <2>3. KeepsLine(buffer[c], size, run[c].synth, noted)
      <3> HIDE DEF size
      <3> QED BY <1>1, NotedOrder
    <2>4. size = 0 => buffer[c] = <<>>
      BY <1>1, EmptySeq DEF Seqs
    <2> HIDE DEF noted, size
    <2>5. InLine(stored[b], noted.synth, noted.buffer, nextSeq)
      <3>1. SameLine(buffer[c], noted.buffer)
        BY <2>3 DEF KeepsLine
      <3>2. \/ noted.synth = run[c].synth
            \/ /\ run[c].synth # <<>> /\ Len(noted.synth) = 1
               /\ noted.synth[1].seq = run[c].synth[1].seq
        BY <1>1, <2>3, <2>4 DEF KeepsLine
      <3>3. QED
        BY <1>1, <2>2, <3>1, <3>2, BatchFacts, RelabelInLine
    <2>6. Suspended(c)'
      BY <2>1 DEF Suspended
    <2>7. QED
      BY <1>1, <1>2, <2>1, <2>5, <2>6, StorageStep
  <1>4. CASE /\ buffer' = [buffer EXCEPT ![c] = <<>>]
             /\ run' = [run EXCEPT ![c].stage = "returned", ![c].size = 0,
                                   ![c].synth = <<>>]
    <2>1. /\ buffer'[c] = <<>> /\ run'[c].synth = <<>> /\ run'[c].stage = "returned"
          /\ \A d \in Contexts : d # c => buffer'[d] = buffer[d] /\ run'[d] = run[d]
      BY <1>1, <1>4, BatchFacts DEF IInv, TypeOK, Activation
    <2>2. InLine(stored[b], <<>>, <<>>, nextSeq)
      BY <1>1, EmptyInLine DEF InLine
    <2>3. Suspended(c)'
      BY <2>1 DEF Suspended
    <2>4. QED
      BY <1>1, <1>2, <2>1, <2>2, <2>3, StorageStep
  <1>5. QED
    BY <1>3, <1>4 DEF DecideByTags

LEMMA SaveCommitsOrder ==
    ASSUME IInv, IInv', OInv, NEW b \in Batches, NEW c \in {Main(b), Late(b)},
           SaveCommits(c)
    PROVE  OInv'
  <1>1. /\ c \in Contexts /\ c[1] = b
        /\ buffer[c] \in Seqs /\ run[c].synth \in Seqs
        /\ run[c].size \in Nat /\ run[c].size <= Len(buffer[c])
        /\ UNCHANGED <<phase, nextSeq, truncated>>
        /\ stored' = [stored EXCEPT ![b] = @ \o Drained(c)]
        /\ buffer' = [buffer EXCEPT ![c] = Arrivals(c)]
        /\ run' = [run EXCEPT ![c].stage = "trimming", ![c].size = 0,
                              ![c].synth = <<>>]
    BY BatchFacts DEF SaveCommits, IInv, SnapshotIsPrefix, Activation
  <1>2. /\ buffer'[c] = Arrivals(c) /\ run'[c].synth = <<>>
        /\ run'[c].stage = "trimming"
        /\ stored'[b] = stored[b] \o Drained(c)
        /\ \A d \in Batches \ {b} : stored'[d] = stored[d]
        /\ \A d \in Contexts : d # c => buffer'[d] = buffer[d] /\ run'[d] = run[d]
    <2>1. /\ run'[c].synth = <<>> /\ run'[c].stage = "trimming"
          /\ \A d \in Contexts : d # c => run'[d] = run[d]
      BY <1>1, BatchFacts DEF IInv, TypeOK, Activation
    <2>2. /\ buffer'[c] = Arrivals(c)
          /\ \A d \in Contexts : d # c => buffer'[d] = buffer[d]
      BY <1>1 DEF IInv, TypeOK
    <2>3. /\ stored'[b] = stored[b] \o Drained(c)
          /\ \A d \in Batches \ {b} : stored'[d] = stored[d]
      BY <1>1 DEF IInv, TypeOK
    <2>4. QED
      BY <2>1, <2>2, <2>3
  <1>3. Suspended(c)'
    BY <1>2 DEF Suspended
  <1>4. ASSUME c = RecordingContext(b)
        PROVE  InLine(stored'[b], run'[c].synth, buffer'[c], nextSeq)
    <2>1. InLine(stored[b], run[c].synth, buffer[c], nextSeq)
      BY <1>4, BatchFacts DEF BatchInLine
    <2>2. stored[b] \in Seqs /\ nextSeq \in Nat
      BY BatchFacts
    <2>3. InLine(stored[b] \o Drained(c), <<>>, Arrivals(c), nextSeq)
      BY <1>1, <2>1, <2>2, CommitInLine DEF Drained, Arrivals
    <2>4. QED
      BY <1>2, <2>3
  <1>5. ASSUME c = Dormant(b)
        PROVE  /\ stored'[b] = stored[b] /\ buffer'[c] = <<>>
               /\ run'[c].synth = <<>>
    <2>1. buffer[c] = <<>> /\ run[c].synth = <<>> /\ run[c].size = 0
      BY <1>5, DormantIdles
    <2>2. SubSeq(<<>>, 1, 0) = <<>>
      OBVIOUS
    <2>3. Drained(c) = <<>> /\ Arrivals(c) = <<>>
      BY <2>1, <2>2 DEF Drained, Arrivals
    <2>4. stored[b] \o <<>> = stored[b]
      BY BatchFacts, ConcatEmptySeq DEF Seqs
    <2>5. QED
      BY <1>2, <2>3, <2>4
  <1>6. /\ UNCHANGED <<phase, nextSeq>> /\ truncated'[c] = truncated[c]
        /\ \A d \in Contexts : d # c =>
              buffer'[d] = buffer[d] /\ run'[d] = run[d] /\ truncated'[d] = truncated[d]
    BY <1>1, <1>2
  <1>7. QED
    BY <1>2, <1>3, <1>4, <1>5, <1>6, StorageStep

LEMMA SaveRejectsOrder ==
    ASSUME IInv, IInv', OInv, NEW b \in Batches, NEW c \in {Main(b), Late(b)},
           SaveRejects(c)
    PROVE  OInv'
  <1>1. /\ c \in Contexts
        /\ buffer[c] \in Seqs /\ run[c].synth \in Seqs
        /\ UNCHANGED <<phase, nextSeq, truncated, stored>>
        /\ buffer' = [buffer EXCEPT ![c] = Requeued(c)]
        /\ run' = [run EXCEPT ![c].stage = "threw", ![c].size = 0,
                              ![c].synth = <<>>]
    BY BatchFacts DEF SaveRejects
  <1>2. /\ buffer'[c] = Requeued(c) /\ run'[c].synth = <<>>
        /\ run'[c].stage = "threw"
        /\ \A d \in Contexts : d # c => buffer'[d] = buffer[d] /\ run'[d] = run[d]
    BY <1>1, BatchFacts DEF IInv, TypeOK, Activation
  <1>3. Suspended(c)'
    BY <1>2 DEF Suspended
  <1>4. ASSUME c = RecordingContext(b)
        PROVE  InLine(stored'[b], <<>>, buffer'[c], nextSeq)
    BY <1>1, <1>2, <1>4, BatchFacts, RequeueInLine DEF BatchInLine
  <1>5. ASSUME c = Dormant(b)
        PROVE  buffer'[c] = <<>>
    <2>1. buffer[c] = <<>> /\ run[c].synth = <<>>
      BY <1>5, DormantIdles
    <2>2. SubSeq(<<>>, 1, 0) = <<>> /\ <<>> \o <<>> = <<>>
      OBVIOUS
    <2>3. Requeued(c) = <<>>
      BY <2>1, <2>2, ConstantsAssumption DEF Requeued, Capped
    <2>4. QED
      BY <1>2, <2>3
  <1>6. QED
    BY <1>1, <1>2, <1>3, <1>4, <1>5, StorageStep

LEMMA StageSet ==
    ASSUME TypeOK, NEW c \in Contexts, NEW stage,
           run' = [run EXCEPT ![c].stage = stage]
    PROVE  /\ run'[c].stage = stage /\ run'[c].synth = run[c].synth
           /\ \A d \in Contexts : d # c => run'[d] = run[d]
  <1>1. run \in [Contexts -> Activation]
    BY DEF TypeOK
  <1>2. run[c] \in Activation
    BY <1>1
  <1>3. /\ run'[c] = [run[c] EXCEPT !.stage = stage]
        /\ \A d \in Contexts : d # c => run'[d] = run[d]
    BY <1>1
  <1>4. QED
    BY <1>2, <1>3 DEF Activation

LEMMA TrimOrder ==
    ASSUME IInv, IInv', OInv, NEW b \in Batches, NEW c \in {Main(b), Late(b)},
           TrimResolves(c) \/ TrimRejects(c)
    PROVE  OInv'
  <1>1. PICK stage \in {"returned", "threw"} : run' = [run EXCEPT ![c].stage = stage]
    BY DEF TrimResolves, TrimRejects
  <1>2. /\ c \in Contexts /\ run[c].stage = "trimming"
        /\ UNCHANGED <<phase, buffer, stored, nextSeq, truncated>>
    BY BatchFacts DEF TrimResolves, TrimRejects, context
  <1>3. /\ run'[c].synth = run[c].synth /\ run'[c].stage # "tags"
        /\ \A d \in Contexts : d # c => run'[d] = run[d]
    BY <1>1, <1>2, StageSet DEF IInv
  <1>4. run[c].synth = <<>>
    BY <1>2, BatchFacts DEF BatchInLine, Suspended
  <1>5. QED
    BY <1>2, <1>3, <1>4, QuietOrder

\* What BatchScope.close and the end of the flush do to both contexts.
LEMMA HandOver ==
    ASSUME IInv, OInv, NEW b \in Batches, MoveArrivals(b),
           phase[b] = "open", run[Main(b)].stage = "returned",
           run' = [run EXCEPT ![Main(b)] = Idle]
    PROVE  /\ run[Main(b)].synth = <<>> /\ Idle.synth = <<>> /\ Idle.stage = "idle"
           /\ run[Late(b)].synth = <<>> /\ run[Late(b)] = Idle
           /\ buffer[Late(b)] = <<>>
           /\ InLine(stored[b], <<>>, buffer[Main(b)], nextSeq)
           /\ run'[Main(b)] = Idle /\ run'[Late(b)] = Idle
           /\ \A d \in Contexts : d # Main(b) => run'[d] = run[d]
           /\ buffer'[Late(b)] = buffer[Main(b)] /\ buffer'[Main(b)] = <<>>
           /\ truncated'[Main(b)] = 0
           /\ \A d \in Contexts : d # Main(b) /\ d # Late(b) =>
                 buffer'[d] = buffer[d] /\ truncated'[d] = truncated[d]
  <1>1. /\ run[Main(b)].synth = <<>> /\ Idle.synth = <<>> /\ Idle.stage = "idle"
        /\ run[Late(b)].synth = <<>> /\ run[Late(b)] = Idle
        /\ buffer[Late(b)] = <<>>
        /\ InLine(stored[b], <<>>, buffer[Main(b)], nextSeq)
    BY BatchFacts DEF BatchInLine, Suspended, Idle, IInv, Ownership, OwnedBy
  <1>2. /\ run'[Main(b)] = Idle /\ run'[Late(b)] = Idle
        /\ \A d \in Contexts : d # Main(b) => run'[d] = run[d]
    BY <1>1, BatchFacts DEF IInv, TypeOK
  <1>3. /\ buffer'[Late(b)] = buffer[Main(b)] /\ buffer'[Main(b)] = <<>>
        /\ truncated'[Main(b)] = 0
        /\ \A d \in Contexts : d # Main(b) /\ d # Late(b) =>
              buffer'[d] = buffer[d] /\ truncated'[d] = truncated[d]
    <2>1. CASE buffer[Main(b)] # <<>> \/ truncated[Main(b)] > 0
      <3>1. /\ buffer' = [buffer EXCEPT ![Late(b)] = buffer[Main(b)], ![Main(b)] = <<>>]
            /\ truncated' = [truncated EXCEPT ![Late(b)] = truncated[Main(b)],
                                              ![Main(b)] = 0]
        BY <2>1 DEF MoveArrivals
      <3>2. QED
        BY <3>1, BatchFacts DEF IInv, TypeOK
    <2>2. CASE ~(buffer[Main(b)] # <<>> \/ truncated[Main(b)] > 0)
      <3>1. UNCHANGED <<buffer, truncated>>
        BY <2>2 DEF MoveArrivals
      <3>2. truncated[Main(b)] = 0
        BY <2>2, BatchFacts
      <3>3. QED
        BY <1>1, <2>2, <3>1, <3>2
    <2>3. QED
      BY <2>1, <2>2
  <1>4. QED
    BY <1>1, <1>2, <1>3

\* BatchScope.close hands the line to the continuation as it stands.
LEMMA CloseOrder ==
    ASSUME IInv, IInv', OInv, NEW b \in Batches, MoveArrivals(b), Arm(b),
           phase[b] = "open", run[Main(b)].stage = "returned",
           run' = [run EXCEPT ![Main(b)] = Idle], UNCHANGED <<stored, nextSeq>>
    PROVE  OInv'
  <1>1. /\ run[Main(b)].synth = <<>> /\ Idle.synth = <<>> /\ Idle.stage = "idle"
        /\ run[Late(b)].synth = <<>> /\ run[Late(b)] = Idle
        /\ buffer[Late(b)] = <<>>
        /\ InLine(stored[b], <<>>, buffer[Main(b)], nextSeq)
    BY HandOver
  <1>2. /\ phase'[b] # "open" /\ \A d \in Batches \ {b} : phase'[d] = phase[d]
    BY DEF Arm, IInv, TypeOK
  <1>3. RecordingContext(b)' = Late(b) /\ Dormant(b)' = Main(b)
    BY <1>2 DEF RecordingContext, Dormant, Main, Late
  <1>4. /\ run'[Main(b)] = Idle /\ run'[Late(b)] = Idle
        /\ \A d \in Contexts : d # Main(b) => run'[d] = run[d]
    BY HandOver
  <1>5. /\ buffer'[Late(b)] = buffer[Main(b)] /\ buffer'[Main(b)] = <<>>
        /\ truncated'[Main(b)] = 0
        /\ \A d \in Contexts : d # Main(b) /\ d # Late(b) =>
              buffer'[d] = buffer[d] /\ truncated'[d] = truncated[d]
    BY HandOver
  <1>6. Suspended(Main(b))' /\ Suspended(Late(b))'
    BY <1>1, <1>4 DEF Suspended, Main, Late
  <1>7. InLine(stored'[b], run'[Late(b)].synth, buffer'[Late(b)], nextSeq')
    BY <1>1, <1>4, <1>5
  <1>8. BatchInLine(b)'
    BY <1>1, <1>3, <1>4, <1>5, <1>6, <1>7 DEF BatchInLine
  <1>9. nextSeq <= nextSeq' /\ \A d \in Batches \ {b} : stored'[d] = stored[d]
    BY BatchFacts
  <1>10. QED
    BY <1>2, <1>4, <1>5, <1>8, <1>9, OrderStep

LEMMA SettleOrder ==
    ASSUME IInv, IInv', OInv, NEW b \in Batches, SettleMain(b) \/ SettleLate(b)
    PROVE  OInv'
  <1>1. PICK c \in {Main(b), Late(b)} : Over(c) /\ run' = [run EXCEPT ![c] = Idle]
    BY DEF SettleMain, SettleLate
  <1>2. /\ c \in Contexts /\ Idle.synth = <<>> /\ Idle.stage # "tags"
        /\ run[c].synth = <<>>
        /\ run'[c] = Idle
        /\ \A d \in Contexts : d # c => run'[d] = run[d]
    <2>1. c \in Contexts /\ run \in [Contexts -> Activation]
      <3>1. c \in Contexts
        BY ContextsOf
      <3>2. run \in [Contexts -> Activation]
        BY DEF IInv, TypeOK
      <3>3. QED
        BY <3>1, <3>2
    <2>2. Idle.synth = <<>> /\ Idle.stage # "tags"
      BY DEF Idle
    <2>3. Suspended(c) /\ run[c].stage \notin {"tags", "saving"}
      BY <1>1, BatchFacts DEF BatchInLine, Over
    <2>4. QED
      BY <1>1, <2>1, <2>2, <2>3 DEF Suspended
  <1>3. CASE UNCHANGED <<phase, buffer, truncated, stored, nextSeq>>
    BY <1>2, <1>3, QuietOrder
  <1>4. CASE /\ SettleMain(b) /\ phase[b] = "open"
             /\ run[Main(b)].stage = "returned" /\ run[Main(b)].mode = "final"
    BY <1>4, CloseOrder DEF SettleMain
  <1>5. QED
    BY <1>3, <1>4 DEF SettleMain, SettleLate, context

LEMMA InitOrder == Init => OInv
  <1>1. SUFFICES ASSUME Init, NEW b \in Batches PROVE BatchInLine(b)
    BY DEF OInv
  <1>2. /\ \A c \in Contexts : /\ buffer[c] = <<>> /\ run[c] = Idle
                               /\ truncated[c] = 0
        /\ stored[b] = <<>>
        /\ Idle.synth = <<>> /\ Idle.stage = "idle"
    BY <1>1 DEF Init, Idle
  <1>3. Main(b) \in Contexts /\ Late(b) \in Contexts
    BY ContextsOf
  <1>4. InLine(<<>>, <<>>, <<>>, nextSeq)
    BY EmptyInLine DEF InLine
  <1>5. Suspended(Main(b)) /\ Suspended(Late(b))
    BY <1>2, <1>3 DEF Suspended
  <1>6. QED
    BY <1>2, <1>3, <1>4, <1>5 DEF BatchInLine, RecordingContext, Dormant

LEMMA NextOrder == IInv /\ IInv' /\ OInv /\ [Next]_vars => OInv'
  <1> SUFFICES ASSUME IInv, IInv', OInv, [Next]_vars PROVE OInv'
    OBVIOUS
  <1>1. CASE UNCHANGED vars
    BY <1>1 DEF OInv, BatchInLine, RecordingContext, Dormant, Suspended, Main, Late,
                vars, context, flushing
  <1>2. ASSUME NEW b \in Batches, NEW t \in Types, Accept(b, t) PROVE OInv'
    BY <1>2, AcceptOrder
  <1>3. ASSUME NEW b \in Batches, NEW t \in Types, Refuse(b, t) PROVE OInv'
    <2>1. /\ truncated' = [truncated EXCEPT ![RecordingContext(b)] = @ + 1]
          /\ UNCHANGED <<phase, buffer, run, stored, nextSeq>>
      BY <1>3 DEF Refuse, flushing
    <2>2. \A d \in Contexts : truncated'[d] = truncated[d] \/ d = RecordingContext(b)
      BY <2>1 DEF IInv, TypeOK
    <2>3. QED
      BY <2>1, <2>2, QuietOrder
  <1>4. ASSUME NEW b \in Batches, NEW mode \in Modes, Flush(b, mode) PROVE OInv'
    BY <1>4, QuietOrder DEF Flush, context
  <1>5. ASSUME NEW b \in Batches, StartFlush(b) \/ LateTimer(b) PROVE OInv'
    BY <1>5, StartFlushOrder, LateTimerOrder
  <1>6. ASSUME NEW b \in Batches, SettleMain(b) \/ SettleLate(b) PROVE OInv'
    BY <1>6, SettleOrder
  <1>7. ASSUME NEW b \in Batches, NEW c \in {Main(b), Late(b)}, Storage(c)
        PROVE  OInv'
    BY <1>7, DecideByTagsOrder, SaveCommitsOrder, SaveRejectsOrder, TrimOrder
    DEF Storage
  <1>8. QED
    BY <1>1, <1>2, <1>3, <1>4, <1>5, <1>6, <1>7 DEF Next, Host

-----------------------------------------------------------------------------
(* The theorem *)

\* A batch in line has its whole pipeline in order.
LEMMA LineIsPipeline ==
    ASSUME IInv, OInv, NEW b \in Batches
    PROVE  Rising(Pipeline(b))
  <1> DEFINE A == RecordingContext(b)
  <1>1. /\ stored[b] \in Seqs /\ run[A].synth \in Seqs /\ buffer[A] \in Seqs
        /\ InLine(stored[b], run[A].synth, buffer[A], nextSeq)
    BY BatchFacts DEF BatchInLine
  <1>2. Pipeline(b) = stored[b] \o run[A].synth \o buffer[A]
    <2>1. \A s \in Seqs : s \o <<>> = s
      BY ConcatEmptySeq DEF Seqs
    <2>2. stored[b] \o run[A].synth \in Seqs
      BY <1>1, ConcatProperties DEF Seqs
    <2>3. stored[b] \o run[A].synth \o buffer[A] \in Seqs
      BY <1>1, <2>2, ConcatProperties DEF Seqs
    <2>4. CASE phase[b] = "open"
      <3>1. A = Main(b) /\ run[Late(b)].synth = <<>> /\ buffer[Late(b)] = <<>>
        BY <2>4, BatchFacts DEF BatchInLine
      <3>2. Pipeline(b) = stored[b] \o run[A].synth \o buffer[A] \o <<>> \o <<>>
        BY <3>1 DEF Pipeline
      <3> HIDE DEF A
      <3>3. QED
        BY <2>1, <2>3, <3>2
    <2>5. CASE phase[b] # "open"
      <3>1. A = Late(b) /\ run[Main(b)].synth = <<>> /\ buffer[Main(b)] = <<>>
        BY <2>5, BatchFacts DEF BatchInLine
      <3>2. Pipeline(b) = stored[b] \o <<>> \o <<>> \o run[A].synth \o buffer[A]
        BY <3>1 DEF Pipeline
      <3> HIDE DEF A
      <3>3. QED
        BY <1>1, <2>1, <3>2
    <2>6. QED
      BY <2>4, <2>5
  <1>3. /\ stored[b] \o run[A].synth \in Seqs
        /\ Rising(stored[b] \o run[A].synth)
        /\ Precedes(stored[b] \o run[A].synth, buffer[A])
    BY <1>1, ConcatRising, ConcatBounds DEF InLine
  <1>4. Rising(stored[b] \o run[A].synth \o buffer[A])
    BY <1>1, <1>3, ConcatRising DEF InLine
  <1>5. QED
    BY <1>2, <1>4

\* Serialized flushes, partial splices, requeued saves and the move into the
\* continuation store no entry twice nor out of the order of record(), for any
\* number of batches and any caps.
THEOREM OrderKept == Spec => []RecordOrder
  <1>1. IInv /\ OInv => RecordOrder
    BY LineIsPipeline DEF RecordOrder, Rising
  <1>2. Spec => []IInv
    BY Invariant
  <1>3. QED
    BY <1>1, <1>2, InitOrder, NextOrder, PTL DEF Spec

-----------------------------------------------------------------------------
(* Nothing is lost *)

\* What #bufferLimit must hold: whatever the caps allow and one report of what they
\* refused.  The recorder sets it to the sum of the caps and one, which is the length
\* of the longest such sequence.
RoomForAll ==
    \A s \in Seqs :
        /\ \A t \in Types : KindCount(Recorded(t), s) <= Cap[t]
        /\ KindCount(Reporting, s) <= 1
        => Len(s) <= BufferLimit

\* A context carries one report at a time, and only a sampled-out one waits for tags.
OneReport(c) == Len(run[c].synth) + KindCount(Reporting, buffer[c]) <= 1
Reported(c) ==
    /\ OneReport(c)
    /\ run[c].stage = "tags" => ~sampled[c[1]]
RInv == \A c \in Contexts : Reported(c)

NumbersOf(s) == {s[i].seq : i \in 1..Len(s)}

LEMMA NumbersEmpty == NumbersOf(<<>>) = {}
  BY DEF NumbersOf

LEMMA NumbersConcat ==
    ASSUME NEW s \in Seqs, NEW u \in Seqs
    PROVE  /\ s \o u \in Seqs
           /\ NumbersOf(s \o u) = NumbersOf(s) \cup NumbersOf(u)
  <1>1. /\ s \o u \in Seqs
        /\ Len(s \o u) = Len(s) + Len(u)
        /\ \A i \in 1..(Len(s) + Len(u)) :
              (s \o u)[i] = IF i <= Len(s) THEN s[i] ELSE u[i - Len(s)]
    BY ConcatProperties DEF Seqs
  <1>2. Len(s) \in Nat /\ Len(u) \in Nat
    BY EntrySeq
  <1>3. ASSUME NEW i \in 1..Len(s \o u)
        PROVE  \/ i \in 1..Len(s) /\ (s \o u)[i] = s[i]
               \/ i - Len(s) \in 1..Len(u) /\ (s \o u)[i] = u[i - Len(s)]
    BY <1>1, <1>2
  <1>4. ASSUME NEW i \in 1..Len(s)
        PROVE  i \in 1..Len(s \o u) /\ (s \o u)[i] = s[i]
    BY <1>1, <1>2
  <1>5. ASSUME NEW i \in 1..Len(u)
        PROVE  Len(s) + i \in 1..Len(s \o u) /\ (s \o u)[Len(s) + i] = u[i]
    BY <1>1, <1>2
  <1>6. NumbersOf(s \o u) \subseteq NumbersOf(s) \cup NumbersOf(u)
    BY <1>3 DEF NumbersOf
  <1>7. NumbersOf(s) \subseteq NumbersOf(s \o u)
    BY <1>4 DEF NumbersOf
  <1>8. NumbersOf(u) \subseteq NumbersOf(s \o u)
    BY <1>5 DEF NumbersOf
  <1>9. QED
    BY <1>1, <1>6, <1>7, <1>8

LEMMA NumbersAppend ==
    ASSUME NEW s \in Seqs, NEW e \in EntryRec
    PROVE  NumbersOf(s) \subseteq NumbersOf(Append(s, e))
  <1>1. /\ Len(Append(s, e)) = Len(s) + 1
        /\ \A i \in 1..Len(s) : Append(s, e)[i] = s[i]
    BY AppendProperties DEF Seqs
  <1>2. \A i \in 1..Len(s) : i \in 1..Len(Append(s, e)) /\ Append(s, e)[i] = s[i]
    BY <1>1, EntrySeq
  <1>3. QED
    BY <1>2 DEF NumbersOf

LEMMA NumbersSame ==
    ASSUME NEW s, NEW u, SameLine(s, u)
    PROVE  NumbersOf(u) = NumbersOf(s)
  BY DEF SameLine, NumbersOf

LEMMA NumbersCut ==
    ASSUME NEW s \in Seqs, NEW n \in Nat, n <= Len(s)
    PROVE  /\ SubSeq(s, 1, n) \in Seqs /\ SubSeq(s, n + 1, Len(s)) \in Seqs
           /\ NumbersOf(SubSeq(s, 1, n)) \cup NumbersOf(SubSeq(s, n + 1, Len(s)))
                = NumbersOf(s)
  <1>1. Len(s) \in Nat /\ n + 1 \in Nat \ {0} /\ 1 \in Nat \ {0}
    BY EntrySeq
  <1>2. /\ SubSeq(s, 1, n) \in Seqs /\ SubSeq(s, n + 1, Len(s)) \in Seqs
    BY <1>1, SliceInLine
  <1>3. \A i \in 1..Len(s) : s[i] \in EntryRec
    BY EntrySeq
  <1>4. /\ Len(SubSeq(s, 1, n)) = n
        /\ \A i \in 1..n : SubSeq(s, 1, n)[i] = s[i]
    <2>1. \A i \in 1..n : s[i] \in EntryRec
      BY <1>1, <1>3
    <2>2. QED
      BY <1>1, <2>1, SubSeqProperties
  <1> DEFINE m == n + 1
             u == SubSeq(s, m, Len(s))
  <1>5. /\ Len(u) = IF m <= Len(s) THEN Len(s) - m + 1 ELSE 0
        /\ \A i \in 1..(Len(s) - m + 1) : u[i] = s[m + i - 1]
    <2>1. \A i \in m..Len(s) : s[i] \in EntryRec
      BY <1>1, <1>3
    <2>2. m \in Nat
      BY <1>1
    <2> HIDE DEF m
    <2>3. QED
      BY <1>1, <2>1, <2>2, SubSeqProperties
  <1> HIDE DEF u
  <1>6. \A i \in 1..Len(u) : n + i \in 1..Len(s) /\ u[i] = s[n + i]
    <2>1. \A i \in Int : m + i - 1 = n + i
      BY <1>1
    <2> HIDE DEF m
    <2>2. ASSUME NEW i \in 1..Len(u)
          PROVE  m + i - 1 \in m..Len(s) /\ u[i] = s[m + i - 1] /\ i \in Int
      BY <1>1, <1>5 DEF m
    <2>3. QED
      BY <1>1, <2>1, <2>2 DEF m
  <1>7. ASSUME NEW i \in 1..Len(s), i > n
        PROVE  i - n \in 1..Len(u) /\ n + (i - n) = i
    BY <1>1, <1>5, <1>7
  <1>8. NumbersOf(SubSeq(s, 1, n)) \cup NumbersOf(u) \subseteq NumbersOf(s)
    BY <1>1, <1>4, <1>6 DEF NumbersOf
  <1>9. ASSUME NEW i \in 1..Len(s)
        PROVE  s[i].seq \in NumbersOf(SubSeq(s, 1, n)) \cup NumbersOf(u)
    <2>1. CASE i <= n
      BY <1>1, <1>4, <2>1 DEF NumbersOf
    <2>2. CASE i > n
      <3>1. i - n \in 1..Len(u) /\ u[i - n] = s[i]
        BY <1>6, <1>7, <2>2
      <3>2. QED
        BY <3>1 DEF NumbersOf
    <2>3. QED
      BY <1>1, <2>1, <2>2
  <1>10. NumbersOf(s) \subseteq NumbersOf(SubSeq(s, 1, n)) \cup NumbersOf(u)
    BY <1>9 DEF NumbersOf
  <1>11. QED
    BY <1>2, <1>8, <1>10 DEF u

\* The entries a batch holds, by the sequences that hold them.
HeldIn(rows, ms, mb, ls, lb) ==
    NumbersOf(rows) \cup NumbersOf(ms) \cup NumbersOf(mb)
    \cup NumbersOf(ls) \cup NumbersOf(lb)

LEMMA HeldParts ==
    ASSUME NEW rows \in Seqs, NEW ms \in Seqs, NEW mb \in Seqs, NEW ls \in Seqs,
           NEW lb \in Seqs
    PROVE  NumbersOf(rows \o ms \o mb \o ls \o lb) = HeldIn(rows, ms, mb, ls, lb)
  <1>1. rows \o ms \in Seqs /\ NumbersOf(rows \o ms) = NumbersOf(rows) \cup NumbersOf(ms)
    BY NumbersConcat
  <1>2. /\ rows \o ms \o mb \in Seqs
        /\ NumbersOf(rows \o ms \o mb) = NumbersOf(rows \o ms) \cup NumbersOf(mb)
    BY <1>1, NumbersConcat
  <1>3. /\ rows \o ms \o mb \o ls \in Seqs
        /\ NumbersOf(rows \o ms \o mb \o ls) = NumbersOf(rows \o ms \o mb) \cup NumbersOf(ls)
    BY <1>2, NumbersConcat
  <1>4. NumbersOf(rows \o ms \o mb \o ls \o lb)
          = NumbersOf(rows \o ms \o mb \o ls) \cup NumbersOf(lb)
    BY <1>3, NumbersConcat
  <1>5. QED
    BY <1>1, <1>2, <1>3, <1>4 DEF HeldIn

LEMMA HeldNow ==
    ASSUME IInv, NEW b \in Batches
    PROVE  Held(b) = HeldIn(stored[b], run[Main(b)].synth, buffer[Main(b)],
                            run[Late(b)].synth, buffer[Late(b)])
  <1>1. /\ stored[b] \in Seqs
        /\ run[Main(b)].synth \in Seqs /\ buffer[Main(b)] \in Seqs
        /\ run[Late(b)].synth \in Seqs /\ buffer[Late(b)] \in Seqs
    BY ContextsOf DEF IInv, TypeOK, Activation, Seqs
  <1>2. Held(b) = NumbersOf(Pipeline(b))
    BY DEF Held, NumbersOf
  <1>3. QED
    BY <1>1, <1>2, HeldParts DEF Pipeline

LEMMA HeldNext ==
    ASSUME IInv', NEW b \in Batches
    PROVE  Held(b)' = HeldIn(stored[b], run[Main(b)].synth, buffer[Main(b)],
                             run[Late(b)].synth, buffer[Late(b)])'
  <1>1. (/\ stored[b] \in Seqs
         /\ run[Main(b)].synth \in Seqs /\ buffer[Main(b)] \in Seqs
         /\ run[Late(b)].synth \in Seqs /\ buffer[Late(b)] \in Seqs)'
    BY ContextsOf DEF IInv, TypeOK, Activation, Seqs, Main, Late
  <1>2. Held(b)' = NumbersOf(Pipeline(b)')
    BY DEF Held, NumbersOf
  <1>3. QED
    BY <1>1, <1>2, HeldParts DEF Pipeline, Main, Late

-----------------------------------------------------------------------------
(* One report at a time *)

LEMMA CountNone ==
    ASSUME NEW s \in Seqs, KindCount(Reporting, s) = 0
    PROVE  \A i \in 1..Len(s) : Kind(s[i]) # Reporting
  <1>1. IsFiniteSet(Positions(Reporting, s)) /\ Cardinality(Positions(Reporting, s)) = 0
    BY PositionsFinite DEF Seqs
  <1>2. Positions(Reporting, s) = {}
    BY <1>1, FS_EmptySet
  <1>3. QED
    BY <1>2 DEF Positions

\* The report put back in front of a buffer without one is the only one.
LEMMA CountRequeued ==
    ASSUME NEW synth \in Seqs, NEW buf \in Seqs,
           Len(synth) + KindCount(Reporting, buf) <= 1
    PROVE  KindCount(Reporting, synth \o buf) <= 1
  <1>1. /\ synth \o buf \in Seqs
        /\ Len(synth \o buf) = Len(synth) + Len(buf)
        /\ \A i \in 1..(Len(synth) + Len(buf)) :
              (synth \o buf)[i] = IF i <= Len(synth) THEN synth[i] ELSE buf[i - Len(synth)]
    BY ConcatProperties DEF Seqs
  <1>2. Len(synth) \in Nat /\ Len(buf) \in Nat /\ KindCount(Reporting, buf) \in Nat
    BY EntrySeq, PositionsFinite DEF Seqs
  <1>3. CASE Len(synth) = 0
    <2>1. synth = <<>>
      BY <1>3, EmptySeq DEF Seqs
    <2>2. synth \o buf = buf
      BY <2>1, ConcatEmptySeq DEF Seqs
    <2>3. QED
      BY <1>2, <1>3, <2>2
  <1>4. CASE Len(synth) = 1
    <2>1. KindCount(Reporting, buf) = 0
      BY <1>2, <1>4
    <2>2. Positions(Reporting, synth \o buf) \subseteq {1}
      <3>1. ASSUME NEW i \in 1..Len(synth \o buf), i # 1
            PROVE  Kind((synth \o buf)[i]) # Reporting
        <4>1. i - 1 \in 1..Len(buf) /\ (synth \o buf)[i] = buf[i - 1]
          BY <1>1, <1>2, <1>4, <3>1
        <4>2. QED
          BY <2>1, <4>1, CountNone
      <3>2. QED
        BY <3>1 DEF Positions
    <2>3. Cardinality({1}) = 1 /\ IsFiniteSet({1})
      BY FS_Singleton
    <2>4. Cardinality(Positions(Reporting, synth \o buf)) <= 1
      BY <2>2, <2>3, FS_Subset
    <2>5. QED
      BY <1>1, <2>4, PositionsFinite DEF Seqs
  <1>5. \A k, n \in Nat : k + n <= 1 => k = 0 \/ k = 1
    OBVIOUS
  <1>6. Len(synth) = 0 \/ Len(synth) = 1
    BY <1>2, <1>5
  <1>7. QED
    BY <1>3, <1>4, <1>6

-----------------------------------------------------------------------------
(* No step loses an entry *)

\* What AcceptedNotLost asks of a step.
HeldOn(b) ==
    \/ Held(b) \subseteq Held(b)'
    \/ ~sampled[b] /\ retention'[Main(b)] = "dropped"
NothingLost == RInv' /\ \A b \in Batches : HeldOn(b)

\* Steps that touch the stage of an activation at most.
LEMMA QuietHolds ==
    ASSUME IInv, IInv', RInv, UNCHANGED <<sampled, buffer, stored>>,
           \A c \in Contexts :
              /\ run'[c].synth = run[c].synth
              /\ run'[c].stage = "tags" => run[c].stage = "tags"
    PROVE  NothingLost
  <1>1. RInv'
    BY DEF RInv, Reported, OneReport
  <1>2. ASSUME NEW b \in Batches PROVE Held(b) \subseteq Held(b)'
    <2>1. Main(b) \in Contexts /\ Late(b) \in Contexts
      BY ContextsOf
    <2>2. Held(b)' = Held(b)
      BY <2>1, HeldNow, HeldNext DEF Main, Late
    <2>3. QED
      BY <2>2
  <1>3. QED
    BY <1>1, <1>2 DEF NothingLost, HeldOn

\* What a step of one context must leave of it.
LEMMA ContextHolds ==
    ASSUME IInv, IInv', RInv, NEW b \in Batches, NEW c \in {Main(b), Late(b)},
           UNCHANGED sampled,
           \A d \in Batches \ {b} : stored'[d] = stored[d],
           \A d \in Contexts : d # c => buffer'[d] = buffer[d] /\ run'[d] = run[d],
           Reported(c)',
           \/ /\ NumbersOf(stored[b]) \subseteq NumbersOf(stored'[b])
              /\ NumbersOf(run[c].synth) \cup NumbersOf(buffer[c])
                   \subseteq NumbersOf(stored'[b]) \cup NumbersOf(run'[c].synth)
                             \cup NumbersOf(buffer'[c])
           \/ ~sampled[b] /\ retention'[Main(b)] = "dropped"
    PROVE  NothingLost
  <1>1. /\ Main(b) \in Contexts /\ Late(b) \in Contexts /\ Main(b) # Late(b)
        /\ c \in Contexts
    BY ContextsOf
  <1>2. RInv'
    <2>1. ASSUME NEW d \in Contexts, d # c PROVE Reported(d)'
      BY <2>1 DEF RInv, Reported, OneReport
    <2>2. QED
      BY <2>1 DEF RInv
  <1>3. ASSUME NEW d \in Batches, d # b PROVE Held(d) \subseteq Held(d)'
    <2>1. /\ Main(d) \in Contexts /\ Late(d) \in Contexts
          /\ Main(d) # c /\ Late(d) # c
      BY <1>3, ContextsOf, ContextsDiffer
    <2>2. Held(d)' = Held(d)
      BY <1>3, <2>1, HeldNow, HeldNext DEF Main, Late
    <2>3. QED
      BY <2>2
  <1>4. HeldOn(b)
    <2>1. CASE ~sampled[b] /\ retention'[Main(b)] = "dropped"
      BY <2>1 DEF HeldOn
    <2>2. CASE /\ NumbersOf(stored[b]) \subseteq NumbersOf(stored'[b])
               /\ NumbersOf(run[c].synth) \cup NumbersOf(buffer[c])
                   \subseteq NumbersOf(stored'[b]) \cup NumbersOf(run'[c].synth)
                             \cup NumbersOf(buffer'[c])
      <3>1. /\ Held(b) = HeldIn(stored[b], run[Main(b)].synth, buffer[Main(b)],
                                run[Late(b)].synth, buffer[Late(b)])
            /\ Held(b)' = HeldIn(stored'[b], run'[Main(b)].synth, buffer'[Main(b)],
                                 run'[Late(b)].synth, buffer'[Late(b)])
        BY HeldNow, HeldNext DEF Main, Late
      <3>2. CASE c = Main(b)
        <4>1. run'[Late(b)] = run[Late(b)] /\ buffer'[Late(b)] = buffer[Late(b)]
          BY <1>1, <3>2
        <4>2. Held(b) \subseteq Held(b)'
          BY <2>2, <3>1, <3>2, <4>1 DEF HeldIn
        <4>3. QED
          BY <4>2 DEF HeldOn
      <3>3. CASE c = Late(b)
        <4>1. run'[Main(b)] = run[Main(b)] /\ buffer'[Main(b)] = buffer[Main(b)]
          BY <1>1, <3>3
        <4>2. Held(b) \subseteq Held(b)'
          BY <2>2, <3>1, <3>3, <4>1 DEF HeldIn
        <4>3. QED
          BY <4>2 DEF HeldOn
      <3>4. QED
        BY <3>2, <3>3
    <2>3. QED
      BY <2>1, <2>2
  <1>5. QED
    BY <1>2, <1>3, <1>4 DEF NothingLost, HeldOn

LEMMA AcceptHolds ==
    ASSUME IInv, IInv', RInv, NEW b \in Batches, NEW t \in Types, Accept(b, t)
    PROVE  NothingLost
  <1>c. PICK c \in {Main(b), Late(b)} : c = RecordingContext(b)
    BY DEF RecordingContext
  <1> DEFINE e == [seq |-> nextSeq, type |-> t, note |-> 0, origin |-> "record"]
  <1>1. /\ c \in Contexts
        /\ e \in EntryRec /\ Kind(e) # Reporting
        /\ buffer[c] \in Seqs
        /\ buffer' = [buffer EXCEPT ![c] = Append(@, e)]
        /\ UNCHANGED <<sampled, run, stored>>
    BY <1>c, ContextsOf
    DEF Accept, EntryRec, flushing, IInv, TypeOK, Seqs, Kind, Reporting
  <1> HIDE DEF e
  <1>2. /\ buffer'[c] = Append(buffer[c], e)
        /\ \A d \in Contexts : d # c => buffer'[d] = buffer[d]
    BY <1>1 DEF IInv, TypeOK
  <1>3. KindCount(Reporting, buffer'[c]) = KindCount(Reporting, buffer[c])
    BY <1>1, <1>2, CountAppend DEF Seqs
  <1>4. Reported(c)'
    BY <1>1, <1>3 DEF RInv, Reported, OneReport
  <1>5. NumbersOf(buffer[c]) \subseteq NumbersOf(buffer'[c])
    BY <1>1, <1>2, NumbersAppend
  <1>6. /\ stored'[b] = stored[b] /\ run'[c] = run[c]
        /\ \A d \in Batches \ {b} : stored'[d] = stored[d]
        /\ \A d \in Contexts : run'[d] = run[d]
    BY <1>1
  <1>7. QED
    BY <1>1, <1>2, <1>4, <1>5, <1>6, ContextHolds

\* #reportTruncation keeps one report and every number.
KeepsAll(buf, synth, noted) ==
    /\ noted.buffer \in Seqs /\ noted.synth \in Seqs
    /\ Len(noted.synth) + KindCount(Reporting, noted.buffer) <= 1
    /\ NumbersOf(noted.buffer) = NumbersOf(buf)
    /\ NumbersOf(synth) \subseteq NumbersOf(noted.synth)

LEMMA NotedHolds ==
    ASSUME NEW buf \in Seqs, NEW size \in Nat, NEW synth \in Seqs, NEW count \in Nat,
           nextSeq \in Nat, Len(synth) + KindCount(Reporting, buf) <= 1,
           size = 0 => synth # <<>> \/ buf = <<>>
    PROVE  KeepsAll(buf, synth, Noted(buf, size, synth, count))
  <1> DEFINE noted == Noted(buf, size, synth, count)
  <1>1. /\ noted.buffer \in Seqs /\ noted.synth \in Seqs
        /\ Len(noted.buffer) = Len(buf)
        /\ \A i \in 1..Len(buf) : Kind(noted.buffer[i]) = Kind(buf[i])
    <2>1. buf \in Seq(EntryRec) /\ synth \in Seq(EntryRec)
      BY DEF Seqs
    <2>2. /\ noted.buffer \in Seq(EntryRec) /\ noted.synth \in Seq(EntryRec)
          /\ Len(noted.buffer) = Len(buf)
          /\ \A i \in 1..Len(buf) : Kind(noted.buffer[i]) = Kind(buf[i])
      BY <2>1, NotedEffect
    <2>3. QED
      BY <2>2 DEF Seqs
  <1>2. KeepsLine(buf, size, synth, noted)
    BY NotedOrder
  <1> SUFFICES KeepsAll(buf, synth, noted)
    OBVIOUS
  <1> HIDE DEF noted
  <1>3. KindCount(Reporting, noted.buffer) = KindCount(Reporting, buf)
    BY <1>1, CountSameKinds DEF Seqs
  <1>4. NumbersOf(noted.buffer) = NumbersOf(buf)
    BY <1>2, NumbersSame DEF KeepsLine
  <1>5. /\ Len(synth) \in Nat /\ Len(noted.synth) \in Nat
        /\ KindCount(Reporting, buf) \in Nat
    BY <1>1, EntrySeq, PositionsFinite DEF Seqs
  <1>6. CASE noted.synth = synth
    BY <1>1, <1>3, <1>4, <1>6 DEF KeepsAll
  <1>7. CASE /\ synth # <<>> /\ Len(noted.synth) = 1
             /\ noted.synth[1].seq = synth[1].seq
    <2>1. Len(synth) # 0
      BY <1>7, EmptySeq DEF Seqs
    <2>2. \A k, n \in Nat : k # 0 /\ k + n <= 1 => k = 1 /\ n = 0
      OBVIOUS
    <2>3. Len(synth) = 1 /\ KindCount(Reporting, buf) = 0
      BY <1>5, <2>1, <2>2
    <2>4. NumbersOf(synth) \subseteq NumbersOf(noted.synth)
      BY <1>7, <2>3 DEF NumbersOf
    <2>5. QED
      BY <1>1, <1>3, <1>4, <1>7, <2>3, <2>4 DEF KeepsAll
  <1>8. CASE synth = <<>> /\ size = 0 /\ Len(noted.synth) = 1
    <2>1. KindCount(Reporting, buf) = 0
      <3>1. buf = <<>>
        BY <1>8
      <3>2. QED
        BY <3>1, CountEmpty
    <2>2. QED
      BY <1>1, <1>3, <1>4, <1>8, <2>1, NumbersEmpty DEF KeepsAll
  <1>9. QED
    BY <1>2, <1>6, <1>7, <1>8 DEF KeepsLine

\* Entering #flushContext drops entries only of a batch that was decided against.
LEMMA EnterHolds ==
    ASSUME IInv, IInv', RInv, NEW b \in Batches, NEW c \in {Main(b), Late(b)},
           NEW mode \in Modes, NEW chained \in BOOLEAN,
           FlushContext(c, mode, chained), run[c] = Idle,
           c = Late(b) => continued[b],
           UNCHANGED <<sampled, stored>>
    PROVE  NothingLost
  <1> DEFINE size == Len(buffer[c])
             noted == Noted(buffer[c], size, <<>>, truncated[c])
             a(stage, n, synth) == At(stage, mode, n, synth, chained)
  <1>1. /\ c \in Contexts /\ c[1] = b /\ TypeOK
        /\ buffer[c] \in Seqs /\ truncated[c] \in Nat
        /\ nextSeq \in Nat /\ run[c].synth = <<>>
    <2>1. c \in Contexts /\ c[1] = b
      BY ContextsOf
    <2>2. TypeOK /\ Idle.synth = <<>>
      BY DEF IInv, Idle
    <2>3. QED
      BY <2>1, <2>2 DEF TypeOK, Seqs
  <1>e. <<>> \in Seqs /\ Len(<<>>) = 0 /\ size \in Nat
    BY <1>1, EmptySeq, EntrySeq DEF Seqs
  <1>2. KindCount(Reporting, buffer[c]) \in Nat /\ KindCount(Reporting, buffer[c]) <= 1
    <2>1. KindCount(Reporting, buffer[c]) \in Nat
      BY <1>1, PositionsFinite DEF Seqs
    <2>2. Len(<<>>) + KindCount(Reporting, buffer[c]) <= 1
      BY <1>1 DEF RInv, Reported, OneReport
    <2>3. QED
      BY <2>1, <2>2, <1>e
  <1>3. /\ Len(noted.synth) + KindCount(Reporting, noted.buffer) <= 1
        /\ NumbersOf(noted.buffer) = NumbersOf(buffer[c])
    <2>1. size = 0 => buffer[c] = <<>>
      BY <1>1, EmptySeq DEF Seqs
    <2>2. Len(<<>>) + KindCount(Reporting, buffer[c]) <= 1
      BY <1>2, <1>e
    <2> HIDE DEF size
    <2>3. KeepsAll(buffer[c], <<>>, noted)
      BY <1>1, <1>e, <2>1, <2>2, NotedHolds
    <2>4. QED
      BY <2>3 DEF KeepsAll
  <1> HIDE DEF noted, size
  <1>4. \A stage, n, synth : /\ a(stage, n, synth).stage = stage
                             /\ a(stage, n, synth).synth = synth
    BY DEF At
  <1>5. /\ \A act : [run EXCEPT ![c] = act][c] = act
        /\ \A buf : [buffer EXCEPT ![c] = buf][c] = buf
    BY <1>1 DEF TypeOK
  <1> HIDE DEF a
  <1>6. \A d \in Contexts : d # c => buffer'[d] = buffer[d] /\ run'[d] = run[d]
    BY <1>1, OnlyItsContext
  <1>7. CASE /\ run' = [run EXCEPT ![c] = a("returned", 0, <<>>)]
             /\ buffer' = buffer
    <2>1. Reported(c)'
      <3>1. run'[c].synth = <<>> /\ run'[c].stage = "returned" /\ buffer'[c] = buffer[c]
        BY <1>4, <1>5, <1>7
      <3>2. Len(run'[c].synth) + KindCount(Reporting, buffer'[c]) <= 1
        BY <1>e, <1>2, <3>1
      <3>3. QED
        BY <3>1, <3>2 DEF Reported, OneReport
    <2>2. NumbersOf(run[c].synth) \cup NumbersOf(buffer[c])
            \subseteq NumbersOf(stored'[b]) \cup NumbersOf(run'[c].synth)
                      \cup NumbersOf(buffer'[c])
      BY <1>1, <1>7, NumbersEmpty
    <2>3. NumbersOf(stored[b]) \subseteq NumbersOf(stored'[b])
      OBVIOUS
    <2>4. QED
      BY <1>6, <2>1, <2>2, <2>3, ContextHolds
  <1>8. CASE /\ run' = [run EXCEPT ![c] = a("returned", 0, <<>>)]
             /\ buffer' = [buffer EXCEPT ![c] = <<>>]
             /\ ~sampled[c[1]] /\ retention[c] = "dropped" /\ UNCHANGED retention
    <2>1. Reported(c)'
      <3>1. run'[c].synth = <<>> /\ run'[c].stage = "returned"
        <4>1. run'[c] = a("returned", 0, <<>>)
          BY <1>5, <1>8
        <4>2. QED
          BY <1>4, <4>1
      <3>b. buffer'[c] = <<>>
        BY <1>1, <1>8 DEF TypeOK
      <3>2. Len(run'[c].synth) + KindCount(Reporting, buffer'[c]) <= 1
        BY <1>e, CountEmpty, <3>1, <3>b
      <3>3. QED
        BY <3>1, <3>2 DEF Reported, OneReport
    <2>2. ~sampled[b] /\ retention'[Main(b)] = "dropped"
      BY <1>1, <1>8 DEF IInv, SamplingDecision
    <2>3. QED
      BY <1>6, <2>1, <2>2, ContextHolds
  <1>9. CASE /\ \E stage \in {"tags", "saving"} :
                   /\ run' = [run EXCEPT ![c] = a(stage, size, noted.synth)]
                   /\ stage = "tags" => Undecided(c)
             /\ buffer' = [buffer EXCEPT ![c] = noted.buffer]
    <2>1. PICK stage \in {"tags", "saving"} :
             /\ run' = [run EXCEPT ![c] = a(stage, size, noted.synth)]
             /\ stage = "tags" => Undecided(c)
      BY <1>9
    <2>2. /\ run'[c].stage = stage /\ run'[c].synth = noted.synth
          /\ buffer'[c] = noted.buffer
      BY <1>4, <1>5, <1>9, <2>1
    <2>3. Reported(c)'
      BY <1>3, <2>1, <2>2 DEF Reported, OneReport, Undecided
    <2>4. NumbersOf(run[c].synth) \cup NumbersOf(buffer[c])
            \subseteq NumbersOf(stored'[b]) \cup NumbersOf(run'[c].synth)
                      \cup NumbersOf(buffer'[c])
      BY <1>1, <1>3, <2>2, NumbersEmpty
    <2>5. NumbersOf(stored[b]) \subseteq NumbersOf(stored'[b])
      OBVIOUS
    <2>6. QED
      BY <1>6, <2>3, <2>4, <2>5, ContextHolds
  <1>10. QED
    <2>1. CASE Undecided(c) /\ mode = "intermediate"
      BY <1>7, <2>1 DEF FlushContext, a
    <2>2. CASE ~(Undecided(c) /\ mode = "intermediate")
      BY <1>7, <1>8, <1>9, <2>2 DEF FlushContext, a, noted, size
    <2>3. QED
      BY <2>1, <2>2

LEMMA DecideByTagsHolds ==
    ASSUME IInv, IInv', RInv, OInv, NEW b \in Batches, NEW c \in {Main(b), Late(b)},
           DecideByTags(c)
    PROVE  NothingLost
  <1> DEFINE size == Len(buffer[c])
             noted == Noted(buffer[c], size, run[c].synth, truncated[c])
  <1>1. /\ c \in Contexts /\ run[c].stage = "tags" /\ c # Dormant(b)
        /\ buffer[c] \in Seqs /\ run[c].synth \in Seqs /\ truncated[c] \in Nat
        /\ nextSeq \in Nat
        /\ run[c].synth # <<>> \/ buffer[c] # <<>>
        /\ UNCHANGED <<sampled, stored>>
        /\ Reported(c)
    <2>1. c \in Contexts /\ run[c].stage = "tags" /\ BatchInLine(b)
      BY BatchFacts DEF DecideByTags
    <2>2. c # Dormant(b)
      BY <2>1, DormantIdles
    <2>3. QED
      BY <2>1, <2>2, BatchFacts DEF DecideByTags, BatchInLine, Suspended, RInv
  <1>2. c = Main(b) /\ c[1] = b /\ ~sampled[b]
    <2>1. c[1] = b
      BY ContextsOf
    <2>2. ~sampled[b]
      BY <1>1, <2>1 DEF Reported
    <2>3. c # Late(b)
      BY <1>1, <2>1, <2>2 DEF IInv, DecisionByStage, SamplingDecision, Ownership, OwnedBy,
                              Idle
    <2>4. QED
      BY <2>1, <2>2, <2>3
  <1>3. CASE /\ buffer' = [buffer EXCEPT ![c] = noted.buffer]
             /\ run' = [run EXCEPT ![c].stage = "saving", ![c].size = size,
                                   ![c].synth = noted.synth]
    <2>1. /\ buffer'[c] = noted.buffer /\ run'[c].synth = noted.synth
          /\ run'[c].stage = "saving"
          /\ \A d \in Contexts : d # c => buffer'[d] = buffer[d] /\ run'[d] = run[d]
      BY <1>1, <1>3, BatchFacts DEF IInv, TypeOK, Activation
    <2>2. size \in Nat /\ (size = 0 => buffer[c] = <<>>)
      BY <1>1, EmptySeq, EntrySeq DEF Seqs
    <2>3. Len(run[c].synth) + KindCount(Reporting, buffer[c]) <= 1
      BY <1>1 DEF Reported, OneReport
    <2>4. KeepsAll(buffer[c], run[c].synth, noted)
      <3> HIDE DEF size
      <3> QED BY <1>1, <2>2, <2>3, NotedHolds
    <2> HIDE DEF noted, size
    <2>5. Reported(c)'
      BY <2>1, <2>4 DEF KeepsAll, Reported, OneReport
    <2>6. /\ NumbersOf(run[c].synth) \cup NumbersOf(buffer[c])
               \subseteq NumbersOf(stored'[b]) \cup NumbersOf(run'[c].synth)
                         \cup NumbersOf(buffer'[c])
          /\ NumbersOf(stored[b]) \subseteq NumbersOf(stored'[b])
      BY <1>1, <2>1, <2>4 DEF KeepsAll
    <2>7. QED
      BY <1>1, <2>1, <2>5, <2>6, ContextHolds
  <1>4. CASE /\ buffer' = [buffer EXCEPT ![c] = <<>>]
             /\ run' = [run EXCEPT ![c].stage = "returned", ![c].size = 0,
                                   ![c].synth = <<>>]
             /\ retention' = [retention EXCEPT ![c] = "dropped"]
    <2>1. /\ buffer'[c] = <<>> /\ run'[c].synth = <<>> /\ run'[c].stage = "returned"
          /\ \A d \in Contexts : d # c => buffer'[d] = buffer[d] /\ run'[d] = run[d]
      BY <1>1, <1>4, BatchFacts DEF IInv, TypeOK, Activation
    <2>2. Len(<<>>) + KindCount(Reporting, <<>>) <= 1
      BY CountEmpty
    <2>3. Reported(c)'
      BY <2>1, <2>2 DEF Reported, OneReport
    <2>4. ~sampled[b] /\ retention'[Main(b)] = "dropped"
      BY <1>1, <1>2, <1>4 DEF IInv, TypeOK
    <2>5. QED
      BY <1>1, <2>1, <2>3, <2>4, ContextHolds
  <1>5. QED
    BY <1>3, <1>4 DEF DecideByTags

LEMMA SaveCommitsHolds ==
    ASSUME IInv, IInv', OInv, RInv, NEW b \in Batches, NEW c \in {Main(b), Late(b)},
           SaveCommits(c)
    PROVE  NothingLost
  <1>1. /\ c \in Contexts /\ c[1] = b
        /\ buffer[c] \in Seqs /\ run[c].synth \in Seqs /\ stored[b] \in Seqs
        /\ run[c].size \in Nat /\ run[c].size <= Len(buffer[c])
        /\ UNCHANGED sampled
        /\ stored' = [stored EXCEPT ![b] = @ \o Drained(c)]
        /\ buffer' = [buffer EXCEPT ![c] = Arrivals(c)]
        /\ run' = [run EXCEPT ![c].stage = "trimming", ![c].size = 0,
                              ![c].synth = <<>>]
    <2>1. c \in Contexts /\ c[1] = b
      BY ContextsOf
    <2>2. /\ buffer[c] \in Seqs /\ run[c].synth \in Seqs /\ stored[b] \in Seqs
          /\ run[c].size \in Nat /\ run[c].size <= Len(buffer[c])
      BY <2>1, BatchFacts DEF IInv, SnapshotIsPrefix, Activation
    <2>3. QED
      BY <2>1, <2>2 DEF SaveCommits
  <1>2. /\ buffer'[c] = Arrivals(c)
        /\ \A d \in Contexts : d # c => buffer'[d] = buffer[d]
    BY <1>1 DEF IInv, TypeOK
  <1>3. /\ run'[c].synth = <<>> /\ run'[c].stage = "trimming"
        /\ \A d \in Contexts : d # c => run'[d] = run[d]
    BY <1>1, BatchFacts DEF IInv, TypeOK, Activation
  <1>4. /\ stored'[b] = stored[b] \o Drained(c)
        /\ \A d \in Batches \ {b} : stored'[d] = stored[d]
    BY <1>1 DEF IInv, TypeOK
  <1> DEFINE size == run[c].size
             taken == SubSeq(buffer[c], 1, size)
             left == SubSeq(buffer[c], size + 1, Len(buffer[c]))
  <1>5. /\ taken \in Seqs /\ left \in Seqs
        /\ NumbersOf(taken) \cup NumbersOf(left) = NumbersOf(buffer[c])
    BY <1>1, NumbersCut
  <1>6. KindCount(Reporting, left) <= KindCount(Reporting, buffer[c])
    <2>1. size + 1 \in Nat \ {0} /\ Len(buffer[c]) \in Nat /\ Len(buffer[c]) <= Len(buffer[c])
      BY <1>1, EntrySeq
    <2>2. QED
      BY <1>1, <2>1, CountSlice DEF Seqs
  <1>7. left = Arrivals(c) /\ Drained(c) = run[c].synth \o taken
    BY DEF Arrivals, Drained
  <1> HIDE DEF taken, left, size
  <1>8. Reported(c)'
    <2>1. Len(run[c].synth) + KindCount(Reporting, buffer[c]) <= 1
      BY <1>1 DEF RInv, Reported, OneReport
    <2>2. /\ Len(run[c].synth) \in Nat /\ KindCount(Reporting, buffer[c]) \in Nat
          /\ KindCount(Reporting, left) \in Nat
      BY <1>1, <1>5, EntrySeq, PositionsFinite DEF Seqs
    <2>3. \A k, m, n \in Nat : k + m <= 1 /\ n <= m => 0 + n <= 1
      OBVIOUS
    <2>4. Len(<<>>) + KindCount(Reporting, left) <= 1
      BY <1>6, <2>1, <2>2, <2>3
    <2>5. Len(run'[c].synth) + KindCount(Reporting, buffer'[c]) <= 1
      BY <1>2, <1>3, <1>7, <2>4
    <2>6. QED
      BY <1>3, <2>5 DEF Reported, OneReport
  <1>9. NumbersOf(stored'[b])
          = NumbersOf(stored[b]) \cup NumbersOf(run[c].synth) \cup NumbersOf(taken)
    <2>1. /\ Drained(c) \in Seqs
          /\ NumbersOf(Drained(c)) = NumbersOf(run[c].synth) \cup NumbersOf(taken)
      BY <1>1, <1>5, <1>7, NumbersConcat
    <2>2. NumbersOf(stored[b] \o Drained(c)) = NumbersOf(stored[b]) \cup NumbersOf(Drained(c))
      BY <1>1, <2>1, NumbersConcat
    <2>3. QED
      BY <1>4, <2>1, <2>2
  <1>10. /\ NumbersOf(run[c].synth) \cup NumbersOf(buffer[c])
              \subseteq NumbersOf(stored'[b]) \cup NumbersOf(run'[c].synth)
                        \cup NumbersOf(buffer'[c])
         /\ NumbersOf(stored[b]) \subseteq NumbersOf(stored'[b])
    BY <1>2, <1>5, <1>7, <1>9
  <1>11. \A d \in Contexts : d # c => buffer'[d] = buffer[d] /\ run'[d] = run[d]
    BY <1>2, <1>3
  <1>12. UNCHANGED sampled /\ \A d \in Batches \ {b} : stored'[d] = stored[d]
    BY <1>1, <1>4
  <1>13. QED
    BY <1>8, <1>10, <1>11, <1>12, ContextHolds

\* With room for all, a requeue cuts nothing.
LEMMA RequeuedWhole ==
    ASSUME RoomForAll, IInv, OInv, RInv, NEW c \in Contexts,
           run[c].synth \in Seqs, buffer[c] \in Seqs
    PROVE  Requeued(c) = run[c].synth \o buffer[c]
  <1> DEFINE synth == run[c].synth
             buf == buffer[c]
             whole == synth \o buf
  <1>1. /\ whole \in Seqs /\ Len(whole) = Len(synth) + Len(buf)
        /\ Len(synth) \in Nat /\ Len(buf) \in Nat /\ BufferLimit \in Nat
    BY ConcatProperties, EntrySeq, ConstantsAssumption DEF Seqs
  <1>2. ASSUME NEW t \in Types PROVE KindCount(Recorded(t), whole) <= Cap[t]
    <2>1. \A i \in 1..Len(synth) : Kind(synth[i]) # Recorded(t)
      BY KindsDiffer DEF IInv, Charged
    <2>2. KindCount(Recorded(t), whole) <= KindCount(Recorded(t), buf)
      BY <2>1, CountPrefixed DEF Seqs
    <2>3. KindCount(Recorded(t), buf) <= Cap[t]
      BY DEF IInv, Charged, Fits
    <2>4. /\ KindCount(Recorded(t), whole) \in Nat /\ KindCount(Recorded(t), buf) \in Nat
          /\ Cap[t] \in Nat
      BY <1>1, PositionsFinite, ConstantsAssumption DEF ConstantsAssumption, Seqs
    <2> HIDE DEF whole, buf
    <2>5. QED
      BY <2>2, <2>3, <2>4
  <1>3. KindCount(Reporting, whole) <= 1
    <2>1. Len(synth) + KindCount(Reporting, buf) <= 1
      BY DEF RInv, Reported, OneReport
    <2>2. QED
      BY <2>1, CountRequeued
  <1>4. Len(whole) <= BufferLimit
    BY <1>1, <1>2, <1>3 DEF RoomForAll
  <1>5. SubSeq(whole, 1, Len(whole)) = whole
    BY <1>1, SubSeqFull DEF Seqs
  <1>6. CASE synth = <<>>
    <2>1. whole = buf
      BY <1>6, ConcatEmptySeq DEF Seqs
    <2>2. Requeued(c) = Capped(whole)
      BY <2>1 DEF Requeued
    <2> HIDE DEF whole
    <2>3. Capped(whole) = whole
      BY <1>4, <1>5 DEF Capped
    <2>4. QED
      BY <2>2, <2>3 DEF whole
  <1>7. CASE synth # <<>>
    <2>1. Len(synth) # 0
      BY <1>7, EmptySeq DEF Seqs
    <2> HIDE DEF whole, buf, synth
    <2>2. Len(buf) < BufferLimit
      BY <1>1, <1>4, <2>1
    <2>3. Requeued(c) = Capped(whole)
      BY <2>2 DEF Requeued, whole, buf, synth
    <2>4. Capped(whole) = whole
      BY <1>4, <1>5 DEF Capped
    <2>5. QED
      BY <2>3, <2>4 DEF whole, buf, synth
  <1>8. QED
    BY <1>6, <1>7

LEMMA SaveRejectsHolds ==
    ASSUME RoomForAll, IInv, IInv', OInv, RInv, NEW b \in Batches,
           NEW c \in {Main(b), Late(b)}, SaveRejects(c)
    PROVE  NothingLost
  <1>1. /\ c \in Contexts
        /\ buffer[c] \in Seqs /\ run[c].synth \in Seqs
        /\ UNCHANGED <<sampled, stored>>
        /\ buffer' = [buffer EXCEPT ![c] = Requeued(c)]
        /\ run' = [run EXCEPT ![c].stage = "threw", ![c].size = 0,
                              ![c].synth = <<>>]
    BY BatchFacts DEF SaveRejects
  <1>2. /\ run'[c].synth = <<>> /\ run'[c].stage = "threw"
        /\ \A d \in Contexts : d # c => run'[d] = run[d]
    BY <1>1, BatchFacts DEF IInv, TypeOK, Activation
  <1>3. /\ buffer'[c] = Requeued(c)
        /\ \A d \in Contexts : d # c => buffer'[d] = buffer[d]
    BY <1>1 DEF IInv, TypeOK
  <1>4. buffer'[c] = run[c].synth \o buffer[c]
    BY <1>1, <1>3, RequeuedWhole
  <1>5. Reported(c)'
    <2>1. Len(run[c].synth) + KindCount(Reporting, buffer[c]) <= 1
      BY <1>1 DEF RInv, Reported, OneReport
    <2>2. KindCount(Reporting, run[c].synth \o buffer[c]) <= 1
      BY <1>1, <2>1, CountRequeued
    <2>3. KindCount(Reporting, run[c].synth \o buffer[c]) \in Nat /\ Len(<<>>) = 0
      BY <1>1, NumbersConcat, PositionsFinite DEF Seqs
    <2>4. \A n \in Nat : n <= 1 => 0 + n <= 1
      OBVIOUS
    <2>5. Len(run'[c].synth) + KindCount(Reporting, buffer'[c]) <= 1
      BY <1>2, <1>4, <2>2, <2>3, <2>4
    <2>6. QED
      BY <1>2, <2>5 DEF Reported, OneReport
  <1>6. /\ NumbersOf(run[c].synth) \cup NumbersOf(buffer[c])
             \subseteq NumbersOf(stored'[b]) \cup NumbersOf(run'[c].synth)
                       \cup NumbersOf(buffer'[c])
        /\ NumbersOf(stored[b]) \subseteq NumbersOf(stored'[b])
    BY <1>1, <1>4, NumbersConcat
  <1>7. /\ UNCHANGED sampled /\ \A d \in Batches \ {b} : stored'[d] = stored[d]
        /\ \A d \in Contexts : d # c => buffer'[d] = buffer[d] /\ run'[d] = run[d]
    BY <1>1, <1>2, <1>3
  <1>8. QED
    BY <1>5, <1>6, <1>7, ContextHolds

LEMMA CloseHolds ==
    ASSUME IInv, IInv', OInv, RInv, NEW b \in Batches, MoveArrivals(b),
           phase[b] = "open", run[Main(b)].stage = "returned",
           run' = [run EXCEPT ![Main(b)] = Idle], UNCHANGED <<sampled, stored>>
    PROVE  NothingLost
  <1>1. /\ run[Main(b)].synth = <<>> /\ Idle.synth = <<>> /\ Idle.stage = "idle"
        /\ run[Late(b)] = Idle /\ buffer[Late(b)] = <<>>
        /\ run'[Main(b)] = Idle /\ run'[Late(b)] = Idle
        /\ \A d \in Contexts : d # Main(b) => run'[d] = run[d]
        /\ buffer'[Late(b)] = buffer[Main(b)] /\ buffer'[Main(b)] = <<>>
        /\ \A d \in Contexts : d # Main(b) /\ d # Late(b) => buffer'[d] = buffer[d]
    BY HandOver
  <1>2. /\ Main(b) \in Contexts /\ Late(b) \in Contexts /\ Len(<<>>) = 0
        /\ KindCount(Reporting, <<>>) = 0
    BY ContextsOf, CountEmpty
  <1>3. ASSUME NEW d \in Contexts PROVE Reported(d)'
    <2>1. CASE d # Main(b) /\ d # Late(b)
      BY <1>1, <2>1 DEF RInv, Reported, OneReport
    <2>2. CASE d = Main(b)
      <3>1. Len(<<>>) + KindCount(Reporting, <<>>) <= 1
        BY <1>2
      <3>2. Len(run'[d].synth) + KindCount(Reporting, buffer'[d]) <= 1
        BY <1>1, <2>2, <3>1
      <3>3. QED
        BY <1>1, <2>2, <3>2 DEF Reported, OneReport
    <2>3. CASE d = Late(b)
      <3>1. Len(run[Main(b)].synth) + KindCount(Reporting, buffer[Main(b)]) <= 1
        BY <1>2 DEF RInv, Reported, OneReport
      <3>2. Len(run'[d].synth) + KindCount(Reporting, buffer'[d]) <= 1
        BY <1>1, <2>3, <3>1
      <3>3. QED
        BY <1>1, <2>3, <3>2 DEF Reported, OneReport
    <2>4. QED
      BY <2>1, <2>2, <2>3
  <1>4. ASSUME NEW d \in Batches PROVE Held(d) \subseteq Held(d)'
    <2>1. /\ Held(d) = HeldIn(stored[d], run[Main(d)].synth, buffer[Main(d)],
                              run[Late(d)].synth, buffer[Late(d)])
          /\ Held(d)' = HeldIn(stored'[d], run'[Main(d)].synth, buffer'[Main(d)],
                               run'[Late(d)].synth, buffer'[Late(d)])
      BY HeldNow, HeldNext DEF Main, Late
    <2>2. CASE d = b
      BY <1>1, <2>1, <2>2, NumbersEmpty DEF HeldIn
    <2>3. CASE d # b
      <3>1. /\ Main(d) \in Contexts /\ Late(d) \in Contexts
            /\ Main(d) # Main(b) /\ Main(d) # Late(b)
            /\ Late(d) # Main(b) /\ Late(d) # Late(b)
        BY <2>3, ContextsOf, ContextsDiffer
      <3>2. /\ run'[Main(d)] = run[Main(d)] /\ run'[Late(d)] = run[Late(d)]
            /\ buffer'[Main(d)] = buffer[Main(d)] /\ buffer'[Late(d)] = buffer[Late(d)]
        BY <1>1, <3>1
      <3>3. QED
        BY <2>1, <3>2
    <2>4. QED
      BY <2>2, <2>3
  <1>5. QED
    BY <1>3, <1>4 DEF NothingLost, RInv, HeldOn

LEMMA SettleHolds ==
    ASSUME IInv, IInv', OInv, RInv, NEW b \in Batches, SettleMain(b) \/ SettleLate(b)
    PROVE  NothingLost
  <1>1. PICK c \in {Main(b), Late(b)} : Over(c) /\ run' = [run EXCEPT ![c] = Idle]
    BY DEF SettleMain, SettleLate
  <1>2. /\ Idle.synth = <<>> /\ Idle.stage # "tags"
        /\ run[c].synth = <<>> /\ run'[c] = Idle
        /\ \A d \in Contexts : d # c => run'[d] = run[d]
        /\ UNCHANGED <<sampled, stored>>
    <2>1. c \in Contexts /\ run \in [Contexts -> Activation]
      <3>1. c \in Contexts
        BY ContextsOf
      <3>2. run \in [Contexts -> Activation]
        BY DEF IInv, TypeOK
      <3>3. QED
        BY <3>1, <3>2
    <2>2. Idle.synth = <<>> /\ Idle.stage # "tags"
      BY DEF Idle
    <2>3. Suspended(c) /\ run[c].stage \notin {"tags", "saving"}
      BY <1>1, BatchFacts DEF BatchInLine, Over
    <2>4. UNCHANGED <<sampled, stored>>
      BY DEF SettleMain, SettleLate
    <2>5. QED
      BY <1>1, <2>1, <2>2, <2>3, <2>4 DEF Suspended
  <1>3. CASE UNCHANGED buffer
    BY <1>2, <1>3, QuietHolds
  <1>4. CASE /\ SettleMain(b) /\ phase[b] = "open"
             /\ run[Main(b)].stage = "returned" /\ run[Main(b)].mode = "final"
    BY <1>2, <1>4, CloseHolds DEF SettleMain
  <1>5. QED
    BY <1>3, <1>4 DEF SettleMain, SettleLate, context

LEMMA StartHolds ==
    ASSUME IInv, IInv', RInv, NEW b \in Batches, StartFlush(b) \/ LateTimer(b)
    PROVE  NothingLost
  <1>1. UNCHANGED <<sampled, stored>>
    BY DEF StartFlush, LateTimer
  <1>2. CASE UNCHANGED <<buffer, run>>
    BY <1>1, <1>2, QuietHolds
  <1>3. ASSUME NEW mode \in Modes, FlushContext(Main(b), mode, TRUE), run[Main(b)] = Idle
        PROVE  NothingLost
    BY <1>1, <1>3, ContextsOf, EnterHolds
  <1>4. ASSUME NEW chained \in BOOLEAN, FlushContext(Late(b), "final", chained),
               continued[b], phase[b] = "closed"
        PROVE  NothingLost
    <2>1. run[Late(b)] = Idle /\ "final" \in Modes
      BY <1>4 DEF IInv, Ownership, OwnedBy, Modes
    <2>2. QED
      BY <1>1, <1>4, <2>1, EnterHolds
  <1>5. CASE StartFlush(b)
    <2>1. Head(queue[b]) \in Modes /\ run[Main(b)] = Idle
      BY <1>5, HeadOfQueue DEF StartFlush, Quiet, IInv, TypeOK
    <2>2. \/ FlushContext(Main(b), Head(queue[b]), TRUE)
          \/ phase[b] = "closed" /\ FlushContinuation(b, TRUE)
      BY <1>5 DEF StartFlush
    <2>3. QED
      BY <1>2, <1>3, <1>4, <2>1, <2>2 DEF FlushContinuation
  <1>6. CASE LateTimer(b)
    <2>1. phase[b] = "closed" /\ FlushContinuation(b, FALSE)
      BY <1>6 DEF LateTimer, IInv, WindowOwned
    <2>2. QED
      BY <1>2, <1>4, <2>1 DEF FlushContinuation
  <1>7. QED
    BY <1>5, <1>6

LEMMA InitHolds == Init => RInv
  <1> SUFFICES ASSUME Init, NEW c \in Contexts PROVE Reported(c)
    BY DEF RInv
  <1>1. buffer[c] = <<>> /\ run[c].synth = <<>> /\ run[c].stage = "idle"
    BY DEF Init, Idle
  <1>2. Len(<<>>) + KindCount(Reporting, <<>>) <= 1
    BY CountEmpty
  <1>3. Len(run[c].synth) + KindCount(Reporting, buffer[c]) <= 1
    BY <1>1, <1>2
  <1>4. QED
    BY <1>1, <1>3 DEF Reported, OneReport

LEMMA NextHolds ==
    ASSUME RoomForAll
    PROVE  IInv /\ IInv' /\ OInv /\ RInv /\ [Next]_vars => NothingLost
  <1> SUFFICES ASSUME IInv, IInv', OInv, RInv, [Next]_vars PROVE NothingLost
    OBVIOUS
  <1>1. CASE UNCHANGED vars
    BY <1>1, QuietHolds DEF vars, context, flushing
  <1>2. ASSUME NEW b \in Batches, NEW t \in Types, Accept(b, t) PROVE NothingLost
    BY <1>2, AcceptHolds
  <1>3. ASSUME NEW b \in Batches, NEW t \in Types, Refuse(b, t) PROVE NothingLost
    BY <1>3, QuietHolds DEF Refuse, flushing
  <1>4. ASSUME NEW b \in Batches, NEW mode \in Modes, Flush(b, mode) PROVE NothingLost
    BY <1>4, QuietHolds DEF Flush, context
  <1>5. ASSUME NEW b \in Batches, StartFlush(b) \/ LateTimer(b) PROVE NothingLost
    BY <1>5, StartHolds
  <1>6. ASSUME NEW b \in Batches, SettleMain(b) \/ SettleLate(b) PROVE NothingLost
    BY <1>6, SettleHolds
  <1>7. ASSUME NEW b \in Batches, NEW c \in {Main(b), Late(b)},
               TrimResolves(c) \/ TrimRejects(c)
        PROVE  NothingLost
    <2>1. PICK stage \in {"returned", "threw"} : run' = [run EXCEPT ![c].stage = stage]
      BY <1>7 DEF TrimResolves, TrimRejects
    <2>2. UNCHANGED <<sampled, buffer, stored>>
      BY <1>7 DEF TrimResolves, TrimRejects, context
    <2>3. c \in Contexts /\ TypeOK
      BY ContextsOf DEF IInv
    <2>4. \A d \in Contexts : /\ run'[d].synth = run[d].synth
                              /\ run'[d].stage = "tags" => run[d].stage = "tags"
      BY <2>1, <2>3, StageSet
    <2>5. QED
      BY <2>2, <2>4, QuietHolds
  <1>8. ASSUME NEW b \in Batches, NEW c \in {Main(b), Late(b)}, Storage(c)
        PROVE  NothingLost
    BY <1>7, <1>8, DecideByTagsHolds, SaveCommitsHolds, SaveRejectsHolds DEF Storage
  <1>9. QED
    BY <1>1, <1>2, <1>3, <1>4, <1>5, <1>6, <1>8 DEF Next, Host

\* An entry record() accepted leaves the pipeline only with a sampled-out batch that
\* was decided against: no save, failed save, requeue, close or end of a grace window
\* loses one, as long as #bufferLimit has room for the caps and one report.
THEOREM NoEntryLost == ASSUME RoomForAll PROVE Spec => AcceptedNotLost
  <1>1. /\ IInv /\ IInv' /\ OInv /\ RInv /\ [Next]_vars => RInv'
        /\ IInv /\ IInv' /\ OInv /\ RInv /\ [Next]_vars =>
             [\A b \in Batches :
                 \/ Held(b) \subseteq Held(b)'
                 \/ ~sampled[b] /\ retention'[Main(b)] = "dropped"]_vars
    BY NextHolds DEF NothingLost, HeldOn
  <1>2. Spec => []IInv
    BY Invariant
  <1>3. Spec => []OInv
    BY <1>2, InitOrder, NextOrder, PTL DEF Spec
  <1>4. QED
    BY <1>1, <1>2, <1>3, InitHolds, PTL DEF Spec, AcceptedNotLost

\* Requeued after a failed save or moved behind a final snapshot, a context never
\* buffers more accepted entries of a type than the cap of record() allows, nor a second
\* report: the report comes on top of the cap of its type, and #bufferLimit has room
\* for it.
THEOREM CapsHold == ASSUME RoomForAll PROVE Spec => []CapRespected
  <1>1. ASSUME IInv, RInv, NEW c \in Contexts
        PROVE  /\ \A t \in Types : Cardinality(AcceptedIn(t, buffer[c])) <= Cap[t]
               /\ Cardinality(ReportsIn(buffer[c])) <= 1
               /\ Len(buffer[c]) <= BufferLimit
    <2> DEFINE buf == buffer[c]
    <2>1. buf \in Seqs
      BY <1>1 DEF IInv, TypeOK, Seqs
    <2>2. \A i \in 1..Len(buf) : buf[i].origin \in {"record", "report"}
      BY <2>1, EntrySeq DEF EntryRec
    <2>3. ASSUME NEW t \in Types
          PROVE  KindCount(Recorded(t), buf) = Cardinality(AcceptedIn(t, buf))
      <3>1. AcceptedIn(t, buf) = {i \in 1..Len(buf) : Kind(buf[i]) = Recorded(t)}
        BY <2>2 DEF AcceptedIn, Kind, Recorded
      <3>2. QED
        BY <3>1 DEF KindCount
    <2>4. KindCount(Reporting, buf) = Cardinality(ReportsIn(buf))
      <3>1. ReportsIn(buf) = {i \in 1..Len(buf) : Kind(buf[i]) = Reporting}
        BY <2>2 DEF ReportsIn, Kind, Reporting
      <3>2. QED
        BY <3>1 DEF KindCount
    <2>5. \A t \in Types : KindCount(Recorded(t), buf) <= Cap[t]
      BY <1>1 DEF IInv, Charged, Fits
    <2>6. KindCount(Reporting, buf) <= 1
      <3>1. Len(run[c].synth) \in Nat /\ KindCount(Reporting, buf) \in Nat
        BY <1>1, <2>1, LenProperties, PositionsFinite DEF IInv, TypeOK, Activation, Seqs
      <3>2. Len(run[c].synth) + KindCount(Reporting, buf) <= 1
        BY <1>1 DEF RInv, Reported, OneReport
      <3>3. QED
        BY <3>1, <3>2
    <2> HIDE DEF buf
    <2>7. Len(buf) <= BufferLimit
      BY <2>1, <2>5, <2>6 DEF RoomForAll
    <2>8. QED
      BY <2>3, <2>4, <2>5, <2>6, <2>7 DEF buf
  <1>2. IInv /\ RInv => CapRespected
    BY <1>1 DEF CapRespected
  <1>3. IInv /\ IInv' /\ OInv /\ RInv /\ [Next]_vars => RInv'
    BY NextHolds DEF NothingLost
  <1>4. Spec => []IInv
    BY Invariant
  <1>5. Spec => []OInv
    BY <1>4, InitOrder, NextOrder, PTL DEF Spec
  <1>6. QED
    BY <1>2, <1>3, <1>4, <1>5, InitHolds, PTL DEF Spec

-----------------------------------------------------------------------------
(* The refused entries that a sequence of entries reports *)

\* g[i] is what the first i entries report.
Tally(s, g) ==
    /\ g[0] = 0
    /\ \A i \in 1..Len(s) : g[i] = g[i - 1] + s[i].note

\* Two tallies of a sequence are the same.
LEMMA OneTally ==
    ASSUME NEW s \in Seqs, NEW g, NEW h, Tally(s, g), Tally(s, h)
    PROVE  g[Len(s)] = h[Len(s)]
  <1> DEFINE Bad == {i \in 0..Len(s) : g[i] # h[i]}
  <1>1. Len(s) \in Nat
    BY EntrySeq
  <1>2. ASSUME Bad # {} PROVE FALSE
    <2>1. Bad \in SUBSET Nat
      BY <1>1
    <2>2. PICK m \in Bad : \A n \in Bad : m <= n
      <3> HIDE DEF Bad
      <3>1. QED
        BY <1>2, <2>1, LowestNumber
    <2>3. m # 0
      BY <2>2 DEF Tally
    <2>4. m - 1 \in 0..Len(s) /\ m - 1 \notin Bad /\ m \in 1..Len(s)
      BY <1>1, <2>2, <2>3
    <2>5. g[m] = g[m - 1] + s[m].note /\ h[m] = h[m - 1] + s[m].note
      BY <2>4 DEF Tally
    <2>6. QED
      BY <2>2, <2>4, <2>5
  <1>3. Len(s) \in 0..Len(s) /\ Len(s) \notin Bad
    <2> HIDE DEF Bad
    <2>1. QED
      BY <1>1, <1>2
  <1>4. QED
    BY <1>3

\* There is a tally of each sequence: a shortest prefix without one would have one.
LEMMA TallyExists ==
    ASSUME NEW s \in Seqs
    PROVE  \E g \in [0..Len(s) -> Nat] :
              g = [i \in 0..Len(s) |-> IF i = 0 THEN 0 ELSE g[i - 1] + s[i].note]
  <1> DEFINE Loop(g, n) ==
          /\ g \in [0..n -> Nat]
          /\ g = [i \in 0..n |-> IF i = 0 THEN 0 ELSE g[i - 1] + s[i].note]
             Bad == {n \in 0..Len(s) : ~\E g : Loop(g, n)}
  <1>1. Len(s) \in Nat /\ \A i \in 1..Len(s) : s[i].note \in Nat
    BY EntrySeq DEF EntryRec
  <1>2. ASSUME NEW m \in 1..Len(s), \E g : Loop(g, m - 1)
        PROVE  \E g : Loop(g, m)
    <2>1. PICK g : Loop(g, m - 1)
      BY <1>2
    <2> DEFINE h == [i \in 0..m |-> IF i = m THEN g[m - 1] + s[m].note ELSE g[i]]
    <2>0. m \in Nat /\ m # 0 /\ m - 1 \in Nat /\ m - 1 \in 0..(m - 1)
      BY <1>1
    <2>2. \A i \in 0..(m - 1) : h[i] = g[i] /\ i # m /\ i \in 0..m
      BY <2>0
    <2>3. h[m] = g[m - 1] + s[m].note
      BY <2>0
    <2>4. \A i \in 0..(m - 1) : /\ g[i] = IF i = 0 THEN 0 ELSE g[i - 1] + s[i].note
                                /\ g[i] \in Nat
      BY <2>1
    <2>5. ASSUME NEW i \in 0..m
          PROVE  /\ h[i] = IF i = 0 THEN 0 ELSE h[i - 1] + s[i].note
                 /\ h[i] \in Nat
      <3>1. CASE i = m
        <4>1. h[m - 1] = g[m - 1] /\ g[m - 1] \in Nat
          BY <2>0, <2>2, <2>4
        <4>2. s[m].note \in Nat
          BY <1>1
        <4> HIDE DEF h
        <4>3. QED
          BY <2>0, <2>3, <3>1, <4>1, <4>2
      <3>2. CASE i # m
        <4>1. i \in 0..(m - 1) /\ (i # 0 => i - 1 \in 0..(m - 1))
          BY <2>0, <3>2
        <4>2. i # 0 => h[i - 1] = g[i - 1]
          BY <2>2, <4>1
        <4>3. h[i] = g[i]
          BY <2>2, <4>1
        <4> HIDE DEF h
        <4>4. QED
          BY <2>4, <4>1, <4>2, <4>3
      <3>3. QED
        BY <3>1, <3>2
    <2>6. h = [i \in 0..m |-> h[i]]
      OBVIOUS
    <2> HIDE DEF h
    <2>7. Loop(h, m)
      BY <2>5, <2>6
    <2>8. QED
      BY <2>7
  <1>3. ASSUME Bad # {} PROVE FALSE
    <2>1. Bad \in SUBSET Nat
      BY <1>1
    <2>2. PICK m \in Bad : \A n \in Bad : m <= n
      <3> HIDE DEF Bad
      <3>1. QED
        BY <1>3, <2>1, LowestNumber
    <2>3. CASE m = 0
      <3>1. Loop([i \in 0..0 |-> 0], 0)
        OBVIOUS
      <3>2. QED
        BY <2>2, <2>3, <3>1
    <2>4. CASE m # 0
      <3>1. m \in 1..Len(s) /\ m - 1 \in 0..Len(s) /\ ~(m <= m - 1)
        BY <1>1, <2>2, <2>4
      <3>2. m - 1 \notin Bad
        <4> HIDE DEF Bad
        <4>1. QED
          BY <2>2, <3>1
      <3>3. QED
        BY <1>2, <2>2, <3>1, <3>2
    <2>5. QED
      BY <2>3, <2>4
  <1>4. Len(s) \notin Bad /\ Len(s) \in 0..Len(s)
    <2> HIDE DEF Bad
    <2>1. QED
      BY <1>1, <1>3
  <1>5. QED
    BY <1>4

\* Notes is what any tally comes to.
LEMMA NotesAre ==
    ASSUME NEW s \in Seqs
    PROVE  /\ \E g : Tally(s, g) /\ \A i \in 0..Len(s) : g[i] \in Nat
           /\ \A g : Tally(s, g) => Notes(s) = g[Len(s)]
           /\ Notes(s) \in Nat
  <1> DEFINE Loop(g) == g = [i \in 0..Len(s) |-> IF i = 0 THEN 0 ELSE g[i - 1] + s[i].note]
             upTo == CHOOSE g : Loop(g)
  <1>1. PICK f \in [0..Len(s) -> Nat] : Loop(f)
    BY TallyExists
  <1>2. Loop(upTo)
    BY <1>1
  <1>3. Notes(s) = upTo[Len(s)]
    BY DEF Notes
  <1>4. Len(s) \in Nat /\ \A i \in 1..Len(s) : i \in 0..Len(s) /\ i # 0
    BY EntrySeq
  <1>5. ASSUME NEW g, Loop(g) PROVE Tally(s, g)
    <2>1. \A i \in 0..Len(s) : g[i] = IF i = 0 THEN 0 ELSE g[i - 1] + s[i].note
      BY <1>5
    <2> HIDE DEF Loop
    <2>2. QED
      BY <1>4, <2>1 DEF Tally
  <1> HIDE DEF Loop, upTo
  <1>6. Tally(s, f) /\ Tally(s, upTo) /\ Len(s) \in 0..Len(s)
    BY <1>1, <1>2, <1>4, <1>5
  <1>7. Notes(s) = f[Len(s)]
    BY <1>3, <1>6, OneTally
  <1>8. QED
    BY <1>1, <1>3, <1>6, <1>7, OneTally

LEMMA NotesZero ==
    ASSUME NEW s \in Seqs, \A i \in 1..Len(s) : s[i].note = 0
    PROVE  Notes(s) = 0
  <1> DEFINE g == [i \in 0..Len(s) |-> 0]
  <1>1. Len(s) \in Nat
    BY EntrySeq
  <1>2. Tally(s, g)
    BY <1>1 DEF Tally
  <1>3. g[Len(s)] = 0
    BY <1>1
  <1> HIDE DEF g
  <1>4. QED
    BY <1>2, <1>3, NotesAre

LEMMA NotesEmpty == Notes(<<>>) = 0
  <1>1. <<>> \in Seqs /\ Len(<<>>) = 0
    BY EmptySeq DEF Seqs
  <1>2. QED
    BY <1>1, NotesZero

LEMMA NotesOfOne ==
    ASSUME NEW e \in EntryRec
    PROVE  <<e>> \in Seqs /\ Notes(<<e>>) = e.note
  <1> DEFINE g == [i \in 0..1 |-> IF i = 0 THEN 0 ELSE e.note]
  <1>1. <<e>> \in Seqs /\ Len(<<e>>) = 1 /\ <<e>>[1] = e /\ e.note \in Nat
    BY DEF Seqs, EntryRec
  <1>2. g[0] = 0 /\ g[1] = e.note
    OBVIOUS
  <1> HIDE DEF g
  <1>3. \A i \in 1..Len(<<e>>) : i = 1
    BY <1>1
  <1>4. g[1] = g[1 - 1] + <<e>>[1].note
    BY <1>1, <1>2
  <1>5. Tally(<<e>>, g)
    BY <1>2, <1>3, <1>4 DEF Tally
  <1>6. QED
    BY <1>1, <1>2, <1>5, NotesAre

LEMMA NotesConcat ==
    ASSUME NEW s \in Seqs, NEW u \in Seqs
    PROVE  s \o u \in Seqs /\ Notes(s \o u) = Notes(s) + Notes(u)
  <1> DEFINE w == s \o u
  <1>1. /\ w \in Seqs
        /\ Len(w) = Len(s) + Len(u)
        /\ \A i \in 1..(Len(s) + Len(u)) :
              w[i] = IF i <= Len(s) THEN s[i] ELSE u[i - Len(s)]
    BY ConcatProperties DEF Seqs
  <1>2. Len(s) \in Nat /\ Len(u) \in Nat
    BY EntrySeq
  <1>3. PICK g : Tally(s, g) /\ \A i \in 0..Len(s) : g[i] \in Nat
    BY NotesAre
  <1>4. PICK h : Tally(u, h) /\ \A i \in 0..Len(u) : h[i] \in Nat
    BY NotesAre
  <1> HIDE DEF w
  <1> DEFINE k == [i \in 0..Len(w) |-> IF i <= Len(s) THEN g[i] ELSE g[Len(s)] + h[i - Len(s)]]
  <1>5. /\ \A i \in 0..Len(s) : k[i] = g[i]
        /\ \A i \in 1..Len(u) : k[Len(s) + i] = g[Len(s)] + h[i]
    <2>1. \A i \in 0..Len(s) : i \in 0..Len(w)
      BY <1>1, <1>2
    <2>2. ASSUME NEW i \in 1..Len(u)
          PROVE  k[Len(s) + i] = g[Len(s)] + h[i]
      <3>1. Len(s) + i \in 0..Len(w) /\ ~(Len(s) + i <= Len(s)) /\ (Len(s) + i) - Len(s) = i
        BY <1>1, <1>2
      <3>2. QED
        BY <3>1
    <2>3. QED
      BY <2>1, <2>2
  <1> HIDE DEF k
  <1>6. \A i \in 0..Len(u) : k[Len(s) + i] = g[Len(s)] + h[i] /\ h[i] \in Nat
    <2>1. k[Len(s)] = g[Len(s)] + h[0] /\ Len(s) + 0 = Len(s)
      BY <1>2, <1>3, <1>4, <1>5 DEF Tally
    <2>2. \A i \in 0..Len(u) : i = 0 \/ i \in 1..Len(u)
      BY <1>2
    <2>3. QED
      BY <1>4, <1>5, <2>1, <2>2
  <1>7. ASSUME NEW i \in 1..Len(w)
        PROVE  k[i] = k[i - 1] + w[i].note
    <2>1. CASE i <= Len(s)
      <3>1. i \in 1..Len(s) /\ i - 1 \in 0..Len(s) /\ i \in 0..Len(s) /\ w[i] = s[i]
        BY <1>1, <1>2, <2>1
      <3>2. g[i] = g[i - 1] + s[i].note
        BY <1>3, <3>1 DEF Tally
      <3>3. QED
        BY <1>5, <3>1, <3>2
    <2>2. CASE ~(i <= Len(s))
      <3>1. PICK j \in 1..Len(u) : j = i - Len(s)
        BY <1>1, <1>2, <2>2
      <3>2. /\ i = Len(s) + j /\ i - 1 = Len(s) + (j - 1) /\ w[i] = u[j]
            /\ j \in 0..Len(u) /\ j - 1 \in 0..Len(u)
        BY <1>1, <1>2, <2>2, <3>1
      <3>3. h[j] = h[j - 1] + u[j].note
        BY <1>4 DEF Tally
      <3>4. k[i] = g[Len(s)] + h[j] /\ k[i - 1] = g[Len(s)] + h[j - 1]
        BY <1>6, <3>2
      <3>5. u[j].note \in Nat /\ h[j - 1] \in Nat /\ g[Len(s)] \in Nat
        <4>1. u[j].note \in Nat
          BY EntrySeq DEF EntryRec
        <4>2. h[j - 1] \in Nat
          BY <1>6, <3>2
        <4>3. g[Len(s)] \in Nat
          BY <1>2, <1>3
        <4>4. QED
          BY <4>1, <4>2, <4>3
      <3>6. \A m, n, d \in Nat : m + (n + d) = (m + n) + d
        OBVIOUS
      <3>7. QED
        BY <3>2, <3>3, <3>4, <3>5, <3>6
    <2>3. QED
      BY <2>1, <2>2
  <1>8. Tally(w, k)
    BY <1>1, <1>2, <1>3, <1>5, <1>7 DEF Tally
  <1>9. k[Len(w)] = g[Len(s)] + h[Len(u)]
    BY <1>1, <1>2, <1>6
  <1>10. Notes(w) = k[Len(w)]
    BY <1>1, <1>8, NotesAre
  <1>11. Notes(s) = g[Len(s)] /\ Notes(u) = h[Len(u)]
    BY <1>3, <1>4, NotesAre
  <1>12. QED
    BY <1>1, <1>9, <1>10, <1>11 DEF w

LEMMA NotesCut ==
    ASSUME NEW s \in Seqs, NEW n \in Nat, n <= Len(s)
    PROVE  /\ SubSeq(s, 1, n) \in Seqs /\ SubSeq(s, n + 1, Len(s)) \in Seqs
           /\ Notes(SubSeq(s, 1, n)) + Notes(SubSeq(s, n + 1, Len(s))) = Notes(s)
  <1>1. SubSeq(s, 1, n) \in Seqs /\ SubSeq(s, n + 1, Len(s)) \in Seqs
    BY NumbersCut
  <1>2. SubSeq(s, 1, n) \o SubSeq(s, n + 1, Len(s)) = s
    <2>1. /\ Len(s) \in Nat /\ 1 \in 1..(Len(s) + 1) /\ n \in (1 - 1)..Len(s)
          /\ Len(s) \in n..Len(s)
      BY EntrySeq
    <2>2. SubSeq(s, 1, n) \o SubSeq(s, n + 1, Len(s)) = SubSeq(s, 1, Len(s))
      BY <2>1, ConcatAdjacentSubSeq DEF Seqs
    <2>3. QED
      BY <2>2, SubSeqFull DEF Seqs
  <1>3. QED
    BY <1>1, <1>2, NotesConcat

LEMMA NotesAppend ==
    ASSUME NEW s \in Seqs, NEW e \in EntryRec, e.note = 0
    PROVE  Notes(Append(s, e)) = Notes(s)
  <1>1. Append(s, e) = s \o <<e>>
    BY AppendIsConcat DEF Seqs
  <1>2. QED
    BY <1>1, NotesOfOne, NotesConcat, NotesAre

\* A report in place of another one.
LEMMA NotesReplaced ==
    ASSUME NEW s \in Seqs, NEW k \in 1..Len(s), NEW count \in Nat
    PROVE  /\ [s EXCEPT ![k].note = count] \in Seqs
           /\ Notes([s EXCEPT ![k].note = count]) = (Notes(s) - s[k].note) + count
  <1> DEFINE w == [s EXCEPT ![k].note = count]
  <1>1. /\ Len(s) \in Nat
        /\ \A i \in 1..Len(s) : s[i] \in EntryRec /\ s[i].note \in Nat
    BY EntrySeq DEF EntryRec
  <1>2. [s[k] EXCEPT !.note = count] \in EntryRec /\ [s[k] EXCEPT !.note = count].note = count
    BY <1>1 DEF EntryRec
  <1>3. /\ w \in Seqs /\ Len(w) = Len(s)
        /\ \A i \in 1..Len(s) : w[i] = IF i = k THEN [s[k] EXCEPT !.note = count] ELSE s[i]
    BY <1>2, ExceptSeq DEF Seqs
  <1>4. \A i \in 1..Len(s) : w[i].note = IF i = k THEN count ELSE s[i].note
    BY <1>2, <1>3
  <1> HIDE DEF w
  <1>5. PICK g : Tally(s, g) /\ \A i \in 0..Len(s) : g[i] \in Nat
    BY NotesAre
  <1> DEFINE h == [i \in 0..Len(s) |-> IF i < k THEN g[i] ELSE (g[i] - s[k].note) + count]
  <1>6. h[0] = 0
    BY <1>1, <1>5 DEF Tally
  <1>7. ASSUME NEW i \in 1..Len(s)
        PROVE  h[i] = h[i - 1] + w[i].note
    <2>1. /\ i \in 0..Len(s) /\ i - 1 \in 0..Len(s)
          /\ g[i] = g[i - 1] + s[i].note
          /\ g[i] \in Nat /\ g[i - 1] \in Nat /\ s[i].note \in Nat /\ s[k].note \in Nat
      BY <1>1, <1>5 DEF Tally
    <2>2. CASE i < k
      <3>1. h[i] = g[i] /\ h[i - 1] = g[i - 1] /\ w[i].note = s[i].note
        BY <1>1, <1>4, <2>1, <2>2
      <3>2. QED
        BY <2>1, <3>1
    <2>3. CASE i = k
      <3>1. /\ h[i] = (g[i] - s[i].note) + count /\ h[i - 1] = g[i - 1] /\ w[i].note = count
        BY <1>1, <1>4, <2>1, <2>3
      <3> HIDE DEF h
      <3>2. \A m, n, d \in Nat : ((m + n) - n) + d = m + d
        OBVIOUS
      <3>3. h[i] = g[i - 1] + count
        BY <2>1, <3>1, <3>2
      <3>4. QED
        BY <3>1, <3>3
    <2>4. CASE i > k
      <3>1. /\ h[i] = (g[i] - s[k].note) + count
            /\ h[i - 1] = (g[i - 1] - s[k].note) + count /\ w[i].note = s[i].note
        BY <1>1, <1>4, <2>1, <2>4
      <3> HIDE DEF h
      <3>2. \A m, n, d, e \in Nat : ((m + n) - d) + e = ((m - d) + e) + n
        OBVIOUS
      <3>3. PICK x, y, z \in Nat : x = g[i - 1] /\ y = s[i].note /\ z = s[k].note
        BY <2>1
      <3>4. ((x + y) - z) + count = ((x - z) + count) + y
        BY <3>2
      <3>5. h[i] = ((x + y) - z) + count /\ h[i - 1] = (x - z) + count
        BY <2>1, <3>1, <3>3
      <3>6. QED
        BY <3>1, <3>3, <3>4, <3>5
    <2>5. QED
      BY <2>2, <2>3, <2>4
  <1>8. h[Len(s)] = (g[Len(s)] - s[k].note) + count
    BY <1>1
  <1> HIDE DEF h
  <1>9. Tally(w, h)
    BY <1>3, <1>6, <1>7 DEF Tally
  <1>10. Notes(w) = h[Len(s)] /\ Notes(s) = g[Len(s)]
    BY <1>3, <1>5, <1>9, NotesAre
  <1>11. QED
    BY <1>3, <1>8, <1>10 DEF w

-----------------------------------------------------------------------------
(* Every refusal is accounted for *)

\* Between the flushes of a sampled context no entry reports anything, nor what
\* arrives behind the snapshot of one.
Clean(c) ==
    /\ run[c].stage # "tags"
    /\ run[c].stage # "saving" => run[c].size = 0
    /\ \A i \in (run[c].size + 1)..Len(buffer[c]) : buffer[c][i].note = 0

\* The accounts of a batch. A continuation that does not exist carries nothing, and one
\* that was flushed at the end of its window is taken whole.
Ledger(b) ==
    /\ Accounted(b) <= dropped[b]
    /\ ~continued[b] => buffer[Late(b)] = <<>> /\ truncated[Late(b)] = 0
    /\ sampled[b] /\ failures = 0 =>
          /\ Accounted(b) = dropped[b]
          /\ Clean(Main(b)) /\ Clean(Late(b))
          /\ LateGrace /\ phase[b] = "finished" =>
                truncated[Late(b)] = 0 /\ run[Late(b)].size = Len(buffer[Late(b)])

LInv == \A b \in Batches : Ledger(b)

\* #reportTruncation adds at most the count it is given, and the whole of it where
\* nothing was reported before.
LEMMA NotedNotes ==
    ASSUME NEW buf \in Seqs, NEW size \in Nat, size <= Len(buf), NEW synth \in Seqs,
           NEW count \in Nat, nextSeq \in Nat
    PROVE  LET noted == Noted(buf, size, synth, count) IN
           /\ noted.buffer \in Seqs /\ noted.synth \in Seqs
           /\ Len(noted.buffer) = Len(buf)
           /\ Notes(noted.buffer) + Notes(noted.synth) <= Notes(buf) + Notes(synth) + count
           /\ synth = <<>> /\ (\A i \in 1..Len(buf) : buf[i].note = 0) =>
                 Notes(noted.buffer) + Notes(noted.synth) = count
  <1> DEFINE noted == Noted(buf, size, synth, count)
             Good(nb, ns) ==
                 /\ Notes(nb) + Notes(ns) <= Notes(buf) + Notes(synth) + count
                 /\ synth = <<>> /\ (\A i \in 1..Len(buf) : buf[i].note = 0) =>
                       Notes(nb) + Notes(ns) = count
  <1>1. /\ noted.buffer \in Seqs /\ noted.synth \in Seqs
        /\ Len(noted.buffer) = Len(buf)
    <2>1. buf \in Seq(EntryRec) /\ synth \in Seq(EntryRec)
      BY DEF Seqs
    <2>2. /\ noted.buffer \in Seq(EntryRec) /\ noted.synth \in Seq(EntryRec)
          /\ Len(noted.buffer) = Len(buf)
      BY <2>1, NotedEffect
    <2>3. QED
      BY <2>2 DEF Seqs
  <1>2. /\ Notes(buf) \in Nat /\ Notes(synth) \in Nat /\ Len(buf) \in Nat
        /\ \A i \in 1..Len(buf) : buf[i].note \in Nat
    BY NotesAre, EntrySeq DEF EntryRec
  <1>3. /\ synth = <<>> => Notes(synth) = 0
        /\ (\A i \in 1..Len(buf) : buf[i].note = 0) => Notes(buf) = 0
    BY NotesEmpty, NotesZero
  <1>4. CASE count = 0
    <2>1. noted = [buffer |-> buf, synth |-> synth]
      BY <1>4 DEF Noted
    <2>2. Good(buf, synth)
      BY <1>2, <1>3, <1>4
    <2> HIDE DEF Good
    <2>3. Good(noted.buffer, noted.synth)
      BY <2>1, <2>2
    <2>4. QED
      BY <1>1, <2>3 DEF Good
  <1>5. CASE count # 0 /\ synth # <<>> /\ Carriers(buf, size) = {}
    <2> DEFINE e == [synth[1] EXCEPT !.note = count]
    <2>1. noted = [buffer |-> buf, synth |-> <<e>>]
      BY <1>5 DEF Noted
    <2>2. e \in EntryRec /\ e.note = count
      <3>1. Len(synth) \in Nat \ {0}
        BY <1>5, EmptySeq, EntrySeq DEF Seqs
      <3>2. synth[1] \in EntryRec
        BY <3>1, EntrySeq
      <3>3. QED
        BY <3>2 DEF EntryRec
    <2> HIDE DEF e
    <2>3. Notes(<<e>>) = count
      BY <2>2, NotesOfOne
    <2>4. Good(buf, <<e>>)
      BY <1>2, <1>5, <2>3
    <2> HIDE DEF Good
    <2>5. Good(noted.buffer, noted.synth)
      BY <2>1, <2>4
    <2>6. QED
      BY <1>1, <2>5 DEF Good
  <1>6. CASE count # 0 /\ ~(synth # <<>> /\ Carriers(buf, size) = {}) /\ size > 0
    <2> DEFINE k == FirstCarrier(buf, size)
    <2>1. noted = [buffer |-> [buf EXCEPT ![k].note = count], synth |-> synth]
      BY <1>6 DEF Noted
    <2>2. k \in 1..Len(buf)
      <3>1. CASE Carriers(buf, size) = {}
        BY <1>2, <1>6, <3>1 DEF FirstCarrier
      <3>2. CASE Carriers(buf, size) # {}
        <4>1. Carriers(buf, size) \in SUBSET Nat /\ Carriers(buf, size) \subseteq 1..Len(buf)
          BY <1>2 DEF Carriers
        <4>2. \E i \in Carriers(buf, size) : \A j \in Carriers(buf, size) : i <= j
          BY <3>2, <4>1, LowestNumber
        <4>3. k \in Carriers(buf, size)
          BY <3>2, <4>2 DEF FirstCarrier
        <4>4. QED
          BY <4>1, <4>3
      <3>3. QED
        BY <3>1, <3>2
    <2> HIDE DEF k
    <2>3. Notes([buf EXCEPT ![k].note = count]) = (Notes(buf) - buf[k].note) + count
      BY <2>2, NotesReplaced
    <2>4. Good([buf EXCEPT ![k].note = count], synth)
      <3>1. PICK n : n = Notes([buf EXCEPT ![k].note = count])
        OBVIOUS
      <3>2. n = (Notes(buf) - buf[k].note) + count /\ buf[k].note \in Nat
        BY <1>2, <2>2, <2>3, <3>1
      <3>3. n + Notes(synth) <= Notes(buf) + Notes(synth) + count
        BY <1>2, <3>2
      <3>4. ASSUME synth = <<>>, \A i \in 1..Len(buf) : buf[i].note = 0
            PROVE  n + Notes(synth) = count
        <4>1. Notes(synth) = 0 /\ Notes(buf) = 0 /\ buf[k].note = 0
          BY <1>3, <2>2, <3>4
        <4>2. QED
          BY <3>2, <4>1
      <3>5. QED
        BY <3>1, <3>3, <3>4
    <2> HIDE DEF Good
    <2>5. Good(noted.buffer, noted.synth)
      BY <2>1, <2>4
    <2>6. QED
      BY <1>1, <2>5 DEF Good
  <1>7. CASE count # 0 /\ ~(synth # <<>> /\ Carriers(buf, size) = {}) /\ ~(size > 0)
    <2>1. synth = <<>>
      <3>1. Carriers(buf, size) = {}
        BY <1>7 DEF Carriers
      <3>2. QED
        BY <1>7, <3>1
    <2> DEFINE e == [seq |-> nextSeq, type |-> Report, note |-> count, origin |-> "report"]
    <2>2. noted = [buffer |-> buf, synth |-> <<e>>]
      BY <1>7, <2>1 DEF Noted
    <2>3. e \in EntryRec /\ e.note = count
      BY ConstantsAssumption DEF EntryRec
    <2> HIDE DEF e
    <2>4. Notes(<<e>>) = count
      BY <2>3, NotesOfOne
    <2>5. Good(buf, <<e>>)
      BY <1>2, <1>3, <2>1, <2>4
    <2> HIDE DEF Good
    <2>6. Good(noted.buffer, noted.synth)
      BY <2>2, <2>5
    <2>7. QED
      BY <1>1, <2>6 DEF Good
  <1>8. QED
    BY <1>4, <1>5, <1>6, <1>7

\* What a context carries and a batch accounts for, before and after a step.
LEMMA LedgerNow ==
    ASSUME IInv, NEW b \in Batches
    PROVE  /\ Notes(stored[b]) \in Nat /\ dropped[b] \in Nat /\ Accounted(b) \in Nat
           /\ \A c \in {Main(b), Late(b)} :
                 /\ Notes(run[c].synth) \in Nat /\ Notes(buffer[c]) \in Nat
                 /\ truncated[c] \in Nat /\ Carried(c) \in Nat
  <1>1. /\ stored[b] \in Seqs /\ dropped[b] \in Nat
        /\ \A c \in Contexts : /\ run[c].synth \in Seqs /\ buffer[c] \in Seqs
                               /\ truncated[c] \in Nat
    BY DEF IInv, TypeOK, Activation, Seqs
  <1>2. /\ Notes(stored[b]) \in Nat
        /\ \A c \in Contexts : Notes(run[c].synth) \in Nat /\ Notes(buffer[c]) \in Nat
    BY <1>1, NotesAre
  <1>3. \A c \in {Main(b), Late(b)} : Carried(c) \in Nat
    BY <1>1, <1>2, ContextsOf DEF Carried
  <1>4. Accounted(b) \in Nat
    BY <1>2, <1>3 DEF Accounted
  <1>5. QED
    BY <1>1, <1>2, <1>3, <1>4, ContextsOf

LEMMA LedgerNext ==
    ASSUME IInv', NEW b \in Batches
    PROVE  /\ Notes(stored'[b]) \in Nat /\ dropped'[b] \in Nat /\ Accounted(b)' \in Nat
           /\ \A c \in {Main(b), Late(b)} :
                 /\ Notes(run'[c].synth) \in Nat /\ Notes(buffer'[c]) \in Nat
                 /\ truncated'[c] \in Nat /\ Carried(c)' \in Nat
  <1>1. /\ stored'[b] \in Seqs /\ dropped'[b] \in Nat
        /\ \A c \in Contexts : /\ run'[c].synth \in Seqs /\ buffer'[c] \in Seqs
                               /\ truncated'[c] \in Nat
    BY DEF IInv, TypeOK, Activation, Seqs
  <1>2. /\ Notes(stored'[b]) \in Nat
        /\ \A c \in Contexts : Notes(run'[c].synth) \in Nat /\ Notes(buffer'[c]) \in Nat
    BY <1>1, NotesAre
  <1>3. \A c \in {Main(b), Late(b)} : Carried(c)' \in Nat
    BY <1>1, <1>2, ContextsOf DEF Carried
  <1>4. Accounted(b)' \in Nat
    BY <1>2, <1>3 DEF Accounted, Main, Late
  <1>5. QED
    BY <1>1, <1>2, <1>3, <1>4, ContextsOf

\* A step of one batch leaves the accounts of the others.
LEMMA LedgerStep ==
    ASSUME IInv, IInv', LInv, NEW b \in Batches, UNCHANGED sampled, failures <= failures',
           \A d \in Batches \ {b} :
              /\ phase'[d] = phase[d] /\ continued'[d] = continued[d]
              /\ stored'[d] = stored[d] /\ dropped'[d] = dropped[d],
           \A d \in Contexts : d # Main(b) /\ d # Late(b) =>
              /\ buffer'[d] = buffer[d] /\ run'[d] = run[d]
              /\ truncated'[d] = truncated[d],
           Ledger(b)'
    PROVE  LInv'
  <1> SUFFICES ASSUME NEW d \in Batches, d # b PROVE Ledger(d)'
    BY DEF LInv
  <1>1. /\ Main(d) \in Contexts /\ Late(d) \in Contexts
        /\ Main(d) # Main(b) /\ Main(d) # Late(b)
        /\ Late(d) # Main(b) /\ Late(d) # Late(b)
    BY ContextsOf, ContextsDiffer
  <1>2. /\ sampled'[d] = sampled[d] /\ dropped'[d] = dropped[d]
        /\ stored'[d] = stored[d] /\ phase'[d] = phase[d] /\ continued'[d] = continued[d]
        /\ \A c \in {Main(d), Late(d)} :
              /\ buffer'[c] = buffer[c] /\ run'[c] = run[c] /\ truncated'[c] = truncated[c]
    BY <1>1
  <1>3. \A c \in {Main(d), Late(d)} :
           Carried(c)' = Carried(c) /\ (Clean(c) => Clean(c)')
    BY <1>2 DEF Carried, Clean
  <1>4. Accounted(d)' = Accounted(d)
    BY <1>2, <1>3 DEF Accounted, Main, Late
  <1>5. failures' = 0 => failures = 0
    BY DEF IInv, TypeOK
  <1>6. (Clean(Main(d)) => Clean(Main(d))') /\ (Clean(Late(d)) => Clean(Late(d))')
    BY <1>3 DEF Main, Late
  <1>7. Ledger(d)
    BY DEF LInv
  <1>8. /\ buffer'[Late(d)] = buffer[Late(d)] /\ run'[Late(d)] = run[Late(d)]
        /\ truncated'[Late(d)] = truncated[Late(d)]
    BY <1>2
  <1>9. /\ buffer[Late(d)]' = buffer[Late(d)] /\ run[Late(d)]' = run[Late(d)]
        /\ truncated[Late(d)]' = truncated[Late(d)]
    BY <1>8 DEF Late
  <1>10. QED
    BY <1>2, <1>4, <1>5, <1>6, <1>7, <1>9 DEF Ledger

\* What a step of one context must leave for the accounts of its batch.
LEMMA ContextLedger ==
    ASSUME IInv, IInv', LInv, NEW b \in Batches, NEW c \in {Main(b), Late(b)},
           UNCHANGED <<sampled, dropped>>, failures <= failures',
           \A d \in Batches \ {b} :
              phase'[d] = phase[d] /\ continued'[d] = continued[d] /\ stored'[d] = stored[d],
           \A d \in Contexts : d # c =>
              buffer'[d] = buffer[d] /\ run'[d] = run[d] /\ truncated'[d] = truncated[d],
           Notes(stored'[b]) + Carried(c)' <= Notes(stored[b]) + Carried(c),
           sampled[b] /\ failures' = 0 =>
              /\ Notes(stored'[b]) + Carried(c)' = Notes(stored[b]) + Carried(c)
              /\ Clean(c)',
           ~continued'[b] => ~continued[b],
           c = Late(b) => continued'[b],
           sampled[b] /\ failures' = 0 /\ LateGrace /\ phase'[b] = "finished" =>
              truncated'[Late(b)] = 0 /\ run'[Late(b)].size = Len(buffer'[Late(b)])
    PROVE  LInv'
  <1>1. /\ Main(b) \in Contexts /\ Late(b) \in Contexts /\ Main(b) # Late(b)
        /\ sampled'[b] = sampled[b] /\ dropped'[b] = dropped[b]
    BY ContextsOf
  <1>2. PICK d \in {Main(b), Late(b)} :
           d # c /\ d \in Contexts /\ {c, d} = {Main(b), Late(b)}
    BY <1>1
  <1>3. buffer'[d] = buffer[d] /\ run'[d] = run[d] /\ truncated'[d] = truncated[d]
    BY <1>2
  <1>4. Carried(d)' = Carried(d) /\ (Clean(d) => Clean(d)')
    BY <1>3 DEF Carried, Clean
  <1>5. /\ Accounted(b) = Notes(stored[b]) + Carried(c) + Carried(d)
        /\ Accounted(b)' = Notes(stored'[b]) + Carried(c)' + Carried(d)'
    <2>1. /\ Notes(stored[b]) \in Nat /\ Carried(c) \in Nat /\ Carried(d) \in Nat
          /\ Notes(stored'[b]) \in Nat /\ Carried(c)' \in Nat /\ Carried(d)' \in Nat
      BY LedgerNow, LedgerNext
    <2>2. CASE c = Main(b)
      <3>1. d = Late(b)
        BY <1>1, <1>2, <2>2
      <3>2. QED
        BY <2>2, <3>1 DEF Accounted, Main, Late
    <2>3. CASE c = Late(b)
      <3>1. d = Main(b)
        BY <1>1, <1>2, <2>3
      <3>2. /\ Accounted(b) = Notes(stored[b]) + Carried(d) + Carried(c)
            /\ Accounted(b)' = Notes(stored'[b]) + Carried(d)' + Carried(c)'
        BY <2>3, <3>1 DEF Accounted, Main, Late
      <3>3. \A k, m, n \in Nat : k + m + n = k + n + m
        OBVIOUS
      <3>4. QED
        BY <2>1, <3>2, <3>3
    <2>4. QED
      BY <2>2, <2>3
  <1>6. /\ Accounted(b)' <= Accounted(b)
        /\ sampled[b] /\ failures' = 0 => Accounted(b)' = Accounted(b)
    <2>1. PICK k, l, m, n, o \in Nat :
             /\ k = Notes(stored[b]) /\ l = Notes(stored'[b])
             /\ m = Carried(c) /\ n = Carried(c)' /\ o = Carried(d)
      BY LedgerNow, LedgerNext
    <2>2. /\ Accounted(b) = k + m + o /\ Accounted(b)' = l + n + o
          /\ l + n <= k + m
          /\ sampled[b] /\ failures' = 0 => l + n = k + m
      BY <1>4, <1>5, <2>1
    <2>3. QED
      BY <2>2
  <1>7. Accounted(b) \in Nat /\ Accounted(b)' \in Nat /\ dropped[b] \in Nat /\ Ledger(b)
    BY LedgerNow, LedgerNext DEF LInv
  <1>8. (Accounted(b) <= dropped[b])'
    <2>1. Accounted(b) <= dropped[b]
      BY <1>7 DEF Ledger
    <2>2. \A k, m, n \in Nat : k <= m /\ m <= n => k <= n
      OBVIOUS
    <2>3. Accounted(b)' <= dropped[b]
      BY <1>6, <1>7, <2>1, <2>2
    <2>4. QED
      BY <1>1, <2>3
  <1>9. (~continued[b] => buffer[Late(b)] = <<>> /\ truncated[Late(b)] = 0)'
    <2>1. ASSUME ~continued'[b]
          PROVE  buffer'[Late(b)] = <<>> /\ truncated'[Late(b)] = 0
      <3>1. d = Late(b) /\ ~continued[b]
        BY <1>2, <2>1
      <3>2. QED
        BY <1>3, <1>7, <3>1 DEF Ledger
    <2>2. QED
      BY <2>1 DEF Late
  <1>10. (sampled[b] /\ failures = 0 =>
            /\ Accounted(b) = dropped[b]
            /\ Clean(Main(b)) /\ Clean(Late(b))
            /\ LateGrace /\ phase[b] = "finished" =>
                  truncated[Late(b)] = 0 /\ run[Late(b)].size = Len(buffer[Late(b)]))'
    <2>1. ASSUME sampled[b], failures' = 0
          PROVE  /\ Accounted(b)' = dropped'[b] /\ Clean(Main(b))' /\ Clean(Late(b))'
      <3>1. failures = 0
        BY <2>1 DEF IInv, TypeOK
      <3>2. Clean(d)' /\ Clean(c)'
        BY <1>2, <1>4, <1>7, <2>1, <3>1 DEF Ledger
      <3>3. Accounted(b)' = dropped'[b]
        BY <1>1, <1>6, <1>7, <2>1, <3>1 DEF Ledger
      <3>4. \A x \in {Main(b), Late(b)} : Clean(x)'
        BY <1>2, <3>2
      <3>5. QED
        BY <3>3, <3>4 DEF Main, Late
    <2>2. QED
      BY <1>1, <2>1 DEF Late
  <1>11. Ledger(b)'
    BY <1>8, <1>9, <1>10 DEF Ledger
  <1>12. QED
    BY <1>1, <1>11, LedgerStep

LEMMA QuietLedger ==
    ASSUME LInv, UNCHANGED <<sampled, phase, continued, buffer, truncated, run, stored,
                             dropped, failures>>
    PROVE  LInv'
  BY DEF LInv, Ledger, Accounted, Carried, Clean, Main, Late

\* An entry that is accepted reports nothing.
LEMMA AcceptLedger ==
    ASSUME IInv, IInv', OInv, LInv, NEW b \in Batches, NEW t \in Types, Accept(b, t)
    PROVE  LInv'
  <1>c. PICK c \in {Main(b), Late(b)} : c = RecordingContext(b)
    BY DEF RecordingContext
  <1> DEFINE e == [seq |-> nextSeq, type |-> t, note |-> 0, origin |-> "record"]
  <1>1. /\ c \in Contexts /\ e \in EntryRec /\ e.note = 0
        /\ buffer[c] \in Seqs
        /\ buffer' = [buffer EXCEPT ![c] = Append(@, e)]
        /\ UNCHANGED <<sampled, phase, truncated, run, stored, dropped, failures>>
    BY <1>c, BatchFacts DEF Accept, EntryRec, flushing, history
  <1> HIDE DEF e
  <1>2. /\ buffer'[c] = Append(buffer[c], e)
        /\ \A d \in Contexts : d # c => buffer'[d] = buffer[d]
    BY <1>1 DEF IInv, TypeOK
  <1>3. Notes(buffer'[c]) = Notes(buffer[c])
    BY <1>1, <1>2, NotesAppend
  <1>4. run'[c] = run[c] /\ truncated'[c] = truncated[c] /\ stored'[b] = stored[b]
    BY <1>1
  <1>5. Carried(c)' = Carried(c)
    BY <1>3, <1>4 DEF Carried
  <1>6. /\ \A d \in Batches \ {b} : continued'[d] = continued[d]
        /\ ~continued'[b] => ~continued[b]
        /\ c = Late(b) => continued'[b]
    <2>1. continued \in [Batches -> BOOLEAN]
      BY DEF IInv, TypeOK
    <2>2. \/ phase[b] = "closed" /\ ~continued[b] /\ continued' = [continued EXCEPT ![b] = TRUE]
          \/ ~(phase[b] = "closed" /\ ~continued[b]) /\ UNCHANGED continued
      BY DEF Accept, Continue
    <2>3. c = Late(b) => phase[b] = "closed"
      <3>1. phase[b] # "finished" /\ phase[b] \in {"open", "closed", "finished"}
        BY DEF Accept, IInv, TypeOK
      <3>2. QED
        BY <1>c, <3>1, BatchFacts
    <2>4. QED
      BY <2>1, <2>2, <2>3
  <1>7. sampled[b] /\ failures' = 0 => Clean(c)'
    <2> SUFFICES ASSUME sampled[b], failures' = 0 PROVE Clean(c)'
      OBVIOUS
    <2>1. Clean(c)
      BY <1>1 DEF LInv, Ledger
    <2>2. /\ Len(buffer[c]) \in Nat /\ Len(buffer'[c]) = Len(buffer[c]) + 1
          /\ \A i \in 1..Len(buffer[c]) : buffer'[c][i] = buffer[c][i]
          /\ buffer'[c][Len(buffer[c]) + 1] = e
      BY <1>1, <1>2, AppendProperties, EntrySeq DEF Seqs
    <2>3. run[c].size \in Nat
      BY <1>1, BatchFacts DEF Activation
    <2>4. ASSUME NEW i \in (run[c].size + 1)..Len(buffer'[c]) PROVE buffer'[c][i].note = 0
      <3>1. CASE i = Len(buffer[c]) + 1
        BY <1>1, <2>2, <3>1
      <3>2. CASE i # Len(buffer[c]) + 1
        <4>1. i \in 1..Len(buffer[c]) /\ i \in (run[c].size + 1)..Len(buffer[c])
          BY <2>2, <2>3, <3>2
        <4>2. QED
          BY <2>1, <2>2, <4>1 DEF Clean
      <3>3. QED
        BY <3>1, <3>2
    <2>5. QED
      BY <1>4, <2>1, <2>4 DEF Clean
  <1>8. phase'[b] # "finished"
    BY <1>1 DEF Accept
  <1>9. /\ Notes(stored[b]) \in Nat /\ Carried(c) \in Nat
    BY LedgerNow
  <1>10. /\ Notes(stored'[b]) + Carried(c)' = Notes(stored[b]) + Carried(c)
         /\ Notes(stored'[b]) + Carried(c)' <= Notes(stored[b]) + Carried(c)
    <2>1. PICK m, n \in Nat : m = Notes(stored[b]) /\ n = Carried(c)
      BY <1>9
    <2>2. Notes(stored'[b]) = m /\ Carried(c)' = n
      BY <1>4, <1>5, <2>1
    <2>3. QED
      BY <2>1, <2>2
  <1>11. failures <= failures' /\ UNCHANGED <<sampled, dropped>>
    BY <1>1 DEF IInv, TypeOK
  <1>12. /\ \A d \in Batches \ {b} :
              phase'[d] = phase[d] /\ continued'[d] = continued[d] /\ stored'[d] = stored[d]
         /\ \A d \in Contexts : d # c =>
              buffer'[d] = buffer[d] /\ run'[d] = run[d] /\ truncated'[d] = truncated[d]
    BY <1>1, <1>2, <1>6
  <1>13. QED
    BY <1>6, <1>7, <1>8, <1>10, <1>11, <1>12, ContextLedger

\* An entry that is refused is counted by the context it would have gone to.
LEMMA RefuseLedger ==
    ASSUME IInv, IInv', OInv, LInv, NEW b \in Batches, NEW t \in Types, Refuse(b, t)
    PROVE  LInv'
  <1>c. PICK c \in {Main(b), Late(b)}, d \in {Main(b), Late(b)} :
           c = RecordingContext(b) /\ d # c /\ {c, d} = {Main(b), Late(b)}
    <2>1. Main(b) # Late(b)
      BY ContextsOf
    <2>2. QED
      BY <2>1 DEF RecordingContext
  <1>1. /\ c \in Contexts /\ d \in Contexts
        /\ truncated' = [truncated EXCEPT ![c] = @ + 1]
        /\ dropped' = [dropped EXCEPT ![b] = @ + 1]
        /\ UNCHANGED <<sampled, phase, buffer, run, stored, failures>>
    BY <1>c, BatchFacts DEF Refuse, flushing
  <1>2. /\ truncated'[c] = truncated[c] + 1
        /\ \A x \in Contexts : x # c => truncated'[x] = truncated[x]
        /\ dropped'[b] = dropped[b] + 1
        /\ \A x \in Batches \ {b} : dropped'[x] = dropped[x]
    BY <1>1 DEF IInv, TypeOK
  <1>3. /\ \A x \in Batches \ {b} : continued'[x] = continued[x]
        /\ ~continued'[b] => ~continued[b] /\ c # Late(b)
    <2>1. continued \in [Batches -> BOOLEAN]
      BY DEF IInv, TypeOK
    <2>2. \/ phase[b] = "closed" /\ ~continued[b] /\ continued' = [continued EXCEPT ![b] = TRUE]
          \/ ~(phase[b] = "closed" /\ ~continued[b]) /\ UNCHANGED continued
      BY DEF Refuse, Continue
    <2>3. c = Late(b) => phase[b] = "closed"
      <3>1. phase[b] # "finished" /\ phase[b] \in {"open", "closed", "finished"}
        BY DEF Refuse, IInv, TypeOK
      <3>2. QED
        BY <1>c, <3>1, BatchFacts
    <2>4. QED
      BY <2>1, <2>2, <2>3
  <1>4. Accounted(b)' = Accounted(b) + 1
    <2>1. PICK k, l, m, n, o, p, q \in Nat :
             /\ k = Notes(run[c].synth) /\ l = Notes(buffer[c]) /\ m = truncated[c]
             /\ n = Notes(run[d].synth) /\ o = Notes(buffer[d]) /\ p = truncated[d]
             /\ q = Notes(stored[b])
      BY LedgerNow
    <2>2. /\ Carried(c) = k + l + m /\ Carried(d) = n + o + p
          /\ Carried(c)' = k + l + (m + 1) /\ Carried(d)' = n + o + p
          /\ Notes(stored'[b]) = q
      BY <1>c, <1>1, <1>2, <2>1 DEF Carried
    <2>3. CASE c = Main(b) /\ d = Late(b)
      <3>1. /\ Accounted(b) = q + (k + l + m) + (n + o + p)
            /\ Accounted(b)' = q + (k + l + (m + 1)) + (n + o + p)
        BY <2>1, <2>2, <2>3 DEF Accounted, Main, Late
      <3>2. QED
        BY <3>1
    <2>4. CASE c = Late(b) /\ d = Main(b)
      <3>1. /\ Accounted(b) = q + (n + o + p) + (k + l + m)
            /\ Accounted(b)' = q + (n + o + p) + (k + l + (m + 1))
        BY <2>1, <2>2, <2>4 DEF Accounted, Main, Late
      <3>2. QED
        BY <3>1
    <2>5. QED
      BY <1>c, <2>3, <2>4
  <1>5. /\ Accounted(b) \in Nat /\ dropped[b] \in Nat /\ Ledger(b)
        /\ sampled'[b] = sampled[b] /\ failures' = failures /\ phase'[b] = phase[b]
    BY <1>1, LedgerNow DEF LInv
  <1>6. (Accounted(b) <= dropped[b])'
    <2>1. Accounted(b) <= dropped[b]
      BY <1>5 DEF Ledger
    <2>2. PICK m, n \in Nat : m = Accounted(b) /\ n = dropped[b]
      BY <1>5
    <2>3. Accounted(b)' = m + 1 /\ dropped'[b] = n + 1 /\ m <= n
      BY <1>2, <1>4, <2>1, <2>2
    <2>4. QED
      BY <2>3
  <1>7. (~continued[b] => buffer[Late(b)] = <<>> /\ truncated[Late(b)] = 0)'
    <2>1. ~continued'[b] => buffer[Late(b)] = <<>> /\ truncated[Late(b)] = 0 /\ c # Late(b)
      BY <1>3, <1>5 DEF Ledger
    <2>2. ~continued'[b] => buffer'[Late(b)] = <<>> /\ truncated'[Late(b)] = 0
      BY <1>1, <1>2, <2>1, ContextsOf
    <2>3. QED
      BY <2>2 DEF Late
  <1>8. (Clean(Main(b)) => Clean(Main(b))') /\ (Clean(Late(b)) => Clean(Late(b))')
    BY <1>1 DEF Clean, Main, Late
  <1>9. phase'[b] # "finished"
    BY <1>1 DEF Refuse
  <1>10. (sampled[b] /\ failures = 0 =>
            /\ Accounted(b) = dropped[b]
            /\ Clean(Main(b)) /\ Clean(Late(b)))'
    BY <1>2, <1>4, <1>5, <1>8 DEF Ledger
  <1>11. Ledger(b)'
    BY <1>6, <1>7, <1>9, <1>10 DEF Ledger
  <1>12. /\ failures <= failures'
         /\ \A x \in Batches \ {b} :
              /\ phase'[x] = phase[x] /\ continued'[x] = continued[x]
              /\ stored'[x] = stored[x] /\ dropped'[x] = dropped[x]
         /\ \A x \in Contexts : x # Main(b) /\ x # Late(b) =>
              /\ buffer'[x] = buffer[x] /\ run'[x] = run[x]
              /\ truncated'[x] = truncated[x]
    <2>1. failures \in Nat
      BY DEF IInv, TypeOK
    <2>2. QED
      BY <1>c, <1>1, <1>2, <1>3, <2>1
  <1>13. QED
    BY <1>1, <1>11, <1>12, LedgerStep

\* Between its call and its first await #flushContext moves the counts into a report,
\* or forgets them with a batch that was sampled out.
LEMMA EnterNotes ==
    ASSUME IInv, IInv', OInv, NEW b \in Batches, NEW c \in {Main(b), Late(b)},
           NEW mode \in Modes, NEW chained \in BOOLEAN,
           FlushContext(c, mode, chained), run[c] = Idle, UNCHANGED sampled
    PROVE  /\ Carried(c)' <= Carried(c)
           /\ sampled[b] /\ Clean(c) =>
                 /\ Carried(c)' = Carried(c) /\ Clean(c)'
                 /\ truncated'[c] = 0 /\ run'[c].size = Len(buffer'[c])
  <1> DEFINE size == Len(buffer[c])
             noted == Noted(buffer[c], size, <<>>, truncated[c])
             a(stage, n, synth) == At(stage, mode, n, synth, chained)
             Free == \A i \in 1..Len(buffer[c]) : buffer[c][i].note = 0
  <1>1. /\ c \in Contexts /\ c[1] = b /\ TypeOK
        /\ buffer[c] \in Seqs /\ truncated[c] \in Nat /\ nextSeq \in Nat
        /\ run[c].synth = <<>> /\ run[c].size = 0 /\ run[c].stage = "idle"
    BY BatchFacts DEF IInv, Idle
  <1>2. <<>> \in Seqs /\ Len(<<>>) = 0 /\ size \in Nat /\ Notes(<<>>) = 0
    BY <1>1, EmptySeq, EntrySeq, NotesEmpty DEF Seqs
  <1>3. Clean(c) => Free
    BY <1>1 DEF Clean
  <1>4. /\ noted.buffer \in Seqs /\ noted.synth \in Seqs
        /\ Len(noted.buffer) = size
        /\ Notes(noted.buffer) + Notes(noted.synth) <= Notes(buffer[c]) + Notes(<<>>) + truncated[c]
        /\ Free => Notes(noted.buffer) + Notes(noted.synth) = truncated[c]
    <2>1. size <= Len(buffer[c])
      BY <1>2
    <2> HIDE DEF size
    <2>2. LET n == Noted(buffer[c], size, <<>>, truncated[c]) IN
          /\ n.buffer \in Seqs /\ n.synth \in Seqs
          /\ Len(n.buffer) = Len(buffer[c])
          /\ Notes(n.buffer) + Notes(n.synth) <= Notes(buffer[c]) + Notes(<<>>) + truncated[c]
          /\ <<>> = <<>> /\ (\A i \in 1..Len(buffer[c]) : buffer[c][i].note = 0) =>
                Notes(n.buffer) + Notes(n.synth) = truncated[c]
      BY <1>1, <1>2, <2>1, NotedNotes
    <2>3. QED
      BY <2>2 DEF size
  <1>5. /\ Notes(buffer[c]) \in Nat /\ Notes(noted.buffer) \in Nat /\ Notes(noted.synth) \in Nat
        /\ Free => Notes(buffer[c]) = 0
    BY <1>1, <1>4, NotesAre, NotesZero
  <1>6. Carried(c) = Notes(buffer[c]) + truncated[c]
    <2>1. Carried(c) = Notes(<<>>) + Notes(buffer[c]) + truncated[c]
      BY <1>1 DEF Carried
    <2>2. QED
      BY <1>1, <1>2, <1>5, <2>1
  <1>7. \A stage, n, synth : /\ a(stage, n, synth).stage = stage
                             /\ a(stage, n, synth).size = n
                             /\ a(stage, n, synth).synth = synth
    BY DEF At
  <1>8. /\ \A act : [run EXCEPT ![c] = act][c] = act
        /\ \A buf : [buffer EXCEPT ![c] = buf][c] = buf
        /\ [truncated EXCEPT ![c] = 0][c] = 0
    BY <1>1 DEF TypeOK
  <1> HIDE DEF noted, size, a, Free
  <1>9. CASE /\ Undecided(c) /\ UNCHANGED <<buffer, truncated>>
             /\ run' = [run EXCEPT ![c] = a("returned", 0, <<>>)]
    <2>r. run'[c] = a("returned", 0, <<>>)
      BY <1>8, <1>9
    <2>1. run'[c].synth = <<>> /\ buffer'[c] = buffer[c] /\ truncated'[c] = truncated[c]
      BY <1>7, <1>8, <1>9, <2>r
    <2>2. Carried(c)' = Carried(c)
      BY <1>1, <2>1 DEF Carried
    <2>3. Carried(c) \in Nat /\ \A n \in Nat : n <= n
      BY LedgerNow
    <2>4. ~sampled[b]
      BY <1>1, <1>9 DEF Undecided
    <2>5. QED
      BY <2>2, <2>3, <2>4
  <1>10. CASE /\ size = 0 /\ noted.synth = <<>> /\ UNCHANGED buffer
              /\ truncated' = [truncated EXCEPT ![c] = 0]
              /\ run' = [run EXCEPT ![c] = a("returned", 0, <<>>)]
    <2>r. run'[c] = a("returned", 0, <<>>)
      BY <1>8, <1>10
    <2>1. /\ run'[c].synth = <<>> /\ run'[c].size = 0 /\ run'[c].stage = "returned"
          /\ buffer'[c] = buffer[c] /\ truncated'[c] = 0
      BY <1>7, <1>8, <1>10, <2>r
    <2>2. buffer[c] = <<>> /\ noted.buffer = <<>> /\ Len(buffer[c]) = 0
      BY <1>1, <1>4, <1>10, EmptySeq DEF Seqs, size
    <2>3. Carried(c)' = 0
      <3>1. Carried(c)' = Notes(<<>>) + Notes(<<>>) + 0
        BY <2>1, <2>2 DEF Carried
      <3>2. QED
        BY <1>2, <3>1
    <2>4. Carried(c) \in Nat
      BY LedgerNow
    <2>5. Clean(c) => Carried(c) = 0
      <3>1. Free => 0 + 0 = truncated[c]
        BY <1>2, <1>4, <1>10, <2>2
      <3>2. Free => Notes(buffer[c]) + truncated[c] = 0
        BY <1>1, <1>5, <3>1
      <3>3. QED
        BY <1>3, <1>6, <3>2
    <2>6. Clean(c)'
      <3>1. \A i \in (0 + 1)..0 : FALSE
        OBVIOUS
      <3>2. QED
        BY <2>1, <2>2, <3>1 DEF Clean
    <2>7. run'[c].size = Len(buffer'[c])
      BY <2>1, <2>2
    <2>8. QED
      BY <2>1, <2>3, <2>4, <2>5, <2>6, <2>7
  <1>11. CASE /\ ~sampled[b]
              /\ buffer' = [buffer EXCEPT ![c] = <<>>]
              /\ truncated' = [truncated EXCEPT ![c] = 0]
              /\ run' = [run EXCEPT ![c] = a("returned", 0, <<>>)]
    <2>r. run'[c] = a("returned", 0, <<>>)
      BY <1>8, <1>11
    <2>1. run'[c].synth = <<>> /\ buffer'[c] = <<>> /\ truncated'[c] = 0
      <3>1. buffer'[c] = <<>>
        BY <1>1, <1>11 DEF TypeOK
      <3>2. truncated'[c] = 0
        BY <1>8, <1>11
      <3>3. QED
        BY <1>7, <2>r, <3>1, <3>2
    <2>2. Carried(c)' = 0
      <3>1. Carried(c)' = Notes(<<>>) + Notes(<<>>) + 0
        BY <2>1 DEF Carried
      <3>2. QED
        BY <1>2, <3>1
    <2>3. Carried(c) \in Nat
      BY LedgerNow
    <2>4. QED
      BY <1>11, <2>2, <2>3
  <1>12. CASE /\ \E stage \in {"tags", "saving"} :
                    /\ run' = [run EXCEPT ![c] = a(stage, size, noted.synth)]
                    /\ stage = "tags" => Undecided(c)
              /\ buffer' = [buffer EXCEPT ![c] = noted.buffer]
              /\ truncated' = [truncated EXCEPT ![c] = 0]
    <2>1. PICK stage \in {"tags", "saving"} :
             /\ run' = [run EXCEPT ![c] = a(stage, size, noted.synth)]
             /\ stage = "tags" => Undecided(c)
      BY <1>12
    <2>r. run'[c] = a(stage, size, noted.synth)
      BY <1>8, <2>1
    <2>2. /\ run'[c].synth = noted.synth /\ run'[c].size = size /\ run'[c].stage = stage
          /\ buffer'[c] = noted.buffer /\ truncated'[c] = 0
      <3>1. buffer'[c] = noted.buffer /\ truncated'[c] = 0
        BY <1>8, <1>12
      <3>2. QED
        BY <1>7, <2>r, <3>1
    <2>3. PICK k, l, m, n \in Nat :
             /\ k = Notes(noted.buffer) /\ l = Notes(noted.synth)
             /\ m = Notes(buffer[c]) /\ n = truncated[c]
      BY <1>1, <1>5
    <2>4. Carried(c)' = l + k /\ Carried(c) = m + n
      <3>1. Carried(c)' = l + k + 0
        BY <2>2, <2>3 DEF Carried
      <3>2. QED
        BY <1>6, <2>3, <3>1
    <2>5. k + l <= m + 0 + n /\ (Free => k + l = n /\ m = 0)
      BY <1>2, <1>4, <1>5, <2>3
    <2>6. Carried(c)' <= Carried(c) /\ (Clean(c) => Carried(c)' = Carried(c))
      BY <1>3, <2>4, <2>5
    <2>7. run'[c].size = Len(buffer'[c])
      BY <1>4, <2>2
    <2>8. sampled[b] => Clean(c)'
      <3>1. \A i \in (size + 1)..size : FALSE
        BY <1>2
      <3>2. (size + 1)..Len(buffer'[c]) = {}
        BY <2>2, <2>7, <3>1
      <3>3. \A i \in (run'[c].size + 1)..Len(buffer'[c]) : FALSE
        BY <2>2, <3>2
      <3>4. sampled[b] => run'[c].stage = "saving"
        BY <1>1, <2>1, <2>2 DEF Undecided
      <3>5. QED
        BY <3>3, <3>4 DEF Clean
    <2>9. QED
      BY <2>2, <2>6, <2>7, <2>8
  <1>13. QED
    <2>1. CASE Undecided(c) /\ mode = "intermediate"
      BY <1>9, <2>1 DEF FlushContext, a
    <2>2. CASE ~(Undecided(c) /\ mode = "intermediate")
      BY <1>1, <1>10, <1>11, <1>12, <2>2 DEF FlushContext, TakeTruncated, a, noted, size
    <2>3. QED
      BY <2>1, <2>2

\* A flush that begins, of either context.
LEMMA EnterLedger ==
    ASSUME IInv, IInv', OInv, LInv, NEW b \in Batches, NEW c \in {Main(b), Late(b)},
           NEW mode \in Modes, NEW chained \in BOOLEAN,
           FlushContext(c, mode, chained), run[c] = Idle,
           UNCHANGED <<sampled, continued, stored, dropped, failures>>,
           \A d \in Batches \ {b} : phase'[d] = phase[d],
           c = Late(b) => continued[b],
           c = Main(b) => phase'[b] = phase[b]
    PROVE  LInv'
  <1>1. /\ c \in Contexts
        /\ \A d \in Contexts : d # c =>
              buffer'[d] = buffer[d] /\ run'[d] = run[d] /\ truncated'[d] = truncated[d]
        /\ Main(b) # Late(b) /\ Late(b) \in Contexts
    BY BatchFacts, OnlyItsContext DEF IInv
  <1>2. /\ Carried(c)' <= Carried(c)
        /\ sampled[b] /\ Clean(c) =>
              /\ Carried(c)' = Carried(c) /\ Clean(c)'
              /\ truncated'[c] = 0 /\ run'[c].size = Len(buffer'[c])
    BY EnterNotes
  <1>3. sampled[b] /\ failures' = 0 => Clean(c)
    BY DEF LInv, Ledger
  <1>4. /\ Notes(stored'[b]) + Carried(c)' <= Notes(stored[b]) + Carried(c)
        /\ sampled[b] /\ failures' = 0 =>
              Notes(stored'[b]) + Carried(c)' = Notes(stored[b]) + Carried(c)
    <2>1. PICK m, n, o \in Nat : m = Notes(stored[b]) /\ n = Carried(c) /\ o = Carried(c)'
      BY LedgerNow, LedgerNext
    <2>2. Notes(stored'[b]) = m
      BY <2>1
    <2>3. o <= n /\ (sampled[b] /\ failures' = 0 => o = n)
      BY <1>2, <1>3, <2>1
    <2>4. QED
      BY <2>1, <2>2, <2>3
  <1>5. sampled[b] /\ failures' = 0 /\ LateGrace /\ phase'[b] = "finished" =>
           truncated'[Late(b)] = 0 /\ run'[Late(b)].size = Len(buffer'[Late(b)])
    <2>1. CASE c = Late(b)
      BY <1>2, <1>3, <2>1
    <2>2. CASE c = Main(b)
      <3>1. /\ buffer'[Late(b)] = buffer[Late(b)] /\ run'[Late(b)] = run[Late(b)]
            /\ truncated'[Late(b)] = truncated[Late(b)] /\ Ledger(b)
        BY <1>1, <2>2 DEF LInv
      <3>2. QED
        BY <2>2, <3>1 DEF Ledger
    <2>3. QED
      BY <2>1, <2>2
  <1>6. failures <= failures' /\ UNCHANGED <<sampled, dropped>>
    BY DEF IInv, TypeOK
  <1>7. /\ \A d \in Batches \ {b} :
              phase'[d] = phase[d] /\ continued'[d] = continued[d] /\ stored'[d] = stored[d]
        /\ ~continued'[b] => ~continued[b]
        /\ c = Late(b) => continued'[b]
    OBVIOUS
  <1>8. QED
    BY <1>1, <1>2, <1>3, <1>4, <1>5, <1>6, <1>7, ContextLedger

\* A window that needed no continuation.
LEMMA ShutLedger ==
    ASSUME IInv, IInv', OInv, LInv, NEW b \in Batches, phase[b] = "closed", ~continued[b],
           phase' = [phase EXCEPT ![b] = "finished"],
           UNCHANGED <<sampled, continued, buffer, truncated, run, stored, dropped, failures>>
    PROVE  LInv'
  <1>1. \A d \in Batches \ {b} : phase'[d] = phase[d]
    BY DEF IInv, TypeOK
  <1>2. /\ Accounted(b)' = Accounted(b)
        /\ Clean(Main(b)) => Clean(Main(b))'
        /\ Clean(Late(b)) => Clean(Late(b))'
    BY DEF Accounted, Carried, Clean, Main, Late
  <1>3. /\ run[Late(b)] = Idle /\ buffer[Late(b)] = <<>> /\ truncated[Late(b)] = 0
        /\ Ledger(b)
    BY DEF IInv, Ownership, OwnedBy, LInv, Ledger
  <1>4. (truncated[Late(b)] = 0 /\ run[Late(b)].size = Len(buffer[Late(b)]))'
    <2>1. truncated'[Late(b)] = 0 /\ run'[Late(b)].size = Len(buffer'[Late(b)])
      BY <1>3 DEF Idle
    <2>2. QED
      BY <2>1 DEF Late
  <1>5. (~continued[b] => buffer[Late(b)] = <<>> /\ truncated[Late(b)] = 0)'
    BY <1>3 DEF Late
  <1>6. Ledger(b)'
    BY <1>2, <1>3, <1>4, <1>5 DEF Ledger
  <1>7. failures <= failures'
    BY DEF IInv, TypeOK
  <1>8. QED
    BY <1>1, <1>6, <1>7, LedgerStep

LEMMA StartLedger ==
    ASSUME IInv, IInv', OInv, LInv, NEW b \in Batches, StartFlush(b) \/ LateTimer(b)
    PROVE  LInv'
  <1>1. UNCHANGED <<sampled, continued, stored, dropped, failures>>
    BY DEF StartFlush, LateTimer, history
  <1>2. ASSUME NEW chained \in BOOLEAN, FlushContinuation(b, chained), phase[b] = "closed",
               phase' = [phase EXCEPT ![b] = "finished"]
        PROVE  LInv'
    <2>1. run[Late(b)] = Idle /\ "final" \in Modes
      BY <1>2 DEF IInv, Ownership, OwnedBy, Modes
    <2>2. \A d \in Batches \ {b} : phase'[d] = phase[d]
      BY <1>2 DEF IInv, TypeOK
    <2>3. CASE continued[b]
      <3>1. FlushContext(Late(b), "final", chained) /\ Late(b) # Main(b)
        BY <1>2, <2>3, ContextsOf DEF FlushContinuation
      <3>2. QED
        BY <1>1, <1>2, <2>1, <2>2, <2>3, <3>1, EnterLedger
    <2>4. CASE ~continued[b]
      BY <1>1, <1>2, <2>4, ShutLedger DEF FlushContinuation
    <2>5. QED
      BY <2>3, <2>4
  <1>3. CASE StartFlush(b)
    <2>1. Head(queue[b]) \in Modes /\ run[Main(b)] = Idle
      BY <1>3, HeadOfQueue DEF StartFlush, Quiet, IInv, TypeOK
    <2>2. \/ FlushContext(Main(b), Head(queue[b]), TRUE) /\ UNCHANGED phase
          \/ /\ phase[b] = "closed" /\ FlushContinuation(b, TRUE)
             /\ phase' = [phase EXCEPT ![b] = "finished"]
      BY <1>3 DEF StartFlush, Finish
    <2>3. CASE FlushContext(Main(b), Head(queue[b]), TRUE) /\ UNCHANGED phase
      <3>1. Main(b) # Late(b)
        BY ContextsOf
      <3>2. QED
        BY <1>1, <2>1, <2>3, <3>1, EnterLedger
    <2>4. QED
      BY <1>2, <2>2, <2>3
  <1>4. CASE LateTimer(b)
    <2>1. /\ phase[b] = "closed" /\ FlushContinuation(b, FALSE)
          /\ phase' = [phase EXCEPT ![b] = "finished"]
      BY <1>4 DEF LateTimer, Finish, IInv, WindowOwned
    <2>2. QED
      BY <1>2, <2>1
  <1>5. QED
    BY <1>3, <1>4

\* A batch whose tags are awaited was not sampled.
LEMMA DecideLedger ==
    ASSUME IInv, IInv', OInv, LInv, NEW b \in Batches, NEW c \in {Main(b), Late(b)},
           DecideByTags(c)
    PROVE  LInv'
  <1> DEFINE size == Len(buffer[c])
             noted == Noted(buffer[c], size, run[c].synth, truncated[c])
  <1>1. /\ c \in Contexts /\ run[c].stage = "tags" /\ c # Dormant(b)
        /\ buffer[c] \in Seqs /\ run[c].synth \in Seqs /\ truncated[c] \in Nat
        /\ nextSeq \in Nat
        /\ truncated' = [truncated EXCEPT ![c] = 0]
        /\ UNCHANGED <<sampled, phase, continued, stored, dropped, failures>>
    <2>1. c \in Contexts /\ run[c].stage = "tags"
      BY BatchFacts DEF DecideByTags
    <2>2. c # Dormant(b)
      BY <2>1, DormantIdles
    <2>3. QED
      BY <2>1, <2>2, BatchFacts DEF DecideByTags, TakeTruncated, history
  <1>2. /\ truncated'[c] = 0
        /\ \A d \in Contexts : d # c =>
              buffer'[d] = buffer[d] /\ run'[d] = run[d] /\ truncated'[d] = truncated[d]
        /\ \/ buffer'[c] = noted.buffer /\ run'[c].synth = noted.synth
           \/ buffer'[c] = <<>> /\ run'[c].synth = <<>>
    <2>1. /\ run \in [Contexts -> Activation] /\ run[c] \in Activation
          /\ buffer \in [Contexts -> Seq(EntryRec)] /\ truncated \in [Contexts -> Nat]
      BY <1>1 DEF IInv, TypeOK
    <2>2. \/ /\ buffer' = [buffer EXCEPT ![c] = noted.buffer]
             /\ run' = [run EXCEPT ![c].stage = "saving", ![c].size = size,
                                   ![c].synth = noted.synth]
          \/ /\ buffer' = [buffer EXCEPT ![c] = <<>>]
             /\ run' = [run EXCEPT ![c].stage = "returned", ![c].size = 0,
                                   ![c].synth = <<>>]
      BY DEF DecideByTags
    <2> HIDE DEF noted, size
    <2>3. QED
      BY <1>1, <2>1, <2>2 DEF Activation
  <1>3. /\ noted.buffer \in Seqs /\ noted.synth \in Seqs
        /\ Notes(noted.buffer) + Notes(noted.synth)
              <= Notes(buffer[c]) + Notes(run[c].synth) + truncated[c]
    <2>1. size \in Nat /\ size <= Len(buffer[c])
      BY <1>1, EntrySeq
    <2> HIDE DEF size
    <2>2. LET n == Noted(buffer[c], size, run[c].synth, truncated[c]) IN
          /\ n.buffer \in Seqs /\ n.synth \in Seqs
          /\ Notes(n.buffer) + Notes(n.synth)
                <= Notes(buffer[c]) + Notes(run[c].synth) + truncated[c]
      BY <1>1, <2>1, NotedNotes
    <2>3. QED
      BY <2>2
  <1> HIDE DEF noted, size
  <1>4. Notes(stored'[b]) + Carried(c)' <= Notes(stored[b]) + Carried(c)
    <2>1. PICK k, l, m, n, o, p \in Nat :
             /\ k = Notes(noted.buffer) /\ l = Notes(noted.synth)
             /\ m = Notes(buffer[c]) /\ n = Notes(run[c].synth) /\ o = truncated[c]
             /\ p = Notes(stored[b])
      BY <1>1, <1>3, NotesAre, LedgerNow
    <2>2. k + l <= m + n + o
      BY <1>3, <2>1
    <2>3. Notes(stored'[b]) = p /\ Carried(c) = n + m + o
      BY <1>1, <2>1 DEF Carried
    <2>4. CASE buffer'[c] = noted.buffer /\ run'[c].synth = noted.synth
      <3>1. Carried(c)' = l + k + 0
        BY <1>2, <2>1, <2>4 DEF Carried
      <3>2. QED
        BY <2>1, <2>2, <2>3, <3>1
    <2>5. CASE buffer'[c] = <<>> /\ run'[c].synth = <<>>
      <3>1. Carried(c)' = Notes(<<>>) + Notes(<<>>) + 0
        BY <1>2, <2>5 DEF Carried
      <3>2. Carried(c)' = 0
        BY <3>1, NotesEmpty
      <3>3. QED
        BY <2>1, <2>3, <3>2
    <2>6. QED
      BY <1>2, <2>4, <2>5
  <1>5. ~(sampled[b] /\ failures' = 0)
    <2>1. ASSUME sampled[b], failures' = 0 PROVE FALSE
      <3>1. Clean(c)
        BY <1>1, <2>1 DEF LInv, Ledger
      <3>2. QED
        BY <1>1, <3>1 DEF Clean
    <2>2. QED
      BY <2>1
  <1>6. c = Late(b) => continued'[b]
    BY <1>1 DEF IInv, Ownership, OwnedBy, Idle
  <1>7. failures <= failures' /\ UNCHANGED <<sampled, dropped>>
    BY <1>1 DEF IInv, TypeOK
  <1>8. /\ \A d \in Batches \ {b} :
              phase'[d] = phase[d] /\ continued'[d] = continued[d] /\ stored'[d] = stored[d]
        /\ ~continued'[b] => ~continued[b]
    BY <1>1
  <1>9. QED
    BY <1>2, <1>4, <1>5, <1>6, <1>7, <1>8, ContextLedger

\* What stands behind the first n entries.
LEMMA Behind ==
    ASSUME NEW s \in Seqs, NEW n \in Nat, n <= Len(s)
    PROVE  LET left == SubSeq(s, n + 1, Len(s)) IN
           /\ Len(left) = Len(s) - n
           /\ \A i \in 1..Len(left) : left[i] = s[n + i]
           /\ Len(s) \in Nat
  <1> DEFINE left == SubSeq(s, n + 1, Len(s))
  <1>1. PICK k \in Nat : k = Len(s)
    BY EntrySeq
  <1>2. \A i \in (n + 1)..k : s[i] \in EntryRec
    BY <1>1, EntrySeq
  <1>3. n + 1 \in Int /\ k \in Int
    BY <1>1
  <1>4. /\ Len(left) = IF n + 1 <= k THEN k - (n + 1) + 1 ELSE 0
        /\ \A i \in 1..(k - (n + 1) + 1) : left[i] = s[(n + 1) + i - 1]
    BY <1>1, <1>2, <1>3, SubSeqProperties
  <1> HIDE DEF left
  <1>5. k - (n + 1) + 1 = k - n /\ (~(n + 1 <= k) => k - n = 0)
    BY <1>1
  <1>6. Len(left) = k - n
    BY <1>4, <1>5
  <1>7. ASSUME NEW i \in 1..Len(left) PROVE left[i] = s[n + i]
    <2>1. i \in 1..(k - n)
      BY <1>6
    <2>2. i \in Nat /\ (n + 1) + i - 1 = n + i
      BY <2>1
    <2>3. QED
      BY <1>4, <1>5, <2>1, <2>2
  <1>8. QED
    BY <1>1, <1>6, <1>7 DEF left

\* What is saved moves its reports into the rows.
LEMMA SaveCommitsLedger ==
    ASSUME IInv, IInv', OInv, LInv, NEW b \in Batches, NEW c \in {Main(b), Late(b)},
           SaveCommits(c)
    PROVE  LInv'
  <1>1. /\ c \in Contexts /\ c[1] = b /\ Late(b) \in Contexts
        /\ buffer[c] \in Seqs /\ run[c].synth \in Seqs /\ stored[b] \in Seqs
        /\ run[c].size \in Nat /\ run[c].size <= Len(buffer[c])
        /\ run[c].stage = "saving"
        /\ UNCHANGED <<sampled, phase, continued, truncated, dropped, failures>>
        /\ stored' = [stored EXCEPT ![b] = @ \o Drained(c)]
        /\ buffer' = [buffer EXCEPT ![c] = Arrivals(c)]
        /\ run' = [run EXCEPT ![c].stage = "trimming", ![c].size = 0,
                              ![c].synth = <<>>]
    <2>1. c \in Contexts /\ c[1] = b /\ Late(b) \in Contexts
      BY ContextsOf
    <2>2. /\ buffer[c] \in Seqs /\ run[c].synth \in Seqs /\ stored[b] \in Seqs
          /\ run[c].size \in Nat /\ run[c].size <= Len(buffer[c])
      BY <2>1, BatchFacts DEF IInv, SnapshotIsPrefix, Activation
    <2>3. QED
      BY <2>1, <2>2 DEF SaveCommits, history
  <1>2. /\ buffer'[c] = Arrivals(c)
        /\ \A d \in Contexts : d # c => buffer'[d] = buffer[d]
    BY <1>1 DEF IInv, TypeOK
  <1>3. /\ run'[c].synth = <<>> /\ run'[c].stage = "trimming" /\ run'[c].size = 0
        /\ \A d \in Contexts : d # c => run'[d] = run[d]
    BY <1>1, BatchFacts DEF IInv, TypeOK, Activation
  <1>4. /\ stored'[b] = stored[b] \o Drained(c)
        /\ \A d \in Batches \ {b} : stored'[d] = stored[d]
    BY <1>1 DEF IInv, TypeOK
  <1> DEFINE size == run[c].size
             taken == SubSeq(buffer[c], 1, size)
             left == SubSeq(buffer[c], size + 1, Len(buffer[c]))
  <1>5. /\ taken \in Seqs /\ left \in Seqs
        /\ Notes(taken) + Notes(left) = Notes(buffer[c])
    BY <1>1, NotesCut
  <1>6. left = Arrivals(c) /\ Drained(c) = run[c].synth \o taken
    BY DEF Arrivals, Drained
  <1>7. /\ Len(left) = Len(buffer[c]) - size
        /\ \A i \in 1..Len(left) : left[i] = buffer[c][size + i]
        /\ Len(buffer[c]) \in Nat
    BY <1>1, Behind
  <1> HIDE DEF taken, left
  <1>8. Notes(stored'[b]) + Carried(c)' = Notes(stored[b]) + Carried(c)
    <2>1. /\ Drained(c) \in Seqs
          /\ Notes(Drained(c)) = Notes(run[c].synth) + Notes(taken)
      BY <1>1, <1>5, <1>6, NotesConcat
    <2>2. Notes(stored'[b]) = Notes(stored[b]) + Notes(Drained(c))
      BY <1>1, <1>4, <2>1, NotesConcat
    <2>3. PICK k, l, m, n, o \in Nat :
             /\ k = Notes(stored[b]) /\ l = Notes(run[c].synth) /\ m = Notes(taken)
             /\ n = Notes(left) /\ o = truncated[c]
      BY <1>5, NotesAre, LedgerNow
    <2>4. Notes(stored'[b]) = k + (l + m) /\ Notes(buffer[c]) = m + n
      BY <1>5, <2>1, <2>2, <2>3
    <2>5. Carried(c) = l + (m + n) + o
      BY <2>3, <2>4 DEF Carried
    <2>6. Carried(c)' = Notes(<<>>) + n + o
      BY <1>1, <1>2, <1>3, <1>6, <2>3 DEF Carried
    <2>7. Carried(c)' = 0 + n + o
      BY <2>6, NotesEmpty
    <2>8. QED
      BY <2>3, <2>4, <2>5, <2>7
  <1>9. Notes(stored'[b]) + Carried(c)' <= Notes(stored[b]) + Carried(c)
    <2>1. PICK m, n \in Nat : m = Notes(stored[b]) /\ n = Carried(c)
      BY LedgerNow
    <2>2. QED
      BY <1>8, <2>1
  <1>10. ASSUME sampled[b], failures' = 0 PROVE Clean(c)'
    <2>1. Clean(c)
      BY <1>1, <1>10 DEF LInv, Ledger
    <2>2. ASSUME NEW i \in (0 + 1)..Len(left) PROVE left[i].note = 0
      <3>1. /\ i \in 1..Len(left) /\ size + i \in (size + 1)..Len(buffer[c])
        BY <1>1, <1>7
      <3>2. QED
        BY <1>7, <2>1, <3>1 DEF Clean
    <2>3. QED
      BY <1>2, <1>3, <1>6, <2>2 DEF Clean
  <1>11. sampled[b] /\ failures' = 0 /\ LateGrace /\ phase'[b] = "finished" =>
            truncated'[Late(b)] = 0 /\ run'[Late(b)].size = Len(buffer'[Late(b)])
    <2> SUFFICES ASSUME sampled[b], failures' = 0, LateGrace, phase'[b] = "finished"
                 PROVE  truncated'[Late(b)] = 0 /\ run'[Late(b)].size = Len(buffer'[Late(b)])
      OBVIOUS
    <2>1. truncated[Late(b)] = 0 /\ run[Late(b)].size = Len(buffer[Late(b)])
      BY <1>1 DEF LInv, Ledger
    <2>2. CASE c = Late(b)
      <3>1. Len(left) = 0
        BY <1>1, <1>7, <2>1, <2>2
      <3>2. QED
        BY <1>1, <1>2, <1>3, <1>6, <2>1, <2>2, <3>1
    <2>3. CASE c # Late(b)
      BY <1>1, <1>2, <1>3, <2>1, <2>3
    <2>4. QED
      BY <2>2, <2>3
  <1>12. c = Late(b) => continued'[b]
    BY <1>1 DEF IInv, Ownership, OwnedBy, Idle
  <1>13. failures <= failures' /\ UNCHANGED <<sampled, dropped>>
    BY <1>1 DEF IInv, TypeOK
  <1>14. /\ \A d \in Batches \ {b} :
              phase'[d] = phase[d] /\ continued'[d] = continued[d] /\ stored'[d] = stored[d]
         /\ \A d \in Contexts : d # c =>
              buffer'[d] = buffer[d] /\ run'[d] = run[d] /\ truncated'[d] = truncated[d]
         /\ ~continued'[b] => ~continued[b]
    BY <1>1, <1>2, <1>3, <1>4
  <1>15. QED
    BY <1>8, <1>9, <1>10, <1>11, <1>12, <1>13, <1>14, ContextLedger

\* The fixed ceiling may cut a report: what is requeued reports no more.
LEMMA RequeuedNotes ==
    ASSUME NEW c \in Contexts, run[c].synth \in Seqs, buffer[c] \in Seqs
    PROVE  /\ Requeued(c) \in Seqs
           /\ Notes(Requeued(c)) <= Notes(run[c].synth) + Notes(buffer[c])
  <1> DEFINE whole == run[c].synth \o buffer[c]
  <1>1. /\ whole \in Seqs /\ Notes(whole) = Notes(run[c].synth) + Notes(buffer[c])
        /\ Notes(run[c].synth) \in Nat /\ Notes(buffer[c]) \in Nat
    BY NotesConcat, NotesAre
  <1> HIDE DEF whole
  <1>2. ASSUME NEW s \in Seqs
        PROVE  Capped(s) \in Seqs /\ Notes(Capped(s)) \in Nat /\ Notes(Capped(s)) <= Notes(s)
    <2> DEFINE n == IF Len(s) <= BufferLimit THEN Len(s) ELSE BufferLimit
    <2>1. n \in Nat /\ n <= Len(s)
      BY EntrySeq, ConstantsAssumption
    <2>2. Capped(s) = SubSeq(s, 1, n)
      BY DEF Capped
    <2> HIDE DEF n
    <2>3. /\ SubSeq(s, 1, n) \in Seqs /\ SubSeq(s, n + 1, Len(s)) \in Seqs
          /\ Notes(SubSeq(s, 1, n)) + Notes(SubSeq(s, n + 1, Len(s))) = Notes(s)
      BY <2>1, NotesCut
    <2>4. PICK k, m \in Nat :
             k = Notes(SubSeq(s, 1, n)) /\ m = Notes(SubSeq(s, n + 1, Len(s)))
      BY <2>3, NotesAre
    <2>5. k <= k + m
      OBVIOUS
    <2>6. QED
      BY <2>2, <2>3, <2>4, <2>5
  <1>3. Requeued(c) = Capped(whole) \/ Requeued(c) = Capped(buffer[c])
    BY DEF Requeued, whole
  <1>4. CASE Requeued(c) = Capped(whole)
    BY <1>1, <1>2, <1>4
  <1>5. CASE Requeued(c) = Capped(buffer[c])
    <2>1. PICK k, m, n \in Nat :
             k = Notes(Capped(buffer[c])) /\ m = Notes(buffer[c]) /\ n = Notes(run[c].synth)
      BY <1>1, <1>2
    <2>2. k <= m
      BY <1>2, <2>1
    <2>3. k <= n + m
      BY <2>2
    <2>4. QED
      BY <1>2, <1>5, <2>1, <2>3
  <1>6. QED
    BY <1>3, <1>4, <1>5

LEMMA SaveRejectsLedger ==
    ASSUME IInv, IInv', OInv, LInv, NEW b \in Batches, NEW c \in {Main(b), Late(b)},
           SaveRejects(c)
    PROVE  LInv'
  <1>1. /\ c \in Contexts /\ run[c].stage = "saving"
        /\ buffer[c] \in Seqs /\ run[c].synth \in Seqs
        /\ UNCHANGED <<sampled, phase, continued, truncated, stored, dropped>>
        /\ failures' = failures + 1
        /\ buffer' = [buffer EXCEPT ![c] = Requeued(c)]
        /\ run' = [run EXCEPT ![c].stage = "threw", ![c].size = 0,
                              ![c].synth = <<>>]
    BY BatchFacts DEF SaveRejects
  <1>2. /\ buffer'[c] = Requeued(c)
        /\ \A d \in Contexts : d # c => buffer'[d] = buffer[d]
    BY <1>1 DEF IInv, TypeOK
  <1>3. /\ run'[c].synth = <<>>
        /\ \A d \in Contexts : d # c => run'[d] = run[d]
    BY <1>1, BatchFacts DEF IInv, TypeOK, Activation
  <1>4. Notes(stored'[b]) + Carried(c)' <= Notes(stored[b]) + Carried(c)
    <2>1. PICK k, l, m, n, o \in Nat :
             /\ k = Notes(stored[b]) /\ l = Notes(run[c].synth) /\ m = Notes(buffer[c])
             /\ n = truncated[c] /\ o = Notes(Requeued(c))
      BY <1>1, RequeuedNotes, NotesAre, LedgerNow
    <2>2. o <= l + m
      BY <1>1, <2>1, RequeuedNotes
    <2>3. /\ Carried(c) = l + m + n /\ Notes(stored'[b]) = k
      BY <1>1, <2>1 DEF Carried
    <2>4. Carried(c)' = Notes(<<>>) + o + n
      BY <1>1, <1>2, <1>3, <2>1 DEF Carried
    <2>5. Carried(c)' = 0 + o + n
      BY <2>4, NotesEmpty
    <2>6. QED
      BY <2>1, <2>2, <2>3, <2>5
  <1>5. failures <= failures' /\ failures' # 0 /\ UNCHANGED <<sampled, dropped>>
    BY <1>1 DEF IInv, TypeOK
  <1>6. c = Late(b) => continued'[b]
    BY <1>1 DEF IInv, Ownership, OwnedBy, Idle
  <1>7. /\ \A d \in Batches \ {b} :
              phase'[d] = phase[d] /\ continued'[d] = continued[d] /\ stored'[d] = stored[d]
        /\ \A d \in Contexts : d # c =>
              buffer'[d] = buffer[d] /\ run'[d] = run[d] /\ truncated'[d] = truncated[d]
        /\ ~continued'[b] => ~continued[b]
    BY <1>1, <1>2, <1>3
  <1>8. QED
    BY <1>4, <1>5, <1>6, <1>7, ContextLedger

\* The trim and the end of an activation touch no entry.
LEMMA RestLedger ==
    ASSUME IInv, IInv', OInv, LInv, NEW b \in Batches, NEW c \in {Main(b), Late(b)},
           UNCHANGED <<sampled, phase, continued, buffer, truncated, stored, dropped>>,
           failures <= failures',
           \A d \in Contexts : d # c => run'[d] = run[d],
           run'[c].synth = run[c].synth, run'[c].size = run[c].size,
           run'[c].stage \notin {"tags", "saving"}, run[c].stage # "saving"
    PROVE  LInv'
  <1>2. Ledger(b) /\ c \in Contexts /\ Late(b) \in Contexts
    BY ContextsOf DEF LInv
  <1>3. \A d \in {Main(b), Late(b)} : run'[d].synth = run[d].synth /\ run'[d].size = run[d].size
    BY <1>2, ContextsOf
  <1>4. \A d \in {Main(b), Late(b)} : Carried(d)' = Carried(d)
    BY <1>3 DEF Carried
  <1>5. \A d \in {Main(b), Late(b)} : Clean(d) => Clean(d)'
    <2>1. Clean(c) => Clean(c)'
      BY <1>3 DEF Clean
    <2>2. \A d \in Contexts : d # c /\ Clean(d) => Clean(d)'
      BY DEF Clean
    <2>3. QED
      BY <2>1, <2>2, ContextsOf
  <1>6. /\ Accounted(b)' = Accounted(b)
        /\ Clean(Main(b)) => Clean(Main(b))'
        /\ Clean(Late(b)) => Clean(Late(b))'
    BY <1>4, <1>5 DEF Accounted, Main, Late
  <1>7. run'[Late(b)].size = run[Late(b)].size
    BY <1>3
  <1>8. (run[Late(b)].size)' = run[Late(b)].size
    BY <1>7 DEF Late
  <1>9. failures' = 0 => failures = 0
    BY DEF IInv, TypeOK
  <1>11. (truncated[Late(b)])' = truncated[Late(b)] /\ (buffer[Late(b)])' = buffer[Late(b)]
    BY DEF Late
  <1>12. Ledger(b)'
    BY <1>2, <1>6, <1>8, <1>9, <1>11 DEF Ledger
  <1>13. \A d \in Contexts : d # Main(b) /\ d # Late(b) => run'[d] = run[d]
    OBVIOUS
  <1>14. QED
    BY <1>12, <1>13, LedgerStep

LEMMA TrimLedger ==
    ASSUME IInv, IInv', OInv, LInv, NEW b \in Batches, NEW c \in {Main(b), Late(b)},
           TrimResolves(c) \/ TrimRejects(c)
    PROVE  LInv'
  <1>1. PICK stage \in {"returned", "threw"} : run' = [run EXCEPT ![c].stage = stage]
    BY DEF TrimResolves, TrimRejects
  <1>2. /\ c \in Contexts /\ run[c].stage = "trimming" /\ run[c] \in Activation
        /\ UNCHANGED <<sampled, phase, continued, buffer, truncated, stored, dropped>>
    BY BatchFacts DEF TrimResolves, TrimRejects, context, history
  <1>3. /\ run'[c].stage = stage /\ run'[c].synth = run[c].synth
        /\ \A d \in Contexts : d # c => run'[d] = run[d]
    BY <1>1, <1>2, StageSet DEF IInv
  <1>4. run'[c].size = run[c].size
    <2>1. run'[c] = [run[c] EXCEPT !.stage = stage]
      BY <1>1, <1>2 DEF IInv, TypeOK
    <2>2. QED
      BY <1>2, <2>1 DEF Activation
  <1>5. failures \in Nat /\ (failures' = failures \/ failures' = failures + 1)
    BY DEF IInv, TypeOK, TrimResolves, TrimRejects, history
  <1>6. failures <= failures'
    BY <1>5
  <1>7. QED
    BY <1>1, <1>2, <1>3, <1>4, <1>6, RestLedger

\* BatchScope.close hands the counts to the continuation with the entries.
LEMMA CloseLedger ==
    ASSUME IInv, IInv', OInv, LInv, NEW b \in Batches, MoveArrivals(b), Arm(b),
           phase[b] = "open", run[Main(b)].stage = "returned",
           run' = [run EXCEPT ![Main(b)] = Idle],
           UNCHANGED <<sampled, stored, dropped, failures>>
    PROVE  LInv'
  <1>1. /\ run[Main(b)].synth = <<>> /\ run[Late(b)] = Idle /\ buffer[Late(b)] = <<>>
        /\ run'[Main(b)] = Idle /\ run'[Late(b)] = Idle
        /\ \A d \in Contexts : d # Main(b) => run'[d] = run[d]
        /\ buffer'[Late(b)] = buffer[Main(b)] /\ buffer'[Main(b)] = <<>>
        /\ truncated'[Main(b)] = 0
        /\ \A d \in Contexts : d # Main(b) /\ d # Late(b) =>
              buffer'[d] = buffer[d] /\ truncated'[d] = truncated[d]
    BY HandOver
  <1>2. /\ Main(b) \in Contexts /\ Late(b) \in Contexts /\ Main(b) # Late(b)
        /\ truncated[Main(b)] \in Nat /\ Ledger(b) /\ ~continued[b]
    BY BatchFacts DEF LInv, IInv, Ownership, OwnedBy
  <1>3. truncated[Late(b)] = 0
    BY <1>2 DEF Ledger
  <1>4. /\ truncated'[Late(b)] = truncated[Main(b)]
        /\ ~continued'[b] => buffer[Main(b)] = <<>> /\ truncated[Main(b)] = 0
        /\ \A d \in Batches \ {b} : continued'[d] = continued[d]
    <2>1. continued \in [Batches -> BOOLEAN] /\ truncated \in [Contexts -> Nat]
      BY DEF IInv, TypeOK
    <2>2. CASE buffer[Main(b)] # <<>> \/ truncated[Main(b)] > 0
      <3>1. /\ continued' = [continued EXCEPT ![b] = TRUE]
            /\ truncated' = [truncated EXCEPT ![Late(b)] = truncated[Main(b)],
                                              ![Main(b)] = 0]
        BY <2>2 DEF MoveArrivals
      <3>2. QED
        BY <1>2, <2>1, <3>1
    <2>3. CASE ~(buffer[Main(b)] # <<>> \/ truncated[Main(b)] > 0)
      <3>1. UNCHANGED <<continued, truncated>>
        BY <2>3 DEF MoveArrivals
      <3>2. QED
        BY <1>2, <1>3, <2>3, <3>1
    <2>4. QED
      BY <2>2, <2>3
  <1>5. /\ \A d \in Batches \ {b} : phase'[d] = phase[d]
        /\ ~(LateGrace /\ phase'[b] = "finished")
    BY DEF Arm, IInv, TypeOK
  <1>6. Accounted(b)' = Accounted(b)
    <2>1. PICK k, m, n \in Nat :
             k = Notes(stored[b]) /\ m = Notes(buffer[Main(b)]) /\ n = truncated[Main(b)]
      BY LedgerNow
    <2>2. Idle.synth = <<>> /\ Notes(<<>>) = 0
      BY NotesEmpty DEF Idle
    <2>3. Carried(Main(b)) = 0 + m + n /\ Carried(Late(b)) = 0 + 0 + 0
      BY <1>1, <1>3, <2>1, <2>2 DEF Carried
    <2>4. /\ Notes(run'[Main(b)].synth) + Notes(buffer'[Main(b)]) + truncated'[Main(b)] = 0 + 0 + 0
          /\ Notes(run'[Late(b)].synth) + Notes(buffer'[Late(b)]) + truncated'[Late(b)] = 0 + m + n
      BY <1>1, <1>4, <2>1, <2>2
    <2>5. Carried(Main(b))' = 0 + 0 + 0 /\ Carried(Late(b))' = 0 + m + n
      BY <2>4 DEF Carried, Main, Late
    <2>6. Accounted(b) = k + (0 + m + n) + (0 + 0 + 0)
      BY <2>1, <2>3 DEF Accounted
    <2>7. Accounted(b)' = k + (0 + 0 + 0) + (0 + m + n)
      BY <2>1, <2>5 DEF Accounted
    <2>8. QED
      BY <2>6, <2>7
  <1>7. (~continued[b] => buffer[Late(b)] = <<>> /\ truncated[Late(b)] = 0)'
    <2>1. ~continued'[b] => buffer'[Late(b)] = <<>> /\ truncated'[Late(b)] = 0
      BY <1>1, <1>4
    <2>2. QED
      BY <2>1 DEF Late
  <1>8. ASSUME sampled[b], failures' = 0 PROVE Clean(Main(b))' /\ Clean(Late(b))'
    <2>1. Clean(Main(b)) /\ Idle.size = 0 /\ Idle.stage = "idle"
      BY <1>2, <1>8 DEF Ledger, Idle
    <2>2. run[Main(b)].size = 0
      BY <2>1 DEF Clean
    <2>3. \A i \in (0 + 1)..Len(buffer[Main(b)]) : buffer[Main(b)][i].note = 0
      BY <2>1, <2>2 DEF Clean
    <2>4. \A i \in (0 + 1)..Len(<<>>) : <<>>[i].note = 0
      OBVIOUS
    <2>5. /\ run'[Main(b)].stage = "idle" /\ run'[Main(b)].size = 0
          /\ run'[Late(b)].stage = "idle" /\ run'[Late(b)].size = 0
          /\ \A i \in (0 + 1)..Len(buffer'[Late(b)]) : buffer'[Late(b)][i].note = 0
          /\ \A i \in (0 + 1)..Len(buffer'[Main(b)]) : buffer'[Main(b)][i].note = 0
      BY <1>1, <2>1, <2>3, <2>4
    <2>6. QED
      BY <2>5 DEF Clean, Main, Late
  <1>9. sampled'[b] = sampled[b] /\ dropped'[b] = dropped[b] /\ failures <= failures'
    BY DEF IInv, TypeOK
  <1>10. Ledger(b)'
    BY <1>2, <1>5, <1>6, <1>7, <1>8, <1>9 DEF Ledger
  <1>11. QED
    BY <1>1, <1>4, <1>5, <1>9, <1>10, LedgerStep

LEMMA SettleLedger ==
    ASSUME IInv, IInv', OInv, LInv, NEW b \in Batches, SettleMain(b) \/ SettleLate(b)
    PROVE  LInv'
  <1>1. PICK c \in {Main(b), Late(b)} : Over(c) /\ run' = [run EXCEPT ![c] = Idle]
    BY DEF SettleMain, SettleLate
  <1>2. /\ c \in Contexts /\ run[c] \in Activation
        /\ UNCHANGED <<sampled, stored, dropped, failures>>
    BY BatchFacts DEF SettleMain, SettleLate, history
  <1>3. /\ run'[c] = Idle /\ Idle.synth = <<>> /\ Idle.size = 0 /\ Idle.stage = "idle"
        /\ \A d \in Contexts : d # c => run'[d] = run[d]
    BY <1>1, <1>2 DEF IInv, TypeOK, Idle
  <1>4. run[c].synth = <<>> /\ run[c].stage \in {"returned", "threw"}
    BY <1>1, BatchFacts DEF BatchInLine, Suspended, Over
  <1>5. CASE UNCHANGED context
    <2>1. UNCHANGED <<phase, continued, buffer, truncated>>
      BY <1>5 DEF context
    <2>2. failures <= failures'
      BY <1>2 DEF IInv, TypeOK
    <2>3. Ledger(b)
      BY DEF LInv
    <2>4. \A d \in {Main(b), Late(b)} : Carried(d)' = Carried(d)
      BY <1>2, <1>3, <1>4, <2>1, ContextsOf DEF Carried
    <2>5. sampled[b] /\ failures = 0 => run[c].size = 0
      BY <1>4, <2>3 DEF Ledger, Clean
    <2>6. ASSUME sampled[b], failures = 0, NEW d \in {Main(b), Late(b)} PROVE Clean(d)'
      <3>1. Clean(d) /\ (d # c => run'[d] = run[d]) /\ buffer'[d] = buffer[d]
        BY <1>3, <2>1, <2>3, <2>6, ContextsOf DEF Ledger
      <3>2. CASE d = c
        BY <1>3, <2>1, <2>5, <2>6, <3>1, <3>2 DEF Clean
      <3>3. CASE d # c
        BY <3>1, <3>3 DEF Clean
      <3>4. QED
        BY <3>2, <3>3
    <2>7. sampled[b] /\ failures = 0 => run'[Late(b)].size = run[Late(b)].size
      BY <1>3, <2>5, ContextsOf
    <2>8. Accounted(b)' = Accounted(b)
      BY <1>2, <2>4 DEF Accounted, Main, Late
    <2>9. sampled[b] /\ failures = 0 => Clean(Main(b))' /\ Clean(Late(b))'
      BY <2>6 DEF Main, Late
    <2>10. /\ sampled[b] /\ failures = 0 => (run[Late(b)].size)' = run[Late(b)].size
           /\ (buffer[Late(b)])' = buffer[Late(b)] /\ (truncated[Late(b)])' = truncated[Late(b)]
      BY <2>1, <2>7 DEF Late
    <2>11. Ledger(b)'
      BY <1>2, <2>1, <2>3, <2>8, <2>9, <2>10 DEF Ledger
    <2>12. QED
      BY <1>2, <1>3, <2>1, <2>2, <2>11, LedgerStep
  <1>6. CASE /\ SettleMain(b) /\ phase[b] = "open"
             /\ run[Main(b)].stage = "returned" /\ run[Main(b)].mode = "final"
    BY <1>2, <1>6, CloseLedger DEF SettleMain
  <1>7. QED
    BY <1>5, <1>6 DEF SettleMain, SettleLate

LEMMA InitLedger == Init => LInv
  <1> SUFFICES ASSUME Init, NEW b \in Batches PROVE Ledger(b)
    BY DEF LInv
  <1>1. /\ \A c \in {Main(b), Late(b)} :
              /\ run[c] = Idle /\ buffer[c] = <<>> /\ truncated[c] = 0
        /\ stored[b] = <<>> /\ dropped[b] = 0 /\ phase[b] = "open"
    BY ContextsOf DEF Init
  <1>2. Idle.synth = <<>> /\ Idle.stage = "idle" /\ Idle.size = 0 /\ Notes(<<>>) = 0
    BY NotesEmpty DEF Idle
  <1>3. \A c \in {Main(b), Late(b)} : Carried(c) = 0 + 0 + 0 /\ Clean(c)
    <2>1. \A i \in (0 + 1)..Len(<<>>) : <<>>[i].note = 0
      OBVIOUS
    <2>2. QED
      BY <1>1, <1>2, <2>1 DEF Carried, Clean
  <1>4. Accounted(b) = 0 + (0 + 0 + 0) + (0 + 0 + 0)
    BY <1>1, <1>2, <1>3 DEF Accounted
  <1>5. QED
    BY <1>1, <1>3, <1>4 DEF Ledger

LEMMA NextLedger == IInv /\ IInv' /\ OInv /\ LInv /\ [Next]_vars => LInv'
  <1> SUFFICES ASSUME IInv, IInv', OInv, LInv, [Next]_vars PROVE LInv'
    OBVIOUS
  <1>1. CASE UNCHANGED vars
    BY <1>1, QuietLedger DEF vars, context, flushing, history
  <1>2. ASSUME NEW b \in Batches, NEW t \in Types, Accept(b, t) PROVE LInv'
    BY <1>2, AcceptLedger
  <1>3. ASSUME NEW b \in Batches, NEW t \in Types, Refuse(b, t) PROVE LInv'
    BY <1>3, RefuseLedger
  <1>4. ASSUME NEW b \in Batches, NEW mode \in Modes, Flush(b, mode) PROVE LInv'
    BY <1>4, QuietLedger DEF Flush, context, history
  <1>5. ASSUME NEW b \in Batches, StartFlush(b) \/ LateTimer(b) PROVE LInv'
    BY <1>5, StartLedger
  <1>6. ASSUME NEW b \in Batches, SettleMain(b) \/ SettleLate(b) PROVE LInv'
    BY <1>6, SettleLedger
  <1>7. ASSUME NEW b \in Batches, NEW c \in {Main(b), Late(b)}, Storage(c) PROVE LInv'
    BY <1>7, DecideLedger, SaveCommitsLedger, SaveRejectsLedger, TrimLedger DEF Storage
  <1>8. QED
    BY <1>1, <1>2, <1>3, <1>4, <1>5, <1>6, <1>7 DEF Next, Host

LEMMA LedgerInvariant == Spec => [](IInv /\ OInv /\ LInv)
  <1>1. Spec => []IInv
    BY Invariant
  <1>2. Spec => []OInv
    BY <1>1, InitOrder, NextOrder, PTL DEF Spec
  <1>3. Spec => []LInv
    BY <1>1, <1>2, InitLedger, NextLedger, PTL DEF Spec
  <1>4. QED
    BY <1>1, <1>2, <1>3, PTL

\* Whatever fails, is requeued, cut by the ceiling or moved into the continuation, no row
\* reports a refused entry twice; and until a store call fails, the rows of a sampled
\* batch and what is on its way to them account for every refusal.
THEOREM RefusalsAreAccounted == Spec => []RefusalsAccounted
  <1>1. LInv => RefusalsAccounted
    BY DEF LInv, Ledger, RefusalsAccounted
  <1>2. QED
    BY <1>1, LedgerInvariant, PTL

\* With a grace period, a sampled batch that is over and whose store calls succeeded left
\* nothing in its buffers, and its rows report each entry that was refused.
THEOREM SampledBatchesInFull == ASSUME LateGrace PROVE Spec => []SampledInFull
  <1>1. IInv /\ OInv /\ LInv => SampledInFull
    <2> SUFFICES ASSUME IInv, OInv, LInv, NEW b \in Batches, Settled(b), sampled[b]
                 PROVE  /\ \A c \in {Main(b), Late(b)} : buffer[c] = <<>>
                        /\ Notes(stored[b]) = dropped[b]
      BY DEF SampledInFull
    <2>1. /\ phase[b] = "finished" /\ failures = 0 /\ Ledger(b) /\ BatchInLine(b)
          /\ run[Main(b)] = Idle /\ run[Late(b)] = Idle
          /\ buffer[Late(b)] \in Seqs /\ Notes(stored[b]) \in Nat
      BY BatchFacts, LedgerNow DEF Settled, LInv
    <2>2. buffer[Main(b)] = <<>> /\ truncated[Main(b)] = 0
      BY <2>1 DEF BatchInLine, Dormant
    <2>3. /\ Idle.synth = <<>> /\ Idle.size = 0 /\ Notes(<<>>) = 0
      BY NotesEmpty DEF Idle
    <2>4. truncated[Late(b)] = 0 /\ Len(buffer[Late(b)]) = 0
      BY <2>1, <2>3 DEF Ledger
    <2>5. buffer[Late(b)] = <<>>
      BY <2>1, <2>4, EmptySeq DEF Seqs
    <2>6. Carried(Main(b)) = 0 + 0 + 0 /\ Carried(Late(b)) = 0 + 0 + 0
      BY <2>1, <2>2, <2>3, <2>4, <2>5 DEF Carried
    <2>7. Accounted(b) = Notes(stored[b]) + (0 + 0 + 0) + (0 + 0 + 0)
      BY <2>6 DEF Accounted
    <2>8. Accounted(b) = dropped[b]
      BY <2>1 DEF Ledger
    <2>9. Notes(stored[b]) = dropped[b]
      BY <2>1, <2>7, <2>8
    <2>10. QED
      BY <2>2, <2>5, <2>9
  <1>2. QED
    BY <1>1, LedgerInvariant, PTL

=============================================================================
