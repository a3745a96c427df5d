----------------------- MODULE StreamControllerProofs -----------------------
(***************************************************************************)
(* Proofs about StreamController for any browsers, applications, entries   *)
(* and limits, and about LiveUpdates for any tabs, timers and budgets.     *)
(*                                                                         *)
(* NothingIsMissed: no announced entry falls between a replay and the live *)
(* feed.  Until the replay is read, an announced entry is in the store the *)
(* read will see; from then on it is among the rows read or the pending    *)
(* events, and after that among the entries written.                       *)
(*                                                                         *)
(* ClosedIsLeftAlone: a closed connection is written no more.              *)
(*                                                                         *)
(* LiveOutOfReach: for any tabs that share one stream by a lease           *)
(* (LiveUpdates), an open tab has a stream or a failover timer.  A tab     *)
(* that has read the lease has neither until its callback ends, so the     *)
(* invariant follows the callback: one that posts its first heartbeat has  *)
(* opened the stream, and a heartbeat timer runs beside a stream only.     *)
(***************************************************************************)
EXTENDS StreamController, LiveUpdates, StoreLemmas

-----------------------------------------------------------------------------
(* Sequences *)

LEMMA JoinProperties ==
    ASSUME NEW p \in Seq(Nat), NEW q \in Seq(Nat)
    PROVE  p \o q \in Seq(Nat) /\ ToSet(p \o q) = ToSet(p) \cup ToSet(q)
  <1> DEFINE r == p \o q
  <1>1. /\ r \in Seq(Nat) /\ Len(r) = Len(p) + Len(q) /\ Len(p) \in Nat /\ Len(q) \in Nat
        /\ \A i \in 1..(Len(p) + Len(q)) : r[i] = IF i <= Len(p) THEN p[i] ELSE q[i - Len(p)]
    BY ConcatProperties, LenProperties
  <1>2. DOMAIN r = 1..Len(r) /\ DOMAIN p = 1..Len(p) /\ DOMAIN q = 1..Len(q)
    BY <1>1, LenProperties
  <1> HIDE DEF r
  <1>3. \A i \in DOMAIN r : r[i] \in ToSet(p) \cup ToSet(q)
    <2>1. ASSUME NEW i \in DOMAIN r, i <= Len(p) PROVE r[i] \in ToSet(p)
      BY <1>1, <1>2, <2>1 DEF ToSet
    <2>2. ASSUME NEW i \in DOMAIN r, ~(i <= Len(p)) PROVE r[i] \in ToSet(q)
      <3>1. i - Len(p) \in DOMAIN q /\ r[i] = q[i - Len(p)]
        BY <1>1, <1>2, <2>2
      <3>2. QED
        BY <3>1 DEF ToSet
    <2>3. QED
      BY <2>1, <2>2
  <1>4. \A i \in DOMAIN p : p[i] \in ToSet(r)
    <2>1. \A i \in DOMAIN p : i \in DOMAIN r /\ r[i] = p[i]
      BY <1>1, <1>2
    <2>2. QED
      BY <2>1 DEF ToSet
  <1>5. \A i \in DOMAIN q : q[i] \in ToSet(r)
    <2> SUFFICES ASSUME NEW i \in DOMAIN q PROVE q[i] \in ToSet(r)
      OBVIOUS
    <2>1. i + Len(p) \in DOMAIN r /\ ~(i + Len(p) <= Len(p)) /\ (i + Len(p)) - Len(p) = i
      BY <1>1, <1>2
    <2>2. r[i + Len(p)] = q[i]
      BY <1>1, <1>2, <2>1
    <2>3. QED
      BY <2>1, <2>2 DEF ToSet
  <1>6. ToSet(r) = ToSet(p) \cup ToSet(q)
    BY <1>3, <1>4, <1>5 DEF ToSet
  <1>7. QED
    BY <1>1, <1>6 DEF r

\* Every finite set of numbers can be listed in increasing order.
LEMMA SortedExists ==
    ASSUME NEW S \in SUBSET Nat, IsFiniteSet(S)
    PROVE  \E q \in SetToSeqs(S) : \A i, j \in 1..Cardinality(S) : i < j => q[i] < q[j]
  <1> DEFINE n == Cardinality(S)
             rank(e) == n + 1 - Cardinality(From(S, e))
             q == [i \in 1..n |-> CHOOSE e \in S : rank(e) = i]
  <1>1. n \in Nat
    BY FS_CardinalityType
  <1>2. \A e \in S : Cardinality(From(S, e)) \in 1..n
    BY RankProperties
  <1>3. ASSUME NEW i \in 1..n
        PROVE  q[i] \in S /\ rank(q[i]) = i
    <2>1. n + 1 - i \in Nat \ {0} /\ n + 1 - i <= n
      BY <1>1
    <2>2. \E e \in S : Cardinality(From(S, e)) = n + 1 - i
      BY <2>1, NthNewest
    <2>3. \E e \in S : rank(e) = i
      BY <1>1, <2>2
    <2>4. QED
      BY <2>3
  <1>4. ASSUME NEW k \in S, NEW l \in S, l <= k
        PROVE  rank(l) <= rank(k)
    <2>1. CASE l = k
      BY <1>1, <1>2, <2>1
    <2>2. CASE l < k
      <3>1. /\ Cardinality(From(S, k)) <= Cardinality(Above(S, l))
            /\ Cardinality(From(S, l)) = Cardinality(Above(S, l)) + 1
            /\ Cardinality(Above(S, l)) \in Nat
        BY <2>2, RankProperties
      <3>2. QED
        BY <1>1, <1>2, <3>1
    <2>3. QED
      BY <1>4, <2>1, <2>2
  <1>5. ASSUME NEW i \in 1..n, NEW j \in 1..n, i < j
        PROVE  q[i] < q[j]
    <2>1. q[i] \in S /\ q[j] \in S /\ rank(q[i]) = i /\ rank(q[j]) = j
      BY <1>3
    <2>2. q[j] <= q[i] => rank(q[j]) <= rank(q[i])
      BY <1>4, <2>1
    <2>3. q[i] \in Nat /\ q[j] \in Nat
      BY <2>1
    <2>4. QED
      BY <1>5, <2>1, <2>2, <2>3
  <1>6. q \in SetToSeqs(S)
    <2>1. q \in [1..n -> S]
      BY <1>3
    <2>2. \A i, j \in 1..n : i # j => q[i] # q[j]
      <3>1. \A i, j \in 1..n : rank(q[i]) = i /\ rank(q[j]) = j
        BY <1>3
      <3>2. QED
        BY <3>1
    <2> HIDE DEF q
    <2>3. QED
      BY <2>1, <2>2 DEF SetToSeqs
  <1>7. QED
    BY <1>5, <1>6

LEMMA InSequenceProperties ==
    ASSUME NEW S \in SUBSET Entries
    PROVE  /\ InSequence(S) \in Seq(Nat) /\ ToSet(InSequence(S)) = S
           /\ Len(InSequence(S)) = Cardinality(S) /\ Cardinality(S) \in Nat
  <1> DEFINE q == InSequence(S)
             n == Cardinality(S)
  <1>1. IsFiniteSet(S) /\ S \in SUBSET Nat /\ n \in Nat
    <2>1. IsFiniteSet(Entries)
      BY FS_Interval, StreamAssumption DEF Entries
    <2>2. Entries \in SUBSET Nat
      BY DEF Entries
    <2>3. QED
      BY <2>1, <2>2, FS_Subset, FS_CardinalityType
  <1>2. q \in SetToSeqs(S)
    BY <1>1, SortedExists DEF InSequence, Sequenced
  <1> HIDE DEF q
  <1>3. q \in [1..n -> S] /\ \A i, j \in 1..n : i # j => q[i] # q[j]
    BY <1>2 DEF SetToSeqs
  <1>4. q \in Injection(1..n, S)
    BY <1>3 DEF Injection, IsInjective
  <1>5. IsFiniteSet(1..n) /\ Cardinality(1..n) = n
    BY <1>1, FS_Interval
  <1>6. q \in Surjection(1..n, S)
    BY <1>1, <1>4, <1>5, FS_Injection
  <1>7. q \in Seq(Nat) /\ Len(q) = n
    <2>1. q \in [1..n -> Nat]
      BY <1>1, <1>3
    <2>2. QED
      BY <1>1, <2>1
  <1>8. ToSet(q) = S
    BY <1>3, <1>6 DEF ToSet, Surjection
  <1>9. QED
    BY <1>1, <1>7, <1>8 DEF q

-----------------------------------------------------------------------------
(* The invariant *)

Typed ==
    /\ stored \subseteq Entries /\ landed \subseteq SUBSET Entries
    /\ phase \in [Browsers -> {"off", "replaying", "live"}]
    /\ after \in [Browsers -> Nat] /\ lastId \in [Browsers -> Nat]
    /\ read \in [Browsers -> {"none", "asked", "answered"}]
    /\ rows \in [Browsers -> Seq(Nat)] /\ pending \in [Browsers -> Seq(Nat)]
    /\ stream \in [Browsers -> Seq(Nat)] /\ written \in [Browsers -> SUBSET Nat]
    /\ missed \in [Browsers -> SUBSET Entries] /\ whole \in [Browsers -> BOOLEAN]

\* The controller is subscribed to the fan-out while it has clients.
Fed == fanout <=> Clients # {}

LeftAlone(b) == phase[b] = "off" => stream[b] = <<>> /\ written[b] = {}

\* A live connection has no replay outstanding, and one that replays has.
InStep(b) ==
    /\ phase[b] = "live" => read[b] = "none"
    /\ phase[b] = "replaying" => read[b] # "none" /\ after[b] # NoId

OwedTo(b) ==
    {e \in Announced \cap Wanted[b] : IF after[b] = NoId THEN e \notin missed[b] ELSE e > after[b]}

\* Where an entry owed to a connection can be: a keepalive is not an entry.
Carried(frames) == ToSet(frames) \ {Keepalive}
Reached(b) ==
    IF phase[b] = "live" THEN written[b] ELSE ToSet(rows[b]) \cup ToSet(pending[b])

Covered(b) ==
    whole[b] /\ (phase[b] = "live" \/ (phase[b] = "replaying" /\ read[b] = "answered"))
        => OwedTo(b) \subseteq Reached(b)

One(b) == LeftAlone(b) /\ InStep(b) /\ Covered(b)
SInv == Typed /\ Fed /\ \A b \in Browsers : One(b)

\* Nothing changes for a connection.
Same(b) ==
    /\ phase'[b] = phase[b] /\ after'[b] = after[b] /\ read'[b] = read[b]
    /\ rows'[b] = rows[b] /\ pending'[b] = pending[b] /\ missed'[b] = missed[b]
    /\ whole'[b] = whole[b] /\ stream'[b] = stream[b] /\ written'[b] = written[b]

LEMMA SameStays ==
    ASSUME NEW b \in Browsers, One(b), Same(b), Announced' \subseteq Announced
    PROVE  One(b)'
  <1>1. LeftAlone(b)' /\ InStep(b)'
    BY DEF One, LeftAlone, InStep, Same
  <1>2. OwedTo(b)' \subseteq OwedTo(b) /\ Reached(b)' = Reached(b)
    BY DEF OwedTo, Reached, Same
  <1>3. Covered(b)'
    BY <1>2 DEF One, Covered, Same
  <1>4. QED
    BY <1>1, <1>3 DEF One

LEMMA SetOfNone == ToSet(<<>>) = {} /\ <<>> \in Seq(Nat)
  <1>1. <<>> \in Seq(Nat) /\ DOMAIN <<>> = {}
    BY EmptySeq
  <1>2. QED
    BY <1>1 DEF ToSet

LEMMA CarriedAreNumbers ==
    ASSUME NEW q \in Seq(Nat)
    PROVE  Carried(q) \in SUBSET Nat
  BY ElementOfSeq, LenProperties DEF Carried, ToSet

LEMMA OwedAreEntries ==
    ASSUME SInv, NEW b \in Browsers
    PROVE  Keepalive \notin OwedTo(b)
  BY DEF OwedTo, Announced, SInv, Typed, Entries, Keepalive

\* What #writeClientFrame does to each connection: it stays as it was settled and
\* is written its frames, or it is off and empty.
LEMMA WriteEffect ==
    ASSUME SInv, NEW frames \in [Browsers -> Seq(Nat)],
           NEW settled \in [Browsers -> {"off", "replaying", "live"}],
           \A b \in Browsers : phase[b] = "off" => frames[b] = <<>>,
           \A b \in Clients : settled[b] # "off",
           Write(frames, settled)
    PROVE  /\ phase' \in [Browsers -> {"off", "replaying", "live"}]
           /\ stream' \in [Browsers -> Seq(Nat)] /\ written' \in [Browsers -> SUBSET Nat]
           /\ Fed'
           /\ \A b \in Browsers : LeftAlone(b)'
           /\ \A b \in Browsers :
                \/ phase'[b] = "off"
                \/ /\ phase[b] # "off" /\ phase'[b] = settled[b]
                   /\ written'[b] = written[b] \cup Carried(frames[b])
  <1> DEFINE slow == {b \in Clients : Overflows(b, frames[b])}
  <1>1. /\ phase' = [b \in Browsers |-> IF b \in Clients \ slow THEN settled[b] ELSE "off"]
        /\ stream' = [b \in Browsers |-> IF b \in slow THEN <<>> ELSE stream[b] \o frames[b]]
        /\ written' = [b \in Browsers |-> IF b \in slow THEN {}
                                         ELSE written[b] \cup Carried(frames[b])]
        /\ fanout' = StopFanoutWhenIdle(slow)
    BY DEF Write, Carried
  <1> HIDE DEF slow
  <1>2. \A b \in Browsers : /\ stream[b] \in Seq(Nat) /\ written[b] \in SUBSET Nat
                            /\ frames[b] \in Seq(Nat) /\ settled[b] \in {"off", "replaying", "live"}
    BY DEF SInv, Typed
  <1>3. phase' \in [Browsers -> {"off", "replaying", "live"}]
    BY <1>1, <1>2
  <1>4. stream' \in [Browsers -> Seq(Nat)] /\ written' \in [Browsers -> SUBSET Nat]
    BY <1>1, <1>2, JoinProperties, SetOfNone, CarriedAreNumbers
  <1>5. Fed'
    <2>1. Clients' = Clients \ slow
      BY <1>1 DEF Clients
    <2>2. QED
      BY <1>1, <2>1 DEF StopFanoutWhenIdle, SInv, Fed
  <1>6. ASSUME NEW b \in Browsers
        PROVE  LeftAlone(b)'
    <2>1. CASE b \in slow
      BY <1>1, <2>1 DEF LeftAlone
    <2>2. CASE b \in Clients \ slow
      BY <1>1, <2>2 DEF LeftAlone, Clients
    <2>3. CASE b \notin Clients
      <3>1. stream[b] = <<>> /\ written[b] = {} /\ frames[b] = <<>>
        BY <2>3 DEF SInv, One, LeftAlone, Clients
      <3>2. <<>> \o <<>> = <<>> /\ {} \cup Carried(<<>>) = {}
        BY SetOfNone, ConcatEmptySeq DEF Carried
      <3>3. b \notin slow
        BY <2>3 DEF slow
      <3>4. QED
        BY <1>1, <3>1, <3>2, <3>3 DEF LeftAlone
    <2>4. QED
      BY <2>1, <2>2, <2>3 DEF slow
  <1>7. ASSUME NEW b \in Browsers, phase'[b] # "off"
        PROVE  /\ phase[b] # "off" /\ phase'[b] = settled[b]
               /\ written'[b] = written[b] \cup Carried(frames[b])
    BY <1>1, <1>7 DEF Clients
  <1>8. QED
    BY <1>3, <1>4, <1>5, <1>6, <1>7

-----------------------------------------------------------------------------
(* Every step keeps it *)

LEMMA ConnectStep ==
    ASSUME SInv, NEW b \in Browsers, Connect(b)
    PROVE  SInv'
  <1>1. Announced \subseteq Entries /\ Announced' = Announced
    BY DEF Connect, store, Announced, SInv, Typed
  <1>2. Typed'
    BY <1>1, SetOfNone DEF Connect, store, output, browser, SInv, Typed
  <1>3. phase[b] = "off" /\ phase'[b] # "off" /\ fanout' = TRUE
    BY DEF Connect, SInv, Typed
  <1>4. Fed'
    BY <1>3 DEF Fed, Clients
  <1>5. ASSUME NEW c \in Browsers \ {b}
        PROVE  One(c)'
    <2>1. Same(c)
      BY DEF Connect, Same, output, SInv, Typed
    <2>2. QED
      BY <1>1, <2>1, SameStays DEF SInv
  <1>6. One(b)'
    <2>1. LeftAlone(b)'
      BY <1>3 DEF LeftAlone
    <2>2. /\ after'[b] = lastId[b] /\ missed'[b] = (IF lastId[b] = NoId THEN Announced ELSE {})
          /\ phase'[b] = IF lastId[b] = NoId THEN "live" ELSE "replaying"
          /\ read'[b] = IF lastId[b] = NoId THEN "none" ELSE "asked"
      BY DEF Connect, SInv, Typed
    <2>3. InStep(b)'
      BY <2>2 DEF InStep
    <2>4. Covered(b)'
      BY <1>1, <2>2 DEF Covered, OwedTo
    <2>5. QED
      BY <2>1, <2>3, <2>4 DEF One
  <1>7. QED
    BY <1>2, <1>4, <1>5, <1>6 DEF SInv

LEMMA CloseStep ==
    ASSUME SInv, NEW b \in Browsers, Close(b)
    PROVE  SInv'
  <1>1. Announced' = Announced
    BY DEF Close, store, Announced
  <1>2. Typed'
    BY SetOfNone DEF Close, store, browser, SInv, Typed
  <1>3. phase'[b] = "off" /\ stream'[b] = <<>> /\ written'[b] = {}
    BY DEF Close, SInv, Typed
  <1>4. Fed'
    <2>1. Clients' = Clients \ {b}
      BY DEF Close, Clients, SInv, Typed
    <2>2. QED
      BY <2>1 DEF Close, Fed, StopFanoutWhenIdle, SInv
  <1>5. ASSUME NEW c \in Browsers \ {b}
        PROVE  One(c)'
    <2>1. Same(c)
      BY DEF Close, Same, SInv, Typed
    <2>2. QED
      BY <1>1, <2>1, SameStays DEF SInv
  <1>6. One(b)'
    BY <1>3 DEF One, LeftAlone, InStep, Covered
  <1>7. QED
    BY <1>2, <1>4, <1>5, <1>6 DEF SInv

\* The replay read sees what was announced before it.
LEMMA ReadStep ==
    ASSUME SInv, NEW b \in Browsers, ReadReplay(b) \/ ReplayFails(b)
    PROVE  SInv'
  <1> DEFINE found == {e \in stored \cap Wanted[b] : e > after[b]}
             least == Min({Limit, Cardinality(found)})
             got == SubSeq(InSequence(found), 1, least)
  <1>1. Announced' = Announced /\ Announced \subseteq stored
    BY DEF ReadReplay, ReplayFails, store, Announced
  <1>2. found \in SUBSET Entries
    BY DEF SInv, Typed
  <1>3. /\ InSequence(found) \in Seq(Nat) /\ ToSet(InSequence(found)) = found
        /\ Len(InSequence(found)) = Cardinality(found) /\ Cardinality(found) \in Nat
    BY <1>2, InSequenceProperties
  <1>4. /\ least \in Nat /\ least <= Cardinality(found)
        /\ Cardinality(found) <= Limit => least = Cardinality(found)
    <2> DEFINE n == Cardinality(found)
    <2>1. Limit \in Nat /\ n \in Nat
      BY <1>3, StreamAssumption
    <2> HIDE DEF n
    <2>2. \E x \in {Limit, n} : \A y \in {Limit, n} : x <= y
      BY <2>1
    <2>3. /\ Min({Limit, n}) \in {Limit, n}
          /\ Min({Limit, n}) <= Limit /\ Min({Limit, n}) <= n
      BY <2>2 DEF Min
    <2>4. QED
      BY <2>1, <2>3 DEF n
  <1> HIDE DEF least, found
  <1>5. got \in Seq(Nat) /\ (Cardinality(found) <= Limit => ToSet(got) = found)
    <2>1. \A i \in 1..least : InSequence(found)[i] \in Nat
      BY <1>3, <1>4, ElementOfSeq
    <2>2. got \in Seq(Nat)
      BY <1>4, <2>1, SubSeqProperties
    <2>3. Cardinality(found) <= Limit => got = InSequence(found)
      BY <1>3, <1>4, SubSeqFull
    <2>4. QED
      BY <1>3, <2>2, <2>3
  <1>6. CASE ReadReplay(b)
    <2>1. /\ rows' = [rows EXCEPT ![b] = got]
          /\ whole' = [whole EXCEPT ![b] = Cardinality(found) <= Limit]
          /\ read' = [read EXCEPT ![b] = "answered"] /\ read[b] = "asked"
          /\ UNCHANGED <<store, phase, after, pending, missed, output, fanout, lastId>>
      BY <1>6 DEF ReadReplay, found, least
    <2> HIDE DEF got
    <2>2. Typed'
      BY <1>5, <2>1 DEF SInv, Typed, store, output
    <2>3. Fed'
      BY <2>1 DEF SInv, Fed, Clients
    <2>4. ASSUME NEW c \in Browsers \ {b}
          PROVE  One(c)'
      <3>1. Same(c)
        BY <2>1 DEF Same, output, SInv, Typed
      <3>2. QED
        BY <1>1, <3>1, SameStays DEF SInv
    <2>5. One(b)'
      <3>1. LeftAlone(b)' /\ InStep(b)'
        BY <2>1 DEF SInv, Typed, One, LeftAlone, InStep, output
      <3>2. Covered(b)'
        <4>1. CASE phase[b] = "replaying" /\ Cardinality(found) <= Limit
          <5>1. after[b] # NoId /\ after'[b] = after[b] /\ phase'[b] = "replaying"
            BY <2>1, <4>1 DEF SInv, One, InStep
          <5>2. OwedTo(b)' \subseteq found
            BY <1>1, <5>1 DEF OwedTo, found
          <5>3. rows'[b] = got
            BY <2>1 DEF SInv, Typed
          <5>4. QED
            BY <1>5, <4>1, <5>1, <5>2, <5>3 DEF Covered, Reached
        <4>2. CASE ~(phase[b] = "replaying" /\ Cardinality(found) <= Limit)
          BY <2>1, <4>2 DEF Covered, SInv, Typed, One, InStep
        <4>3. QED
          BY <4>1, <4>2
      <3>3. QED
        BY <3>1, <3>2 DEF One
    <2>6. QED
      BY <2>2, <2>3, <2>4, <2>5 DEF SInv
  <1>7. CASE ReplayFails(b)
    <2>1. /\ rows' = [rows EXCEPT ![b] = <<>>] /\ whole' = [whole EXCEPT ![b] = FALSE]
          /\ read' = [read EXCEPT ![b] = "answered"] /\ read[b] = "asked"
          /\ UNCHANGED <<store, phase, after, pending, missed, output, fanout, browser>>
      BY <1>7 DEF ReplayFails
    <2>2. Typed'
      BY <2>1, SetOfNone DEF SInv, Typed, store, output, browser
    <2>3. Fed'
      BY <2>1 DEF SInv, Fed, Clients
    <2>4. ASSUME NEW c \in Browsers \ {b}
          PROVE  One(c)'
      <3>1. Same(c)
        BY <2>1 DEF Same, output, SInv, Typed
      <3>2. QED
        BY <1>1, <3>1, SameStays DEF SInv
    <2>5. One(b)'
      BY <2>1 DEF SInv, Typed, One, LeftAlone, InStep, Covered, output
    <2>6. QED
      BY <2>2, <2>3, <2>4, <2>5 DEF SInv
  <1>8. QED
    BY <1>6, <1>7

LEMMA AnswerStep ==
    ASSUME SInv, NEW b \in Browsers, AnswerReplay(b)
    PROVE  SInv'
  <1>1. Announced' = Announced /\ read[b] = "answered" /\ read' = [read EXCEPT ![b] = "none"]
    BY DEF AnswerReplay, store, Announced
  <1>2. /\ UNCHANGED <<stored, landed, after, missed, whole, lastId>>
        /\ rows' = [rows EXCEPT ![b] = <<>>]
    BY DEF AnswerReplay, store, browser
  <1>3. CASE phase[b] = "replaying"
    <2> DEFINE frames == Only(b, CatchUp(b))
               settled == [phase EXCEPT ![b] = "live"]
    <2>1. Write(frames, settled) /\ pending' = [pending EXCEPT ![b] = <<>>]
      BY <1>3 DEF AnswerReplay, StillConnected
    <2>2. rows[b] \in Seq(Nat) /\ pending[b] \in Seq(Nat) /\ written[b] \in SUBSET Nat
      BY DEF SInv, Typed
    <2>3. CatchUp(b) \in Seq(Nat) /\ ToSet(CatchUp(b)) = ToSet(rows[b]) \cup ToSet(pending[b])
      BY <2>2, JoinProperties DEF CatchUp
    <2>4. /\ frames \in [Browsers -> Seq(Nat)] /\ frames[b] = CatchUp(b)
          /\ \A c \in Browsers \ {b} : frames[c] = <<>>
      BY <2>3, SetOfNone DEF Only
    <2>5. /\ settled \in [Browsers -> {"off", "replaying", "live"}]
          /\ settled[b] = "live" /\ \A c \in Browsers \ {b} : settled[c] = phase[c]
      BY DEF SInv, Typed
    <2> HIDE DEF frames, settled
    <2>6. \A c \in Browsers : phase[c] = "off" => frames[c] = <<>>
      BY <1>3, <2>4
    <2>7. \A c \in Clients : settled[c] # "off"
      BY <2>5 DEF Clients
    <2>8. /\ phase' \in [Browsers -> {"off", "replaying", "live"}]
          /\ stream' \in [Browsers -> Seq(Nat)] /\ written' \in [Browsers -> SUBSET Nat]
          /\ Fed' /\ \A c \in Browsers : LeftAlone(c)'
          /\ \A c \in Browsers :
                \/ phase'[c] = "off"
                \/ /\ phase[c] # "off" /\ phase'[c] = settled[c]
                   /\ written'[c] = written[c] \cup Carried(frames[c])
      BY <2>1, <2>4, <2>5, <2>6, <2>7, WriteEffect
    <2>9. Typed'
      BY <1>1, <1>2, <2>1, <2>8, SetOfNone DEF SInv, Typed
    <2>10. ASSUME NEW c \in Browsers, phase'[c] = "off"
           PROVE  InStep(c)' /\ Covered(c)'
      BY <2>10 DEF InStep, Covered
    <2>11. ASSUME NEW c \in Browsers \ {b}, phase'[c] # "off"
           PROVE  InStep(c)' /\ Covered(c)'
      <3>1. phase'[c] = phase[c] /\ written'[c] = written[c] \cup Carried(<<>>)
        BY <2>4, <2>5, <2>8, <2>11 DEF SInv, Typed
      <3>2. written'[c] = written[c]
        BY <3>1, SetOfNone DEF Carried
      <3>3. read'[c] = read[c] /\ pending'[c] = pending[c] /\ rows'[c] = rows[c]
        BY <1>1, <1>2, <2>1 DEF SInv, Typed
      <3>4. OwedTo(c)' = OwedTo(c) /\ Reached(c)' = Reached(c)
        BY <1>1, <1>2, <3>1, <3>2, <3>3 DEF OwedTo, Reached
      <3>5. InStep(c) /\ Covered(c)
        BY DEF SInv, One
      <3>6. InStep(c)'
        BY <1>2, <3>1, <3>3, <3>5 DEF InStep
      <3>7. Covered(c)'
        BY <1>2, <3>1, <3>3, <3>4, <3>5 DEF Covered
      <3>8. QED
        BY <3>6, <3>7
    <2>12. ASSUME phase'[b] # "off"
           PROVE  InStep(b)' /\ Covered(b)'
      <3>1. phase'[b] = "live" /\ written'[b] = written[b] \cup Carried(CatchUp(b)) /\ read'[b] = "none"
        BY <1>1, <2>4, <2>5, <2>8, <2>12 DEF SInv, Typed
      <3>2. (ToSet(rows[b]) \cup ToSet(pending[b])) \ {Keepalive} \subseteq written'[b]
        BY <2>3, <3>1 DEF Carried
      <3>3. whole[b] => OwedTo(b) \subseteq ToSet(rows[b]) \cup ToSet(pending[b])
        BY <1>1, <1>3 DEF SInv, One, Covered, Reached
      <3>4. OwedTo(b)' = OwedTo(b)
        BY <1>1, <1>2 DEF OwedTo
      <3>5. InStep(b)'
        BY <3>1 DEF InStep
      <3>6. Covered(b)'
        BY <1>2, <3>1, <3>2, <3>3, <3>4, OwedAreEntries DEF Covered, Reached
      <3>7. QED
        BY <3>5, <3>6
    <2>13. QED
      BY <2>8, <2>9, <2>10, <2>11, <2>12 DEF SInv, One
  <1>4. CASE phase[b] # "replaying"
    <2>1. UNCHANGED <<phase, pending, stream, written, fanout>>
      BY <1>4 DEF AnswerReplay, StillConnected, output
    <2>2. Typed'
      BY <1>1, <1>2, <2>1, SetOfNone DEF SInv, Typed
    <2>3. Fed'
      BY <2>1 DEF SInv, Fed, Clients
    <2>4. ASSUME NEW c \in Browsers \ {b}
          PROVE  One(c)'
      <3>1. Same(c)
        BY <1>1, <1>2, <2>1 DEF Same, SInv, Typed
      <3>2. QED
        BY <1>1, <3>1, SameStays DEF SInv
    <2>5. One(b)'
      <3>1. phase[b] = "off"
        BY <1>1, <1>4 DEF SInv, Typed, One, InStep
      <3>2. QED
        BY <2>1, <3>1 DEF SInv, One, LeftAlone, InStep, Covered
    <2>6. QED
      BY <2>2, <2>3, <2>4, <2>5 DEF SInv
  <1>5. QED
    BY <1>3, <1>4

LEMMA LandStep ==
    ASSUME SInv, NEW S \in SUBSET Entries, Land(S)
    PROVE  SInv'
  <1>1. /\ stored' = stored \cup S /\ landed' = landed \cup {S}
        /\ UNCHANGED <<client, output, fanout, browser>>
    BY DEF Land
  <1>2. Announced' \subseteq Announced
    BY <1>1 DEF Announced
  <1>3. Typed'
    BY <1>1 DEF SInv, Typed, client, output, browser
  <1>4. Fed'
    BY <1>1 DEF SInv, Fed, Clients, client
  <1>5. \A b \in Browsers : Same(b)
    BY <1>1 DEF Same, client, output
  <1>6. QED
    BY <1>2, <1>3, <1>4, <1>5, SameStays DEF SInv

\* The events of a batch reach every connection there is, or wait for its replay.
LEMMA AnnounceStep ==
    ASSUME SInv, NEW S \in landed, Announce(S)
    PROVE  SInv'
  <1> DEFINE events == [b \in Browsers |-> IF b \in Clients /\ fanout
                                           THEN InSequence(S \cap Wanted[b]) ELSE <<>>]
             frames == [b \in Browsers |-> IF HeldBack(b) THEN <<>> ELSE events[b]]
  <1>1. /\ landed' = landed \ {S}
        /\ pending' = [b \in Browsers |-> IF HeldBack(b) THEN pending[b] \o events[b]
                                          ELSE pending[b]]
        /\ Write(frames, phase)
        /\ UNCHANGED <<stored, ordered, after, read, rows, missed, whole, browser>>
    BY DEF Announce
  <1>2. S \in SUBSET Entries /\ Announced' \subseteq Announced \cup S
    BY <1>1 DEF SInv, Typed, Announced
  <1>3. ASSUME NEW b \in Browsers
        PROVE  /\ events[b] \in Seq(Nat)
               /\ phase[b] # "off" => ToSet(events[b]) = S \cap Wanted[b]
               /\ phase[b] = "off" => events[b] = <<>>
    <2>1. S \cap Wanted[b] \in SUBSET Entries
      BY <1>2
    <2>2. /\ InSequence(S \cap Wanted[b]) \in Seq(Nat)
          /\ ToSet(InSequence(S \cap Wanted[b])) = S \cap Wanted[b]
      BY <2>1, InSequenceProperties
    <2>3. b \in Clients => fanout
      BY DEF SInv, Fed
    <2>4. QED
      BY <2>2, <2>3, SetOfNone DEF Clients
  <1> HIDE DEF events
  <1>4. /\ frames \in [Browsers -> Seq(Nat)]
        /\ \A b \in Browsers : phase[b] = "off" => frames[b] = <<>>
        /\ \A b \in Browsers : frames[b] = IF HeldBack(b) THEN <<>> ELSE events[b]
    BY <1>3, SetOfNone
  <1> HIDE DEF frames
  <1>5. phase \in [Browsers -> {"off", "replaying", "live"}] /\ \A b \in Clients : phase[b] # "off"
    BY DEF SInv, Typed, Clients
  <1>6. /\ phase' \in [Browsers -> {"off", "replaying", "live"}]
        /\ stream' \in [Browsers -> Seq(Nat)] /\ written' \in [Browsers -> SUBSET Nat]
        /\ Fed' /\ \A b \in Browsers : LeftAlone(b)'
        /\ \A b \in Browsers :
              \/ phase'[b] = "off"
              \/ /\ phase[b] # "off" /\ phase'[b] = phase[b]
                 /\ written'[b] = written[b] \cup Carried(frames[b])
    BY <1>1, <1>4, <1>5, WriteEffect
  <1>7. Typed'
    <2>1. pending' \in [Browsers -> Seq(Nat)]
      BY <1>1, <1>3, JoinProperties DEF SInv, Typed
    <2>2. landed' \subseteq SUBSET Entries
      BY <1>1 DEF SInv, Typed
    <2>3. QED
      BY <1>1, <1>6, <2>1, <2>2 DEF SInv, Typed, browser
  <1>8. ASSUME NEW b \in Browsers
        PROVE  InStep(b)' /\ Covered(b)'
    <2>1. CASE phase'[b] = "off"
      BY <2>1 DEF InStep, Covered
    <2>2. CASE phase'[b] # "off"
      <3>1. /\ phase[b] # "off" /\ phase'[b] = phase[b]
            /\ written'[b] = written[b] \cup Carried(frames[b])
        BY <1>6, <2>2
      <3>2. /\ pending[b] \in Seq(Nat) /\ frames[b] \in Seq(Nat)
            /\ events[b] \in Seq(Nat) /\ ToSet(events[b]) = S \cap Wanted[b]
        BY <1>3, <1>4, <3>1 DEF SInv, Typed
      <3>3. OwedTo(b)' \subseteq OwedTo(b) \cup ToSet(events[b])
        <4>1. after'[b] = after[b] /\ missed'[b] = missed[b]
          BY <1>1
        <4>2. \A e \in Announced' \cap Wanted[b] : e \in Announced \/ e \in ToSet(events[b])
          BY <1>2, <3>2
        <4>3. QED
          BY <4>1, <4>2 DEF OwedTo
      <3>4. InStep(b)'
        BY <1>1, <3>1 DEF SInv, One, InStep
      <3>5. Keepalive \notin OwedTo(b)'
        <4>1. Announced' \subseteq Entries
          BY <1>2 DEF SInv, Typed, Announced
        <4>2. QED
          BY <4>1 DEF OwedTo, Entries, Keepalive
      <3>6. CASE phase[b] = "live"
        <4>1. ~HeldBack(b) /\ frames[b] = events[b]
          BY <1>4, <3>6 DEF HeldBack
        <4>2. written'[b] = written[b] \cup Carried(events[b])
          BY <3>1, <4>1
        <4>3. whole[b] => OwedTo(b) \subseteq written[b]
          <5>1. Covered(b) /\ Reached(b) = written[b]
            BY <3>6 DEF SInv, One, Reached
          <5>2. QED
            BY <3>6, <5>1 DEF Covered
        <4>4. Covered(b)'
          BY <1>1, <3>1, <3>3, <3>6, <3>5, <4>2, <4>3 DEF Covered, Reached, Carried
        <4>5. QED
          BY <3>4, <4>4
      <3>7. CASE phase[b] = "replaying"
        <4>1. HeldBack(b) /\ pending'[b] = pending[b] \o events[b]
          BY <1>1, <3>7 DEF HeldBack
        <4>2. ToSet(pending'[b]) = ToSet(pending[b]) \cup ToSet(events[b])
          BY <3>2, <4>1, JoinProperties
        <4>3. whole[b] /\ read[b] = "answered" =>
                  OwedTo(b) \subseteq ToSet(rows[b]) \cup ToSet(pending[b])
          BY <3>7 DEF SInv, One, Covered, Reached
        <4>4. Covered(b)'
          BY <1>1, <3>1, <3>3, <3>7, <4>2, <4>3 DEF Covered, Reached
        <4>5. QED
          BY <3>4, <4>4
      <3>8. QED
        BY <1>5, <3>1, <3>6, <3>7
    <2>3. QED
      BY <2>1, <2>2
  <1>9. QED
    BY <1>6, <1>7, <1>8 DEF SInv, One

LEMMA TickStep ==
    ASSUME SInv, Tick
    PROVE  SInv'
  <1> DEFINE frames == [b \in Browsers |-> IF b \in Clients THEN <<Keepalive>> ELSE <<>>]
  <1>1. /\ Write(frames, phase)
        /\ UNCHANGED <<store, after, read, rows, pending, missed, whole, browser>>
    BY DEF Tick
  <1>2. Announced' = Announced
    BY <1>1 DEF store, Announced
  <1>3. <<Keepalive>> \in Seq(Nat)
    BY DEF Keepalive
  <1>4. /\ frames \in [Browsers -> Seq(Nat)]
        /\ \A b \in Browsers : phase[b] = "off" => frames[b] = <<>>
    BY <1>3, SetOfNone DEF Clients
  <1> HIDE DEF frames
  <1>5. phase \in [Browsers -> {"off", "replaying", "live"}] /\ \A b \in Clients : phase[b] # "off"
    BY DEF SInv, Typed, Clients
  <1>6. /\ phase' \in [Browsers -> {"off", "replaying", "live"}]
        /\ stream' \in [Browsers -> Seq(Nat)] /\ written' \in [Browsers -> SUBSET Nat]
        /\ Fed' /\ \A b \in Browsers : LeftAlone(b)'
        /\ \A b \in Browsers :
              \/ phase'[b] = "off"
              \/ /\ phase[b] # "off" /\ phase'[b] = phase[b]
                 /\ written'[b] = written[b] \cup Carried(frames[b])
    BY <1>1, <1>4, <1>5, WriteEffect
  <1>7. Typed'
    BY <1>1, <1>6 DEF SInv, Typed, store, browser
  <1>8. ASSUME NEW b \in Browsers
        PROVE  InStep(b)' /\ Covered(b)'
    <2>1. CASE phase'[b] = "off"
      BY <2>1 DEF InStep, Covered
    <2>2. CASE phase'[b] # "off"
      <3>1. phase'[b] = phase[b] /\ written'[b] = written[b] \cup Carried(frames[b])
        BY <1>6, <2>2
      <3>2. written[b] \subseteq written'[b]
        BY <3>1
      <3>3. OwedTo(b)' = OwedTo(b)
        BY <1>1, <1>2 DEF OwedTo
      <3>4. Reached(b) \subseteq Reached(b)'
        BY <1>1, <3>1, <3>2 DEF Reached
      <3>5. InStep(b)'
        BY <1>1, <3>1 DEF SInv, One, InStep
      <3>6. Covered(b)'
        BY <1>1, <3>1, <3>3, <3>4 DEF SInv, One, Covered
      <3>7. QED
        BY <3>5, <3>6
    <2>3. QED
      BY <2>1, <2>2
  <1>9. QED
    BY <1>6, <1>7, <1>8 DEF SInv, One

LEMMA ReceiveStep ==
    ASSUME SInv, NEW b \in Browsers, Receive(b)
    PROVE  SInv'
  <1>1. /\ stream[b] # <<>> /\ stream' = [stream EXCEPT ![b] = Tail(stream[b])]
        /\ UNCHANGED <<store, client, written, fanout>>
    BY DEF Receive, SInv, Typed
  <1>2. stream[b] \in Seq(Nat)
    BY DEF SInv, Typed
  <1>3. Head(stream[b]) \in Nat /\ Tail(stream[b]) \in Seq(Nat)
    BY <1>1, <1>2, HeadTailProperties
  <1>4. lastId' \in [Browsers -> Nat]
    BY <1>3 DEF Receive, browser, SInv, Typed
  <1>5. Typed'
    BY <1>1, <1>3, <1>4 DEF SInv, Typed, store, client
  <1>6. Fed'
    BY <1>1 DEF SInv, Fed, Clients, client
  <1>7. Announced' = Announced
    BY <1>1 DEF store, Announced
  <1>8. ASSUME NEW c \in Browsers \ {b}
        PROVE  One(c)'
    <2>1. Same(c)
      BY <1>1 DEF Same, client, SInv, Typed
    <2>2. QED
      BY <1>7, <2>1, SameStays DEF SInv
  <1>9. One(b)'
    <2>1. phase[b] # "off"
      BY <1>1 DEF SInv, One, LeftAlone
    <2>2. QED
      BY <1>1, <1>7, <2>1 DEF SInv, One, LeftAlone, InStep, Covered, OwedTo, Reached, client
  <1>10. QED
    BY <1>5, <1>6, <1>8, <1>9 DEF SInv

LEMMA Invariant ==
    /\ Init => SInv
    /\ SInv /\ [Next]_vars => SInv'
  <1>1. ASSUME Init PROVE SInv
    <2>1. Typed
      BY <1>1, SetOfNone DEF Init, Typed, NoId
    <2>2. Fed
      BY <1>1 DEF Init, Fed, Clients
    <2>3. QED
      BY <1>1, <2>1, <2>2 DEF Init, SInv, One, LeftAlone, InStep, Covered
  <1>2. ASSUME SInv, UNCHANGED <<store, client, output, fanout, browser>> PROVE SInv'
    <2>1. Announced' = Announced /\ \A b \in Browsers : Same(b)
      BY <1>2 DEF store, client, output, Announced, Same
    <2>2. Typed' /\ Fed'
      BY <1>2 DEF SInv, Typed, Fed, Clients, store, client, output, browser
    <2>3. QED
      BY <1>2, <2>1, <2>2, SameStays DEF SInv
  <1>3. ASSUME SInv, UNCHANGED vars PROVE SInv'
    BY <1>2, <1>3 DEF vars
  <1>4. ASSUME SInv, NEW b \in Browsers, SubscribeFails(b) PROVE SInv'
    BY <1>3, <1>4 DEF SubscribeFails
  <1>5. ASSUME SInv, Next PROVE SInv'
    BY <1>4, <1>5, ConnectStep, CloseStep, ReadStep, AnswerStep, LandStep, AnnounceStep, TickStep,
       ReceiveStep DEF Next
  <1>6. QED
    BY <1>1, <1>3, <1>5

-----------------------------------------------------------------------------
(* The theorems *)

\* "A client is subscribed before its replay read begins so flushes cannot disappear in
\* the gap": whatever lands, is announced, fails or disconnects, in any order.
THEOREM NothingIsMissed == Spec => []NothingInTheGap
  <1>1. ASSUME SInv, NEW b \in Browsers, phase[b] = "live", whole[b],
               NEW e \in Announced \cap Wanted[b],
               IF after[b] = NoId THEN e \notin missed[b] ELSE e > after[b]
        PROVE  e \in written[b]
    <2>1. e \in OwedTo(b)
      BY <1>1 DEF OwedTo
    <2>2. OwedTo(b) \subseteq written[b]
      <3>1. Covered(b) /\ Reached(b) = written[b]
        BY <1>1 DEF SInv, One, Reached
      <3>2. QED
        BY <1>1, <3>1 DEF Covered
    <2>3. QED
      BY <2>1, <2>2
  <1>2. SInv => NothingInTheGap
    BY <1>1 DEF NothingInTheGap
  <1>3. QED
    BY <1>2, Invariant, PTL DEF Spec

\* A replay that is answered, a flush or a keepalive finds a closed client gone.
THEOREM ClosedIsLeftAlone == Spec => []NothingAfterClose
  <1>1. SInv => NothingAfterClose
    BY DEF SInv, One, LeftAlone, NothingAfterClose
  <1>2. QED
    BY <1>1, Invariant, PTL DEF Spec

-----------------------------------------------------------------------------
(* LiveUpdates: the inductive invariant *)

Standing == {"absent", "idle", "writing", "confirming", "posting", "releasing", "gone"}
Modes == {"connecting", "live", "polling"}
TabRecord ==
    [pc : Standing, mode : Modes, source : {"none", "opening", "subscribed", "open", "broken"},
     feed : BOOLEAN, got : BOOLEAN, lost : BOOLEAN,
     beat : Nat \cup {Off}, failover : Nat \cup {Off}, dirty : BOOLEAN, shown : Nat, owed : Nat]
ChannelMessage == [type : {"heartbeat"}, from : Tabs, mode : Modes] \cup [type : {"flush"}]

LiveTyped ==
    /\ tab \in [Tabs -> TabRecord]
    /\ inbox \in [Tabs -> Seq(ChannelMessage)]
    /\ lease \in Tabs \cup {None}
    /\ left \in Nat /\ flushed \in Nat
    /\ budget \in [Events -> Nat]

\* A tab between callbacks has a stream or a failover timer; one that posts its first
\* heartbeat has opened the stream, and a heartbeat timer runs beside a stream only.
Reachable(r) ==
    /\ r.pc = "idle" => r.source # "none" \/ r.failover # Off
    /\ r.pc = "posting" => r.source # "none"
    /\ r.beat # Off => r.source # "none"

LiveInv == LiveTyped /\ \A t \in Tabs : Reachable(tab[t])

LEMMA ChangeModeEffect ==
    ASSUME NEW r \in TabRecord, NEW m \in Modes, flushed \in Nat, NEW c, c = ChangeMode(r, m)
    PROVE  /\ c \in TabRecord
           /\ c.pc = r.pc /\ c.source = r.source /\ c.beat = r.beat /\ c.failover = r.failover
  BY DEF ChangeMode, TabRecord

LEMMA StopLeaderEffect ==
    ASSUME NEW r \in TabRecord, NEW c, c = StopLeader(r)
    PROVE  c \in TabRecord /\ c.pc = r.pc /\ c.beat = Off /\ c.failover = r.failover
  BY DEF StopLeader, TabRecord, Off

LEMMA OpenSourceEffect ==
    ASSUME NEW r \in TabRecord, flushed \in Nat, NEW c, c = OpenSource(r)
    PROVE  c \in TabRecord /\ c.pc = r.pc /\ c.source = "opening" /\ c.beat = r.beat
  <1>1. /\ ChangeMode(r, "connecting") \in TabRecord
        /\ ChangeMode(r, "connecting").pc = r.pc
        /\ ChangeMode(r, "connecting").beat = r.beat
    BY ChangeModeEffect DEF Modes
  <1>2. PICK d : d = ChangeMode(r, "connecting")
    OBVIOUS
  <1>3. d \in TabRecord /\ d.pc = r.pc /\ d.beat = r.beat
        /\ c = [d EXCEPT !.source = "opening", !.failover = Off]
    BY <1>1, <1>2 DEF OpenSource
  <1>4. QED
    BY <1>3 DEF TabRecord, Off

LEMMA ReadLeaseEffect ==
    ASSUME left \in Nat, NEW t \in Tabs, NEW r \in TabRecord, r.pc # "posting",
           r.beat # Off => r.source # "none",
           NEW c, c = ReadLease(t, r)
    PROVE  c \in TabRecord /\ Reachable(c)
  <1>1. CASE lease \notin {None, t} /\ left > 0
    <2>1. c = [r EXCEPT !.pc = "idle", !.failover = left] /\ left # Off
      BY <1>1 DEF ReadLease, UntilExpiry, Off
    <2>2. QED
      BY <2>1 DEF TabRecord, Standing, Reachable
  <1>2. CASE ~(lease \notin {None, t} /\ left > 0)
    <2>1. c = [r EXCEPT !.pc = "writing", !.failover = Off]
      BY <1>2 DEF ReadLease
    <2>2. QED
      BY <2>1 DEF TabRecord, Standing, Reachable
  <1>3. QED
    BY <1>1, <1>2

\* What a step posts and writes to the lease keeps its type.
LEMMA HappenTyped ==
    ASSUME budget \in [Events -> Nat], NEW S, Happen(S)
    PROVE  budget' \in [Events -> Nat]
  <1>1. \A e \in Events : budget[e] \in Nat /\ (e \in S => budget[e] > 0)
    BY DEF Happen
  <1>2. budget' = [e \in Events |-> IF e \in S THEN budget[e] - 1 ELSE budget[e]]
    BY DEF Happen
  <1>3. QED
    BY <1>1, <1>2

LEMMA PostTyped ==
    ASSUME inbox \in [Tabs -> Seq(ChannelMessage)], NEW t \in Tabs,
           NEW m \in ChannelMessage, Post(t, m)
    PROVE  inbox' \in [Tabs -> Seq(ChannelMessage)]
  BY AppendProperties DEF Post

LEMMA PostHeartbeatTyped ==
    ASSUME LiveTyped, NEW t \in Tabs, NEW m \in Modes, NEW S, PostHeartbeat(t, m, S)
    PROVE  /\ inbox' \in [Tabs -> Seq(ChannelMessage)]
           /\ lease' \in Tabs \cup {None} /\ left' \in Nat
           /\ budget' \in [Events -> Nat]
  <1>1. [type |-> "heartbeat", from |-> t, mode |-> m] \in ChannelMessage
    BY DEF ChannelMessage
  <1>2. budget' \in [Events -> Nat]
    BY HappenTyped DEF LiveTyped, PostHeartbeat
  <1>3. QED
    BY <1>1, <1>2, PostTyped, LiveAssumption DEF LiveTyped, PostHeartbeat

LEMMA PostModeTyped ==
    ASSUME LiveTyped, NEW t \in Tabs, NEW m \in Modes, NEW S, PostMode(t, m, S)
    PROVE  /\ inbox' \in [Tabs -> Seq(ChannelMessage)]
           /\ lease' \in Tabs \cup {None} /\ left' \in Nat
           /\ budget' \in [Events -> Nat]
  <1>1. CASE tab[t].beat # Off
    BY <1>1, PostHeartbeatTyped DEF PostMode
  <1>2. CASE tab[t].beat = Off
    BY <1>2, HappenTyped DEF PostMode, LiveTyped
  <1>3. QED
    BY <1>1, <1>2

\* A step of one tab.
LEMMA TabMoves ==
    ASSUME LiveInv, NEW t \in Tabs, NEW r \in TabRecord, Reachable(r),
           tab' = [tab EXCEPT ![t] = r],
           inbox' \in [Tabs -> Seq(ChannelMessage)], lease' \in Tabs \cup {None},
           left' \in Nat, flushed' \in Nat, budget' \in [Events -> Nat]
    PROVE  LiveInv'
  <1>1. /\ tab \in [Tabs -> TabRecord]
        /\ \A u \in Tabs : Reachable(tab[u])
    BY DEF LiveInv, LiveTyped
  <1>2. tab' \in [Tabs -> TabRecord]
    BY <1>1
  <1>3. tab'[t] = r /\ \A u \in Tabs \ {t} : tab'[u] = tab[u]
    BY <1>1
  <1>4. \A u \in Tabs : Reachable(tab'[u])
    BY <1>1, <1>3
  <1>5. LiveTyped'
    BY <1>2 DEF LiveTyped
  <1>6. QED
    BY <1>4, <1>5 DEF LiveInv, Reachable

LEMMA TabOf ==
    ASSUME LiveInv, NEW t \in Tabs
    PROVE  /\ tab[t] \in TabRecord /\ Reachable(tab[t])
           /\ tab \in [Tabs -> TabRecord] /\ inbox \in [Tabs -> Seq(ChannelMessage)]
           /\ lease \in Tabs \cup {None} /\ left \in Nat /\ flushed \in Nat
           /\ budget \in [Events -> Nat]
           /\ LeaderTimeout \in Nat /\ HeartbeatInterval \in Nat
  BY LiveAssumption DEF LiveInv, LiveTyped

-----------------------------------------------------------------------------
(* Election *)

LEMMA OpenTabStep ==
    ASSUME LiveInv, NEW t \in Tabs, OpenTab(t)
    PROVE  LiveInv'
  <1>1. PICK r : r = [NewTab EXCEPT !.shown = flushed]
    OBVIOUS
  <1>2. r \in TabRecord /\ r.pc = "absent" /\ r.beat = Off
    BY <1>1, TabOf DEF NewTab, TabRecord, Standing, Modes
  <1>3. PICK c : c = ReadLease(t, r)
    OBVIOUS
  <1>4. c \in TabRecord /\ Reachable(c)
    BY <1>2, <1>3, TabOf, ReadLeaseEffect
  <1>5. tab' = [tab EXCEPT ![t] = c]
    BY <1>1, <1>3 DEF OpenTab
  <1>6. QED
    BY <1>4, <1>5, TabOf, TabMoves DEF OpenTab

LEMMA ElectStep ==
    ASSUME LiveInv, NEW t \in Tabs, Elect(t)
    PROVE  LiveInv'
  <1>1. PICK c : c = ReadLease(t, tab[t])
    OBVIOUS
  <1>2. tab[t].pc = "idle" /\ tab[t] \in TabRecord /\ Reachable(tab[t])
    BY TabOf DEF Elect, Idle
  <1>3. c \in TabRecord /\ Reachable(c)
    BY <1>1, <1>2, TabOf, ReadLeaseEffect DEF Reachable
  <1>4. tab' = [tab EXCEPT ![t] = c]
    BY <1>1, TabOf DEF Elect
  <1>5. QED
    BY <1>3, <1>4, TabOf, TabMoves DEF Elect

LEMMA WriteLeaseStep ==
    ASSUME LiveInv, NEW t \in Tabs, WriteLease(t)
    PROVE  LiveInv'
  <1>1. PICK c : c = [tab[t] EXCEPT !.pc = "confirming"]
    OBVIOUS
  <1>2. c \in TabRecord /\ Reachable(c)
    BY <1>1, TabOf DEF TabRecord, Standing, Reachable
  <1>3. tab' = [tab EXCEPT ![t] = c]
    BY <1>1, TabOf DEF WriteLease
  <1>4. QED
    BY <1>2, <1>3, TabOf, TabMoves DEF WriteLease

LEMMA LeaseDeniedStep ==
    ASSUME LiveInv, NEW t \in Tabs, LeaseDenied(t)
    PROVE  LiveInv'
  <1>1. PICK d : d = IF tab[t].source # "none" THEN tab[t] ELSE OpenSource(tab[t])
    OBVIOUS
  <1>2. PICK c : c = [d EXCEPT !.pc = "idle"]
    OBVIOUS
  <1>3. d \in TabRecord /\ d.source # "none"
    BY <1>1, TabOf, OpenSourceEffect
  <1>4. c \in TabRecord /\ Reachable(c)
    BY <1>2, <1>3 DEF TabRecord, Standing, Reachable
  <1>5. tab' = [tab EXCEPT ![t] = c]
    BY <1>1, <1>2, TabOf DEF LeaseDenied
  <1>6. budget' \in [Events -> Nat]
    BY TabOf, HappenTyped DEF LeaseDenied
  <1>7. QED
    BY <1>4, <1>5, <1>6, TabOf, TabMoves DEF LeaseDenied

LEMMA ConfirmLeaseStep ==
    ASSUME LiveInv, NEW t \in Tabs, ConfirmLease(t)
    PROVE  LiveInv'
  <1>1. PICK d : d = OpenSource(tab[t])
    OBVIOUS
  <1>2. d \in TabRecord /\ d.source = "opening"
    BY <1>1, TabOf, OpenSourceEffect
  <1>3. PICK c : c = IF lease # t THEN [tab[t] EXCEPT !.pc = "idle", !.failover = LeaderTimeout]
                     ELSE IF tab[t].source # "none" THEN [tab[t] EXCEPT !.pc = "idle"]
                     ELSE [d EXCEPT !.pc = "posting"]
    OBVIOUS
  <1>4. LeaderTimeout # Off /\ LeaderTimeout \in Nat
    BY LiveAssumption DEF Off
  <1>5. c \in TabRecord /\ Reachable(c)
    <2>1. CASE lease # t
      BY <1>3, <1>4, <2>1, TabOf DEF TabRecord, Standing, Reachable
    <2>2. CASE lease = t /\ tab[t].source # "none"
      BY <1>3, <2>2, TabOf DEF TabRecord, Standing, Reachable
    <2>3. CASE lease = t /\ tab[t].source = "none"
      BY <1>2, <1>3, <2>3 DEF TabRecord, Standing, Reachable
    <2>4. QED
      BY <2>1, <2>2, <2>3
  <1>6. tab' = [tab EXCEPT ![t] = c]
    BY <1>1, <1>3, TabOf DEF ConfirmLease, LostRace
  <1>7. QED
    BY <1>5, <1>6, TabOf, TabMoves DEF ConfirmLease

LEMMA HeartbeatStep ==
    ASSUME LiveInv, NEW t \in Tabs, FirstHeartbeat(t) \/ Heartbeat(t)
    PROVE  LiveInv'
  <1>1. PICK c : c = [tab[t] EXCEPT !.pc = "idle", !.beat = HeartbeatInterval]
    OBVIOUS
  <1>2. tab[t].source # "none" /\ tab[t].pc \in {"idle", "posting"}
    BY TabOf DEF FirstHeartbeat, Heartbeat, Idle, Reachable, Off
  <1>3. c \in TabRecord /\ Reachable(c)
    BY <1>1, <1>2, TabOf DEF TabRecord, Standing, Reachable
  <1>4. tab' = [tab EXCEPT ![t] = c]
    <2>1. CASE FirstHeartbeat(t)
      BY <1>1, <2>1, TabOf DEF FirstHeartbeat, TabRecord
    <2>2. CASE Heartbeat(t)
      <3>1. c = [tab[t] EXCEPT !.beat = HeartbeatInterval]
        BY <1>1, <2>2, TabOf DEF Heartbeat, Idle, TabRecord
      <3>2. QED
        BY <2>2, <3>1, TabOf DEF Heartbeat
    <2>3. QED
      BY <2>1, <2>2
  <1>5. tab[t].mode \in Modes
    BY TabOf DEF TabRecord
  <1>6. /\ inbox' \in [Tabs -> Seq(ChannelMessage)]
        /\ lease' \in Tabs \cup {None} /\ left' \in Nat
        /\ budget' \in [Events -> Nat] /\ flushed' = flushed
    BY <1>5, PostHeartbeatTyped DEF FirstHeartbeat, Heartbeat, LiveInv
  <1>7. QED
    BY <1>3, <1>4, <1>6, TabOf, TabMoves

LEMMA MessageStep ==
    ASSUME LiveInv, NEW t \in Tabs, Message(t)
    PROVE  LiveInv'
  <1>1. PICK m : m = Head(inbox[t])
    OBVIOUS
  <1>2. m \in ChannelMessage /\ Tail(inbox[t]) \in Seq(ChannelMessage)
    BY <1>1, TabOf, HeadTailProperties DEF Message
  <1>3. inbox' \in [Tabs -> Seq(ChannelMessage)]
    BY <1>2, TabOf DEF Message
  <1>4. PICK r : r = IF StepsDown(t) THEN StopLeader(tab[t]) ELSE tab[t]
    OBVIOUS
  <1>5. r \in TabRecord /\ r.pc = "idle" /\ (r.beat # Off => r.source # "none")
    BY <1>4, TabOf, StopLeaderEffect DEF Message, Idle, Reachable
  <1>6. CASE m.type = "flush"
    <2>1. PICK c : c = [tab[t] EXCEPT !.dirty = @ \/ tab[t].mode = "live"]
      OBVIOUS
    <2>2. c \in TabRecord /\ Reachable(c)
      BY <2>1, TabOf DEF TabRecord, Reachable
    <2>3. tab' = [tab EXCEPT ![t] = [tab[t] EXCEPT !.dirty = @ \/ tab[t].mode = "live"]]
      BY <1>1, <1>6 DEF Message
    <2>5. tab' = [tab EXCEPT ![t] = c]
      BY <2>1, <2>3
    <2>4. QED
      BY <1>3, <2>2, <2>5, TabOf, TabMoves DEF Message
  <1>7. CASE m.type # "flush"
    <2>1. m.mode \in Modes
      BY <1>2, <1>7 DEF ChannelMessage
    <2>2. PICK d : d = ChangeMode(r, m.mode)
      OBVIOUS
    <2>3. /\ d \in TabRecord /\ d.pc = "idle" /\ d.source = r.source /\ d.beat = r.beat
      BY <1>5, <2>1, <2>2, TabOf, ChangeModeEffect
    <2>4. PICK c : c = [d EXCEPT !.failover = LeaderTimeout]
      OBVIOUS
    <2>5. c \in TabRecord /\ Reachable(c)
      <3>1. LeaderTimeout \in Nat /\ LeaderTimeout # Off
        BY LiveAssumption DEF Off
      <3>2. c \in TabRecord /\ c.pc = d.pc /\ c.source = d.source /\ c.beat = d.beat
            /\ c.failover = LeaderTimeout
        BY <2>3, <2>4, <3>1 DEF TabRecord
      <3>3. QED
        BY <1>5, <2>3, <3>1, <3>2 DEF Reachable
    <2>6. tab' = [tab EXCEPT ![t] = c]
      BY <1>1, <1>4, <1>7, <2>2, <2>4, TabOf DEF Message
    <2>7. QED
      BY <1>3, <2>5, <2>6, TabOf, TabMoves DEF Message
  <1>8. QED
    BY <1>6, <1>7

-----------------------------------------------------------------------------
(* The stream *)

LEMMA SubscribeStep ==
    ASSUME LiveInv, NEW t \in Tabs, Subscribe(t)
    PROVE  LiveInv'
  <1>1. PICK c : c = [tab[t] EXCEPT !.source = "subscribed",
                                    !.feed = tab[t].got /\ tab[t].lost, !.lost = FALSE]
    OBVIOUS
  <1>2. c \in TabRecord /\ Reachable(c)
    BY <1>1, TabOf DEF TabRecord, Reachable
  <1>3. tab' = [tab EXCEPT ![t] = c]
    BY <1>1, TabOf DEF Subscribe, TabRecord
  <1>4. QED
    BY <1>2, <1>3, TabOf, TabMoves DEF Subscribe

LEMMA OnOpenStep ==
    ASSUME LiveInv, NEW t \in Tabs, OnOpen(t)
    PROVE  LiveInv'
  <1>1. PICK d : d = ChangeMode(tab[t], "live")
    OBVIOUS
  <1>2. "live" \in Modes /\ LiveTyped
    BY DEF Modes, LiveInv
  <1>3. d \in TabRecord
    BY <1>1, <1>2, TabOf, ChangeModeEffect
  <1>4. PICK c : c = [d EXCEPT !.source = "open"]
    OBVIOUS
  <1>5. c \in TabRecord /\ Reachable(c)
    BY <1>3, <1>4 DEF TabRecord, Reachable
  <1>6. tab' = [tab EXCEPT ![t] = c]
    BY <1>1, <1>4, TabOf DEF OnOpen
  <1>7. QED
    BY <1>2, <1>5, <1>6, TabOf, TabMoves, PostModeTyped DEF OnOpen

LEMMA OnErrorStep ==
    ASSUME LiveInv, NEW t \in Tabs, OnError(t)
    PROVE  LiveInv'
  <1>1. PICK d : d = ChangeMode(tab[t], "polling")
    OBVIOUS
  <1>2. "polling" \in Modes /\ LiveTyped
    BY DEF Modes, LiveInv
  <1>3. d \in TabRecord
    BY <1>1, <1>2, TabOf, ChangeModeEffect
  <1>4. PICK c : c = [d EXCEPT !.source = "broken", !.lost = @ \/ tab[t].feed, !.feed = FALSE]
    OBVIOUS
  <1>5. c \in TabRecord /\ Reachable(c)
    BY <1>3, <1>4, TabOf DEF TabRecord, Reachable
  <1>6. tab' = [tab EXCEPT ![t] = c]
    <2>1. tab' = [tab EXCEPT ![t] = [ChangeMode(tab[t], "polling") EXCEPT
                                        !.source = "broken", !.lost = @ \/ tab[t].feed,
                                        !.feed = FALSE]]
      BY DEF OnError
    <2>2. QED
      BY <1>1, <1>4, <2>1
  <1>7. QED
    BY <1>2, <1>5, <1>6, TabOf, TabMoves, PostModeTyped DEF OnError

LEMMA ReceiveFlushStep ==
    ASSUME LiveInv, NEW t \in Tabs, ReceiveFlush(t)
    PROVE  LiveInv'
  <1>1. PICK c : c = [tab[t] EXCEPT !.feed = FALSE, !.got = TRUE,
                                    !.dirty = @ \/ tab[t].mode = "live"]
    OBVIOUS
  <1>2. c \in TabRecord /\ Reachable(c)
    BY <1>1, TabOf DEF TabRecord, Reachable
  <1>3. tab' = [tab EXCEPT ![t] = c]
    BY <1>1, TabOf DEF ReceiveFlush, TabRecord
  <1>4. [type |-> "flush"] \in ChannelMessage
    BY DEF ChannelMessage
  <1>5. QED
    BY <1>2, <1>3, <1>4, TabOf, TabMoves, PostTyped DEF ReceiveFlush

LEMMA FlushStep ==
    ASSUME LiveInv, Flush
    PROVE  LiveInv'
  <1>1. /\ tab \in [Tabs -> TabRecord] /\ flushed \in Nat
        /\ \A t \in Tabs : Reachable(tab[t])
    BY DEF LiveInv, LiveTyped
  <1>2. ASSUME NEW t \in Tabs PROVE tab'[t] \in TabRecord /\ Reachable(tab'[t])
    <2>1. tab'[t] = [tab[t] EXCEPT
                        !.feed = @ \/ tab[t].source \in {"subscribed", "open"},
                        !.lost = @ \/ tab[t].source = "broken",
                        !.owed = IF Listening(t) /\ tab[t].mode = "live" THEN flushed + 1 ELSE @]
      BY DEF Flush
    <2>2. PICK a \in BOOLEAN, l \in BOOLEAN, n \in Nat :
             tab'[t] = [tab[t] EXCEPT !.feed = a, !.lost = l, !.owed = n]
      <3>1. /\ (tab[t].feed \/ tab[t].source \in {"subscribed", "open"}) \in BOOLEAN
            /\ (tab[t].lost \/ tab[t].source = "broken") \in BOOLEAN
        OBVIOUS
      <3>2. (IF Listening(t) /\ tab[t].mode = "live" THEN flushed + 1 ELSE tab[t].owed) \in Nat
        BY <1>1 DEF TabRecord
      <3>3. QED
        BY <2>1, <3>1, <3>2
    <2>3. tab[t] \in TabRecord /\ Reachable(tab[t])
      BY <1>1
    <2>4. tab'[t] \in TabRecord
      BY <2>2, <2>3 DEF TabRecord
    <2>5. /\ tab'[t].pc = tab[t].pc /\ tab'[t].source = tab[t].source
          /\ tab'[t].beat = tab[t].beat /\ tab'[t].failover = tab[t].failover
      BY <2>2, <2>3 DEF TabRecord
    <2>6. QED
      BY <2>3, <2>4, <2>5 DEF Reachable
  <1>3. tab' \in [Tabs -> TabRecord]
    <2>1. tab' = [t \in Tabs |-> tab'[t]]
      BY DEF Flush
    <2>2. QED
      BY <1>2, <2>1
  <1>4. budget' \in [Events -> Nat]
    BY HappenTyped DEF Flush, LiveInv, LiveTyped
  <1>5. /\ flushed' \in Nat /\ inbox' = inbox /\ lease' = lease /\ left' = left
    <2>1. flushed' = flushed + 1 /\ inbox' = inbox /\ lease' = lease /\ left' = left
      BY Zenon DEF Flush
    <2>2. QED
      BY <1>1, <2>1
  <1>6. LiveTyped'
    BY <1>3, <1>4, <1>5 DEF LiveInv, LiveTyped
  <1>7. QED
    BY <1>2, <1>6 DEF LiveInv, Reachable

LEMMA ScanStep ==
    ASSUME LiveInv, NEW t \in Tabs, Scan(t)
    PROVE  LiveInv'
  <1>1. PICK c : c = [tab[t] EXCEPT !.shown = flushed, !.dirty = FALSE]
    OBVIOUS
  <1>2. c \in TabRecord /\ Reachable(c)
    BY <1>1, TabOf DEF TabRecord, Reachable
  <1>3. tab' = [tab EXCEPT ![t] = c]
    BY <1>1, TabOf DEF Scan, TabRecord
  <1>4. QED
    BY <1>2, <1>3, TabOf, TabMoves DEF Scan

-----------------------------------------------------------------------------
(* Tabs that go, and time *)

LEMMA CloseTabStep ==
    ASSUME LiveInv, NEW t \in Tabs, CloseTab(t)
    PROVE  LiveInv'
  <1>1. PICK d : d = StopLeader(tab[t])
    OBVIOUS
  <1>2. d \in TabRecord /\ d.beat = Off
    BY <1>1, TabOf, StopLeaderEffect
  <1>3. PICK c : c = [d EXCEPT !.pc = IF lease = t THEN "releasing" ELSE "gone", !.failover = Off]
    OBVIOUS
  <1>4. c \in TabRecord /\ Reachable(c)
    BY <1>2, <1>3 DEF TabRecord, Standing, Reachable
  <1>5. tab' = [tab EXCEPT ![t] = c]
    BY <1>1, <1>3, TabOf DEF CloseTab
  <1>6. inbox' \in [Tabs -> Seq(ChannelMessage)]
    BY TabOf, EmptySeq DEF CloseTab
  <1>7. QED
    BY <1>4, <1>5, <1>6, TabOf, TabMoves DEF CloseTab

LEMMA ReleaseLeaseStep ==
    ASSUME LiveInv, NEW t \in Tabs, ReleaseLease(t)
    PROVE  LiveInv'
  <1>1. PICK c : c = [tab[t] EXCEPT !.pc = "gone"]
    OBVIOUS
  <1>2. c \in TabRecord /\ Reachable(c)
    BY <1>1, TabOf DEF TabRecord, Standing, Reachable
  <1>3. tab' = [tab EXCEPT ![t] = c]
    BY <1>1, TabOf DEF ReleaseLease
  <1>4. QED
    BY <1>2, <1>3, TabOf, TabMoves DEF ReleaseLease

LEMMA CrashStep ==
    ASSUME LiveInv, NEW t \in Tabs, Crash(t)
    PROVE  LiveInv'
  <1>1. PICK d : d = StopLeader(tab[t])
    OBVIOUS
  <1>2. d \in TabRecord /\ d.beat = Off
    BY <1>1, TabOf, StopLeaderEffect
  <1>3. PICK c : c = [d EXCEPT !.pc = "gone", !.failover = Off]
    OBVIOUS
  <1>4. c \in TabRecord /\ Reachable(c)
    BY <1>2, <1>3 DEF TabRecord, Standing, Reachable
  <1>5. tab' = [tab EXCEPT ![t] = c]
    BY <1>1, <1>3, TabOf DEF Crash
  <1>6. inbox' \in [Tabs -> Seq(ChannelMessage)]
    BY TabOf, EmptySeq DEF Crash
  <1>7. budget' \in [Events -> Nat]
    BY TabOf, HappenTyped DEF Crash
  <1>8. QED
    BY <1>4, <1>5, <1>6, <1>7, TabOf, TabMoves DEF Crash

LEMMA TimePassesStep ==
    ASSUME LiveInv, TimePasses
    PROVE  LiveInv'
  <1> DEFINE less(n) == IF n > 0 THEN n - 1 ELSE n
  <1>1. /\ \A n \in Nat : less(n) \in Nat /\ less(n) # Off
        /\ less(Off) = Off
    BY DEF Off
  <1>2. /\ tab \in [Tabs -> TabRecord] /\ left \in Nat
        /\ \A t \in Tabs : Reachable(tab[t])
    BY DEF LiveInv, LiveTyped
  <1>3. ASSUME NEW t \in Tabs PROVE tab'[t] \in TabRecord /\ Reachable(tab'[t])
    <2>1. tab'[t] = [tab[t] EXCEPT !.beat = less(tab[t].beat), !.failover = less(tab[t].failover)]
      BY DEF TimePasses
    <2>2. tab[t] \in TabRecord /\ Reachable(tab[t])
      BY <1>2
    <2>3. /\ less(tab[t].beat) \in Nat \cup {Off} /\ less(tab[t].failover) \in Nat \cup {Off}
          /\ less(tab[t].beat) # Off => tab[t].beat # Off
          /\ tab[t].failover # Off => less(tab[t].failover) # Off
      BY <1>1, <2>2 DEF TabRecord
    <2> HIDE DEF less
    <2>4. /\ tab'[t] \in TabRecord
          /\ tab'[t].pc = tab[t].pc /\ tab'[t].source = tab[t].source
          /\ tab'[t].beat = less(tab[t].beat) /\ tab'[t].failover = less(tab[t].failover)
      BY <2>1, <2>2, <2>3 DEF TabRecord
    <2>5. QED
      BY <2>2, <2>3, <2>4 DEF Reachable
  <1>4. tab' \in [Tabs -> TabRecord]
    <2>1. tab' = [t \in Tabs |-> tab'[t]]
      BY DEF TimePasses
    <2>2. QED
      BY <1>3, <2>1
  <1>5. left' \in Nat
    BY <1>1, <1>2 DEF TimePasses
  <1>6. budget' \in [Events -> Nat]
    BY HappenTyped DEF TimePasses, LiveInv, LiveTyped
  <1>7. QED
    BY <1>3, <1>4, <1>5, <1>6 DEF LiveInv, LiveTyped, TimePasses, Reachable

-----------------------------------------------------------------------------
(* The theorems *)

\* The election, the stream and the channel keep the invariant, step by step.
THEOREM LiveInvariant == LiveSpec => []LiveInv
  <1>1. InitLive => LiveInv
    <2> SUFFICES ASSUME InitLive PROVE LiveInv
      OBVIOUS
    <2>1. NewTab \in TabRecord /\ Reachable(NewTab)
      BY DEF NewTab, TabRecord, Standing, Modes, Reachable
    <2>2. tab \in [Tabs -> TabRecord] /\ \A t \in Tabs : Reachable(tab[t])
      BY <2>1 DEF InitLive
    <2>3. inbox \in [Tabs -> Seq(ChannelMessage)]
      BY EmptySeq DEF InitLive
    <2>4. QED
      BY <2>2, <2>3, LiveAssumption DEF InitLive, LiveInv, LiveTyped
  <1>2. LiveInv /\ NextLive => LiveInv'
    <2> SUFFICES ASSUME LiveInv, NextLive PROVE LiveInv'
      OBVIOUS
    <2>1. ASSUME NEW t \in Tabs, Advance(t) PROVE LiveInv'
      BY <2>1, ElectStep, WriteLeaseStep, LeaseDeniedStep, ConfirmLeaseStep, HeartbeatStep,
         ReleaseLeaseStep DEF Advance
    <2>2. QED
      BY <2>1, OpenTabStep, MessageStep, SubscribeStep, OnOpenStep, OnErrorStep,
         ReceiveFlushStep, ScanStep, CloseTabStep, CrashStep, FlushStep, TimePassesStep
         DEF NextLive
  <1>3. LiveInv /\ UNCHANGED liveVars => LiveInv'
    BY DEF LiveInv, LiveTyped, Reachable, liveVars
  <1>4. QED
    BY <1>1, <1>2, <1>3, PTL DEF LiveSpec

\* Every callback leaves the tab, its channel and the lease what they are.
THEOREM LiveTypeCorrect == LiveSpec => []LiveTyped
  BY LiveInvariant, PTL DEF LiveInv

\* No race, denied lease or late message leaves an open tab without a stream and
\* without a failover timer.
THEOREM LiveOutOfReach == LiveSpec => []NeverOutOfReach
  <1>1. LiveInv => NeverOutOfReach
    BY DEF LiveInv, Reachable, NeverOutOfReach, Idle
  <1>2. QED
    BY <1>1, LiveInvariant, PTL

=============================================================================
