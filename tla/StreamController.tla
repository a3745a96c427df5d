-------------------------- MODULE StreamController --------------------------
(***************************************************************************)
(* The live stream of packages/periscope/src/http/controllers/             *)
(* stream_controller.ts, with the recorder's flush and the in-process      *)
(* fan-out of fanout.ts that feed it.  An entry is its sequence.  A batch  *)
(* lands in the store and is announced some time later; its sequences were *)
(* assigned when its entries were recorded, so batches land in any order.  *)
(*                                                                         *)
(* A browser holds at most one connection and names, when it reconnects,   *)
(* the last event it received.  A stream is the frames written to it and   *)
(* not yet received; a write that leaves it full disconnects it.           *)
(***************************************************************************)
EXTENDS Integers, FiniteSets, SequencesExt

CONSTANTS Browsers,
          Wanted,      \* the entries of the application each browser asks for
          MaxSequence, \* bound: entries recorded
          MaxClients,  \* dashboard.sseMaxClients
          Limit,       \* rows one replay reads: 200
          Buffer,      \* frames each browser's stream holds before write() returns false
          MaxFaults,   \* bound: replay reads that fail
          MaxDrops,    \* bound: connections the network or the browser closes
          MaxTicks     \* bound: keepalives

Entries == 1..MaxSequence
Keepalive == 0          \* the comment frame; no entry has this sequence
NoId == 0               \* no Last-Event-ID

ASSUME StreamAssumption ==
    /\ Wanted \in [Browsers -> SUBSET Entries]
    /\ MaxSequence \in Nat /\ MaxClients \in Nat /\ Limit \in Nat
    /\ Buffer \in [Browsers -> Nat]
    /\ MaxFaults \in Nat /\ MaxDrops \in Nat /\ MaxTicks \in Nat

VARIABLES stored,    \* entries in the store
          landed,    \* batches stored and not announced yet
          phase,     \* of each browser's connection: off, replaying, live
          after,     \* the Last-Event-ID the connection was opened with
          read,      \* its replay read: none, asked, answered
          rows,      \* what the replay read returned
          pending,   \* client.pending
          stream,    \* frames written and not received
          fanout,    \* #unsubscribeFlushed and #keepalive are set
          lastId,    \* the last event id the browser received
          seen,      \* history: the entries the browser received
          skipped,   \* history: the entries a replay found and did not deliver
          written,   \* history: the entries written to the connection
          missed,    \* history: announced before a connection that names no event
          whole,     \* history: the replay read all there was
          ordered,   \* history: batches were saved in sequence, one at a time
          faults, drops, ticks

store == <<stored, landed, ordered>>
client == <<phase, after, read, rows, pending, missed, whole>>
output == <<stream, written>>
browser == <<lastId, seen, skipped>>
bounds == <<faults, drops, ticks>>
vars == <<store, client, output, fanout, browser, bounds>>

Clients == {b \in Browsers : phase[b] # "off"}
Announced == stored \ UNION landed
Sequenced == [S \in SUBSET Entries |->
    CHOOSE q \in SetToSeqs(S) : \A i, j \in 1..Cardinality(S) : i < j => q[i] < q[j]]
InSequence(S) == Sequenced[S]

Init ==
    /\ stored = {} /\ landed = {} /\ ordered = TRUE
    /\ phase = [b \in Browsers |-> "off"] /\ after = [b \in Browsers |-> NoId]
    /\ read = [b \in Browsers |-> "none"] /\ rows = [b \in Browsers |-> <<>>]
    /\ pending = [b \in Browsers |-> <<>>] /\ stream = [b \in Browsers |-> <<>>]
    /\ fanout = FALSE
    /\ lastId = [b \in Browsers |-> NoId] /\ seen = [b \in Browsers |-> {}]
    /\ skipped = [b \in Browsers |-> {}]
    /\ written = [b \in Browsers |-> {}] /\ missed = [b \in Browsers |-> {}]
    /\ whole = [b \in Browsers |-> TRUE]
    /\ faults = 0 /\ drops = 0 /\ ticks = 0

-----------------------------------------------------------------------------
(* The clients of the controller *)

\* #stopFanoutWhenIdle(), the clients in left having been closed.
StopFanoutWhenIdle(left) == fanout /\ Clients \ left # {}

\* One of the writes leaves the stream full and answers false.
Overflows(b, frames) == frames # <<>> /\ Len(stream[b]) + Len(frames) >= Buffer[b]

\* #writeClientFrame() for each frame in turn: the first write that answers false
\* disconnects the client, and what the stream held is lost.  settled is the phase
\* of the clients that stay.
Write(frames, settled) ==
    LET slow == {b \in Clients : Overflows(b, frames[b])}
    IN  /\ phase' = [b \in Browsers |-> IF b \in Clients \ slow THEN settled[b] ELSE "off"]
        /\ stream' = [b \in Browsers |-> IF b \in slow THEN <<>> ELSE stream[b] \o frames[b]]
        /\ written' = [b \in Browsers |-> IF b \in slow THEN {}
                                       ELSE written[b] \cup (ToSet(frames[b]) \ {Keepalive})]
        /\ fanout' = StopFanoutWhenIdle(slow)

\* Frames for one browser only.
Only(b, frames) == [c \in Browsers |-> IF c = b THEN frames ELSE <<>>]

\* stream(): the client joins the set, and the fan-out, before the replay read.
Connect(b) ==
    /\ phase[b] = "off"
    /\ Cardinality(Clients) < MaxClients
    /\ phase' = [phase EXCEPT ![b] = IF lastId[b] = NoId THEN "live" ELSE "replaying"]
    /\ after' = [after EXCEPT ![b] = lastId[b]]
    /\ read' = [read EXCEPT ![b] = IF lastId[b] = NoId THEN "none" ELSE "asked"]
    /\ rows' = [rows EXCEPT ![b] = <<>>]
    /\ pending' = [pending EXCEPT ![b] = <<>>]
    /\ missed' = [missed EXCEPT ![b] = IF lastId[b] = NoId THEN Announced ELSE {}]
    /\ whole' = [whole EXCEPT ![b] = TRUE]
    /\ fanout' = TRUE
    /\ UNCHANGED <<store, output, browser, bounds>>

\* fanout.subscribe() throws: the client is closed again, so nothing is left of it,
\* and the answer is 503.
SubscribeFails(b) ==
    /\ phase[b] = "off" /\ Cardinality(Clients) < MaxClients
    /\ ~fanout
    /\ UNCHANGED vars

\* client.close(), from the request, the response or the body.
Close(b) ==
    /\ phase[b] # "off" /\ drops < MaxDrops
    /\ drops' = drops + 1
    /\ phase' = [phase EXCEPT ![b] = "off"]
    /\ stream' = [stream EXCEPT ![b] = <<>>]
    /\ written' = [written EXCEPT ![b] = {}]
    /\ fanout' = StopFanoutWhenIdle({b})
    /\ UNCHANGED <<store, after, read, rows, pending, missed, whole, browser, faults, ticks>>

-----------------------------------------------------------------------------
(* The replay *)

\* store.list() reads the rows after the id, oldest first, up to the limit.
ReadReplay(b) ==
    /\ read[b] = "asked"
    /\ LET found == {e \in stored \cap Wanted[b] : e > after[b]}
           taken == SubSeq(InSequence(found), 1, Min({Limit, Cardinality(found)}))
       IN  /\ rows' = [rows EXCEPT ![b] = taken]
           /\ whole' = [whole EXCEPT ![b] = Cardinality(found) <= Limit]
           /\ skipped' = [skipped EXCEPT ![b] = @ \cup
                             IF Len(taken) >= Buffer[b] THEN found ELSE found \ ToSet(taken)]
    /\ read' = [read EXCEPT ![b] = "answered"]
    /\ UNCHANGED <<store, phase, after, pending, missed, output, fanout, lastId, seen, bounds>>

\* store.list() throws: safeguardAsync() answers undefined.
ReplayFails(b) ==
    /\ read[b] = "asked" /\ faults < MaxFaults
    /\ faults' = faults + 1
    /\ rows' = [rows EXCEPT ![b] = <<>>]
    /\ whole' = [whole EXCEPT ![b] = FALSE]
    /\ read' = [read EXCEPT ![b] = "answered"]
    /\ UNCHANGED <<store, phase, after, pending, missed, output, fanout, browser, drops, ticks>>

\* Mutant: the client is not looked up again after the read.
NeverLeft(b) == TRUE
StillConnected(b) == phase[b] = "replaying"

\* Mutant: the pending events are dropped instead of written.
ReplayOnly(b) == rows[b]
\* What is written once the replay is read: its rows, then the pending events.
CatchUp(b) == rows[b] \o pending[b]

\* The await on the replay resumes.
AnswerReplay(b) ==
    /\ read[b] = "answered"
    /\ read' = [read EXCEPT ![b] = "none"]
    /\ rows' = [rows EXCEPT ![b] = <<>>]
    /\ \/ /\ StillConnected(b)
          /\ Write(Only(b, CatchUp(b)), [phase EXCEPT ![b] = "live"])
          /\ pending' = [pending EXCEPT ![b] = <<>>]
       \/ ~StillConnected(b) /\ UNCHANGED <<phase, pending, output, fanout>>
    /\ UNCHANGED <<store, after, missed, whole, browser, bounds>>

-----------------------------------------------------------------------------
(* Flushes and keepalives *)

\* The save of a batch commits.
Land(S) ==
    /\ S # {} /\ S \subseteq Entries \ stored
    /\ stored' = stored \cup S
    /\ landed' = landed \cup {S}
    /\ ordered' = (ordered /\ landed = {} /\ S = 1..(Cardinality(stored \cup S)) \ stored)
    /\ UNCHANGED <<client, output, fanout, browser, bounds>>

\* A client holds events back while its replay is read.
HeldBack(b) == phase[b] = "replaying"

\* #broadcast() for each entry of a batch whose save has resolved.
Announce(S) ==
    LET events == [b \in Browsers |-> IF b \in Clients /\ fanout
                                      THEN InSequence(S \cap Wanted[b]) ELSE <<>>]
    IN  /\ S \in landed
        /\ landed' = landed \ {S}
        /\ pending' = [b \in Browsers |-> IF HeldBack(b) THEN pending[b] \o events[b]
                                          ELSE pending[b]]
        /\ Write([b \in Browsers |-> IF HeldBack(b) THEN <<>> ELSE events[b]], phase)
        /\ UNCHANGED <<stored, ordered, after, read, rows, missed, whole, browser, bounds>>

\* The keepalive interval writes to every client, those replaying included.
Tick ==
    /\ fanout /\ ticks < MaxTicks
    /\ ticks' = ticks + 1
    /\ Write([b \in Browsers |-> IF b \in Clients THEN <<Keepalive>> ELSE <<>>], phase)
    /\ UNCHANGED <<store, after, read, rows, pending, missed, whole, browser, faults, drops>>

\* The browser receives a frame.
Receive(b) ==
    /\ stream[b] # <<>>
    /\ stream' = [stream EXCEPT ![b] = Tail(@)]
    /\ LET e == Head(stream[b])
       IN  IF e = Keepalive THEN UNCHANGED <<lastId, seen>>
           ELSE /\ lastId' = [lastId EXCEPT ![b] = e]
                /\ seen' = [seen EXCEPT ![b] = @ \cup {e}]
    /\ UNCHANGED <<store, client, written, fanout, skipped, bounds>>

Next ==
    \/ \E b \in Browsers :
          \/ Connect(b) \/ SubscribeFails(b) \/ Close(b)
          \/ ReadReplay(b) \/ ReplayFails(b) \/ AnswerReplay(b)
          \/ Receive(b)
    \/ \E S \in SUBSET Entries : Land(S)
    \/ \E S \in landed : Announce(S)
    \/ Tick

Spec == Init /\ [][Next]_vars

\* Saves and reads are answered, frames arrive, and an EventSource reconnects until
\* a subscription succeeds.
FairSpec ==
    /\ Spec
    /\ WF_vars(\E S \in landed : Announce(S))
    /\ \A b \in Browsers : /\ WF_vars(Connect(b) \/ Receive(b))
                           /\ WF_vars(ReadReplay(b) \/ AnswerReplay(b))

-----------------------------------------------------------------------------
(* Properties *)

\* "A client is subscribed before its replay read begins so flushes cannot
\* disappear in the gap between storage and live delivery": every announced entry
\* after the client's id, or announced since it connected when it gave none, has
\* been written to a live client whose replay read all there was.
NothingInTheGap ==
    \A b \in Browsers : phase[b] = "live" /\ whole[b] =>
        \A e \in Announced \cap Wanted[b] :
            (IF after[b] = NoId THEN e \notin missed[b] ELSE e > after[b])
                => e \in written[b]

\* A connection that is closed gets nothing more, whatever its replay, a flush or
\* the keepalive still had for it.
NothingAfterClose ==
    \A b \in Browsers : phase[b] = "off" => stream[b] = <<>> /\ written[b] = {}

\* With batches saved in sequence, one at a time, and no failed call, a browser
\* that has received an event comes to have received every one announced after
\* it, across disconnections.  What a replay found beyond the rows one read returns
\* may be lost (stream() reads one page), and so may all a replay found when its rows
\* alone fill the stream: every attempt then ends in another disconnection.
Due(b) == {e \in Announced \cap Wanted[b] : \E d \in seen[b] : d < e}
BrowserCatchesUp ==
    \A b \in Browsers : []<>(Due(b) \subseteq seen[b] \cup skipped[b] \/ ~ordered \/ faults > 0)

=============================================================================
