-------------------------- MODULE RecorderShutdown --------------------------
(***************************************************************************)
(* The rotating ambient batch (recorder/ambient.ts), the grace timers and  *)
(* Recorder.shutdown() (recorder/recorder.ts), with the provider closing   *)
(* the store behind them.                                                  *)
(*                                                                         *)
(* A context is an ambient generation <<"ambient", n>> or a host batch     *)
(* <<"host", h>>, whose watcher flushes it once.  What a flush does inside *)
(* (sampling, caps, requeues) is module Recorder; here every context is    *)
(* sampled in, and a flush saves a snapshot or fails.                      *)
(***************************************************************************)
EXTENDS Naturals

CONSTANTS Entries,   \* entries that may be recorded
          Hosts,     \* host batches
          MaxGen     \* bound: rotations

ASSUME ShutdownAssumption == MaxGen \in Nat

Ambient(n) == <<"ambient", n>>
HostContexts == {<<"host", h>> : h \in Hosts}
Contexts == {Ambient(n) : n \in 0..MaxGen} \cup HostContexts

VARIABLES buffer,     \* entries of each context
          late,       \* entries of its continuation
          phase,      \* open, closed (grace window), finished
          timer,      \* its grace timer is armed
          flush,      \* its running flush: idle, inter, final, late
          wants,      \* modes of the flushes chained behind it
          snap,       \* what the running flush saves
          gen,        \* the current ambient generation
          ticking,    \* the rotation timer is armed
          waiting,    \* rotations that wait for #inFlight
          rotating,   \* the generation whose flush a rotation awaits, plus 1
          stage,      \* shutdown(): no, drain, stop, rotate, drain2, done
          ended,      \* the host batches their watcher has flushed
          closed,     \* the provider has closed the store
          accepted,   \* history: recorded entries
          stored,     \* history: saved entries
          failed,     \* history: entries of a save that failed
          owed        \* history: what shutdown() found in flushed contexts and
                      \* in the ambient batch

contexts == <<buffer, late, phase, timer>>
flushes == <<flush, wants, snap>>
ambient == <<gen, ticking, waiting, rotating>>
history == <<accepted, stored, failed, owed>>
vars == <<contexts, flushes, ambient, stage, ended, closed, history>>

Init ==
    /\ buffer = [c \in Contexts |-> {}] /\ late = [c \in Contexts |-> {}]
    /\ phase = [c \in Contexts |-> "open"]
    /\ timer = [c \in Contexts |-> FALSE]
    /\ flush = [c \in Contexts |-> "idle"]
    /\ wants = [c \in Contexts |-> {}]
    /\ snap = [c \in Contexts |-> {}]
    /\ gen = 0 /\ ticking = TRUE /\ waiting = 0 /\ rotating = 0
    /\ stage = "no" /\ ended = {} /\ closed = FALSE
    /\ accepted = {} /\ stored = {} /\ failed = {} /\ owed = {}

InFlight == {c \in Contexts : flush[c] # "idle" \/ wants[c] # {}}

-----------------------------------------------------------------------------
(* record() and flush() *)

\* The contexts a record can target: a host batch, the current generation, or
\* a generation an HTTP client call captured when it began.
Targets == HostContexts \cup {Ambient(n) : n \in 0..gen}

\* flush(c, mode): at once, on a snapshot of the buffer, or chained behind the
\* flushes of the same context.
Flush(c, mode) ==
    IF flush[c] = "idle" /\ wants[c] = {}
    THEN /\ flush' = [flush EXCEPT ![c] = mode]
         /\ snap' = [snap EXCEPT ![c] = buffer'[c]]
         /\ UNCHANGED wants
    ELSE /\ wants' = [wants EXCEPT ![c] = @ \cup {mode}]
         /\ UNCHANGED <<flush, snap>>

\* record(); the HTTP client watcher also flushes what it recorded.
Record(e, c) ==
    /\ ~closed /\ e \notin accepted /\ c \in Targets
    /\ \/ /\ phase[c] = "open"
          /\ buffer' = [buffer EXCEPT ![c] = @ \cup {e}]
          /\ UNCHANGED late
       \/ /\ phase[c] = "closed"
          /\ late' = [late EXCEPT ![c] = @ \cup {e}]
          /\ UNCHANGED buffer
    /\ \/ c \in HostContexts \cup {Ambient(gen)} /\ UNCHANGED flushes
       \/ Flush(c, "inter")
    /\ accepted' = accepted \cup {e}
    /\ UNCHANGED <<phase, timer, ambient, stage, ended, closed, stored, failed, owed>>

\* A chained flush starts.
Chained(c, mode) ==
    /\ mode \in wants[c] /\ flush[c] = "idle"
    /\ flush' = [flush EXCEPT ![c] = mode]
    /\ snap' = [snap EXCEPT ![c] = buffer[c]]
    /\ wants' = [wants EXCEPT ![c] = @ \ {mode}]
    /\ UNCHANGED <<contexts, ambient, stage, ended, closed, history>>

\* The watcher that opened a host batch flushes it, before shutdown() is over.
HostFlush(c) ==
    /\ stage # "done" /\ c \in HostContexts /\ c \notin ended
    /\ ended' = ended \cup {c}
    /\ UNCHANGED contexts
    /\ Flush(c, "final")
    /\ UNCHANGED <<ambient, stage, closed, history>>

\* Mutant: a rotation never lets go of #inFlight.
NeverReleased(c) == rotating' = rotating

\* A rotation whose flush has ended lets the next one go.
Released(c) ==
    rotating' = IF rotating # 0 /\ c = Ambient(rotating - 1) /\ flush[c] = "final"
                THEN 0 ELSE rotating

\* The save of a flush commits; a final one closes the context, hands what
\* arrived meanwhile to the continuation and arms the grace timer.
Saved(c) ==
    /\ flush[c] \in {"inter", "final"}
    /\ stored' = stored \cup snap[c]
    /\ \/ /\ flush[c] = "final" /\ phase[c] = "open"
          /\ phase' = [phase EXCEPT ![c] = "closed"]
          /\ late' = [late EXCEPT ![c] = buffer[c] \ snap[c]]
          /\ buffer' = [buffer EXCEPT ![c] = {}]
          /\ timer' = [timer EXCEPT ![c] = TRUE]
       \/ /\ flush[c] = "inter"
          /\ buffer' = [buffer EXCEPT ![c] = @ \ snap[c]]
          /\ UNCHANGED <<phase, late, timer>>
    /\ flush' = [flush EXCEPT ![c] = "idle"]
    /\ Released(c)
    /\ UNCHANGED <<wants, snap, gen, ticking, waiting, stage, ended, closed, accepted,
                   failed, owed>>

\* A save fails: the entries stay, the context stays open.  A final flush was
\* the last chance of all that the context holds.
Fails(c) ==
    /\ flush[c] \in {"inter", "final"} /\ snap[c] # {}
    /\ failed' = failed \cup (IF flush[c] = "final" THEN buffer[c] ELSE snap[c])
    /\ flush' = [flush EXCEPT ![c] = "idle"]
    /\ Released(c)
    /\ UNCHANGED <<contexts, wants, snap, gen, ticking, waiting, stage, ended, closed, accepted,
                   stored, owed>>

\* The continuation of a finished context is saved, or its save fails.
LateSettles(c) ==
    /\ flush[c] = "late"
    /\ \/ stored' = stored \cup snap[c] /\ UNCHANGED failed
       \/ failed' = failed \cup snap[c] /\ UNCHANGED stored
    /\ late' = [late EXCEPT ![c] = {}]
    /\ flush' = [flush EXCEPT ![c] = "idle"]
    /\ UNCHANGED <<buffer, phase, timer, wants, snap, ambient, stage, ended, closed, accepted,
                   owed>>

\* Grace windows end: the contexts are finished, their continuations flushed.
Expire(cs) ==
    /\ phase' = [c \in Contexts |-> IF c \in cs THEN "finished" ELSE phase[c]]
    /\ timer' = [c \in Contexts |-> timer[c] /\ c \notin cs]
    /\ flush' = [c \in Contexts |-> IF c \in cs /\ late[c] # {} THEN "late" ELSE flush[c]]
    /\ snap' = [c \in Contexts |-> IF c \in cs THEN late[c] ELSE snap[c]]

\* A flush of the closed parent is no flush of the continuation; they run side
\* by side only here, so the timer waits for it.
GraceTimer(c) ==
    /\ timer[c] /\ flush[c] = "idle"
    /\ Expire({c})
    /\ UNCHANGED <<buffer, late, wants, ambient, stage, ended, closed, history>>

-----------------------------------------------------------------------------
(* AmbientBatch *)

\* #rotate, after its predecessor: the context is swapped before the flush is
\* awaited; an empty one is dropped.
Swap ==
    LET retired == Ambient(gen) IN
    /\ gen < MaxGen
    /\ gen' = gen + 1
    /\ \/ /\ buffer[retired] = {}
          /\ UNCHANGED <<rotating, flushes>>
       \/ /\ buffer[retired] # {}
          /\ rotating' = gen + 1
          /\ Flush(retired, "final")

Busy == rotating # 0 \/ waiting > 0

\* rotate(): at once, or chained behind the rotation in flight.
Rotate ==
    IF Busy THEN waiting' = waiting + 1 /\ UNCHANGED <<gen, rotating, flushes>>
    ELSE Swap /\ UNCHANGED waiting

\* The interval timer.
Tick ==
    /\ ticking /\ gen + waiting < MaxGen - 1
    /\ UNCHANGED contexts
    /\ Rotate
    /\ UNCHANGED <<ticking, stage, ended, closed, history>>

\* A chained rotation goes on.
Resume ==
    /\ waiting > 0 /\ rotating = 0
    /\ waiting' = waiting - 1
    /\ UNCHANGED contexts
    /\ Swap
    /\ UNCHANGED <<ticking, stage, ended, closed, history>>

-----------------------------------------------------------------------------
(* Recorder.shutdown() and the provider's teardown *)

FinalUnderWay == {c \in Contexts : flush[c] = "final" \/ "final" \in wants[c]}

\* The contexts somebody has flushed for good, or is bound to flush.
Flushed ==
    {c \in Contexts : phase[c] # "open"} \cup FinalUnderWay \cup {Ambient(gen)}
        \cup (InFlight \ HostContexts)

Shutdown ==
    /\ stage = "no"
    /\ stage' = "drain"
    /\ owed' = UNION {late[c] \cup buffer[c] : c \in Flushed}
    /\ UNCHANGED <<contexts, flushes, ambient, ended, closed, accepted, stored, failed>>

\* The first drain ends; ambient.stop() disarms the rotation timer and waits.
StopAmbient ==
    /\ stage = "drain" /\ InFlight = {}
    /\ stage' = "stop" /\ ticking' = FALSE
    /\ UNCHANGED <<contexts, flushes, gen, waiting, rotating, ended, closed, history>>

\* Mutant: stop() does not rotate what accumulated.
NoLastRotation == UNCHANGED <<waiting, gen, rotating, flushes>>
LastRotation == Rotate

\* The rotation in flight is over; stop() rotates once more.
StopRotates ==
    /\ stage = "stop" /\ ~Busy
    /\ UNCHANGED contexts
    /\ LastRotation
    /\ stage' = "rotate"
    /\ UNCHANGED <<ticking, ended, closed, history>>

LateWindows == {c \in Contexts : timer[c]}

\* The last rotation is over; #flushLateEntries ends every grace window.
FlushLateEntries ==
    /\ stage = "rotate" /\ ~Busy
    /\ \A c \in LateWindows : flush[c] = "idle"
    /\ Expire(LateWindows)
    /\ stage' = "drain2"
    /\ UNCHANGED <<buffer, late, wants, ambient, ended, closed, history>>

Drained == InFlight = {}

\* The second drain ends, and shutdown() with it.
Done ==
    /\ stage = "drain2" /\ Drained
    /\ stage' = "done"
    /\ UNCHANGED <<contexts, flushes, ambient, ended, closed, history>>

CloseStore ==
    /\ stage = "done" /\ ~closed
    /\ closed' = TRUE
    /\ UNCHANGED <<contexts, flushes, ambient, stage, ended, history>>

-----------------------------------------------------------------------------

Next ==
    \/ \E e \in Entries, c \in Contexts : Record(e, c)
    \/ \E c \in Contexts :
          \/ HostFlush(c) \/ Saved(c) \/ Fails(c)
          \/ LateSettles(c) \/ GraceTimer(c)
          \/ \E mode \in {"inter", "final"} : Chained(c, mode)
    \/ Tick \/ Resume
    \/ Shutdown \/ StopAmbient \/ StopRotates \/ FlushLateEntries \/ Done \/ CloseStore

Spec == Init /\ [][Next]_vars

\* The store answers, chained callers resume, shutdown() goes on.
FairSpec ==
    /\ Spec
    /\ \A c \in Contexts : /\ WF_vars(Saved(c) \/ Fails(c)) /\ WF_vars(LateSettles(c))
                           /\ \A mode \in {"inter", "final"} : WF_vars(Chained(c, mode))
    /\ WF_vars(Resume)
    /\ WF_vars(StopAmbient) /\ WF_vars(StopRotates) /\ WF_vars(FlushLateEntries)
    /\ WF_vars(Done) /\ WF_vars(CloseStore)

-----------------------------------------------------------------------------
(* Properties *)

\* When shutdown() resolves, whatever it found in the ambient batch and in
\* contexts already flushed has reached the store, or the save that carried it
\* has failed, and the store is closed only when no final flush is using it.
ShutdownDelivers ==
    /\ stage = "done" => owed \subseteq stored \cup failed
    /\ closed => \A c \in Contexts : flush[c] # "final" /\ "final" \notin wants[c]

\* "prevents a timer from writing into an already-closed driver": no grace
\* timer starts a flush once the store is closed.
NoTimerAfterClose == closed => \A c \in Contexts : flush[c] # "late"

\* shutdown() comes to its end and the store is closed.
ShutdownEnds == stage = "drain" ~> closed

=============================================================================
