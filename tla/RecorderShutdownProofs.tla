----------------------- MODULE RecorderShutdownProofs -----------------------
(***************************************************************************)
(* What the flushes of different contexts share: shutdown(), for any       *)
(* entries, host batches and number of rotations, and the trim loop, for   *)
(* any number of flushes.                                                  *)
(*                                                                         *)
(* ShutdownDelivers.                                                       *)
(* An entry that is not settled (saved, or in a save that failed) is held  *)
(* by one context.  The invariant says, for each stage of shutdown(),      *)
(* which contexts may still hold an unsettled entry that shutdown() owes.  *)
(*                                                                         *)
(* RoundAfterWrite.  A flush that joined the loop is served by the trim()  *)
(* in flight or by a round that is requested.                              *)
(***************************************************************************)
EXTENDS RecorderShutdown, TrimStore, TLAPS

Settled == stored \cup failed
Held(c) == buffer[c] \cup late[c]
FinalAsked(c) == flush[c] = "final" \/ "final" \in wants[c]

\* A retired generation, and one still to come.
Retired(c) == \E n \in 0..MaxGen : n < gen /\ c = Ambient(n)
Coming(c) == \E n \in 0..MaxGen : n > gen /\ c = Ambient(n)
\* Its one final flush has been asked for, or was not needed.
Over(c) == c \in ended \/ Retired(c)

Typed ==
    /\ buffer \in [Contexts -> SUBSET Entries] /\ late \in [Contexts -> SUBSET Entries]
    /\ snap \in [Contexts -> SUBSET Entries]
    /\ phase \in [Contexts -> {"open", "closed", "finished"}]
    /\ timer \in [Contexts -> BOOLEAN]
    /\ flush \in [Contexts -> {"idle", "inter", "final", "late"}]
    /\ wants \in [Contexts -> SUBSET {"inter", "final"}]
    /\ gen \in 0..MaxGen /\ waiting \in Nat /\ rotating \in 0..MaxGen
    /\ ended \subseteq HostContexts
    /\ stage \in {"no", "drain", "stop", "rotate", "drain2", "done"}

\* The phases of a context, and what it holds in each.
Phases(c) ==
    /\ phase[c] = "open" => late[c] = {}
    /\ phase[c] # "open" => buffer[c] = {} /\ Over(c)
    /\ timer[c] <=> phase[c] = "closed"
    /\ flush[c] = "late" => phase[c] = "finished" /\ snap[c] = late[c]
    /\ phase[c] = "finished" /\ late[c] # {} => flush[c] = "late"

\* A context is flushed for good once, a generation only by the rotation in flight.
Finals(c) ==
    FinalAsked(c) =>
        /\ phase[c] = "open" /\ Over(c)
        /\ ~(flush[c] = "final" /\ "final" \in wants[c])
        /\ \A n \in 0..MaxGen : c = Ambient(n) => rotating = n + 1

\* What a retired generation still holds is being flushed.
Attended(c) ==
    Retired(c) /\ phase[c] = "open" /\ wants[c] = {} =>
        /\ flush[c] = "idle" => buffer[c] \subseteq Settled
        /\ flush[c] = "inter" => buffer[c] \ snap[c] \subseteq Settled

Untouched(c) ==
    Coming(c) => Held(c) = {} /\ phase[c] = "open" /\ flush[c] = "idle" /\ wants[c] = {}

Context(c) == Phases(c) /\ Finals(c) /\ Attended(c) /\ Untouched(c)

\* Every recorded entry is settled or held, by one context.
Ledger ==
    /\ owed \subseteq accepted
    /\ accepted \subseteq Settled \cup UNION {Held(c) : c \in Contexts}
    /\ \A c \in Contexts : Held(c) \subseteq accepted
    /\ \A c, d \in Contexts : c # d => Held(c) \cap Held(d) = {}

\* What shutdown() owes and a context holds is settled ...
Clear(c) == Held(c) \cap owed \subseteq Settled

\* ... in a host batch nobody has flushed, after the first drain in any open one,
\* after the last rotation in the current generation, after the windows ended in
\* any context whose window is open.
StageOne == stage # "no" =>
    \A c \in HostContexts : phase[c] = "open" /\ ~FinalAsked(c) => Clear(c)
StageTwo == stage \in {"stop", "rotate", "drain2", "done"} =>
    ~ticking /\ \A c \in HostContexts : phase[c] = "open" => Clear(c)
StageThree == stage \in {"rotate", "drain2", "done"} => waiting = 0 /\ Clear(Ambient(gen))
StageFour == stage \in {"drain2", "done"} =>
    rotating = 0 /\ \A c \in Contexts : phase[c] = "closed" => Clear(c)
StageFive == stage = "done" =>
    owed \subseteq Settled /\ \A c \in Contexts : ~FinalAsked(c)
Stages ==
    /\ StageOne /\ StageTwo /\ StageThree /\ StageFour /\ StageFive
    /\ closed => stage = "done"

DInv == Typed /\ (\A c \in Contexts : Context(c)) /\ Ledger /\ Stages

-----------------------------------------------------------------------------
(* Contexts *)

LEMMA ContextFacts ==
    /\ \A m, n \in Nat : Ambient(m) = Ambient(n) => m = n
    /\ \A n \in Nat : Ambient(n) \notin HostContexts
    /\ \A n \in 0..MaxGen : Ambient(n) \in Contexts
    /\ HostContexts \subseteq Contexts
    /\ \A c \in Contexts : c \in HostContexts \/ \E n \in 0..MaxGen : c = Ambient(n)
    /\ \A n \in 0..MaxGen : n \in Nat /\ MaxGen \in Nat
  BY ShutdownAssumption DEF Ambient, HostContexts, Contexts

LEMMA InitStep == Init => DInv
  <1> SUFFICES ASSUME Init PROVE DInv
    OBVIOUS
  <1>1. Typed
    BY ShutdownAssumption DEF Init, Typed
  <1>2. \A c \in Contexts : Context(c)
    BY DEF Init, Context, Phases, Finals, Attended, Untouched, FinalAsked, Held
  <1>3. Ledger /\ Stages
    BY DEF Init, Ledger, Held, Stages, StageOne, StageTwo, StageThree, StageFour, StageFive
  <1>4. QED
    BY <1>1, <1>2, <1>3 DEF DInv

-----------------------------------------------------------------------------
(* What a step leaves alone *)

LEMMA ContextOutlives ==
    ASSUME NEW c \in Contexts, Context(c), Settled \subseteq Settled',
           /\ buffer'[c] = buffer[c] /\ late'[c] = late[c] /\ phase'[c] = phase[c]
           /\ timer'[c] = timer[c] /\ flush'[c] = flush[c] /\ wants'[c] = wants[c]
           /\ snap'[c] = snap[c],
           (Retired(c)' <=> Retired(c)) /\ (Coming(c)' => Coming(c)), ended \subseteq ended',
           FinalAsked(c) => rotating' = rotating \/ c \in HostContexts
    PROVE  Context(c)'
  <1>1. Over(c) => Over(c)'
    BY DEF Over
  <1>2. Held(c)' = Held(c) /\ (FinalAsked(c)' <=> FinalAsked(c))
    BY DEF Held, FinalAsked
  <1>3. Phases(c)' /\ Untouched(c)'
    BY <1>1, <1>2 DEF Context, Phases, Untouched
  <1>4. Attended(c)'
    BY DEF Context, Attended
  <1>5. Finals(c)'
    BY <1>1, <1>2, ContextFacts DEF Context, Finals
  <1>6. QED
    BY <1>3, <1>4, <1>5 DEF Context

LEMMA ContextKept ==
    ASSUME NEW c \in Contexts, Context(c), Settled \subseteq Settled',
           /\ buffer'[c] = buffer[c] /\ late'[c] = late[c] /\ phase'[c] = phase[c]
           /\ timer'[c] = timer[c] /\ flush'[c] = flush[c] /\ wants'[c] = wants[c]
           /\ snap'[c] = snap[c],
           gen' = gen, ended \subseteq ended',
           FinalAsked(c) => rotating' = rotating \/ c \in HostContexts
    PROVE  Context(c)'
  <1>1. (Retired(c)' <=> Retired(c)) /\ (Coming(c)' <=> Coming(c))
    BY DEF Retired, Coming
  <1>2. QED
    BY <1>1, ContextOutlives

LEMMA LedgerKept ==
    ASSUME DInv, UNCHANGED <<accepted, owed>>, Settled \subseteq Settled',
           \A c \in Contexts : Held(c)' \subseteq Held(c) /\ Held(c) \subseteq Held(c)' \cup Settled'
    PROVE  Ledger'
  <1>1. owed' \subseteq accepted'
    BY DEF DInv, Ledger
  <1>2. \A c \in Contexts : Held(c)' \subseteq accepted'
    BY DEF DInv, Ledger
  <1>3. \A c, d \in Contexts : c # d => Held(c)' \cap Held(d)' = {}
    BY DEF DInv, Ledger
  <1>4. ASSUME NEW e \in accepted', e \notin Settled'
        PROVE  \E c \in Contexts : e \in Held(c)'
    <2>1. PICK c \in Contexts : e \in Held(c)
      BY <1>4 DEF DInv, Ledger
    <2>2. QED
      BY <1>4, <2>1
  <1>5. QED
    BY <1>1, <1>2, <1>3, <1>4 DEF Ledger

LEMMA StagesKept ==
    ASSUME DInv, UNCHANGED <<stage, closed, owed, gen, waiting, ticking>>,
           rotating' \in {rotating, 0}, Settled \subseteq Settled',
           \A c \in Contexts :
              /\ Held(c)' \cap owed \subseteq Held(c)
              /\ phase'[c] = "open" => phase[c] = "open"
              /\ phase'[c] = "open" /\ ~FinalAsked(c)' => ~FinalAsked(c) \/ Clear(c)'
              /\ stage \in {"drain2", "done"} /\ phase'[c] = "closed" =>
                    phase[c] = "closed" \/ Clear(c)'
              /\ stage = "done" /\ FinalAsked(c)' => FinalAsked(c)
    PROVE  Stages'
  <1>1. \A c \in Contexts : Clear(c) => Clear(c)'
    BY DEF Clear
  <1>2. StageOne'
    BY <1>1, ContextFacts DEF DInv, Stages, StageOne
  <1>3. StageTwo'
    BY <1>1, ContextFacts DEF DInv, Stages, StageTwo
  <1>4. StageThree'
    <2>1. Ambient(gen) \in Contexts /\ Ambient(gen)' = Ambient(gen)
      BY ContextFacts DEF DInv, Typed, Ambient
    <2>2. Clear(Ambient(gen)) => Clear(Ambient(gen))'
      BY <1>1, <2>1 DEF Clear, Held
    <2>3. QED
      BY <2>2 DEF DInv, Stages, StageThree
  <1>5. StageFour'
    BY <1>1 DEF DInv, Stages, StageFour
  <1>6. StageFive'
    BY DEF DInv, Stages, StageFive
  <1>7. QED
    BY <1>2, <1>3, <1>4, <1>5, <1>6 DEF DInv, Stages

\* The only flush of a generation that is asked for is that of the rotation in flight.
LEMMA OneRotation ==
    ASSUME DInv, NEW c \in Contexts, FinalAsked(c), NEW d \in Contexts, FinalAsked(d), c # d
    PROVE  c \in HostContexts \/ d \in HostContexts
  <1>1. ASSUME NEW m \in 0..MaxGen, NEW n \in 0..MaxGen, c = Ambient(m), d = Ambient(n)
        PROVE  FALSE
    <2>1. rotating = m + 1 /\ rotating = n + 1
      BY <1>1 DEF DInv, Context, Finals
    <2>2. m = n
      BY <2>1, ContextFacts
    <2>3. QED
      BY <1>1, <2>2
  <1>2. QED
    BY <1>1, ContextFacts

-----------------------------------------------------------------------------
(* Flushes *)

LEMMA ChainedStep ==
    ASSUME DInv, NEW c \in Contexts, NEW mode \in {"inter", "final"}, Chained(c, mode)
    PROVE  DInv'
  <1>1. /\ mode \in wants[c] /\ flush[c] = "idle"
        /\ flush' = [flush EXCEPT ![c] = mode] /\ snap' = [snap EXCEPT ![c] = buffer[c]]
        /\ wants' = [wants EXCEPT ![c] = wants[c] \ {mode}]
        /\ UNCHANGED <<buffer, late, phase, timer, gen, ticking, waiting, rotating, stage, ended,
                       closed, accepted, stored, failed, owed>>
    BY DEF Chained, contexts, ambient, history, DInv, Typed
  <1>2. Typed'
    BY <1>1 DEF DInv, Typed
  <1>3. /\ Settled' = Settled /\ \A d \in Contexts : Held(d)' = Held(d)
        /\ \A d \in Contexts : FinalAsked(d)' <=> FinalAsked(d)
    <2>1. ASSUME NEW d \in Contexts PROVE FinalAsked(d)' <=> FinalAsked(d)
      BY <1>1 DEF FinalAsked, DInv, Typed
    <2>2. QED
      BY <1>1, <2>1 DEF Settled, Held
  <1>4. Ledger'
    BY <1>1, <1>3, LedgerKept
  <1>5. Stages'
    BY <1>1, <1>3, StagesKept
  <1>6. ASSUME NEW d \in Contexts \ {c} PROVE Context(d)'
    BY <1>1, <1>3, ContextKept DEF DInv, Typed
  <1>7. Context(c)'
    <2>1. /\ flush'[c] = mode /\ snap'[c] = buffer[c] /\ wants'[c] = wants[c] \ {mode}
          /\ Context(c)
      BY <1>1 DEF DInv, Typed
    <2>2. (Retired(c)' <=> Retired(c)) /\ (Coming(c)' <=> Coming(c)) /\ (Over(c)' <=> Over(c))
      BY <1>1 DEF Retired, Coming, Over
    <2>3. Phases(c)'
      BY <1>1, <2>1, <2>2 DEF Context, Phases
    <2>4. Finals(c)'
      BY <1>1, <1>3, <2>1, <2>2 DEF Context, Finals
    <2>5. Attended(c)'
      BY <1>1, <2>1 DEF Attended
    <2>6. Untouched(c)'
      BY <1>1, <2>1, <2>2 DEF Context, Untouched
    <2>7. QED
      BY <2>3, <2>4, <2>5, <2>6 DEF Context
  <1>8. QED
    BY <1>2, <1>4, <1>5, <1>6, <1>7 DEF DInv

\* flush() for good, of a context that is over now and was not before.
LEMMA FinalFlush ==
    ASSUME DInv, NEW c \in Contexts, ~Over(c), Over(c)', ~Coming(c)', Flush(c, "final"),
           UNCHANGED <<buffer, late, phase, timer>>, Settled' = Settled,
           \A n \in 0..MaxGen : c = Ambient(n) => rotating' = n + 1
    PROVE  /\ Context(c)' /\ FinalAsked(c)'
           /\ flush' \in [Contexts -> {"idle", "inter", "final", "late"}]
           /\ wants' \in [Contexts -> SUBSET {"inter", "final"}]
           /\ snap' \in [Contexts -> SUBSET Entries]
           /\ \A d \in Contexts \ {c} :
                  flush'[d] = flush[d] /\ wants'[d] = wants[d] /\ snap'[d] = snap[d]
  <1>1. /\ Phases(c) /\ ~FinalAsked(c) /\ phase[c] = "open" /\ buffer[c] \in SUBSET Entries
    BY DEF DInv, Typed, Context, Phases, Finals
  <1>2. CASE flush[c] = "idle" /\ wants[c] = {}
    <2>1. /\ flush' = [flush EXCEPT ![c] = "final"] /\ snap' = [snap EXCEPT ![c] = buffer[c]]
          /\ wants' = wants
      BY <1>2 DEF Flush
    <2>2. /\ flush'[c] = "final" /\ wants'[c] = {}
      BY <1>2, <2>1 DEF DInv, Typed
    <2>3. FinalAsked(c)' /\ Finals(c)'
      BY <1>1, <2>2 DEF FinalAsked, Finals
    <2>4. Phases(c)' /\ Attended(c)' /\ Untouched(c)'
      BY <1>1, <2>2 DEF Phases, Attended, Untouched
    <2>5. QED
      BY <1>1, <2>1, <2>3, <2>4 DEF Context, DInv, Typed
  <1>3. CASE ~(flush[c] = "idle" /\ wants[c] = {})
    <2>1. /\ wants' = [wants EXCEPT ![c] = wants[c] \cup {"final"}] /\ flush' = flush /\ snap' = snap
      BY <1>3 DEF Flush, DInv, Typed
    <2>2. flush'[c] = flush[c] /\ wants'[c] = wants[c] \cup {"final"} /\ snap'[c] = snap[c]
      BY <2>1 DEF DInv, Typed
    <2>3. FinalAsked(c)' /\ Finals(c)'
      BY <1>1, <2>2 DEF FinalAsked, Finals
    <2>4. Phases(c)' /\ Attended(c)' /\ Untouched(c)'
      BY <1>1, <2>2 DEF Phases, Attended, Untouched
    <2>5. QED
      BY <2>1, <2>3, <2>4 DEF Context, DInv, Typed
  <1>4. QED
    BY <1>2, <1>3

LEMMA HostFlushStep ==
    ASSUME DInv, NEW c \in Contexts, HostFlush(c)
    PROVE  DInv'
  <1>1. /\ stage # "done" /\ c \in HostContexts /\ c \notin ended /\ ended' = ended \cup {c}
        /\ Flush(c, "final")
        /\ UNCHANGED <<buffer, late, phase, timer, gen, ticking, waiting, rotating, stage,
                       closed, accepted, stored, failed, owed>>
    BY DEF HostFlush, contexts, ambient, history
  <1>2. Settled' = Settled /\ \A d \in Contexts : Held(d)' = Held(d)
    BY <1>1 DEF Settled, Held
  <1>3. \A n \in 0..MaxGen : c # Ambient(n)
    BY <1>1, ContextFacts
  <1>4. ~Over(c) /\ Over(c)' /\ ~Coming(c)'
    BY <1>1, <1>3 DEF Over, Retired, Coming
  <1>5. /\ Context(c)' /\ FinalAsked(c)'
        /\ flush' \in [Contexts -> {"idle", "inter", "final", "late"}]
        /\ wants' \in [Contexts -> SUBSET {"inter", "final"}]
        /\ snap' \in [Contexts -> SUBSET Entries]
        /\ \A d \in Contexts \ {c} :
              flush'[d] = flush[d] /\ wants'[d] = wants[d] /\ snap'[d] = snap[d]
    BY <1>1, <1>2, <1>3, <1>4, FinalFlush
  <1>6. Typed'
    BY <1>1, <1>5 DEF DInv, Typed
  <1>7. Ledger'
    BY <1>1, <1>2, LedgerKept
  <1>8. \A d \in Contexts \ {c} : FinalAsked(d)' <=> FinalAsked(d)
    BY <1>5 DEF FinalAsked
  <1>9. Stages'
    BY <1>1, <1>2, <1>5, <1>8, StagesKept
  <1>10. ASSUME NEW d \in Contexts \ {c} PROVE Context(d)'
    BY <1>1, <1>2, <1>5, ContextKept DEF DInv
  <1>11. QED
    BY <1>5, <1>6, <1>7, <1>9, <1>10 DEF DInv

-----------------------------------------------------------------------------
(* Saves *)

LEMMA ReleasedEffect ==
    ASSUME DInv, NEW c \in Contexts, Released(c)
    PROVE  /\ rotating' \in {rotating, 0} /\ rotating' \in 0..MaxGen
           /\ flush[c] # "final" => rotating' = rotating
           /\ \A d \in Contexts \ {c} : FinalAsked(d) => rotating' = rotating \/ d \in HostContexts
  <1>1. /\ rotating \in 0..MaxGen /\ MaxGen \in Nat /\ rotating' \in {rotating, 0}
        /\ flush[c] # "final" => rotating' = rotating
    BY ShutdownAssumption DEF Released, DInv, Typed
  <1>2. ASSUME NEW d \in Contexts \ {c}, FinalAsked(d), rotating' # rotating
        PROVE  d \in HostContexts
    <2>1. FinalAsked(c) /\ rotating # 0 /\ c = Ambient(rotating - 1)
      BY <1>2 DEF Released, FinalAsked
    <2>2. rotating - 1 \in Nat
      BY <1>1, <2>1
    <2>3. c \notin HostContexts
      BY <2>1, <2>2, ContextFacts
    <2>4. QED
      BY <1>2, <2>1, <2>3, OneRotation
  <1>3. QED
    BY <1>1, <1>2

\* When the flush of a context ends, and its phase, buffer and continuation are in order.
LEMMA SettledFlush ==
    ASSUME DInv, NEW c \in Contexts, flush[c] \in {"inter", "final"}, Released(c),
           flush' = [flush EXCEPT ![c] = "idle"],
           UNCHANGED <<wants, snap, gen, ended>>, Settled \subseteq Settled',
           Phases(c)', flush[c] = "inter" => phase'[c] = phase[c],
           phase'[c] = "open" => buffer'[c] \subseteq Settled' \/ wants[c] # {} \/ ~Retired(c)
    PROVE  /\ Context(c)'
           /\ FinalAsked(c)' => FinalAsked(c)
           /\ flush[c] = "final" => ~FinalAsked(c)'
           /\ flush[c] = "inter" => (FinalAsked(c)' <=> FinalAsked(c))
  <1>1. /\ (Retired(c)' <=> Retired(c)) /\ (Coming(c)' <=> Coming(c)) /\ (Over(c)' <=> Over(c))
    BY DEF Retired, Coming, Over
  <1>2. flush'[c] = "idle" /\ wants'[c] = wants[c] /\ Context(c)
    BY DEF DInv, Typed
  <1>3. /\ FinalAsked(c)' => FinalAsked(c)
        /\ flush[c] = "final" => ~FinalAsked(c)'
        /\ flush[c] = "inter" => (FinalAsked(c)' <=> FinalAsked(c))
    BY <1>2 DEF FinalAsked, Context, Finals
  <1>4. Finals(c)'
    <2>1. CASE flush[c] = "final"
      BY <1>3, <2>1 DEF Finals
    <2>2. CASE flush[c] = "inter"
      <3>1. rotating' = rotating
        BY <2>2, ReleasedEffect
      <3>2. QED
        BY <1>1, <1>2, <1>3, <2>2, <3>1 DEF Context, Finals
    <2>3. QED
      BY <2>1, <2>2
  <1>5. Attended(c)'
    BY <1>1, <1>2 DEF Attended
  <1>6. Untouched(c)'
    BY <1>1, <1>2 DEF Context, Untouched
  <1>7. QED
    BY <1>3, <1>4, <1>5, <1>6 DEF Context

LEMMA SavedStep ==
    ASSUME DInv, NEW c \in Contexts, Saved(c)
    PROVE  DInv'
  <1>1. /\ flush[c] \in {"inter", "final"} /\ stored' = stored \cup snap[c]
        /\ flush' = [flush EXCEPT ![c] = "idle"] /\ Released(c)
        /\ UNCHANGED <<wants, snap, gen, ticking, waiting, stage, ended, closed, accepted, failed,
                       owed>>
    BY DEF Saved
  <1>2. Settled' = Settled \cup snap[c]
    BY <1>1 DEF Settled
  <1>3. /\ Typed /\ Context(c) /\ Phases(c)
    BY DEF DInv, Context
  <1>4. CASE flush[c] = "final" /\ phase[c] = "open"
    <2>1. /\ phase' = [phase EXCEPT ![c] = "closed"]
          /\ late' = [late EXCEPT ![c] = buffer[c] \ snap[c]]
          /\ buffer' = [buffer EXCEPT ![c] = {}] /\ timer' = [timer EXCEPT ![c] = TRUE]
      BY <1>4 DEF Saved
    <2>2. /\ phase'[c] = "closed" /\ late'[c] = buffer[c] \ snap[c] /\ buffer'[c] = {}
          /\ timer'[c] = TRUE /\ late[c] = {} /\ flush'[c] = "idle"
      BY <1>1, <1>3, <1>4, <2>1 DEF Typed, Phases
    <2>3. Typed'
      BY <1>1, <1>3, <2>1, ReleasedEffect DEF Typed
    <2>4. \A d \in Contexts \ {c} : /\ Held(d)' = Held(d) /\ buffer'[d] = buffer[d]
                                    /\ late'[d] = late[d] /\ phase'[d] = phase[d]
                                    /\ timer'[d] = timer[d] /\ flush'[d] = flush[d]
                                    /\ wants'[d] = wants[d] /\ snap'[d] = snap[d]
      BY <1>1, <1>3, <2>1 DEF Typed, Held
    <2>5. Held(c)' \subseteq Held(c) /\ Held(c) \subseteq Held(c)' \cup Settled'
      BY <1>2, <2>2 DEF Held
    <2>6. Ledger'
      BY <1>1, <1>2, <2>4, <2>5, LedgerKept
    <2>7. Over(c)'
      BY <1>1, <1>3, <1>4 DEF Context, Finals, FinalAsked, Over, Retired
    <2>8. Phases(c)'
      BY <2>2, <2>7 DEF Phases
    <2>9. /\ Context(c)' /\ ~FinalAsked(c)'
      BY <1>1, <1>2, <1>4, <2>2, <2>8, SettledFlush
    <2>10. ASSUME NEW d \in Contexts \ {c} PROVE Context(d)'
      BY <1>1, <1>2, <2>4, ContextKept, ReleasedEffect DEF DInv
    <2>11. stage \in {"drain2", "done"} => Clear(c)'
      <3>1. ASSUME stage \in {"drain2", "done"} PROVE c \in HostContexts
        <4>1. \A n \in 0..MaxGen : c = Ambient(n) => rotating = n + 1
          BY <1>3, <1>4 DEF Context, Finals, FinalAsked
        <4>2. rotating = 0
          BY <3>1 DEF DInv, Stages, StageFour
        <4>3. \A n \in 0..MaxGen : c # Ambient(n)
          BY <4>1, <4>2, ContextFacts
        <4>4. QED
          BY <4>3, ContextFacts
      <3>2. ASSUME stage \in {"drain2", "done"} PROVE Clear(c)
        BY <1>4, <3>1, <3>2 DEF DInv, Stages, StageTwo
      <3>3. QED
        BY <1>1, <1>2, <2>5, <3>2 DEF Clear
    <2>12. \A d \in Contexts \ {c} : FinalAsked(d)' <=> FinalAsked(d)
      BY <2>4 DEF FinalAsked
    <2>13. Stages'
      BY <1>1, <1>2, <2>2, <2>4, <2>5, <2>9, <2>11, <2>12, ReleasedEffect, StagesKept
    <2>14. QED
      BY <2>3, <2>6, <2>9, <2>10, <2>13 DEF DInv
  <1>5. CASE flush[c] = "inter"
    <2>1. /\ buffer' = [buffer EXCEPT ![c] = buffer[c] \ snap[c]]
          /\ UNCHANGED <<phase, late, timer>>
      BY <1>3, <1>5 DEF Saved, Typed
    <2>2. buffer'[c] = buffer[c] \ snap[c] /\ flush'[c] = "idle"
      BY <1>1, <1>3, <2>1 DEF Typed
    <2>3. Typed'
      BY <1>1, <1>3, <2>1, ReleasedEffect DEF Typed
    <2>4. \A d \in Contexts \ {c} : /\ Held(d)' = Held(d) /\ buffer'[d] = buffer[d]
                                    /\ flush'[d] = flush[d]
      BY <1>1, <1>3, <2>1 DEF Typed, Held
    <2>5. Held(c)' \subseteq Held(c) /\ Held(c) \subseteq Held(c)' \cup Settled'
      BY <1>2, <2>1, <2>2 DEF Held
    <2>6. Ledger'
      BY <1>1, <1>2, <2>4, <2>5, LedgerKept
    <2>7. Phases(c)'
      BY <1>1, <1>3, <1>5, <2>1, <2>2 DEF Phases, Over, Retired
    <2>8. phase'[c] = "open" => buffer'[c] \subseteq Settled' \/ wants[c] # {} \/ ~Retired(c)
      BY <1>2, <1>3, <1>5, <2>1, <2>2 DEF Context, Attended
    <2>9. /\ Context(c)' /\ (FinalAsked(c)' <=> FinalAsked(c))
      BY <1>1, <1>2, <1>5, <2>1, <2>7, <2>8, SettledFlush
    <2>10. ASSUME NEW d \in Contexts \ {c} PROVE Context(d)'
      BY <1>1, <1>2, <2>1, <2>4, ContextKept, ReleasedEffect DEF DInv
    <2>11. \A d \in Contexts \ {c} : FinalAsked(d)' <=> FinalAsked(d)
      BY <1>1, <2>4 DEF FinalAsked
    <2>12. Stages'
      BY <1>1, <1>2, <2>1, <2>4, <2>5, <2>9, <2>11, ReleasedEffect, StagesKept
    <2>13. QED
      BY <2>3, <2>6, <2>9, <2>10, <2>12 DEF DInv
  <1>6. QED
    BY <1>4, <1>5 DEF Saved

LEMMA FailsStep ==
    ASSUME DInv, NEW c \in Contexts, Fails(c)
    PROVE  DInv'
  <1>1. /\ flush[c] \in {"inter", "final"} /\ flush' = [flush EXCEPT ![c] = "idle"] /\ Released(c)
        /\ failed' = failed \cup (IF flush[c] = "final" THEN buffer[c] ELSE snap[c])
        /\ UNCHANGED <<buffer, late, phase, timer, wants, snap, gen, ticking, waiting, stage, ended,
                       closed, accepted, stored, owed>>
    BY DEF Fails, contexts
  <1>2. /\ Settled \subseteq Settled'
        /\ flush[c] = "final" => buffer[c] \subseteq Settled'
        /\ flush[c] = "inter" => snap[c] \subseteq Settled'
    BY <1>1 DEF Settled
  <1>3. Typed /\ Context(c) /\ Phases(c)
    BY DEF DInv, Context
  <1>4. Typed'
    BY <1>1, <1>3, ReleasedEffect DEF Typed
  <1>5. \A d \in Contexts : Held(d)' = Held(d)
    BY <1>1 DEF Held
  <1>6. Ledger'
    BY <1>1, <1>2, <1>5, LedgerKept
  <1>7. flush'[c] = "idle" /\ \A d \in Contexts \ {c} : flush'[d] = flush[d]
    BY <1>1, <1>3 DEF Typed
  <1>8. Phases(c)'
    BY <1>1, <1>3, <1>7 DEF Phases, Over, Retired
  <1>9. phase'[c] = "open" => buffer'[c] \subseteq Settled' \/ wants[c] # {} \/ ~Retired(c)
    <2>1. CASE flush[c] = "final"
      BY <1>1, <1>2, <2>1
    <2>2. CASE flush[c] = "inter"
      <3>1. Retired(c) /\ phase[c] = "open" /\ wants[c] = {} => buffer[c] \ snap[c] \subseteq Settled
        BY <1>3, <2>2 DEF Context, Attended
      <3>2. QED
        BY <1>1, <1>2, <2>2, <3>1
    <2>3. QED
      BY <1>1, <2>1, <2>2
  <1>10. /\ Context(c)' /\ (FinalAsked(c)' => FinalAsked(c))
         /\ flush[c] = "inter" => (FinalAsked(c)' <=> FinalAsked(c))
    BY <1>1, <1>2, <1>8, <1>9, SettledFlush
  <1>11. ASSUME NEW d \in Contexts \ {c} PROVE Context(d)'
    BY <1>1, <1>2, <1>7, ContextKept, ReleasedEffect DEF DInv
  <1>12. \A d \in Contexts \ {c} : FinalAsked(d)' <=> FinalAsked(d)
    BY <1>1, <1>7 DEF FinalAsked
  <1>13. phase[c] = "open" /\ flush[c] = "final" => Clear(c)'
    BY <1>1, <1>2, <1>3 DEF Phases, Clear, Held
  <1>14. Stages'
    BY <1>1, <1>2, <1>5, <1>10, <1>12, <1>13, ReleasedEffect, StagesKept
  <1>15. QED
    BY <1>4, <1>6, <1>10, <1>11, <1>14 DEF DInv

LEMMA LateSettlesStep ==
    ASSUME DInv, NEW c \in Contexts, LateSettles(c)
    PROVE  DInv'
  <1>1. /\ flush[c] = "late" /\ late' = [late EXCEPT ![c] = {}]
        /\ flush' = [flush EXCEPT ![c] = "idle"]
        /\ UNCHANGED <<buffer, phase, timer, wants, snap, gen, ticking, waiting, rotating, stage,
                       ended, closed, accepted, owed>>
    BY DEF LateSettles, ambient
  <1>2. Settled' = Settled \cup snap[c]
    BY DEF LateSettles, Settled
  <1>3. /\ Typed /\ Context(c) /\ phase[c] = "finished" /\ snap[c] = late[c] /\ buffer[c] = {}
    BY <1>1 DEF DInv, Context, Phases
  <1>4. Typed'
    BY <1>1, <1>3 DEF LateSettles, Typed
  <1>5. late'[c] = {} /\ flush'[c] = "idle"
    BY <1>1, <1>3 DEF Typed
  <1>6. \A d \in Contexts \ {c} : late'[d] = late[d] /\ flush'[d] = flush[d] /\ Held(d)' = Held(d)
    BY <1>1, <1>3 DEF Typed, Held
  <1>7. Held(c)' = {} /\ Held(c) \subseteq Settled'
    BY <1>1, <1>2, <1>3, <1>5 DEF Held
  <1>8. Ledger'
    BY <1>1, <1>2, <1>6, <1>7, LedgerKept
  <1>9. \A d \in Contexts : FinalAsked(d)' <=> FinalAsked(d)
    BY <1>1, <1>5, <1>6 DEF FinalAsked
  <1>10. Stages'
    BY <1>1, <1>2, <1>6, <1>7, <1>9, StagesKept
  <1>11. ASSUME NEW d \in Contexts \ {c} PROVE Context(d)'
    BY <1>1, <1>2, <1>6, ContextKept DEF DInv
  <1>12. Context(c)'
    <2>1. (Retired(c)' <=> Retired(c)) /\ (Coming(c)' <=> Coming(c)) /\ (Over(c)' <=> Over(c))
      BY <1>1 DEF Retired, Coming, Over
    <2>2. Phases(c)'
      BY <1>1, <1>3, <1>5, <2>1 DEF Context, Phases
    <2>3. Finals(c)'
      BY <1>1, <1>3, <1>9 DEF Context, Finals
    <2>4. Attended(c)' /\ Untouched(c)'
      BY <1>1, <1>3, <2>1 DEF Context, Attended, Untouched
    <2>5. QED
      BY <2>2, <2>3, <2>4 DEF Context
  <1>13. QED
    BY <1>4, <1>8, <1>10, <1>11, <1>12 DEF DInv

-----------------------------------------------------------------------------
(* record() *)

LEMMA RecordStep ==
    ASSUME DInv, NEW e \in Entries, NEW c \in Contexts, Record(e, c)
    PROVE  DInv'
  <1>1. /\ e \notin accepted /\ c \in Targets /\ accepted' = accepted \cup {e}
        /\ UNCHANGED <<phase, timer, gen, ticking, waiting, rotating, stage, ended, closed, stored,
                       failed, owed>>
    BY DEF Record, ambient
  <1>2. Typed /\ Context(c)
    BY DEF DInv
  <1>3. /\ buffer' \in [Contexts -> SUBSET Entries] /\ late' \in [Contexts -> SUBSET Entries]
        /\ \A d \in Contexts \ {c} : buffer'[d] = buffer[d] /\ late'[d] = late[d]
        /\ \/ phase[c] = "open" /\ buffer'[c] = buffer[c] \cup {e} /\ late'[c] = late[c]
           \/ phase[c] = "closed" /\ late'[c] = late[c] \cup {e} /\ buffer'[c] = buffer[c]
    <2>1. CASE /\ phase[c] = "open" /\ buffer' = [buffer EXCEPT ![c] = @ \cup {e}] /\ late' = late
      BY <1>2, <2>1 DEF Typed
    <2>2. CASE /\ phase[c] = "closed" /\ late' = [late EXCEPT ![c] = @ \cup {e}]
               /\ buffer' = buffer
      BY <1>2, <2>2 DEF Typed
    <2>3. QED
      BY <2>1, <2>2 DEF Record
  <1>4. /\ flush' \in [Contexts -> {"idle", "inter", "final", "late"}]
        /\ wants' \in [Contexts -> SUBSET {"inter", "final"}]
        /\ snap' \in [Contexts -> SUBSET Entries]
        /\ \A d \in Contexts \ {c} :
              flush'[d] = flush[d] /\ wants'[d] = wants[d] /\ snap'[d] = snap[d]
        /\ \/ /\ c \in HostContexts \cup {Ambient(gen)}
              /\ flush'[c] = flush[c] /\ wants'[c] = wants[c] /\ snap'[c] = snap[c]
           \/ /\ flush[c] = "idle" /\ wants[c] = {} /\ flush'[c] = "inter" /\ wants'[c] = {}
              /\ snap'[c] = buffer'[c]
           \/ /\ flush'[c] = flush[c] /\ wants'[c] = wants[c] \cup {"inter"} /\ snap'[c] = snap[c]
    <2>1. CASE c \in HostContexts \cup {Ambient(gen)} /\ UNCHANGED <<flush, wants, snap>>
      BY <1>2, <2>1 DEF Typed
    <2>2. CASE /\ flush[c] = "idle" /\ wants[c] = {} /\ flush' = [flush EXCEPT ![c] = "inter"]
               /\ snap' = [snap EXCEPT ![c] = buffer'[c]] /\ wants' = wants
      BY <1>2, <1>3, <2>2 DEF Typed
    <2>3. CASE /\ wants' = [wants EXCEPT ![c] = @ \cup {"inter"}] /\ flush' = flush /\ snap' = snap
      BY <1>2, <2>3 DEF Typed
    <2>4. QED
      BY <2>1, <2>2, <2>3 DEF Record, Flush, flushes
  <1>5. Typed'
    BY <1>1, <1>2, <1>3, <1>4 DEF Typed
  <1>6. /\ Settled' = Settled /\ Held(c)' = Held(c) \cup {e}
        /\ \A d \in Contexts \ {c} : Held(d)' = Held(d)
        /\ \A d \in Contexts : FinalAsked(d)' <=> FinalAsked(d)
    <2>1. FinalAsked(c)' <=> FinalAsked(c)
      BY <1>4 DEF FinalAsked
    <2>2. \A d \in Contexts \ {c} : FinalAsked(d)' <=> FinalAsked(d)
      BY <1>4 DEF FinalAsked
    <2>3. QED
      BY <1>1, <1>3, <2>1, <2>2 DEF Settled, Held
  <1>7. Ledger'
    <2>1. owed' \subseteq accepted' /\ \A d \in Contexts : Held(d)' \subseteq accepted'
      BY <1>1, <1>6 DEF DInv, Ledger
    <2>2. \A d \in Contexts : e \notin Held(d)
      BY <1>1 DEF DInv, Ledger
    <2>3. \A a, b \in Contexts : a # b => Held(a)' \cap Held(b)' = {}
      BY <1>6, <2>2 DEF DInv, Ledger
    <2>4. \A x \in accepted : x \in Settled \/ \E d \in Contexts : x \in Held(d)
      BY DEF DInv, Ledger
    <2>5. \A x \in accepted' : x \in Settled' \/ \E d \in Contexts : x \in Held(d)'
      BY <1>1, <1>6, <2>4
    <2>6. QED
      BY <2>1, <2>3, <2>5 DEF Ledger
  <1>8. e \notin owed
    BY <1>1 DEF DInv, Ledger
  <1>9. Stages'
    BY <1>1, <1>6, <1>8, StagesKept
  <1>10. ASSUME NEW d \in Contexts \ {c} PROVE Context(d)'
    BY <1>1, <1>3, <1>4, <1>6, ContextKept DEF DInv
  <1>11. Context(c)'
    <2>1. (Retired(c)' <=> Retired(c)) /\ (Coming(c)' <=> Coming(c)) /\ (Over(c)' <=> Over(c))
      BY <1>1 DEF Retired, Coming, Over
    <2>2. Phases(c)'
      BY <1>1, <1>2, <1>3, <1>4, <2>1 DEF Context, Phases
    <2>3. Finals(c)'
      BY <1>1, <1>2, <1>4, <1>6, <2>1 DEF Context, Finals, FinalAsked
    <2>4. Attended(c)'
      <3>1. CASE c \in HostContexts \cup {Ambient(gen)}
        <4>1. gen \in 0..MaxGen
          BY <1>2 DEF Typed
        <4>2. ~Retired(c)
          BY <3>1, <4>1, ContextFacts DEF Retired
        <4>3. QED
          BY <2>1, <4>2 DEF Attended
      <3>2. CASE wants'[c] = {} /\ flush'[c] = "inter" /\ snap'[c] = buffer'[c]
        BY <3>2 DEF Attended
      <3>3. CASE wants'[c] # {}
        BY <3>3 DEF Attended
      <3>4. QED
        BY <1>4, <3>1, <3>2, <3>3
    <2>5. ~Coming(c)
      <3>1. gen \in 0..MaxGen /\ (c \in HostContexts \/ \E n \in 0..gen : c = Ambient(n))
        BY <1>1, <1>2 DEF Typed, Targets
      <3>2. QED
        BY <3>1, ContextFacts DEF Coming
    <2>6. QED
      BY <2>1, <2>2, <2>3, <2>4, <2>5 DEF Context, Untouched
  <1>12. QED
    BY <1>5, <1>7, <1>9, <1>10, <1>11 DEF DInv

-----------------------------------------------------------------------------
(* Grace windows *)

LEMMA ExpireEffect ==
    ASSUME DInv, NEW cs \in SUBSET Contexts, \A c \in cs : timer[c] /\ flush[c] = "idle",
           Expire(cs),
           UNCHANGED <<buffer, late, wants, gen, rotating, waiting, ended, stored, failed, accepted,
                       owed>>,
           stage' \in {"no", "drain", "stop", "rotate", "drain2", "done"}
    PROVE  /\ Typed' /\ (\A c \in Contexts : Context(c)') /\ Ledger' /\ Settled' = Settled
           /\ \A c \in Contexts : /\ Held(c)' = Held(c)
                                  /\ phase'[c] = IF c \in cs THEN "finished" ELSE phase[c]
                                  /\ FinalAsked(c)' <=> FinalAsked(c)
  <1>1. \A c \in Contexts :
          /\ phase'[c] = IF c \in cs THEN "finished" ELSE phase[c]
          /\ timer'[c] = (timer[c] /\ c \notin cs)
          /\ flush'[c] = IF c \in cs /\ late[c] # {} THEN "late" ELSE flush[c]
          /\ snap'[c] = IF c \in cs THEN late[c] ELSE snap[c]
    BY DEF Expire
  <1>2. Typed'
    BY DEF DInv, Typed, Expire
  <1>3. Settled' = Settled /\ \A c \in Contexts : Held(c)' = Held(c)
    BY DEF Settled, Held
  <1>4. Ledger'
    BY <1>3, LedgerKept
  <1>5. \A c \in Contexts : FinalAsked(c)' <=> FinalAsked(c)
    BY <1>1 DEF FinalAsked
  <1>6. ASSUME NEW c \in Contexts
        PROVE  Context(c)'
    <2>1. CASE c \notin cs
      <3>1. timer'[c] = timer[c]
        BY <1>1, <2>1 DEF DInv, Typed
      <3>2. QED
        BY <1>1, <1>3, <2>1, <3>1, ContextKept DEF DInv
    <2>2. CASE c \in cs
      <3>1. /\ timer[c] /\ flush[c] = "idle" /\ Context(c)
        BY <2>2 DEF DInv
      <3>2. phase[c] = "closed" /\ buffer[c] = {} /\ Over(c)
        BY <3>1 DEF Context, Phases
      <3>3. (Retired(c)' <=> Retired(c)) /\ (Coming(c)' <=> Coming(c)) /\ (Over(c)' <=> Over(c))
        BY DEF Retired, Coming, Over
      <3>4. Phases(c)'
        BY <1>1, <2>2, <3>1, <3>2, <3>3 DEF Phases
      <3>5. Finals(c)'
        BY <1>5, <3>1, <3>2 DEF Context, Finals
      <3>6. Attended(c)' /\ Untouched(c)'
        BY <1>1, <2>2, <3>1, <3>2, <3>3 DEF Context, Attended, Untouched
      <3>7. QED
        BY <3>4, <3>5, <3>6 DEF Context
    <2>3. QED
      BY <2>1, <2>2
  <1>7. QED
    BY <1>1, <1>2, <1>3, <1>4, <1>5, <1>6

LEMMA GraceTimerStep ==
    ASSUME DInv, NEW c \in Contexts, GraceTimer(c)
    PROVE  DInv'
  <1>1. /\ timer[c] /\ flush[c] = "idle" /\ Expire({c})
        /\ UNCHANGED <<buffer, late, wants, gen, ticking, rotating, waiting, stage, ended, closed,
                       stored, failed, accepted, owed>>
    BY DEF GraceTimer, ambient, history
  <1>2. stage \in {"no", "drain", "stop", "rotate", "drain2", "done"}
    BY DEF DInv, Typed
  <1>3. /\ Typed' /\ (\A d \in Contexts : Context(d)') /\ Ledger' /\ Settled' = Settled
        /\ \A d \in Contexts : /\ Held(d)' = Held(d)
                               /\ phase'[d] = IF d \in {c} THEN "finished" ELSE phase[d]
                               /\ FinalAsked(d)' <=> FinalAsked(d)
    BY <1>1, <1>2, ExpireEffect
  <1>4. Stages'
    BY <1>1, <1>3, StagesKept
  <1>5. QED
    BY <1>3, <1>4 DEF DInv

LEMMA FlushLateEntriesStep ==
    ASSUME DInv, FlushLateEntries
    PROVE  DInv'
  <1>1. /\ stage = "rotate" /\ ~Busy /\ \A c \in LateWindows : flush[c] = "idle"
        /\ Expire(LateWindows) /\ stage' = "drain2"
        /\ UNCHANGED <<buffer, late, wants, gen, ticking, rotating, waiting, ended, closed,
                       stored, failed, accepted, owed>>
    BY DEF FlushLateEntries, ambient, history
  <1>2. LateWindows \in SUBSET Contexts /\ \A c \in LateWindows : timer[c]
    BY DEF LateWindows
  <1>3. /\ Typed' /\ (\A d \in Contexts : Context(d)') /\ Ledger' /\ Settled' = Settled
        /\ \A d \in Contexts : /\ Held(d)' = Held(d)
                               /\ phase'[d] = IF d \in LateWindows THEN "finished" ELSE phase[d]
                               /\ FinalAsked(d)' <=> FinalAsked(d)
    BY <1>1, <1>2, ExpireEffect
  <1>4. \A c \in Contexts : phase'[c] # "closed"
    <2>1. \A c \in Contexts : phase[c] = "closed" => c \in LateWindows
      BY DEF DInv, Context, Phases, LateWindows
    <2>2. QED
      BY <1>3, <2>1
  <1>5. \A c \in Contexts : Clear(c)' <=> Clear(c)
    BY <1>1, <1>3 DEF Clear
  <1>6. StageOne' /\ StageTwo'
    BY <1>1, <1>3, <1>5, ContextFacts DEF DInv, Stages, StageOne, StageTwo
  <1>7. StageThree'
    <2>1. Ambient(gen) \in Contexts /\ Ambient(gen)' = Ambient(gen)
      BY <1>1, ContextFacts DEF DInv, Typed, Ambient
    <2>2. Clear(Ambient(gen))' <=> Clear(Ambient(gen))
      BY <1>1, <1>5, <2>1 DEF Clear, Held
    <2>3. QED
      BY <1>1, <2>2 DEF DInv, Stages, StageThree
  <1>8. rotating = 0
    BY <1>1 DEF Busy
  <1>9. StageFour' /\ StageFive'
    BY <1>1, <1>4, <1>8 DEF StageFour, StageFive
  <1>10. ~closed'
    BY <1>1 DEF DInv, Stages
  <1>11. QED
    BY <1>3, <1>6, <1>7, <1>9, <1>10 DEF DInv, Stages

-----------------------------------------------------------------------------
(* Rotations *)

LEMMA SwapEffect ==
    ASSUME DInv, rotating = 0, Swap,
           UNCHANGED <<buffer, late, phase, timer, ended, closed, accepted, stored, failed, owed>>,
           waiting' \in Nat, stage' \in {"no", "drain", "stop", "rotate", "drain2", "done"}
    PROVE  /\ Typed' /\ (\A c \in Contexts : Context(c)') /\ Ledger' /\ Settled' = Settled
           /\ \A c \in Contexts : Held(c)' = Held(c)
           /\ \A c \in HostContexts : FinalAsked(c)' <=> FinalAsked(c)
           /\ Ambient(gen') \in Contexts /\ Held(Ambient(gen')) = {}
  <1>0. PICK r \in Contexts : r = Ambient(gen)
    BY ContextFacts DEF DInv, Typed
  <1>1. /\ gen \in 0..MaxGen /\ MaxGen \in Nat /\ gen < MaxGen /\ gen' = gen + 1
        /\ gen' \in 0..MaxGen /\ gen \in Nat /\ gen' \in Nat
    BY ShutdownAssumption DEF DInv, Typed, Swap
  <1>2. r \in Contexts /\ r \notin HostContexts /\ \A n \in 0..MaxGen : r = Ambient(n) => n = gen
    BY <1>0, <1>1, ContextFacts
  <1>3. ~Retired(r)
    BY <1>1, <1>2 DEF Retired
  <1>4. ~Over(r)
    BY <1>2, <1>3 DEF Over, DInv, Typed
  <1>5. Retired(r)'
    <2>1. gen < gen'
      BY <1>1
    <2>2. QED
      BY <1>0, <1>1, <2>1 DEF Retired, Ambient
  <1>6. Over(r)'
    BY <1>5 DEF Over
  <1>7. ~Coming(r)'
    <2>1. ~(gen > gen')
      BY <1>1
    <2>2. QED
      BY <1>2, <2>1 DEF Coming
  <1>8. ASSUME NEW d \in Contexts \ {r}
        PROVE  (Retired(d)' <=> Retired(d)) /\ (Coming(d)' => Coming(d))
    <2>1. \A n \in 0..MaxGen : d = Ambient(n) => n # gen
      BY <1>0, <1>8
    <2>2. \A n \in 0..MaxGen : n # gen => (n < gen' <=> n < gen) /\ (n > gen' => n > gen)
      BY <1>1
    <2>3. QED
      BY <2>1, <2>2 DEF Retired, Coming, Ambient
  <1>9. Settled' = Settled /\ \A c \in Contexts : Held(c)' = Held(c)
    BY DEF Settled, Held
  <1>10. ~FinalAsked(r) /\ \A d \in Contexts : FinalAsked(d) => d \in HostContexts
    <2>1. ASSUME NEW d \in Contexts, FinalAsked(d), d \notin HostContexts PROVE FALSE
      <3>1. PICK n \in 0..MaxGen : d = Ambient(n)
        BY <2>1, ContextFacts
      <3>2. rotating = n + 1
        BY <2>1, <3>1 DEF DInv, Context, Finals
      <3>3. QED
        BY <3>2
    <2>2. QED
      BY <1>2, <2>1
  <1>11. /\ Context(r)'
         /\ flush' \in [Contexts -> {"idle", "inter", "final", "late"}]
         /\ wants' \in [Contexts -> SUBSET {"inter", "final"}]
         /\ snap' \in [Contexts -> SUBSET Entries]
         /\ rotating' \in 0..MaxGen
         /\ \A d \in Contexts \ {r} :
               flush'[d] = flush[d] /\ wants'[d] = wants[d] /\ snap'[d] = snap[d]
    <2>1. CASE buffer[r] # {}
      <3>1. Flush(r, "final") /\ rotating' = gen + 1
        BY <1>0, <2>1 DEF Swap
      <3>2. \A n \in 0..MaxGen : r = Ambient(n) => rotating' = n + 1
        BY <1>2, <3>1
      <3>3. rotating' \in 0..MaxGen
        BY <1>1, <3>1
      <3>4. QED
        BY <1>2, <1>4, <1>6, <1>7, <1>9, <3>1, <3>2, <3>3, FinalFlush
    <2>2. CASE buffer[r] = {}
      <3>1. UNCHANGED <<rotating, flush, wants, snap>>
        BY <1>0, <2>2 DEF Swap, flushes
      <3>2. Typed /\ Context(r)
        BY <1>2 DEF DInv
      <3>3. Phases(r)'
        BY <1>4, <1>6, <3>1, <3>2 DEF Context, Phases
      <3>4. Finals(r)'
        BY <1>10, <3>1 DEF Finals, FinalAsked
      <3>5. Attended(r)' /\ Untouched(r)'
        BY <1>7, <2>2 DEF Attended, Untouched
      <3>6. QED
        BY <3>1, <3>2, <3>3, <3>4, <3>5 DEF Context, Typed
    <2>3. QED
      BY <2>1, <2>2
  <1>12. Typed'
    BY <1>1, <1>11 DEF DInv, Typed
  <1>13. Ledger'
    BY <1>9, LedgerKept
  <1>14. ASSUME NEW d \in Contexts \ {r} PROVE Context(d)'
    BY <1>8, <1>9, <1>10, <1>11, ContextOutlives DEF DInv
  <1>15. \A c \in HostContexts : FinalAsked(c)' <=> FinalAsked(c)
    <2>1. \A c \in HostContexts : c \in Contexts \ {r}
      BY <1>2, ContextFacts
    <2>2. QED
      BY <1>11, <2>1 DEF FinalAsked
  <1>16. Ambient(gen') \in Contexts /\ Held(Ambient(gen')) = {}
    <2>1. Ambient(gen') \in Contexts
      BY <1>1, ContextFacts
    <2>2. gen' > gen
      BY <1>1
    <2>3. Coming(Ambient(gen'))
      BY <1>1, <2>2 DEF Coming
    <2>4. QED
      BY <2>1, <2>3 DEF DInv, Context, Untouched
  <1>17. QED
    BY <1>9, <1>11, <1>12, <1>13, <1>14, <1>15, <1>16

LEMMA TickStep ==
    ASSUME DInv, Tick
    PROVE  DInv'
  <1>1. /\ ticking /\ Rotate
        /\ UNCHANGED <<buffer, late, phase, timer, ticking, stage, ended, closed, accepted, stored,
                       failed, owed>>
    BY DEF Tick, contexts, history
  <1>2. stage \in {"no", "drain"} /\ ~closed
    BY <1>1 DEF DInv, Typed, Stages, StageTwo
  <1>3. CASE Busy
    <2>1. waiting' = waiting + 1 /\ UNCHANGED <<gen, rotating, flush, wants, snap>>
      BY <1>1, <1>3 DEF Rotate, flushes
    <2>2. Typed'
      BY <1>1, <2>1 DEF DInv, Typed
    <2>3. Settled' = Settled /\ \A c \in Contexts : Held(c)' = Held(c) /\ (FinalAsked(c)' <=> FinalAsked(c))
      BY <1>1, <2>1 DEF Settled, Held, FinalAsked
    <2>4. Ledger'
      BY <1>1, <2>3, LedgerKept
    <2>5. \A c \in Contexts : Context(c)'
      BY <1>1, <2>1, <2>3, ContextKept DEF DInv
    <2>6. StageOne'
      BY <1>1, <2>3, ContextFacts DEF DInv, Stages, StageOne, Clear
    <2>7. Stages'
      BY <1>1, <1>2, <2>6 DEF Stages, StageTwo, StageThree, StageFour, StageFive
    <2>8. QED
      BY <2>2, <2>4, <2>5, <2>7 DEF DInv
  <1>4. CASE ~Busy
    <2>1. waiting' = waiting /\ rotating = 0 /\ Swap
      BY <1>1, <1>4 DEF Rotate, Busy
    <2>2. waiting' \in Nat /\ stage' \in {"no", "drain", "stop", "rotate", "drain2", "done"}
      BY <1>1, <2>1 DEF DInv, Typed
    <2>3. /\ Typed' /\ (\A c \in Contexts : Context(c)') /\ Ledger' /\ Settled' = Settled
          /\ \A c \in Contexts : Held(c)' = Held(c)
          /\ \A c \in HostContexts : FinalAsked(c)' <=> FinalAsked(c)
      BY <1>1, <2>1, <2>2, SwapEffect
    <2>4. StageOne'
      BY <1>1, <2>3, ContextFacts DEF DInv, Stages, StageOne, Clear
    <2>5. Stages'
      BY <1>1, <1>2, <2>4 DEF Stages, StageTwo, StageThree, StageFour, StageFive
    <2>6. QED
      BY <2>3, <2>5 DEF DInv
  <1>5. QED
    BY <1>3, <1>4

LEMMA ResumeStep ==
    ASSUME DInv, Resume
    PROVE  DInv'
  <1>1. /\ waiting > 0 /\ rotating = 0 /\ waiting' = waiting - 1 /\ Swap
        /\ UNCHANGED <<buffer, late, phase, timer, ticking, stage, ended, closed, accepted, stored,
                       failed, owed>>
    BY DEF Resume, contexts, history
  <1>2. waiting' \in Nat /\ stage' \in {"no", "drain", "stop", "rotate", "drain2", "done"}
    BY <1>1 DEF DInv, Typed
  <1>3. /\ Typed' /\ (\A c \in Contexts : Context(c)') /\ Ledger' /\ Settled' = Settled
        /\ \A c \in Contexts : Held(c)' = Held(c)
        /\ \A c \in HostContexts : FinalAsked(c)' <=> FinalAsked(c)
    BY <1>1, <1>2, SwapEffect
  <1>4. stage \notin {"rotate", "drain2", "done"} /\ ~closed
    <2>1. waiting # 0
      BY <1>1
    <2>2. QED
      BY <2>1 DEF DInv, Stages, StageThree
  <1>5. StageOne' /\ StageTwo'
    BY <1>1, <1>3, ContextFacts DEF DInv, Stages, StageOne, StageTwo, Clear
  <1>6. Stages'
    BY <1>1, <1>4, <1>5 DEF Stages, StageThree, StageFour, StageFive
  <1>7. QED
    BY <1>3, <1>6 DEF DInv

LEMMA StopRotatesStep ==
    ASSUME DInv, StopRotates
    PROVE  DInv'
  <1>1. /\ stage = "stop" /\ ~Busy /\ Rotate /\ stage' = "rotate"
        /\ UNCHANGED <<buffer, late, phase, timer, ticking, ended, closed, accepted, stored,
                       failed, owed>>
    BY DEF StopRotates, LastRotation, contexts, history
  <1>2. /\ waiting \in Nat /\ waiting = 0 /\ waiting' = 0 /\ waiting' \in Nat /\ rotating = 0 /\ Swap
        /\ stage' \in {"no", "drain", "stop", "rotate", "drain2", "done"}
    BY <1>1 DEF Rotate, Busy, DInv, Typed
  <1>3. /\ Typed' /\ (\A c \in Contexts : Context(c)') /\ Ledger' /\ Settled' = Settled
        /\ \A c \in Contexts : Held(c)' = Held(c)
        /\ \A c \in HostContexts : FinalAsked(c)' <=> FinalAsked(c)
        /\ Ambient(gen') \in Contexts /\ Held(Ambient(gen')) = {}
    BY <1>1, <1>2, SwapEffect
  <1>4. StageOne' /\ StageTwo'
    BY <1>1, <1>3, ContextFacts DEF DInv, Stages, StageOne, StageTwo, Clear
  <1>5. StageThree'
    <2>1. buffer[Ambient(gen')] = {} /\ late[Ambient(gen')] = {}
      BY <1>3 DEF Held
    <2>2. Clear(Ambient(gen))'
      BY <1>1, <2>1 DEF Clear, Held, Ambient
    <2>3. QED
      BY <1>2, <2>2 DEF StageThree
  <1>6. Stages'
    BY <1>1, <1>4, <1>5 DEF DInv, Stages, StageFour, StageFive
  <1>7. QED
    BY <1>3, <1>6 DEF DInv

-----------------------------------------------------------------------------
(* The stages of shutdown() *)

\* A step that moves shutdown() on, and no context.
LEMMA StageOnly ==
    ASSUME DInv,
           UNCHANGED <<buffer, late, phase, timer, flush, wants, snap, gen, waiting, rotating,
                       ended, accepted, stored, failed>>,
           stage' \in {"no", "drain", "stop", "rotate", "drain2", "done"}
    PROVE  /\ Typed' /\ (\A c \in Contexts : Context(c)') /\ Settled' = Settled
           /\ \A c \in Contexts : Held(c)' = Held(c) /\ (FinalAsked(c)' <=> FinalAsked(c))
  <1>1. Settled' = Settled
    BY DEF Settled
  <1>2. Typed'
    BY DEF DInv, Typed
  <1>3. \A c \in Contexts : Context(c)'
    BY <1>1, ContextKept DEF DInv
  <1>4. \A c \in Contexts : Held(c)' = Held(c) /\ (FinalAsked(c)' <=> FinalAsked(c))
    BY DEF Held, FinalAsked
  <1>5. QED
    BY <1>1, <1>2, <1>3, <1>4

LEMMA ShutdownStep ==
    ASSUME DInv, Shutdown
    PROVE  DInv'
  <1>1. /\ stage = "no" /\ stage' = "drain" /\ owed' = UNION {late[c] \cup buffer[c] : c \in Flushed}
        /\ UNCHANGED <<buffer, late, phase, timer, flush, wants, snap, gen, ticking, waiting,
                       rotating, ended, closed, accepted, stored, failed>>
    BY DEF Shutdown, contexts, flushes, ambient
  <1>2. /\ Typed' /\ (\A c \in Contexts : Context(c)') /\ Settled' = Settled
        /\ \A c \in Contexts : Held(c)' = Held(c) /\ (FinalAsked(c)' <=> FinalAsked(c))
    BY <1>1, StageOnly
  <1>3. Flushed \subseteq Contexts
    BY ContextFacts DEF Flushed, FinalUnderWay, InFlight, DInv, Typed
  <1>4. \A e \in owed' : \E c \in Flushed : e \in Held(c)
    BY <1>1 DEF Held
  <1>5. Ledger'
    <2>1. owed' \subseteq accepted'
      BY <1>1, <1>3, <1>4 DEF DInv, Ledger
    <2>2. QED
      BY <1>1, <1>2, <2>1 DEF DInv, Ledger
  <1>6. ASSUME NEW c \in HostContexts, phase[c] = "open", ~FinalAsked(c)
        PROVE  Clear(c)'
    <2>1. c \in Contexts
      BY ContextFacts
    <2>2. c # Ambient(gen)
      BY ContextFacts DEF DInv, Typed
    <2>3. c \notin Flushed
      BY <1>6, <2>2 DEF Flushed, FinalUnderWay, FinalAsked
    <2>4. \A d \in Flushed : Held(c) \cap Held(d) = {}
      BY <1>3, <2>1, <2>3 DEF DInv, Ledger
    <2>5. Held(c) \cap owed' = {}
      BY <1>4, <2>4
    <2>6. QED
      BY <1>2, <2>1, <2>5 DEF Clear
  <1>7. StageOne'
    BY <1>1, <1>2, <1>6, ContextFacts DEF StageOne
  <1>8. Stages'
    BY <1>1, <1>7 DEF DInv, Stages, StageTwo, StageThree, StageFour, StageFive
  <1>9. QED
    BY <1>2, <1>5, <1>8 DEF DInv

LEMMA StopAmbientStep ==
    ASSUME DInv, StopAmbient
    PROVE  DInv'
  <1>1. /\ stage = "drain" /\ InFlight = {} /\ stage' = "stop" /\ ticking' = FALSE
        /\ UNCHANGED <<buffer, late, phase, timer, flush, wants, snap, gen, waiting,
                       rotating, ended, closed, accepted, stored, failed, owed>>
    BY DEF StopAmbient, contexts, flushes, history
  <1>2. /\ Typed' /\ (\A c \in Contexts : Context(c)') /\ Settled' = Settled
        /\ \A c \in Contexts : Held(c)' = Held(c) /\ (FinalAsked(c)' <=> FinalAsked(c))
    BY <1>1, StageOnly
  <1>3. Ledger'
    BY <1>1, <1>2, LedgerKept
  <1>4. \A c \in Contexts : ~FinalAsked(c)
    BY <1>1 DEF InFlight, FinalAsked
  <1>5. \A c \in HostContexts : phase[c] = "open" => Clear(c)
    BY <1>1, <1>4, ContextFacts DEF DInv, Stages, StageOne
  <1>6. \A c \in HostContexts : phase'[c] = "open" => Clear(c)'
    BY <1>1, <1>2, <1>5, ContextFacts DEF Clear
  <1>7. Stages'
    BY <1>1, <1>6 DEF DInv, Stages, StageOne, StageTwo, StageThree, StageFour, StageFive
  <1>8. QED
    BY <1>2, <1>3, <1>7 DEF DInv

\* With nothing in flight, after the windows ended, what is owed is settled.
LEMMA AllSettled ==
    ASSUME DInv, stage = "drain2", InFlight = {}
    PROVE  owed \subseteq Settled
  <1>1. ASSUME NEW c \in Contexts
        PROVE  Clear(c)
    <2>1. flush[c] = "idle" /\ wants[c] = {} /\ Context(c)
      BY DEF InFlight, DInv
    <2>2. CASE phase[c] = "closed"
      BY <2>2 DEF DInv, Stages, StageFour
    <2>3. CASE phase[c] = "finished"
      <3>1. Held(c) = {}
        BY <2>1, <2>3 DEF Context, Phases, Held
      <3>2. QED
        BY <3>1 DEF Clear
    <2>4. CASE phase[c] = "open" /\ c \in HostContexts
      BY <2>4 DEF DInv, Stages, StageTwo
    <2>5. CASE phase[c] = "open" /\ c \notin HostContexts
      <3>1. PICK n \in 0..MaxGen : c = Ambient(n)
        BY <2>5, ContextFacts
      <3>2. CASE n = gen
        BY <3>1, <3>2 DEF DInv, Stages, StageThree
      <3>3. CASE n < gen
        <4>1. buffer[c] \subseteq Settled
          BY <2>1, <2>5, <3>1, <3>3 DEF Context, Attended, Retired
        <4>2. late[c] = {}
          BY <2>1, <2>5 DEF Context, Phases
        <4>3. QED
          BY <4>1, <4>2 DEF Clear, Held
      <3>4. CASE n > gen
        <4>1. Held(c) = {}
          BY <2>1, <3>1, <3>4 DEF Context, Untouched, Coming
        <4>2. QED
          BY <4>1 DEF Clear
      <3>5. n \in Nat /\ gen \in Nat
        BY ContextFacts DEF DInv, Typed
      <3>6. QED
        BY <3>2, <3>3, <3>4, <3>5
    <2>6. QED
      BY <2>2, <2>3, <2>4, <2>5 DEF DInv, Typed
  <1>2. \A e \in owed : e \in Settled \/ \E c \in Contexts : e \in Held(c)
    BY DEF DInv, Ledger
  <1>3. QED
    BY <1>1, <1>2 DEF Clear

LEMMA DoneStep ==
    ASSUME DInv, Done
    PROVE  DInv'
  <1>1. /\ stage = "drain2" /\ InFlight = {} /\ stage' = "done"
        /\ UNCHANGED <<buffer, late, phase, timer, flush, wants, snap, gen, ticking, waiting,
                       rotating, ended, closed, accepted, stored, failed, owed>>
    BY DEF Done, Drained, contexts, flushes, ambient, history
  <1>2. /\ Typed' /\ (\A c \in Contexts : Context(c)') /\ Settled' = Settled
        /\ \A c \in Contexts : Held(c)' = Held(c) /\ (FinalAsked(c)' <=> FinalAsked(c))
    BY <1>1, StageOnly
  <1>3. Ledger'
    BY <1>1, <1>2, LedgerKept
  <1>4. \A c \in Contexts : ~FinalAsked(c)
    BY <1>1 DEF InFlight, FinalAsked
  <1>5. StageFive'
    BY <1>1, <1>2, <1>4, AllSettled DEF StageFive
  <1>6. \A c \in Contexts : Clear(c)' <=> Clear(c)
    BY <1>1, <1>2 DEF Clear
  <1>7. StageOne' /\ StageTwo' /\ StageFour'
    BY <1>1, <1>2, <1>6, ContextFacts DEF DInv, Stages, StageOne, StageTwo, StageFour
  <1>8. StageThree'
    BY <1>1, <1>2 DEF DInv, Stages, StageThree, Clear, Held, Ambient
  <1>9. QED
    BY <1>1, <1>2, <1>3, <1>5, <1>7, <1>8 DEF DInv, Stages

\* The store is closed, or nothing happens.
LEMMA CloseStep ==
    ASSUME DInv, CloseStore \/ UNCHANGED vars
    PROVE  DInv'
  <1>1. /\ closed' => closed \/ stage = "done"
        /\ UNCHANGED <<buffer, late, phase, timer, flush, wants, snap, gen, ticking, waiting,
                       rotating, stage, ended, accepted, stored, failed, owed>>
    BY DEF CloseStore, vars, contexts, flushes, ambient, history
  <1>2. stage' \in {"no", "drain", "stop", "rotate", "drain2", "done"}
    BY <1>1 DEF DInv, Typed
  <1>3. /\ Typed' /\ (\A c \in Contexts : Context(c)') /\ Settled' = Settled
        /\ \A c \in Contexts : Held(c)' = Held(c) /\ (FinalAsked(c)' <=> FinalAsked(c))
    BY <1>1, <1>2, StageOnly
  <1>4. Ledger'
    BY <1>1, <1>3, LedgerKept
  <1>5. \A c \in Contexts : Clear(c)' <=> Clear(c)
    BY <1>1, <1>3 DEF Clear
  <1>6. StageOne' /\ StageTwo' /\ StageFour' /\ StageFive'
    BY <1>1, <1>3, <1>5, ContextFacts DEF DInv, Stages, StageOne, StageTwo, StageFour, StageFive
  <1>7. StageThree'
    BY <1>1, <1>3 DEF DInv, Stages, StageThree, Clear, Held, Ambient
  <1>8. QED
    BY <1>1, <1>3, <1>4, <1>6, <1>7 DEF DInv, Stages

LEMMA NextStep ==
    ASSUME DInv, [Next]_vars
    PROVE  DInv'
  <1>1. CASE \E e \in Entries, c \in Contexts : Record(e, c)
    BY <1>1, RecordStep
  <1>2. ASSUME NEW c \in Contexts, HostFlush(c) \/ Saved(c) \/ Fails(c)
        PROVE  DInv'
    BY <1>2, HostFlushStep, SavedStep, FailsStep
  <1>3. ASSUME NEW c \in Contexts, LateSettles(c) \/ GraceTimer(c)
        PROVE  DInv'
    BY <1>3, LateSettlesStep, GraceTimerStep
  <1>4. ASSUME NEW c \in Contexts, NEW mode \in {"inter", "final"}, Chained(c, mode)
        PROVE  DInv'
    BY <1>4, ChainedStep
  <1>5. CASE Tick \/ Resume
    BY <1>5, TickStep, ResumeStep
  <1>6. CASE Shutdown \/ StopAmbient \/ StopRotates
    BY <1>6, ShutdownStep, StopAmbientStep, StopRotatesStep
  <1>7. CASE FlushLateEntries \/ Done
    BY <1>7, FlushLateEntriesStep, DoneStep
  <1>8. CASE CloseStore \/ UNCHANGED vars
    BY <1>8, CloseStep
  <1>9. QED
    BY <1>1, <1>2, <1>3, <1>4, <1>5, <1>6, <1>7, <1>8 DEF Next

\* When shutdown() resolves, what it found in the ambient batch and in contexts
\* already flushed is in the store or in a save that failed, and the store is
\* closed with no final flush outstanding (recorder.ts, shutdown()).
THEOREM ShutdownIsComplete == Spec => []ShutdownDelivers
  <1>1. DInv => ShutdownDelivers
    BY DEF DInv, Stages, StageFive, ShutdownDelivers, Settled, FinalAsked
  <1>2. QED
    BY <1>1, InitStep, NextStep, PTL DEF Spec

-----------------------------------------------------------------------------
(* The trim loop *)

\* What a trim() saw never runs ahead of what was committed.
Counted ==
    /\ covered <= begun /\ begun <= writes
    /\ \A f \in Flushes : wrote[f] <= writes

\* A flush awaits the promise of a loop; if it joined in time, the trim() in
\* flight began after its write or another round is requested, and a loop that
\* left has covered it.
Joined ==
    \A f \in Flushes : flushStage[f] = "joined" =>
        /\ loop # "none"
        /\ f \notin tardy /\ loop = "calling" => requested \/ wrote[f] <= begun
        /\ f \notin tardy /\ loop = "left" => wrote[f] <= covered

TrimInv == TypeOK /\ Counted /\ Joined /\ RoundAfterWrite

\* The invariant holds initially.
LEMMA TrimInvInit == InitTrim => TrimInv
<1> SUFFICES ASSUME InitTrim PROVE TrimInv
  OBVIOUS
<1>1. TypeOK
  <2>1. flushStage \in [Flushes -> {"saving", "written", "joined", "done", "failed"}]
    BY DEF InitTrim
  <2>2. requested \in BOOLEAN
    BY Zenon DEF InitTrim
  <2>3. faults \in 0..MaxFaults
    BY TrimAssumption DEF InitTrim
  <2> QED BY <2>1, <2>2, <2>3 DEF InitTrim, TypeOK
<1>2. Counted
  BY DEF InitTrim, Counted
<1>3. Joined /\ RoundAfterWrite
  BY DEF InitTrim, Joined, RoundAfterWrite
<1> QED BY <1>1, <1>2, <1>3 DEF TrimInv

\* A commit raises the count of commits and changes nothing a joined flush
\* relies on.
LEMMA CommitTrimInv ==
  ASSUME TrimInv, NEW f \in Flushes, Commit(f)
  PROVE  TrimInv'
<1> USE DEF TrimInv, Commit, TypeOK
<1>1. TypeOK'
  OBVIOUS
<1>2. /\ \A g \in Flushes \ {f} : flushStage'[g] = flushStage[g] /\ wrote'[g] = wrote[g]
      /\ flushStage'[f] = "written" /\ wrote'[f] = writes + 1
  OBVIOUS
<1>3. Counted'
  BY <1>2 DEF Counted
<1>4. Joined'
  BY <1>2 DEF Joined
<1>5. RoundAfterWrite'
  BY <1>2 DEF RoundAfterWrite
<1> QED BY <1>1, <1>3, <1>4, <1>5

\* A flush that joins is served by the round it starts or by the one it
\* requests.
LEMMA JoinTrimInv ==
  ASSUME TrimInv, NEW f \in Flushes, Join(f)
  PROVE  TrimInv'
<1> USE DEF TrimInv, Join, Round, TypeOK
<1>1. TypeOK'
  OBVIOUS
<1>2. Counted'
  BY DEF Counted
<1>3. /\ \A g \in Flushes \ {f} : flushStage'[g] = flushStage[g]
      /\ flushStage'[f] = "joined"
      /\ tardy \subseteq tardy'
  OBVIOUS
<1>4. Joined'
  BY <1>3 DEF Joined, Counted
<1>5. RoundAfterWrite'
  BY <1>3 DEF RoundAfterWrite
<1> QED BY <1>1, <1>2, <1>4, <1>5

\* A resolved trim() covers what it saw; the loop leaves only when nobody has
\* asked for more.
LEMMA ResolvesTrimInv ==
  ASSUME TrimInv, TrimResolves
  PROVE  TrimInv'
<1> USE DEF TrimInv, TrimResolves, AnotherRound, Round, trimHistory, TypeOK
<1>1. TypeOK'
  OBVIOUS
<1>2. Counted'
  BY DEF Counted
<1>3. Joined'
  BY DEF Joined, Counted
<1>4. RoundAfterWrite'
  BY DEF RoundAfterWrite, Counted
<1> QED BY <1>1, <1>2, <1>3, <1>4

\* A rejected trim() covers nothing, and nobody is told that it did.
LEMMA RejectsTrimInv ==
  ASSUME TrimInv, TrimRejects
  PROVE  TrimInv'
BY TrimAssumption DEF TrimInv, TrimRejects, TypeOK, Counted, Joined, RoundAfterWrite

\* The flushes that resume are those the loop covered.
LEMMA SettledTrimInv ==
  ASSUME TrimInv, LoopSettled
  PROVE  TrimInv'
<1> USE DEF TrimInv, LoopSettled, trimHistory, TypeOK
<1>1. TypeOK'
  OBVIOUS
<1>2. Counted'
  BY DEF Counted
<1>3. \A g \in Flushes : flushStage'[g] # "joined"
  OBVIOUS
<1>4. Joined'
  BY <1>3 DEF Joined
<1>5. RoundAfterWrite'
  BY DEF RoundAfterWrite, Joined
<1> QED BY <1>1, <1>2, <1>4, <1>5

\* The invariant holds in every reachable state.
THEOREM TrimInvariant == TrimSpec => []TrimInv
<1>1. TrimInv /\ [NextTrim]_trimVars => TrimInv'
  <2> SUFFICES ASSUME TrimInv, [NextTrim]_trimVars PROVE TrimInv'
    OBVIOUS
  <2>1. CASE \E f \in Flushes : Commit(f)
    BY <2>1, CommitTrimInv
  <2>2. CASE \E f \in Flushes : Join(f)
    BY <2>2, JoinTrimInv
  <2>3. CASE TrimResolves
    BY <2>3, ResolvesTrimInv
  <2>4. CASE TrimRejects
    BY <2>4, RejectsTrimInv
  <2>5. CASE LoopSettled
    BY <2>5, SettledTrimInv
  <2>6. CASE Finished \/ UNCHANGED trimVars
    BY <2>6 DEF Finished, trimVars, trimHistory, TrimInv, TypeOK, Counted, Joined, RoundAfterWrite
  <2> QED BY <2>1, <2>2, <2>3, <2>4, <2>5, <2>6 DEF NextTrim
<1> QED BY TrimInvInit, <1>1, PTL DEF TrimSpec

\* Every variable keeps its type, for any set of flushes.
THEOREM TrimTypeCorrect == TrimSpec => []TypeOK
<1>1. TrimInv => TypeOK
  BY DEF TrimInv
<1> QED BY TrimInvariant, <1>1, PTL

\* For any number of flushes and any interleaving of their writes with the
\* rounds, a flush that joined a running loop comes back only after a trim()
\* that began after its own write.
THEOREM RoundsServeJoiners == TrimSpec => []RoundAfterWrite
<1>1. TrimInv => RoundAfterWrite
  BY DEF TrimInv
<1> QED BY TrimInvariant, <1>1, PTL

=============================================================================
