--------------------------- MODULE WatcherRegistry ---------------------------
(***************************************************************************)
(* WatcherRegistry of watchers/registry.ts: register() constructs the      *)
(* enabled watchers one after the other and awaits each, cleanup() retires *)
(* what is registered, newest first.  boot() registers the model watcher   *)
(* alone, ready() all that are left; each of them is a loop of its own.    *)
(*                                                                         *)
(* A watcher subscribes as register() is called, after an await of its own *)
(* (model, log, limiter, lock, drive and ally import or make what they     *)
(* patch first), or is the dump watcher.  Custom watchers follow the       *)
(* shipped ones in the same way.                                           *)
(***************************************************************************)
EXTENDS DumpWatcher, Sequences, SequencesExt, FiniteSets

CONSTANTS Names,   \* the enabled watchers, in the order of WATCHER_NAMES
          Early,   \* WatcherName.MODEL
          Kind     \* of each: "direct", "late" or "dump"

RegistryAssumption ==
    /\ Names \in Seq(ToSet(Names))
    /\ Kind \in [ToSet(Names) -> {"direct", "late", "dump"}]
    /\ Early \in ToSet(Names) /\ Kind[Early] # "dump"
    /\ Cardinality({n \in ToSet(Names) : Kind[n] = "dump"}) <= 1
ASSUME RegistryAssumption

Loops == {"boot", "ready"}

VARIABLES registered, \* #registered: the instances, by name and by the loop that made them
          claimed,    \* #registeredNames
          loop,       \* the runs of register()
          observing,  \* instances that observe the application
          cleaned     \* place of cleanup() in #registered, 0 when it does not run

registryVars == <<dumpVars, registered, claimed, loop, observing, cleaned>>

Instance(n, c) == [name |-> n, by |-> c]

InitRegistry ==
    /\ InitDump
    /\ registered = <<>> /\ claimed = {}
    /\ loop = [c \in Loops |-> [stage |-> "off", left |-> <<>>, at |-> Early]]
    /\ observing = {}
    /\ cleaned = 0

\* register() is called, by each of these loops.
BeginRegister(loops) ==
    loop' = [c \in Loops |->
                IF c \notin loops THEN loop[c]
                ELSE [stage |-> "next", at |-> Early,
                      left |-> IF c = "boot" THEN <<Early>> ELSE Names]]

\* Mutant: a name is claimed when its watcher has registered.
ClaimLater(n) == UNCHANGED claimed
Claim(n) == claimed' = claimed \cup {n}

\* The place of the name next in a loop, past those that are claimed, if there is one.
Ahead(c) == {i \in DOMAIN loop[c].left :
                /\ loop[c].left[i] \notin claimed
                /\ \A j \in 1..(i - 1) : loop[c].left[j] \in claimed}
After(c, i) == SubSeq(loop[c].left, i + 1, Len(loop[c].left))

\* The next watcher is constructed and its register() called.
RegisterNext(c) ==
    /\ loop[c].stage = "next"
    /\ \E i \in Ahead(c) :
          LET n == loop[c].left[i]
          IN  /\ Claim(n)
              /\ registered' = Append(registered, Instance(n, c))
              /\ loop' = [loop EXCEPT ![c] = [stage |-> "awaiting", left |-> After(c, i), at |-> n]]
              /\ observing' = IF Kind[n] = "direct" THEN observing \cup {Instance(n, c)}
                              ELSE observing
              /\ IF Kind[n] = "dump" THEN RegisterDump ELSE UNCHANGED dumpVars
    /\ UNCHANGED cleaned

\* The next watcher cannot be constructed.
CreateFails(c) ==
    /\ loop[c].stage = "next"
    /\ \E i \in Ahead(c) : loop' = [loop EXCEPT ![c].left = After(c, i)]
    /\ UNCHANGED <<dumpVars, registered, claimed, observing, cleaned>>

\* register() of a watcher returns.  A late one has subscribed, or found nothing
\* to subscribe to.
RegisterReturns(c) ==
    /\ loop[c].stage = "awaiting"
    /\ Kind[loop[c].at] = "dump" => dump.waiting = {}
    /\ loop' = [loop EXCEPT ![c].stage = "next"]
    /\ \/ UNCHANGED observing
       \/ /\ Kind[loop[c].at] = "late"
          /\ observing' = observing \cup {Instance(loop[c].at, c)}
    /\ UNCHANGED <<dumpVars, registered, claimed, cleaned>>

LoopEnds(c) ==
    /\ loop[c].stage = "next" /\ Ahead(c) = {}
    /\ loop' = [loop EXCEPT ![c].stage = "done"]
    /\ UNCHANGED <<dumpVars, registered, claimed, observing, cleaned>>

\* cleanup() reverses the list in place and walks it.
BeginCleanup ==
    /\ registered' = Reverse(registered)
    /\ cleaned' = 1
    /\ UNCHANGED <<dumpVars, claimed, loop, observing>>

CleanupNext ==
    /\ cleaned \in 1..Len(registered)
    /\ LET w == registered[cleaned]
       IN  IF Kind[w.name] # "dump"
           THEN /\ observing' = observing \ {w} /\ cleaned' = cleaned + 1
                /\ UNCHANGED dumpVars
           ELSE /\ \/ CleanupDump /\ UNCHANGED cleaned
                   \/ /\ ~dump.registered /\ refresh = NoRefresh
                      /\ cleaned' = cleaned + 1
                      /\ UNCHANGED dumpVars
                /\ UNCHANGED observing
    /\ UNCHANGED <<registered, claimed, loop>>

\* The walk has passed the end, whatever was appended meanwhile.
EndCleanup ==
    /\ cleaned = Len(registered) + 1
    /\ registered' = <<>> /\ claimed' = {}
    /\ cleaned' = 0
    /\ UNCHANGED <<dumpVars, loop, observing>>

RegistrySteps ==
    \/ \E c \in Loops : RegisterNext(c) \/ CreateFails(c) \/ RegisterReturns(c) \/ LoopEnds(c)
    \/ CleanupNext
==============================================================================
