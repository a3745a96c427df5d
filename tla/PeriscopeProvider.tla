-------------------------- MODULE PeriscopeProvider --------------------------
(***************************************************************************)
(* PeriscopeProvider of providers/periscope_provider.ts: boot(), start()   *)
(* and ready() build the recorder, the fan-out and the watchers, and       *)
(* teardown takes them down again.  Each of them is asynchronous; every    *)
(* await is the end of a step.  What boot() and ready() share is memoised. *)
(*                                                                         *)
(* recorder.shutdown() is one stage here; RecorderShutdown models what     *)
(* happens inside it.                                                      *)
(***************************************************************************)
EXTENDS WatcherRegistry

CONSTANT MaxFailures  \* bound: steps of the application's services that fail

Phases == {"boot", "start", "ready"}

VARIABLES enabled,   \* recorder.enabled
          overlap,   \* tooling calls the phases without waiting for one another
          phase,     \* where each phase stands
          container, \* the Recorder singleton: empty, making, made
          held,      \* #recorder and #store are set
          store,     \* none, open, closed
          setup,     \* #watchersSetup: none, pending, made, failed
          watchers,  \* #watchers is set
          fanout,    \* #fanout and #fanoutSetup: none, pending, set
          adapters,  \* fan-outs that are open
          bridges,   \* subscriptions of recorder flushes to a fan-out
          running,   \* the timers of the recorder
          poll,      \* a read of the pause flag is in flight
          retention, \* the timers: initial, interval
          prune,     \* #retentionPrune: none, lease, write, prune
          teardown,  \* none, prune, pruned, watchers, reading, recorder, fanout, store, done
          calm,      \* no phase was under way when it began
          failures

lifeVars == <<phase, container, held, store, setup, watchers, fanout, adapters, bridges>>
timeVars == <<running, poll, retention, prune>>
downVars == <<teardown, calm>>
fixedVars == <<enabled, overlap>>
providerVars == <<registryVars, fixedVars, lifeVars, timeVars, downVars, failures>>

InitProvider ==
    /\ InitRegistry
    /\ enabled \in BOOLEAN /\ overlap \in BOOLEAN
    /\ phase = [c \in Phases |-> "idle"]
    /\ container = "empty" /\ held = FALSE /\ store = "none"
    /\ setup = "none" /\ watchers = FALSE
    /\ fanout = "none" /\ adapters = 0 /\ bridges = 0
    /\ running = FALSE /\ poll = FALSE
    /\ retention = {} /\ prune = "none"
    /\ teardown = "none" /\ calm = TRUE
    /\ failures = 0

Fail == failures < MaxFailures /\ failures' = failures + 1
At(c, stage) == phase' = [phase EXCEPT ![c] = stage]

-----------------------------------------------------------------------------
(* boot(), start() and ready() *)

Earlier(c) == CASE c = "boot" -> {} [] c = "start" -> {"boot"} [] c = "ready" -> {"boot", "start"}

\* No phase is under way.
Calm == \A c \in Phases : phase[c] \in {"idle", "done"}

\* The application enters a phase, and no phase once it terminates.
Begin(c) ==
    /\ phase[c] = "idle" /\ teardown = "none"
    /\ overlap \/ \A b \in Earlier(c) : phase[b] = "done"
    /\ At(c, "make")
    /\ container' = IF container = "empty" THEN "making" ELSE container
    /\ UNCHANGED <<held, store, setup, watchers, fanout, adapters, bridges>>
    /\ UNCHANGED <<registryVars, timeVars, downVars, failures>>

\* The factory of the singleton: createStore() has opened the store.
RecorderMade ==
    /\ container = "making"
    /\ container' = "made" /\ held' = TRUE /\ store' = "open"
    /\ UNCHANGED <<phase, setup, watchers, fanout, adapters, bridges>>
    /\ UNCHANGED <<registryVars, timeVars, downVars, failures>>

\* #ensureFanout() is called.
EnsureFanout(c) ==
    /\ phase[c] = "make" /\ container = "made"
    /\ At(c, "fanout")
    /\ fanout' = IF fanout = "none" THEN "pending" ELSE fanout
    /\ UNCHANGED <<container, held, store, setup, watchers, adapters, bridges>>
    /\ UNCHANGED <<registryVars, timeVars, downVars, failures>>

\* The factory has answered; if it failed, the in-process fan-out takes its place.
FanoutMade ==
    /\ fanout = "pending"
    /\ fanout' = "set" /\ adapters' = adapters + 1 /\ bridges' = bridges + 1
    /\ UNCHANGED <<phase, container, held, store, setup, watchers>>
    /\ UNCHANGED <<registryVars, timeVars, downVars, failures>>

\* #registerWatchers(): the registry is there, or is made once for all callers.
WatchersOf(c) ==
    IF watchers
    THEN At(c, "register") /\ BeginRegister({c}) /\ UNCHANGED setup
    ELSE /\ At(c, "setup")
         /\ setup' = IF setup = "none" THEN "pending" ELSE setup
         /\ UNCHANGED loop

\* A phase has awaited its fan-out.  start() goes on to register its routes, ready()
\* to wire the internal logger.
FanoutAwaited(c) ==
    /\ phase[c] = "fanout" /\ fanout # "pending"
    /\ CASE c = "boot" /\ enabled -> WatchersOf(c)
         [] c = "boot" /\ ~enabled -> At(c, "done") /\ UNCHANGED <<setup, loop>>
         [] c = "start" -> At(c, "router") /\ UNCHANGED <<setup, loop>>
         [] c = "ready" -> At(c, "logger") /\ UNCHANGED <<setup, loop>>
    /\ UNCHANGED <<container, held, store, watchers, fanout, adapters, bridges>>
    /\ UNCHANGED <<dumpVars, registered, claimed, observing, cleaned>>
    /\ UNCHANGED <<timeVars, downVars, failures>>

RoutesRegistered ==
    /\ phase["start"] = "router"
    /\ At("start", "done")
    /\ UNCHANGED <<container, held, store, setup, watchers, fanout, adapters, bridges>>
    /\ UNCHANGED <<registryVars, timeVars, downVars, failures>>

\* ready() starts the recorder, which reads the pause flag at once.
StartRecorder ==
    /\ phase["ready"] = "logger"
    /\ IF enabled
       THEN WatchersOf("ready") /\ running' = TRUE /\ poll' = (poll \/ ~running)
       ELSE At("ready", "done") /\ UNCHANGED <<setup, loop, running, poll>>
    /\ UNCHANGED <<container, held, store, watchers, fanout, adapters, bridges>>
    /\ UNCHANGED <<dumpVars, registered, claimed, observing, cleaned>>
    /\ UNCHANGED <<retention, prune, downVars, failures>>

\* The container makes the emitter for the registry, or fails to.
EmitterMade ==
    /\ setup = "pending"
    /\ \/ setup' = "made" /\ UNCHANGED failures
       \/ setup' = "failed" /\ Fail
    /\ UNCHANGED <<phase, container, held, store, watchers, fanout, adapters, bridges>>
    /\ UNCHANGED <<registryVars, timeVars, downVars>>

\* #startRetention(): its timers are armed once.
StartRetention == retention' = IF "interval" \in retention THEN retention ELSE {"initial", "interval"}

\* Mutant: the registry is handed to the phase that asked for it last alone.
LastWaiting == {c \in {"ready"} : phase[c] = "setup"}
Waiting == {c \in Loops : phase[c] = "setup"}

\* Whoever awaited the registry gets it, or goes on without watchers.
SetupAwaited ==
    /\ setup \in {"made", "failed"}
    /\ setup' = "none"
    /\ watchers' = (watchers \/ setup = "made")
    /\ IF watchers'
       THEN /\ BeginRegister(Waiting)
            /\ phase' = [c \in Phases |-> IF c \in Waiting THEN "register" ELSE phase[c]]
            /\ UNCHANGED retention
       ELSE /\ phase' = [c \in Phases |-> IF c \in Waiting THEN "done" ELSE phase[c]]
            /\ IF "ready" \in Waiting THEN StartRetention ELSE UNCHANGED retention
            /\ UNCHANGED loop
    /\ UNCHANGED <<container, held, store, fanout, adapters, bridges>>
    /\ UNCHANGED <<dumpVars, registered, claimed, observing, cleaned>>
    /\ UNCHANGED <<running, poll, prune, downVars, failures>>

\* The watchers have been registered.
WatchersRegistered(c) ==
    /\ phase[c] = "register" /\ loop[c].stage = "done"
    /\ At(c, "done")
    /\ IF c = "ready" THEN StartRetention ELSE UNCHANGED retention
    /\ UNCHANGED <<container, held, store, setup, watchers, fanout, adapters, bridges>>
    /\ UNCHANGED <<registryVars, running, poll, prune, downVars, failures>>

-----------------------------------------------------------------------------
(* Timers and reads *)

PollTimer ==
    /\ running /\ poll' = TRUE
    /\ UNCHANGED <<registryVars, lifeVars, running, retention, prune, downVars, failures>>

\* A teardown goes on with the read it met.
PollAnswered ==
    /\ poll /\ poll' = FALSE
    /\ teardown' = IF teardown = "reading" THEN "recorder" ELSE teardown
    /\ UNCHANGED <<registryVars, lifeVars, running, retention, prune, calm, failures>>

\* prune() of either timer; the initial one fires once.
PruneTimer ==
    /\ \E timer \in retention : retention' = retention \ ({timer} \cap {"initial"})
    /\ prune' = IF prune = "none" THEN "lease" ELSE prune
    /\ UNCHANGED <<registryVars, lifeVars, running, poll, downVars, failures>>

\* It reads the maintenance lease, writes its own and prunes the store; another
\* worker's lease or an error ends it.  A teardown goes on with the prune it met.
PruneAnswered ==
    /\ prune # "none"
    /\ prune' \in (CASE prune = "lease" -> {"none", "write"}
                     [] prune = "write" -> {"none", "prune"}
                     [] prune = "prune" -> {"none"})
    /\ teardown' = IF teardown = "prune" /\ prune' = "none" THEN "pruned" ELSE teardown
    /\ UNCHANGED <<registryVars, lifeVars, running, poll, retention, calm, failures>>

-----------------------------------------------------------------------------
(* Teardown *)

\* Mutant: teardown does not wait for a prune that is running.
PruneIgnored == TRUE
PruneOver == prune = "none"

\* It is memoised: the terminating hook and shutdown() share it.  A signal may ask for
\* it at any time; tooling waits for the phases it called.
BeginTeardown ==
    /\ teardown = "none" /\ (overlap => Calm)
    /\ teardown' = IF PruneOver THEN "pruned" ELSE "prune"
    /\ calm' = Calm
    /\ retention' = {}
    /\ UNCHANGED <<registryVars, lifeVars, running, poll, prune, failures>>

CleanWatchers ==
    /\ teardown = "pruned"
    /\ teardown' = "watchers"
    /\ IF watchers THEN BeginCleanup ELSE UNCHANGED registryVars
    /\ UNCHANGED <<lifeVars, timeVars, calm, failures>>

\* recorder.shutdown() stops the timers at once.
ShutDownRecorder ==
    /\ teardown = "watchers"
    /\ \/ EndCleanup
       \/ cleaned = 0 /\ UNCHANGED registryVars
    /\ teardown' = IF held /\ poll THEN "reading" ELSE "recorder"
    /\ running' = (running /\ ~held)
    /\ UNCHANGED <<lifeVars, poll, retention, prune, calm, failures>>

\* It has flushed.
RecorderStopped ==
    /\ teardown = "recorder"
    /\ teardown' = "fanout"
    /\ UNCHANGED <<registryVars, lifeVars, timeVars, calm, failures>>

CloseFanout ==
    /\ teardown = "fanout" /\ fanout # "pending"
    /\ teardown' = "store"
    /\ IF fanout = "set"
       THEN adapters' = adapters - 1 /\ bridges' = bridges - 1
       ELSE UNCHANGED <<adapters, bridges>>
    /\ UNCHANGED <<registryVars, phase, container, held, store, setup, watchers, fanout>>
    /\ UNCHANGED <<timeVars, calm, failures>>

\* The store is closed and every field reset.
CloseStore ==
    /\ teardown = "store"
    /\ teardown' = "done"
    /\ store' = IF held THEN "closed" ELSE store
    /\ held' = FALSE /\ watchers' = FALSE
    /\ fanout' = IF fanout = "set" THEN "none" ELSE fanout
    /\ UNCHANGED <<registryVars, phase, container, setup, adapters, bridges>>
    /\ UNCHANGED <<timeVars, calm, failures>>

ProviderStill == UNCHANGED <<lifeVars, timeVars, downVars>>

Steps ==
    \/ RecorderMade \/ FanoutMade \/ RoutesRegistered \/ StartRecorder
    \/ EmitterMade \/ SetupAwaited
    \/ \E c \in Phases : EnsureFanout(c) \/ FanoutAwaited(c)
    \/ \E c \in Loops : WatchersRegistered(c)
    \/ CleanWatchers \/ ShutDownRecorder \/ RecorderStopped \/ CloseFanout \/ CloseStore
    \/ RegistrySteps /\ ProviderStill /\ UNCHANGED failures

Timers == PollTimer \/ PruneTimer
=============================================================================
