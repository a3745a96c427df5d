------------------------------ MODULE LiveDumps ------------------------------
(***************************************************************************)
(* A process of the application from boot to teardown, and the tabs of the *)
(* dashboard that lease its dump watcher through the flags of the store,   *)
(* which outlive the process.                                              *)
(*                                                                         *)
(* A scene with tabs starts when the process serves them.  It leaves out   *)
(* the timers of the provider, which the tabs do not meet.                 *)
(***************************************************************************)
EXTENDS PeriscopeProvider, DumpOpenHeartbeat

CONSTANTS Scenes,  \* the tabs that open, whether the phases overlap, and the troubles:
                   \* requests rejected, tabs and processes that die, reads that fail
                   \* and steps of time that overtake what is due
          MaxMoves \* bound: what the people at the tabs do in a step of time

VARIABLES open,    \* the tabs of the scene
          polled,  \* the dump watcher's timer has run in this step of time
          moves,
          troubles \* those still to come

\* The tabs lease the dump watcher.
ASSUME ScenesAssumption ==
    /\ \A scene \in Scenes : /\ scene.tabs \subseteq Tabs /\ scene.overlap \in BOOLEAN
                             /\ scene.troubles \in Nat
    /\ (\E scene \in Scenes : scene.tabs # {}) => \E n \in ToSet(Names) : Kind[n] = "dump"

timing == <<open, polled, moves, troubles>>
sceneVars == <<providerVars, tabVars, timing>>

\* Where boot(), start() and ready() take a process.
Retained == LET early == CHOOSE i \in DOMAIN Names : Names[i] = Early
                order == <<Early>> \o RemoveAt(Names, early)
            IN  [i \in DOMAIN order |->
                    Instance(order[i], IF order[i] = Early THEN "boot" ELSE "ready")]
Watching == [InitialDump EXCEPT !.registered = TRUE, !.generation = 1, !.published = TRUE]

InitServing ==
    /\ dump = Watching /\ refresh = NoRefresh
    /\ registered = Retained /\ claimed = ToSet(Names) /\ cleaned = 0
    /\ loop = [c \in Loops |-> [stage |-> "done", left |-> <<>>, at |-> Early]]
    /\ observing = {w \in ToSet(Retained) : Kind[w.name] # "dump"}
    /\ enabled = TRUE /\ phase = [c \in Phases |-> "done"]
    /\ container = "made" /\ held = TRUE /\ store = "open"
    /\ setup = "none" /\ watchers = TRUE
    /\ fanout = "set" /\ adapters = 1 /\ bridges = 1
    /\ running = TRUE /\ poll = FALSE /\ retention = {"interval"} /\ prune = "none"
    /\ teardown = "none" /\ calm = TRUE /\ failures = 0

InitScene ==
    /\ \E scene \in Scenes :
          open = scene.tabs /\ overlap = scene.overlap /\ troubles = scene.troubles
    /\ IF open = {} THEN InitProvider ELSE InitServing
    /\ InitTabs
    /\ polled = FALSE /\ moves = 0

Trouble == troubles > 0 /\ troubles' = troubles - 1

-----------------------------------------------------------------------------
(* Steps *)

Lifecycle ==
    /\ \/ Steps \/ PollAnswered \/ PruneAnswered
       \/ (\E c \in Phases : Begin(c)) \/ BeginTeardown
       \/ open = {} /\ Timers
    /\ UNCHANGED <<fixedVars, tabVars, timing>>

RestOfProvider == UNCHANGED <<registered, claimed, loop, observing, cleaned, fixedVars,
                              lifeVars, timeVars, downVars, failures>>

\* The read of the dump watcher, which fails once the store is closed.  Where the scene
\* has no tabs, someone else may hold a lease.
Leases == IF open = {} THEN BOOLEAN ELSE {\E t \in Tabs : lease[t] > 0}
ReadFlags ==
    /\ \/ store = "open" /\ (ReadFlag \/ \E leased \in Leases : ReadLeases(leased))
       \/ store # "open" /\ ReadFails
       \/ Settle
    /\ RestOfProvider /\ UNCHANGED <<tabVars, timing>>

ReadIsLost ==
    /\ store = "open" /\ ReadFails /\ Trouble
    /\ RestOfProvider /\ UNCHANGED <<tabVars, open, polled, moves>>

PollDump ==
    /\ Poll /\ polled' = (open # {})
    /\ RestOfProvider /\ UNCHANGED <<tabVars, open, moves, troubles>>

\* The process dies and another one comes up in its place.
Restart ==
    /\ open # {} /\ teardown = "none" /\ Trouble
    /\ dump' = Watching /\ refresh' = NoRefresh
    /\ RestOfProvider /\ UNCHANGED <<tabVars, open, polled, moves>>

Rest == UNCHANGED <<providerVars, timing>>

\* The server answers until the teardown.
Listening == teardown = "none"

Visit(t) ==
    \/ (Microtask(t) \/ Heartbeat(t) \/ Answered(t)) /\ Rest
    \/ Listening /\ (Serve(t) \/ ServeStray(t)) /\ Rest
    \/ (Rejected(t) \/ Vanish(t)) /\ Trouble /\ UNCHANGED <<providerVars, open, polled, moves>>
    \/ /\ Mount(t) \/ Focus(t) \/ Blur(t) \/ Unmount(t)
       /\ moves < MaxMoves /\ moves' = moves + 1
       /\ UNCHANGED <<providerVars, open, polled, troubles>>

Overdue == ~polled \/ refresh # NoRefresh \/ \E t \in Tabs : Due(t)

Tick ==
    /\ open # {} /\ Listening
    /\ IF Overdue THEN Trouble ELSE UNCHANGED troubles
    /\ polled' = FALSE /\ moves' = 0
    /\ Elapse
    /\ UNCHANGED <<providerVars, open>>

NextScene ==
    \/ Lifecycle \/ ReadFlags \/ ReadIsLost \/ PollDump \/ Restart
    \/ \E t \in open : Visit(t)
    \/ Tick

SceneSpec == InitScene /\ [][NextScene]_sceneVars

\* Services and the store answer each call, timers of the dump watcher and of the tabs
\* fire when they are due, requests are served and answered and time passes.  No one
\* owes a phase, a teardown or a visit.
Frame == UNCHANGED <<fixedVars, tabVars, timing>>
FairSceneSpec ==
    /\ SceneSpec
    /\ WF_sceneVars(Steps /\ Frame) /\ WF_sceneVars(PollAnswered /\ Frame) /\ WF_sceneVars(PruneAnswered /\ Frame)
    /\ WF_sceneVars(ReadFlags) /\ WF_sceneVars(PollDump) /\ SF_sceneVars(Tick)
    /\ \A t \in Tabs :
          /\ WF_sceneVars(Microtask(t) /\ Rest) /\ WF_sceneVars(Heartbeat(t) /\ Rest)
          /\ WF_sceneVars(Answered(t) /\ Rest)
          /\ WF_sceneVars(Listening /\ Serve(t) /\ Rest)
          /\ WF_sceneVars(Listening /\ ServeStray(t) /\ Rest)

-----------------------------------------------------------------------------
(* Properties *)

\* What a process still does with its store and with its host.
Quiet ==
    /\ store # "open"
    /\ observing = {} /\ bridges = 0 /\ adapters = 0
    /\ ~running /\ retention = {}
    /\ ~poll /\ prune = "none" /\ refresh = NoRefresh

\* A teardown that did not meet a phase under way ends with nothing left behind: no
\* watcher, timer, bridge or fan-out, and no read, write or prune that was still
\* running when the store was closed.  Whatever it met, a dump watcher that was cleaned
\* up is not revived by the read it had in flight.
TeardownLeavesNothing ==
    /\ teardown = "done" /\ calm => Quiet
    /\ ~dump.registered => ~dump.active /\ ~dump.published

\* The same of every teardown, one during ready() as well: "Watchers go first so nothing
\* new is recorded while the recorder is winding down."
EveryTeardownQuiet == teardown = "done" /\ Calm => Quiet

\* However the phases overlap, each watcher is constructed once and there is one
\* fan-out with one bridge, up to the teardown.
Made == {registered[i] : i \in DOMAIN registered}
BuiltOnce ==
    teardown = "none" =>
        /\ \A v, w \in Made : v.name = w.name => v = w
        /\ adapters <= 1 /\ bridges <= 1

\* A phase that was entered ends, and so does a teardown, whatever fails and whichever
\* phase it meets: boot() and ready() wait for what the other one started, the teardown
\* for the prune, the reads in flight and a fan-out still in the making.
PhasesEnd == <>[](Calm /\ teardown \in {"none", "done"})

Focused(t) == page[t].mounted /\ page[t].focused

\* Once a tab has its answer and nothing it sent went astray, the flag follows the
\* page: a lease is held only for a page that is open and focused, and such a page
\* has asked for one.
LeaseFollowsPage ==
    \A t \in Tabs :
        request[t] = "none" /\ ~page[t].leaving /\ ~page[t].gone /\ ~doubt[t] =>
            /\ lease[t] > 0 => Focused(t)
            /\ Focused(t) => page[t].wanted

\* While a dumps page stays open and focused, dump() keeps recording: the heartbeats
\* renew the lease before it expires and a restarted process picks it up.
HeardWhileFocused ==
    \A t \in Tabs : []<>(~Focused(t) \/ ~dump.published) \/ <>[]dump.active

\* When no page is open and focused any more, dump() falls silent, even if the last
\* one died without a word.
SilentWhenLeft == []<>(open = {} \/ \E t \in Tabs : Focused(t)) \/ <>[]~dump.active
=============================================================================
