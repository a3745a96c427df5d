---------------------------- MODULE LiveUpdates ----------------------------
(***************************************************************************)
(* connectLiveUpdates() of packages/dashboard/src/lib/live-updates.ts: the *)
(* tabs of one browser share one event stream.  A lease in localStorage    *)
(* elects the leader that holds it; the leader posts heartbeats and the    *)
(* events it receives on a BroadcastChannel.  A tab whose mode is not      *)
(* "live" polls the list of entries (hooks/use-polling.ts).                *)
(*                                                                         *)
(* Each tab runs one callback at a time, but tabs run beside each other:   *)
(* every access to localStorage is a step of its own.  Time is counted in  *)
(* steps of half a heartbeat interval; a timer at 0 is due and may run     *)
(* late.  Every flush is an event of the scope that all tabs look at.      *)
(***************************************************************************)
EXTENDS Integers, FiniteSets, Sequences

CONSTANTS Tabs, None,
          HeartbeatInterval, \* HEARTBEAT_INTERVAL: 5 s
          LeaderTimeout,     \* LEADER_TIMEOUT: 12 s
          Budgets            \* bounds: how often each of Events happens

Off == -1

\* An entry is flushed; a write to localStorage throws, a stream breaks, a tab dies
\* without close(), and time overtakes timers and messages that are due.
Events == {"flush", "throw", "break", "crash", "late"}

ASSUME LiveAssumption ==
    /\ None \notin Tabs
    /\ HeartbeatInterval \in Nat \ {0} /\ LeaderTimeout \in Nat \ {0}
    /\ HeartbeatInterval < LeaderTimeout
    /\ Budgets \subseteq [Events -> Nat] /\ IsFiniteSet(Budgets)

VARIABLES tab,     \* of each tab, the locals of connectLiveUpdates() and its list
          inbox,   \* messages of the channel on their way to each tab
          lease,   \* leaderId of the stored lease
          left,    \* time until it expires
          flushed, \* entries flushed
          budget   \* how often each event may still happen
liveVars == <<tab, inbox, lease, left, flushed, budget>>

\* pc: where its callback stands; source: none, opening, subscribed (the server
\* has answered), open, broken; feed: an event is on its way to it; got: it has
\* received one; lost: entries were flushed while it was broken; beat, failover:
\* time left on the timers; dirty: a scan of the list is scheduled; shown: entries
\* in the list; owed: history, entries that were flushed while the tab was live.
NewTab == [pc |-> "absent", mode |-> "connecting",
           source |-> "none", feed |-> FALSE, got |-> FALSE, lost |-> FALSE,
           beat |-> Off, failover |-> Off, dirty |-> FALSE, shown |-> 0, owed |-> 0]

InitLive ==
    /\ tab = [t \in Tabs |-> NewTab]
    /\ inbox = [t \in Tabs |-> <<>>]
    /\ lease = None /\ left = 0
    /\ flushed = 0
    /\ budget \in Budgets

\* The events of a step.
Happen(events) ==
    /\ \A e \in events : budget[e] > 0
    /\ budget' = [e \in Events |-> IF e \in events THEN budget[e] - 1 ELSE budget[e]]

Idle(t) == tab[t].pc = "idle"
Listening(t) == tab[t].pc \notin {"absent", "releasing", "gone"}
Streams == {t \in Tabs : tab[t].source # "none"}

-----------------------------------------------------------------------------
(* The functions of connectLiveUpdates(), on the record of a tab *)

\* Mutant: nothing is read when a tab starts to poll.
PollLater(r, m) == [r EXCEPT !.mode = m, !.dirty = @ /\ m = "live"]
\* changeMode(): leaving live cancels the scheduled scan and polls at once.
ChangeMode(r, m) ==
    [r EXCEPT !.mode = m,
              !.dirty = @ /\ m = "live",
              !.shown = IF r.mode = "live" /\ m # "live" THEN flushed ELSE @]

StopLeader(r) ==
    [r EXCEPT !.beat = Off, !.source = "none", !.feed = FALSE, !.got = FALSE, !.lost = FALSE]

OpenSource(r) == [ChangeMode(r, "connecting") EXCEPT !.source = "opening", !.failover = Off]

Post(t, message) ==
    inbox' = [u \in Tabs |-> IF u # t /\ Listening(u) THEN Append(inbox[u], message)
                             ELSE inbox[u]]

\* postHeartbeat(), after which the mode of the tab is m, in a step of these
\* events.
PostHeartbeat(t, m, events) ==
    \/ /\ lease' = t /\ left' = LeaderTimeout
       /\ Post(t, [type |-> "heartbeat", from |-> t, mode |-> m])
       /\ Happen(events)
    \/ UNCHANGED <<lease, left, inbox>> /\ Happen(events \cup {"throw"})

UntilExpiry == left

\* elect() up to the first write: another tab's lease that has not expired is
\* respected until it does.
ReadLease(t, r) ==
    IF lease \notin {None, t} /\ left > 0
    THEN [r EXCEPT !.pc = "idle", !.failover = UntilExpiry]
    ELSE [r EXCEPT !.pc = "writing", !.failover = Off]

-----------------------------------------------------------------------------
(* Election *)

\* connectLiveUpdates() in a new tab ends with elect().
OpenTab(t) ==
    /\ tab[t].pc = "absent"
    /\ tab' = [tab EXCEPT ![t] = ReadLease(t, [NewTab EXCEPT !.shown = flushed])]
    /\ UNCHANGED <<inbox, lease, left, flushed, budget>>

\* The failover timer calls elect().
Elect(t) ==
    /\ Idle(t) /\ tab[t].failover = 0
    /\ tab' = [tab EXCEPT ![t] = ReadLease(t, @)]
    /\ UNCHANGED <<inbox, lease, left, flushed, budget>>

\* elect() writes the lease.
WriteLease(t) ==
    /\ tab[t].pc = "writing"
    /\ lease' = t /\ left' = LeaderTimeout
    /\ tab' = [tab EXCEPT ![t].pc = "confirming"]
    /\ UNCHANGED <<inbox, flushed, budget>>

\* The write throws: startPerTabStream(), a stream without heartbeats.
LeaseDenied(t) ==
    /\ tab[t].pc = "writing"
    /\ Happen({"throw"})
    /\ tab' = [tab EXCEPT ![t] = [IF @.source # "none" THEN @ ELSE OpenSource(@)
                                  EXCEPT !.pc = "idle"]]
    /\ UNCHANGED <<inbox, lease, left, flushed>>

\* Mutant: a tab that lost the race does not wait for another election.
GiveUp(r) == [r EXCEPT !.pc = "idle"]
LostRace(r) == [r EXCEPT !.pc = "idle", !.failover = LeaderTimeout]

\* elect() reads the lease back: becomeLeader() opens the stream, unless it has one.
ConfirmLease(t) ==
    /\ tab[t].pc = "confirming"
    /\ tab' = [tab EXCEPT ![t] =
                  IF lease # t THEN LostRace(@)
                  ELSE IF @.source # "none" THEN [@ EXCEPT !.pc = "idle"]
                  ELSE [OpenSource(@) EXCEPT !.pc = "posting"]]
    /\ UNCHANGED <<inbox, lease, left, flushed, budget>>

\* becomeLeader() posts its first heartbeat and starts the timer.
FirstHeartbeat(t) ==
    /\ tab[t].pc = "posting"
    /\ PostHeartbeat(t, tab[t].mode, {})
    /\ tab' = [tab EXCEPT ![t].pc = "idle", ![t].beat = HeartbeatInterval]
    /\ UNCHANGED flushed

Heartbeat(t) ==
    /\ Idle(t) /\ tab[t].beat = 0
    /\ PostHeartbeat(t, tab[t].mode, {})
    /\ tab' = [tab EXCEPT ![t].beat = HeartbeatInterval]
    /\ UNCHANGED flushed

\* Mutant: a leader never steps down.
NeverStepsDown(t) == FALSE
StepsDown(t) == tab[t].source # "none" /\ lease # t

\* channel.onmessage
Message(t) ==
    /\ Idle(t) /\ inbox[t] # <<>>
    /\ inbox' = [inbox EXCEPT ![t] = Tail(@)]
    /\ LET m == Head(inbox[t])
           r == IF StepsDown(t) THEN StopLeader(tab[t]) ELSE tab[t]
       IN  tab' = [tab EXCEPT ![t] =
                      IF m.type = "flush"
                      THEN [tab[t] EXCEPT !.dirty = @ \/ tab[t].mode = "live"]
                      ELSE [ChangeMode(r, m.mode) EXCEPT !.failover = LeaderTimeout]]
    /\ UNCHANGED <<lease, left, flushed, budget>>

-----------------------------------------------------------------------------
(* The stream *)

\* The server admits the stream.  One that broke names the last event it got.
Subscribe(t) ==
    /\ tab[t].source \in {"opening", "broken"}
    /\ tab' = [tab EXCEPT ![t].source = "subscribed",
                          ![t].feed = tab[t].got /\ tab[t].lost,
                          ![t].lost = FALSE]
    /\ UNCHANGED <<inbox, lease, left, flushed, budget>>

\* onopen and onerror of a leader post a heartbeat, those of startPerTabStream()
\* do not.
PostMode(t, m, events) ==
    IF tab[t].beat # Off THEN PostHeartbeat(t, m, events)
    ELSE UNCHANGED <<inbox, lease, left>> /\ Happen(events)

\* source.onopen
OnOpen(t) ==
    /\ Idle(t) /\ tab[t].source = "subscribed"
    /\ PostMode(t, "live", {})
    /\ tab' = [tab EXCEPT ![t] = [ChangeMode(@, "live") EXCEPT !.source = "open"]]
    /\ UNCHANGED flushed

\* source.onerror: what was on its way is lost until the stream is back.
OnError(t) ==
    /\ Idle(t) /\ tab[t].source \in {"opening", "subscribed", "open"}
    /\ PostMode(t, "polling", {"break"})
    /\ tab' = [tab EXCEPT ![t] = [ChangeMode(tab[t], "polling") EXCEPT
                                     !.source = "broken", !.lost = @ \/ tab[t].feed,
                                     !.feed = FALSE]]
    /\ UNCHANGED flushed

\* receiveFlush(): the events on their way arrive.
ReceiveFlush(t) ==
    /\ Idle(t) /\ tab[t].source = "open" /\ tab[t].feed
    /\ Post(t, [type |-> "flush"])
    /\ tab' = [tab EXCEPT ![t].feed = FALSE, ![t].got = TRUE,
                          ![t].dirty = @ \/ tab[t].mode = "live"]
    /\ UNCHANGED <<lease, left, flushed, budget>>

\* The server flushes an entry to the streams it has admitted.
Flush ==
    /\ Happen({"flush"})
    /\ flushed' = flushed + 1
    /\ tab' = [t \in Tabs |-> [tab[t] EXCEPT
                  !.feed = @ \/ tab[t].source \in {"subscribed", "open"},
                  !.lost = @ \/ tab[t].source = "broken",
                  !.owed = IF Listening(t) /\ tab[t].mode = "live" THEN flushed + 1 ELSE @]]
    /\ UNCHANGED <<inbox, lease, left>>

\* The list is read again: on an event while live, else every poll interval.
Scan(t) ==
    /\ Idle(t)
    /\ tab[t].dirty \/ (tab[t].mode # "live" /\ tab[t].shown # flushed)
    /\ tab' = [tab EXCEPT ![t].shown = flushed, ![t].dirty = FALSE]
    /\ UNCHANGED <<inbox, lease, left, flushed, budget>>

-----------------------------------------------------------------------------
(* Tabs that go, and time *)

\* close() up to the removal of the lease, which it has read to be its own.
CloseTab(t) ==
    /\ Idle(t)
    /\ tab' = [tab EXCEPT ![t] = [StopLeader(@) EXCEPT
                                     !.pc = IF lease = t THEN "releasing" ELSE "gone",
                                     !.failover = Off]]
    /\ inbox' = [inbox EXCEPT ![t] = <<>>]
    /\ UNCHANGED <<lease, left, flushed, budget>>

\* releaseLease() removes whatever lease is there by now.
ReleaseLease(t) ==
    /\ tab[t].pc = "releasing"
    /\ tab' = [tab EXCEPT ![t].pc = "gone"]
    /\ lease' = None /\ left' = 0
    /\ UNCHANGED <<inbox, flushed, budget>>

\* The tab dies; its lease stays.
Crash(t) ==
    /\ tab[t].pc \notin {"absent", "gone"}
    /\ Happen({"crash"})
    /\ tab' = [tab EXCEPT ![t] = [StopLeader(@) EXCEPT !.pc = "gone", !.failover = Off]]
    /\ inbox' = [inbox EXCEPT ![t] = <<>>]
    /\ UNCHANGED <<lease, left, flushed>>

TabDue(t) ==
    \/ tab[t].pc \notin {"absent", "idle", "gone"}
    \/ Idle(t) /\ (tab[t].beat = 0 \/ tab[t].failover = 0 \/ inbox[t] # <<>>)

TimePasses ==
    LET less(n) == IF n > 0 THEN n - 1 ELSE n
    IN  /\ Happen(IF \E t \in Tabs : TabDue(t) THEN {"late"} ELSE {})
        /\ left' = less(left)
        /\ tab' = [t \in Tabs |-> [tab[t] EXCEPT !.beat = less(@), !.failover = less(@)]]
        /\ UNCHANGED <<inbox, lease, flushed>>

\* The steps of a tab, of the network and of the server that answer something.
Advance(t) ==
    \/ Elect(t) \/ WriteLease(t) \/ LeaseDenied(t) \/ ConfirmLease(t)
    \/ FirstHeartbeat(t) \/ Heartbeat(t) \/ ReleaseLease(t)

NextLive ==
    \/ \E t \in Tabs : \/ OpenTab(t) \/ Advance(t) \/ Message(t)
                       \/ Subscribe(t) \/ OnOpen(t) \/ OnError(t)
                       \/ ReceiveFlush(t) \/ Scan(t) \/ CloseTab(t) \/ Crash(t)
    \/ Flush \/ TimePasses

LiveSpec == InitLive /\ [][NextLive]_liveVars

\* Callbacks that are due run, messages and events arrive, the server admits
\* streams, and time passes.
FairLiveSpec ==
    /\ LiveSpec
    /\ WF_liveVars(TimePasses)
    /\ \A t \in Tabs : /\ WF_liveVars(Advance(t)) /\ WF_liveVars(Message(t))
                       /\ WF_liveVars(Subscribe(t)) /\ WF_liveVars(OnOpen(t))
                       /\ WF_liveVars(ReceiveFlush(t)) /\ WF_liveVars(Scan(t))

-----------------------------------------------------------------------------
(* Properties *)

\* A tab that is open has a stream or an election before it: no race, lost lease
\* or failed write leaves it waiting for a leader that never comes.
NeverOutOfReach ==
    \A t \in Tabs : Idle(t) => tab[t].source # "none" \/ tab[t].failover # Off

\* "A racing election can briefly duplicate a stream, while the next heartbeat
\* converges every follower on the lease winner": once tabs stop coming and going
\* there is exactly one stream, once timers and messages are no longer delayed and
\* unless the tabs stream by themselves because they could not write the lease.
Converges ==
    <>[](\/ Cardinality(Streams) = 1
         \/ \A t \in Tabs : ~Listening(t)
         \/ Streams # {} /\ \A t \in Streams : tab[t].beat = Off)

\* "without risking missed updates": a tab shows every entry flushed while it was
\* live.
NothingMissed ==
    \A t \in Tabs : []<>(tab[t].shown >= tab[t].owed \/ ~Listening(t))

\* So does a tab that has been the only one, its stream breaking or not.
AloneMissesNothing ==
    \A t \in Tabs : []<>(\/ tab[t].shown >= tab[t].owed \/ ~Listening(t)
                         \/ \E u \in Tabs \ {t} : tab[u].pc # "absent")

=============================================================================
