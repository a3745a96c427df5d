-------------------------- MODULE DumpOpenHeartbeat --------------------------
(***************************************************************************)
(* useDumpOpenHeartbeat() of the dashboard's dumps page, in each of its    *)
(* tabs: while the page is visible and focused it keeps a lease of its own *)
(* in the store, a flag that expires (DashboardController.setFlag and      *)
(* deleteFlag).  A tab has one request in flight and remembers only the    *)
(* state it wants last.                                                    *)
(*                                                                         *)
(* A step of time is a heartbeat interval, 10 s.  The revision numbers of  *)
(* the code only tell whether the state was requested again since the      *)
(* request in flight was sent: "again".  The generations of the effect     *)
(* only tell whether the page was mounted again before the microtask of    *)
(* its cleanup: "leaving".                                                 *)
(***************************************************************************)
EXTENDS Integers, FiniteSets

CONSTANTS Tabs,
          HeartbeatInterval, \* HEARTBEAT_INTERVAL_MS, in steps of time
          LeaseTime          \* DUMP_OPEN_TTL_MS

ASSUME HeartbeatAssumption ==
    /\ HeartbeatInterval \in Nat \ {0} /\ LeaseTime \in Nat
    /\ HeartbeatInterval < LeaseTime

VARIABLES page,    \* of each tab, the hook's variables
          request, \* the request in flight: none, set, delete, served
          stray,   \* requests that the tab gave up and the server may still serve
          lease,   \* time left on the tab's flag, 0 when it is not set
          doubt    \* history: the flag is not known to be what the last answer left

tabVars == <<page, request, stray, lease, doubt>>

Off == -1

\* beat: time to the next heartbeat, Off when the interval is cleared, which is when
\* the effect is not active; flagOpen: the module's variable; wanted: requested.open.
Page == [mounted : BOOLEAN, focused : BOOLEAN, leaving : BOOLEAN, gone : BOOLEAN,
         beat : Off..HeartbeatInterval, flagOpen : BOOLEAN,
         wanted : BOOLEAN, again : BOOLEAN]

NewPage == [mounted |-> FALSE, focused |-> FALSE, leaving |-> FALSE, gone |-> FALSE,
            beat |-> Off, flagOpen |-> FALSE, wanted |-> FALSE, again |-> FALSE]

InitTabs ==
    /\ page = [t \in Tabs |-> NewPage]
    /\ request = [t \in Tabs |-> "none"]
    /\ stray = [t \in Tabs |-> {}]
    /\ lease = [t \in Tabs |-> 0]
    /\ doubt = [t \in Tabs |-> FALSE]

Call(open) == IF open THEN "set" ELSE "delete"

\* requestFlagState(open) by the page p: one request at a time.
RequestFlagState(t, p, open) ==
    /\ page' = [page EXCEPT ![t] = [p EXCEPT !.wanted = open, !.again = request[t] # "none"]]
    /\ request' = IF request[t] # "none" THEN request
                  ELSE [request EXCEPT ![t] = Call(open)]

Deactivate(t, p) == RequestFlagState(t, [p EXCEPT !.flagOpen = FALSE, !.beat = Off], FALSE)

\* activate(): the lease is asked for once, however often the page is focused.
Activate(t, p) ==
    IF ~p.focused THEN Deactivate(t, p)
    ELSE LET active == [p EXCEPT !.beat = HeartbeatInterval, !.flagOpen = TRUE]
         IN  IF p.beat # Off THEN page' = [page EXCEPT ![t] = p] /\ UNCHANGED request
             ELSE IF p.flagOpen THEN page' = [page EXCEPT ![t] = active] /\ UNCHANGED request
             ELSE RequestFlagState(t, active, TRUE)

\* Nothing but the microtask or a new mount follows an unmount.
Free(t) == ~page[t].leaving /\ ~page[t].gone

Mount(t) ==
    /\ ~page[t].mounted /\ ~page[t].gone
    /\ Activate(t, [page[t] EXCEPT !.mounted = TRUE, !.leaving = FALSE])
    /\ UNCHANGED <<stray, lease, doubt>>

\* The window is focused, or seen again.
Focus(t) ==
    /\ Free(t) /\ ~page[t].focused
    /\ LET p == [page[t] EXCEPT !.focused = TRUE]
       IN  IF p.mounted THEN Activate(t, p)
           ELSE page' = [page EXCEPT ![t] = p] /\ UNCHANGED request
    /\ UNCHANGED <<stray, lease, doubt>>

\* blur, visibilitychange and pagehide.
Blur(t) ==
    /\ Free(t) /\ page[t].focused
    /\ LET p == [page[t] EXCEPT !.focused = FALSE]
       IN  IF p.mounted THEN Deactivate(t, p)
           ELSE page' = [page EXCEPT ![t] = p] /\ UNCHANGED request
    /\ UNCHANGED <<stray, lease, doubt>>

\* The cleanup of the effect leaves the lease to its microtask.
Unmount(t) ==
    /\ page[t].mounted
    /\ page' = [page EXCEPT ![t].mounted = FALSE, ![t].beat = Off, ![t].leaving = TRUE]
    /\ UNCHANGED <<request, stray, lease, doubt>>

Microtask(t) ==
    /\ page[t].leaving
    /\ LET p == [page[t] EXCEPT !.leaving = FALSE]
       IN  IF p.flagOpen THEN RequestFlagState(t, [p EXCEPT !.flagOpen = FALSE], FALSE)
           ELSE page' = [page EXCEPT ![t] = p] /\ UNCHANGED request
    /\ UNCHANGED <<stray, lease, doubt>>

Heartbeat(t) ==
    /\ page[t].beat = 0
    /\ RequestFlagState(t, [page[t] EXCEPT !.beat = HeartbeatInterval], TRUE)
    /\ UNCHANGED <<stray, lease, doubt>>

\* The tab dies; what it has sent may or may not arrive.
Vanish(t) ==
    /\ ~page[t].gone
    /\ page' = [page EXCEPT ![t] = [NewPage EXCEPT !.gone = TRUE]]
    /\ request' = [request EXCEPT ![t] = "none"]
    /\ stray' = [stray EXCEPT ![t] = @ \cup ({request[t]} \cap {"set", "delete"})]
    /\ doubt' = [doubt EXCEPT ![t] = TRUE]
    /\ UNCHANGED lease

-----------------------------------------------------------------------------
(* The server *)

\* Mutant: a flag that is set keeps the expiry it has.
OldExpiry(t) == IF lease[t] > 0 THEN lease[t] ELSE LeaseTime
\* setFlag() replaces the row.
NewExpiry(t) == LeaseTime

Served(t, call) == lease' = [lease EXCEPT ![t] = IF call = "set" THEN NewExpiry(t) ELSE 0]

Serve(t) ==
    /\ request[t] \in {"set", "delete"}
    /\ Served(t, request[t])
    /\ request' = [request EXCEPT ![t] = "served"]
    /\ doubt' = [doubt EXCEPT ![t] = stray[t] # {}]
    /\ UNCHANGED <<page, stray>>

\* A request that the tab no longer waits for is served, or never arrives.
ServeStray(t) ==
    /\ \E call \in stray[t] :
        /\ stray' = [stray EXCEPT ![t] = @ \ {call}]
        /\ Served(t, call) \/ UNCHANGED lease
    /\ doubt' = [doubt EXCEPT ![t] = TRUE]
    /\ UNCHANGED <<page, request>>

\* Mutant: what was requested meanwhile is left to the next heartbeat.
Forget(t) == "none"
\* reconcileFlag() again, if the state was requested since the snapshot.
Reconcile(t) == IF page[t].again THEN Call(page[t].wanted) ELSE "none"

Settled(t) ==
    /\ request' = [request EXCEPT ![t] = Reconcile(t)]
    /\ page' = [page EXCEPT ![t].again = FALSE]

Answered(t) ==
    /\ request[t] = "served"
    /\ Settled(t)
    /\ UNCHANGED <<stray, lease, doubt>>

\* The request is rejected; it may be lost or still on its way.
Rejected(t) ==
    /\ request[t] \in {"set", "delete"}
    /\ stray' = [stray EXCEPT ![t] = @ \cup {request[t]}]
    /\ Settled(t)
    /\ doubt' = [doubt EXCEPT ![t] = TRUE]
    /\ UNCHANGED lease

\* What does not take a step of time.
Due(t) == page[t].beat = 0 \/ page[t].leaving \/ request[t] # "none" \/ stray[t] # {}

\* Mutant: the leases do not expire.
Unexpiring(t) == lease[t]
\* A flag is found until its expiry.
Remaining(t) == IF lease[t] > 0 THEN lease[t] - 1 ELSE 0

\* Time passes for the intervals and for the leases.
Elapse ==
    /\ page' = [t \in Tabs |-> [page[t] EXCEPT !.beat = IF @ > 0 THEN @ - 1 ELSE @]]
    /\ lease' = [t \in Tabs |-> Remaining(t)]
    /\ UNCHANGED <<request, stray, doubt>>
==============================================================================
