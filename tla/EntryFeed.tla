----------------------------- MODULE EntryFeed -----------------------------
(***************************************************************************)
(* A list of entries of the dashboard: useCursorPagination() loads its     *)
(* pages, useNewEntryPolling() looks for what was stored since by walking  *)
(* the newest pages down to a row it knows (walkCursorPages()), and offers *)
(* it as "N new entries" until it is accepted.  The page is live, looking  *)
(* when an event of the stream tells it to, or it polls.                   *)
(*                                                                         *)
(* An entry is its sequence, and a list the set of its rows, whose order   *)
(* the reader's table makes.  Entries are stored in any order: a request   *)
(* that was recorded early may be flushed late.  A scope is the filters of *)
(* one page; events are matched by type alone, the scopes by their rows.   *)
(***************************************************************************)
EXTENDS Integers, FiniteSets, Sequences

CONSTANTS MaxSequence, \* bound: entries recorded
          Old,         \* entries that are stored when the page is opened
          OfType,      \* entries of the type the page lists
          Scopes, In,  \* the filters of the page, and the entries they select
          ListPage,    \* rows of a page of the list: 50
          ScanPage,    \* rows of a page of a scan: 100
          Budgets      \* bounds: how often each of Events happens

Entries == 1..MaxSequence
Nothing == 0   \* a missing cursor or event; no entry has this sequence
NoScan == [at |-> Nothing, known |-> {}, got |-> {}, from |-> "none"]

\* A request fails, the filters change, the store is cleared, the stream comes or
\* goes, an entry is stored after a newer one, and the user (or the live tail) acts
\* while the list is being reloaded.
Events == {"fail", "filter", "clear", "switch", "late", "haste"}

ASSUME FeedAssumption ==
    /\ MaxSequence \in Nat /\ Old \subseteq Entries /\ OfType \subseteq Entries
    /\ In \in [Scopes -> SUBSET OfType]
    /\ ListPage \in Nat \ {0} /\ ScanPage \in Nat \ {0}
    /\ Budgets \subseteq [Events -> Nat] /\ IsFiniteSet(Budgets)

VARIABLES stored,    \* entries in the store
          overtaken, \* history: entries that were stored after a newer one
          cleared,   \* history: entries that were cleared
          clearing,  \* the store is cleared and the dashboard does not know yet
          news,      \* events of the stream on their way
          event,     \* flushEvent: the last one received
          unread,    \* the page has not been rendered with it
          live,      \* the mode is live; otherwise the page polls
          scope,     \* the filters of the page
          list,      \* entries: the rows of the page
          cursor,    \* nextCursor
          error,     \* a request for rows failed
          failed,    \* history: the last reload did
          loads,     \* requests for rows on their way
          pending,   \* the entries offered as new
          scan,      \* the walk over the newest pages
          due,       \* a scan is scheduled
          blind,     \* history: nothing that happened since the last read began
                     \* will cause another one
          budget     \* how often each event may still happen

store == <<stored, overtaken, cleared, clearing>>
stream == <<news, event, unread, live>>
listVars == <<scope, list, cursor, error, failed>>
feedVars == <<store, stream, listVars, loads, pending, scan, due, blind, budget>>

Happens(e) == budget[e] > 0 /\ budget' = [budget EXCEPT ![e] = @ - 1]

Shown == list \cup pending
Selected(s) == stored \cap In[s]

\* A page of at most size rows of a scope below a cursor, the newest, and the last
\* of them as the next cursor if more follow.
Page(s, at, size) ==
    LET found == {e \in Selected(s) : at = Nothing \/ e < at}
        newest == {e \in found : Cardinality({n \in found : n > e}) < size}
    IN  [rows |-> newest,
         next |-> IF newest = found THEN Nothing
                  ELSE CHOOSE e \in newest : \A n \in newest : e <= n]

-----------------------------------------------------------------------------
(* Requests for rows *)

\* A request is current until a reload or other filters start a generation.
Request(kind, s, at) ==
    [kind |-> kind, scope |-> s, at |-> at, current |-> TRUE, answered |-> FALSE,
     rows |-> {}, next |-> Nothing]
Superseded == {[r EXCEPT !.current = FALSE] : r \in loads}
Reloading == \E r \in loads : r.current /\ r.kind = "initial"
LoadingMore == \E r \in loads : r.current /\ r.kind = "more"

\* loadInitial()
LoadInitial(s) ==
    /\ loads' = Superseded \cup {Request("initial", s, Nothing)}
    /\ error' = FALSE /\ failed' = FALSE
    /\ blind' = FALSE

InitFeed ==
    /\ stored = Old /\ overtaken = {} /\ cleared = {} /\ clearing = FALSE
    /\ news = <<>> /\ event = Nothing /\ unread = FALSE /\ live \in BOOLEAN
    /\ scope \in Scopes /\ list = {} /\ cursor = Nothing
    /\ error = FALSE /\ failed = FALSE
    /\ loads = {Request("initial", scope, Nothing)}
    /\ pending = {} /\ scan = NoScan /\ due = FALSE /\ blind = FALSE
    /\ budget \in Budgets

\* The user, or the live tail, acts: rarely while the list is being reloaded.
Acts == IF Reloading THEN Happens("haste") ELSE UNCHANGED budget

\* loadMore(): the button "Older".
LoadMore ==
    /\ cursor # Nothing /\ ~LoadingMore /\ Acts
    /\ loads' = loads \cup {Request("more", scope, cursor)}
    /\ error' = FALSE
    /\ UNCHANGED <<store, stream, scope, list, cursor, failed, pending, scan, due, blind>>

\* onRetry()
Retry ==
    /\ error /\ ~Reloading
    /\ LoadInitial(scope)
    /\ UNCHANGED <<store, stream, scope, list, cursor, pending, scan, due, budget>>

\* The API reads the store.
Answer(r) ==
    /\ ~r.answered
    /\ LET page == Page(r.scope, r.at, ListPage)
       IN  loads' = (loads \ {r})
                    \cup {[r EXCEPT !.answered = TRUE, !.rows = page.rows, !.next = page.next]}
    /\ UNCHANGED <<store, stream, listVars, pending, scan, due, blind, budget>>

\* Mutant: the answers of an earlier generation are shown as well.
ShowsAny(r) == TRUE
Shows(r) == r.current

\* The answer of loadInitial() or loadMore() arrives.
Land(r) ==
    /\ r.answered
    /\ loads' = loads \ {r}
    /\ IF Shows(r)
       THEN /\ list' = IF r.kind = "initial" THEN r.rows ELSE list \cup r.rows
            /\ cursor' = r.next
       ELSE UNCHANGED <<list, cursor>>
    /\ UNCHANGED <<store, stream, scope, error, failed, pending, scan, due, blind, budget>>

LoadFails(r) ==
    /\ Happens("fail")
    /\ loads' = loads \ {r}
    /\ error' = (error \/ r.current)
    /\ failed' = (failed \/ (r.current /\ r.kind = "initial"))
    /\ UNCHANGED <<store, stream, scope, list, cursor, pending, scan, due, blind>>

-----------------------------------------------------------------------------
(* Looking for new entries *)

\* scanForNewEntries() aborts the scan before it.
StartScan(from) ==
    /\ scan' = [at |-> Nothing, known |-> Shown, got |-> {}, from |-> from]
    /\ blind' = FALSE

\* usePolling(): a poll waits for the poll before it.
Poll ==
    /\ ~live /\ scan.from # "poll"
    /\ StartScan("poll")
    /\ UNCHANGED <<store, stream, listVars, loads, pending, due, budget>>

\* Mutant: what is due while a scan runs is dropped.
ScanUnlessBusy == IF scan.from = "none" THEN StartScan("event") ELSE UNCHANGED <<scan, blind>>
ScanNow == StartScan("event")

\* createCoalescedCallback() fires.
RunDue ==
    /\ due /\ due' = FALSE
    /\ ScanNow
    /\ UNCHANGED <<store, stream, listVars, loads, pending, budget>>

\* Mutant: one page is read.
OnePage(page, known) == TRUE
\* The walk ends at a row that is known or with the last page.
WalkEnds(page, known) == page.next = Nothing \/ known # {}

\* walkCursorPages() reads a page and collects the rows before one that is known.
ScanStep ==
    /\ scan.from # "none"
    /\ \E page \in {Page(scope, scan.at, ScanPage)} :
       \E known \in {page.rows \cap scan.known} :
       \E got \in {scan.got \cup {e \in page.rows : \A k \in known : k < e}} :
          IF WalkEnds(page, known)
          THEN /\ pending' = pending \cup (got \ Shown)
               /\ scan' = NoScan
          ELSE /\ scan' = [scan EXCEPT !.at = page.next, !.got = got]
               /\ UNCHANGED pending
    /\ UNCHANGED <<store, stream, listVars, loads, due, blind, budget>>

\* A page fails: a poll is repeated, a scan for an event is not.
ScanFails ==
    /\ scan.from # "none" /\ Happens("fail")
    /\ scan' = NoScan
    /\ blind' = (blind \/ (live /\ ~due))
    /\ UNCHANGED <<store, stream, listVars, loads, pending, due>>

\* accept() and prepend(): the button "N new entries".
Accept ==
    /\ pending # {} /\ Acts
    /\ list' = list \cup pending
    /\ pending' = {}
    /\ UNCHANGED <<store, stream, scope, cursor, error, failed, loads, scan, due, blind>>

-----------------------------------------------------------------------------
(* The stream *)

\* An entry is stored, and announced on the stream of a page that is live.
Store(e) ==
    /\ e \notin stored \cup cleared
    /\ stored' = stored \cup {e}
    /\ IF \E n \in stored \cup cleared : n > e
       THEN overtaken' = overtaken \cup {e} /\ Happens("late")
       ELSE UNCHANGED <<overtaken, budget>>
    /\ news' = IF live THEN Append(news, e) ELSE news
    /\ UNCHANGED <<cleared, clearing, event, unread, live, listVars, loads, pending, scan, due,
                   blind>>

\* onFlush(): one slot holds the last event; one that was not rendered is gone.
Hear ==
    /\ news # <<>>
    /\ event' = Head(news) /\ news' = Tail(news) /\ unread' = TRUE
    /\ blind' = (blind \/ (unread /\ event \in OfType /\ Head(news) \notin OfType))
    /\ UNCHANGED <<store, live, listVars, loads, pending, scan, due, budget>>

Matches == event \in OfType

\* The page is rendered with the event: a scan is scheduled if it matches.
Render ==
    /\ unread /\ unread' = FALSE
    /\ due' = (due \/ (live /\ Matches))
    /\ UNCHANGED <<store, news, event, live, listVars, loads, pending, scan, blind, budget>>

\* The stream opens: the last event, if there is one, is looked at again.
GoLive ==
    /\ ~live /\ Happens("switch")
    /\ live' = TRUE /\ unread' = FALSE
    /\ due' = Matches /\ blind' = (blind \/ ~Matches)
    /\ UNCHANGED <<store, news, event, listVars, loads, pending, scan>>

\* The stream breaks: its events are lost, and the page polls.
GoPolling ==
    /\ live /\ Happens("switch")
    /\ live' = FALSE /\ news' = <<>> /\ unread' = FALSE
    /\ due' = FALSE
    /\ UNCHANGED <<store, event, listVars, loads, pending, scan, blind>>

-----------------------------------------------------------------------------
(* Filters, and clearing the store *)

\* The page shows other rows: what was offered is dropped, the scan aborted.
NewScope == pending' = {} /\ scan' = NoScan

ChangeFilters(s) ==
    /\ s # scope /\ Happens("filter")
    /\ scope' = s /\ list' = {} /\ cursor' = Nothing
    /\ LoadInitial(s) /\ NewScope
    /\ unread' = FALSE /\ due' = (live /\ Matches)
    /\ UNCHANGED <<store, news, event, live>>

\* api.clear()
ClearStore ==
    /\ ~clearing /\ Happens("clear")
    /\ stored' = {} /\ cleared' = cleared \cup stored /\ clearing' = TRUE
    /\ UNCHANGED <<overtaken, stream, listVars, loads, pending, scan, due, blind>>

\* It has answered: the revision is new, and every list is reloaded.
Cleared ==
    /\ clearing /\ clearing' = FALSE
    /\ LoadInitial(scope) /\ NewScope
    /\ UNCHANGED <<stored, overtaken, cleared, stream, scope, list, cursor, due, budget>>

NextFeed ==
    \/ \E e \in Entries : Store(e)
    \/ \E r \in loads : Answer(r) \/ Land(r) \/ LoadFails(r)
    \/ \E s \in Scopes : ChangeFilters(s)
    \/ LoadMore \/ Retry \/ Accept \/ ClearStore \/ Cleared
    \/ Poll \/ RunDue \/ ScanStep \/ ScanFails
    \/ Hear \/ Render \/ GoLive \/ GoPolling

\* What the page waits for: answers, events, renders and timers, none of them
\* without end.
Arrive == (\E r \in loads : Answer(r) \/ Land(r)) \/ Hear \/ Render \/ RunDue \/ Cleared

FeedSpec == InitFeed /\ [][NextFeed]_feedVars

\* What it waits for comes, polls fire and scans go on; what the user does, what
\* the application stores and what fails is left open.
FairFeedSpec ==
    FeedSpec /\ WF_feedVars(Arrive) /\ WF_feedVars(Poll) /\ WF_feedVars(ScanStep)

-----------------------------------------------------------------------------
(* Properties *)

\* No answer, scan or offer of other filters reaches the page, whenever it comes,
\* and once a cleared list is reloaded nothing that was cleared comes back.
NothingStale ==
    /\ Shown \subseteq In[scope]
    /\ Reloading \/ failed \/ clearing \/ Shown \cap cleared = {}

\* Entries the page owes its reader: those from its cursor up, except the ones
\* that were stored after a newer one.
Owed == {e \in Selected(scope) : cursor = Nothing \/ e >= cursor} \ overtaken

\* Between the last row and the newest entry shown or offered nothing is left out,
\* however pages, scans, clearing and new entries interleave.
Gapless ==
    Reloading \/ clearing
    \/ \A e \in Owed : e \in Shown \/ (\A n \in Shown \ cleared : n < e)

\* A page that polls shows or offers what was stored in the end, failures or not;
\* so does one that is live, unless it was not told (see blind).
CaughtUp == []<>(Owed \subseteq Shown \/ blind \/ (live /\ failed))

\* "New entries appear live": without excuses.
NewEntriesAppear == []<>(Owed \subseteq Shown)

\* "N new entries" are new: newer than every row that was loaded.
OfferedAreNew == \A n \in pending, e \in list : n > e \/ n \in overtaken
=============================================================================
