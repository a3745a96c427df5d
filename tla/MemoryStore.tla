---------------------------- MODULE MemoryStore ----------------------------
(***************************************************************************)
(* packages/periscope/src/storage/memory_store.ts: a map of entries in     *)
(* insertion order beside an index by tag and one by batch, and the pages  *)
(* of storage/pagination.ts and storage/exception_groups.ts read from it.  *)
(*                                                                         *)
(* Every operation is one step.  What takes several is a walk: a reader    *)
(* asks for page after page, each from the cursor of the one before, while *)
(* entries are saved, replaced, evicted, pruned, trimmed and cleared.      *)
(*                                                                         *)
(* An entry is a record of uuid, sequence, batch, tags, application,       *)
(* family and age.  A family other than NoFamily makes it an exception;    *)
(* the filters of a query that only look at one entry are its application. *)
(***************************************************************************)
EXTENDS Naturals, Sequences, SequencesExt, FiniteSets, FiniteSetsExt

CONSTANTS Calls,       \* bound: the save() calls there may be, each once
          Unset,       \* a filter that is not given
          NoFamily,
          MaxEntries,  \* the ceiling of the ring
          Queries,     \* the queries that readers walk
          PageSize     \* their limit, within 1..MAX_PAGE_SIZE

ASSUME MemoryAssumption ==
    /\ \A call \in Calls : call \in Seq(ToSet(call))
    /\ \A call \in Calls : \A e \in ToSet(call) : e.uuid \in Nat \ {0} /\ e.sequence \in Nat
    /\ \A one, other \in Calls : \A a \in ToSet(one), b \in ToSet(other) :
          a.uuid = b.uuid => a.sequence = b.sequence   \* given once, before the first save
    /\ MaxEntries \in Nat \ {0} /\ PageSize \in Nat \ {0}
    /\ \A q \in Queries : q.kind \in {"newest", "oldest", "groups"}

VARIABLES store,   \* #entries, #byTag and #byBatch
          unsaved, \* the calls still to come
          walk,    \* the reader: what it asks, its cursor and the pages it was given
          owed     \* history: what was listed ever since the walk began, and the
                   \* sequences that it was listed with

memoryVars == <<store, unsaved, walk, owed>>

Nothing == [sequence |-> 0, uuid |-> 0]
Resting == [stage |-> "resting", query |-> Unset, cursor |-> Nothing, given |-> <<>>]

InitMemory ==
    /\ store = [entries |-> <<>>, byTag |-> <<>>, byBatch |-> <<>>]
    /\ unsaved = Calls
    /\ walk = Resting
    /\ owed = {}

-----------------------------------------------------------------------------
(* The map and its indexes *)

Stored(s) == ToSet(s.entries)
Exception(e) == e.family # NoFamily
Known(s, uuid) == {i \in DOMAIN s.entries : s.entries[i].uuid = uuid}

\* An index is a function from the keys that have a bucket to their uuids.
WithEntry(index, keys, uuid) ==
    [k \in DOMAIN index \cup keys |->
        (IF k \in DOMAIN index THEN index[k] ELSE {}) \cup (IF k \in keys THEN {uuid} ELSE {})]

WithoutEntry(index, keys, uuid) ==
    [k \in {k \in DOMAIN index : k \in keys => index[k] # {uuid}} |->
        IF k \in keys THEN index[k] \ {uuid} ELSE index[k]]

\* #remove()
Removed(s, uuid) ==
    IF Known(s, uuid) = {} THEN s
    ELSE LET i == CHOOSE i \in Known(s, uuid) : TRUE
         IN  [entries |-> RemoveAt(s.entries, i),
              byTag |-> WithoutEntry(s.byTag, s.entries[i].tags, uuid),
              byBatch |-> WithoutEntry(s.byBatch, {s.entries[i].batch}, uuid)]

\* Mutant: a version is written over the one before.
Overwritten(s, uuid) ==
    IF Known(s, uuid) = {} THEN s
    ELSE [s EXCEPT !.entries = RemoveAt(@, CHOOSE i \in Known(s, uuid) : TRUE)]
Replaced(s, uuid) == Removed(s, uuid)

\* #insert(): an entry that was known moves to the end.
Inserted(s, e) ==
    LET rest == Replaced(s, e.uuid)
    IN  [entries |-> Append(rest.entries, e),
         byTag |-> WithEntry(rest.byTag, e.tags, e.uuid),
         byBatch |-> WithEntry(rest.byBatch, {e.batch}, e.uuid)]

\* The loops of the operations, which go over a call and over the entries there were.
AllInserted(s, call) ==
    LET after[i \in 0..Len(call)] == IF i = 0 THEN s ELSE Inserted(after[i - 1], call[i])
    IN  after[Len(call)]
AllRemoved(s, doomed) ==
    LET after[i \in 0..Len(s.entries)] ==
            IF i = 0 THEN s
            ELSE IF s.entries[i] \in doomed THEN Removed(after[i - 1], s.entries[i].uuid)
            ELSE after[i - 1]
    IN  after[Len(s.entries)]

\* The oldest entries by insertion go, once per call.
Evicted(s) == AllRemoved(s, {s.entries[i] : i \in 1..(Len(s.entries) - MaxEntries)})

Older(a, b) == \/ a.sequence < b.sequence
               \/ a.sequence = b.sequence /\ a.uuid < b.uuid

-----------------------------------------------------------------------------
(* Pages *)

\* What the indexes leave of a query; a bucket that is missing leaves nothing.
Candidates(s, q) ==
    LET byKey == (IF q.batch = Unset THEN {} ELSE {<<s.byBatch, q.batch>>})
                    \cup {<<s.byTag, t>> : t \in q.tags}
    IN  {e \in Stored(s) : \A ik \in byKey : ik[2] \in DOMAIN ik[1] /\ e.uuid \in ik[1][ik[2]]}

\* matchesQuery() but for the cursor: the indexes are an optimisation, this is
\* the definition.
Matches(e, q) ==
    /\ q.batch # Unset => e.batch = q.batch
    /\ q.application = Unset \/ e.application = q.application
    /\ q.tags \subseteq e.tags

\* aggregateExceptionGroups(): the first entry with the highest sequence stands
\* for its family.
Place(s, e) == CHOOSE i \in DOMAIN s.entries : s.entries[i] = e
Families(s, found) ==
    LET raised == {e \in found : Exception(e)}
    IN  {e \in raised :
            \A other \in raised \ {e} :
                other.family = e.family =>
                    \/ other.sequence < e.sequence
                    \/ other.sequence = e.sequence /\ Place(s, e) < Place(s, other)}

\* What a query finds, and what it lists of that: entries, or one of each family.
\* The families are not checked against the query once more.
Within(e, application) == application = Unset \/ e.application = application
Found(s, q) == {e \in Candidates(s, q) : IF q.kind = "groups" THEN Within(e, q.application)
                                        ELSE Matches(e, q)}
Listed(s, q, found) == IF q.kind = "groups" THEN Families(s, found) ELSE found

\* Mutant: pages are told apart by their sequences alone.
BeyondSequence(e, q, cursor) ==
    \/ cursor = Nothing
    \/ IF q.kind = "oldest" THEN cursor.sequence < e.sequence ELSE e.sequence < cursor.sequence

\* Entries have the uuid to break a tie, groups have not.
Beyond(e, q, cursor) ==
    \/ cursor = Nothing
    \/ q.kind = "oldest" /\ Older(cursor, e)
    \/ q.kind = "newest" /\ Older(e, cursor)
    \/ q.kind = "groups" /\ e.sequence < cursor.sequence

\* Groups that tie stay in the order in which they were met.
First(s, q, f) ==
    LET places == {Place(s, e) : e \in {x \in Found(s, q) : x.family = f}}
    IN  CHOOSE i \in places : \A j \in places : i <= j
Precedes(s, q, a, b) ==
    CASE q.kind = "oldest" -> Older(a, b)
      [] q.kind = "newest" -> Older(b, a)
      [] q.kind = "groups" -> \/ b.sequence < a.sequence
                              \/ /\ a.sequence = b.sequence
                                 /\ First(s, q, a.family) < First(s, q, b.family)

\* list() and exceptionGroups(): the first rows in this order and the last of them.
Pages(s, q, rows) ==
    {page \in kSubset(PageSize, rows) : \A a \in page, b \in rows \ page : Precedes(s, q, a, b)}
LastRows(s, q, page) == {e \in page : \A a \in page \ {e} : Precedes(s, q, a, e)}

-----------------------------------------------------------------------------
(* Operations *)

\* What a query asks for, whatever the indexes say.
Answer(s, q) == Listed(s, q, {e \in Stored(s) : Matches(e, q)})

\* A row is an entry, or a family whoever stands for it.
Identity(q, e) == IF q.kind = "groups" THEN e.family ELSE e.uuid

\* Whatever happens to the store, the walk is owed what it would still list.  A family
\* that has recurred is now where the walk has been: of that one nothing is promised.
Keeps(q, o, e) == Identity(q, e) = o.id /\ \A n \in o.sequences : e.sequence <= n
StillOwed ==
    IF walk.stage = "walking"
    THEN owed' = {[id |-> oe[1].id, sequences |-> oe[1].sequences \cup {oe[2].sequence}] :
                     oe \in {oe \in owed \X Answer(store', walk.query) :
                                Keeps(walk.query, oe[1], oe[2])}}
    ELSE UNCHANGED owed

SaveCall(call) ==
    /\ call \in unsaved
    /\ store' = Evicted(AllInserted(store, call))
    /\ unsaved' = unsaved \ {call}
    /\ StillOwed /\ UNCHANGED walk

\* prune(): what is older than the age given for exceptions, and for the rest.
Prune(before, keepExceptions, application) ==
    /\ store' = AllRemoved(store, {e \in Stored(store) :
                                      /\ keepExceptions => ~Exception(e)
                                      /\ Within(e, application)
                                      /\ e.age < before[Exception(e)]})
    /\ StillOwed /\ UNCHANGED <<unsaved, walk>>

\* trim(): the oldest by key, whatever the order of their insertion.
Trim(cap) ==
    /\ Len(store.entries) > cap
    /\ store' = AllRemoved(store, {e \in Stored(store) :
                                      Cardinality({x \in Stored(store) : Older(x, e)})
                                        < Len(store.entries) - cap})
    /\ StillOwed /\ UNCHANGED <<unsaved, walk>>

\* clear(), of everything or of one application.
Clear(application) ==
    /\ store' = IF application = Unset
                THEN [entries |-> <<>>, byTag |-> <<>>, byBatch |-> <<>>]
                ELSE AllRemoved(store, {e \in Stored(store) : e.application = application})
    /\ StillOwed /\ UNCHANGED <<unsaved, walk>>

\* A reader is given the rows behind its cursor, and the cursor of the last one if
\* more follow.
Ask(q, cursor, given) ==
    LET rows == {e \in Listed(store, q, Found(store, q)) : Beyond(e, q, cursor)}
    IN  \/ /\ Cardinality(rows) <= PageSize
           /\ walk' = [stage |-> "done", query |-> q, cursor |-> Nothing, given |-> Append(given, rows)]
        \/ /\ Cardinality(rows) > PageSize
           /\ \E page \in Pages(store, q, rows) : \E last \in LastRows(store, q, page) :
                 walk' = [stage |-> "walking", query |-> q,
                          cursor |-> [sequence |-> last.sequence, uuid |-> last.uuid],
                          given |-> Append(given, page)]

BeginWalk(q) ==
    /\ walk = Resting
    /\ Ask(q, Nothing, <<>>)
    /\ owed' = {[id |-> Identity(q, e), sequences |-> {e.sequence}] : e \in Answer(store, q)}
    /\ UNCHANGED <<store, unsaved>>

NextPage ==
    /\ walk.stage = "walking"
    /\ Ask(walk.query, walk.cursor, walk.given)
    /\ UNCHANGED <<store, unsaved, owed>>

Saved == UNION {ToSet(call) : call \in Calls}
Applications == {Unset} \cup {e.application : e \in Saved}

NextMemory ==
    \/ \E call \in unsaved : SaveCall(call)
    \/ \E before \in [BOOLEAN -> {e.age : e \in Saved}], keep \in BOOLEAN, a \in Applications :
          Prune(before, keep, a)
    \/ \E cap \in 0..MaxEntries : Trim(cap)
    \/ \E a \in Applications : Clear(a)
    \/ \E q \in Queries : BeginWalk(q)
    \/ NextPage

MemorySpec == InitMemory /\ [][NextMemory]_memoryVars

-----------------------------------------------------------------------------
(* Properties *)

\* Whatever sequence of saves, replacements, evictions and deletions went before,
\* an index has a bucket for exactly the keys that some entry has, and in it
\* exactly these entries: none is missed by a query and no uuid is left behind.
Indexes(index, entries, Keys) ==
    /\ DOMAIN index = UNION {Keys[e] : e \in entries}
    /\ \A k \in DOMAIN index : index[k] = {e.uuid : e \in {x \in entries : k \in Keys[x]}}
IndexesAgree ==
    /\ Indexes(store.byTag, Stored(store), [e \in Stored(store) |-> e.tags])
    /\ Indexes(store.byBatch, Stored(store), [e \in Stored(store) |-> {e.batch}])
    /\ Cardinality({e.uuid : e \in Stored(store)}) = Len(store.entries)

Given == UNION ToSet(walk.given)
HasId(o) == \E g \in Given : Identity(walk.query, g) = o.id
Tied(o) == walk.query.kind = "groups" /\ \E g \in Given : g.sequence \in o.sequences

\* A walk that came to its end was given, in one version or another, every entry that
\* was there all the time, however the store changed between its pages, and none
\* twice.  Of families it may miss one behind another that had the same sequence and,
\* see StillOwed, one that recurred in between; and it is given a family again only
\* after that has lost its newest occurrence.
WalkComplete ==
    walk.stage = "done" =>
        /\ \A o \in owed : HasId(o) \/ Tied(o)
        /\ \A i, j \in DOMAIN walk.given : i < j =>
              \A a \in walk.given[i], b \in walk.given[j] :
                  Identity(walk.query, a) = Identity(walk.query, b) =>
                      walk.query.kind = "groups" /\ b.sequence < a.sequence

\* "makes the three drivers agree on family pagination": without the exception of ties.
NoFamilyMissed == walk.stage = "done" => \A o \in owed : HasId(o)

=============================================================================
