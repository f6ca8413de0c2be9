---------------------------- MODULE AddressLists ----------------------------
(***************************************************************************)
(* The named address lists (internal/store/lists.go), the requests that    *)
(* edit them (internal/web/lists.go, api.go), the rules that refer to them *)
(* by name, and the refresh of a sourced list (internal/web/listsource.go) *)
(* on request or by the background loop.  A request is a sequence of       *)
(* statements: requests and the loop interleave between any two of them.   *)
(* What a push does with the change is the subject of ListSync.            *)
(*                                                                         *)
(* Addresses are numbers, and a prefix is <<first, size>>.                 *)
(***************************************************************************)
EXTENDS Naturals, Sequences, FiniteSets, SequencesExt

CONSTANTS
    Ids,          \* row ids of ip_lists, used once, in order
    Names,        \* list names; BlockList is one of them
    BlockList,    \* "blacklist"
    Sources,      \* sources of lists: countries, feeds and host names
    Hostnames,    \* those that are not fetched when the list is made
    Size,         \* number of addresses
    Sizes,        \* sizes of prefixes: the powers of two up to Size
    Unlistable,   \* unspecified, loopback and multicast addresses
    ByHand,       \* prefixes that are typed in
    Answers,      \* [source -> what it may answer with: sequences of prefixes]
    Requests,     \* requests in progress at a time
    Refresher,    \* the goroutine of StartListRefresh
    MaxClicks,    \* bound: requests of the operator
    MaxFails,     \* bound: refreshes that fail
    MaxRestarts   \* bound: restarts of the service

Manual == "manual"
Gone   == "gone"
Procs  == Requests \cup {Refresher}

ASSUME ListsAssumption ==
    /\ Ids \subseteq Nat \ {0} /\ BlockList \in Names
    /\ Manual \notin Sources /\ Hostnames \subseteq Sources
    /\ DOMAIN Answers = Sources
    /\ Unlistable \subseteq 0..(Size - 1) /\ Refresher \notin Requests
    /\ {MaxClicks, MaxFails, MaxRestarts} \subseteq Nat

\* Prefixes are masked (Masked() in dedupePrefixes): a prefix begins at a
\* multiple of its size, and a size divides every larger one.
Masked == {p \in (0..(Size - 1)) \X Sizes : \E k \in 0..Size : p[1] = k * p[2]}

ASSUME PrefixAssumption ==
    /\ Size \in Nat /\ Sizes \subseteq 1..Size
    /\ \A s, t \in Sizes : s <= t => \E m \in 1..Size : t = m * s
    /\ \A source \in Sources : \A batch \in Answers[source] : batch \in Seq(Masked)

VARIABLES
    rows,      \* ip_lists
    entries,   \* list_entries by list_id
    refs,      \* the list names the rules of the object model refer to
    procs,     \* where each request and the loop are, and their locals
    todo,      \* the lists the loop has still to refresh in this round, and
               \* the rows it read at the start of it
    budget,    \* clicks, failures and restarts that may still come
    tried,     \* history: lists the loop has an outcome for, in this round
    hand,      \* history: lists edited by hand
    raced,     \* history: lists that changed between the check of an add and
               \* its insert
    loose      \* history: names that were referred to while no list had them,
               \* or while their list was being deleted, or lost by a rename

listsVars == <<rows, entries, refs, procs, todo, budget, tried, hand, raced, loose>>

-----------------------------------------------------------------------------
(* Prefixes                                                                *)

Covered(p) == p[1]..(p[1] + p[2] - 1)
Overlaps(p, q) == p[1] < q[1] + q[2] /\ q[1] < p[1] + p[2]

\* By address, the wider one first.
Before(p, q) == p[1] < q[1] \/ (p[1] = q[1] /\ p[2] > q[2])

\* NormalizeCIDR and listableAddr: a prefix is judged by its first address, as
\* parseCIDROrIP has masked what was typed in (access.go:42-44).
Listable(p) == p[1] \notin Unlistable

\* What may be on a list, duplicates included, in order: without the default
\* route and what is not listable.
Sorted(batch) ==
    LET ok    == {i \in DOMAIN batch : batch[i][2] < Size /\ Listable(batch[i])}
        ranks == 1..Cardinality(ok)
        place == CHOOSE f \in Bijection(ranks, ok) :
                     \A i, j \in ranks : i < j => ~Before(batch[f[j]], batch[f[i]])
    IN  [i \in ranks |-> batch[place[i]]]

Inside(p, cover) == p[1] \in Covered(cover) /\ p[2] <= cover[2]

\* (mutant) Compares each prefix with the one before only.
DedupedByNeighbour(batch) ==
    LET sorted == Sorted(batch)
    IN  {sorted[i] : i \in {j \in DOMAIN sorted :
            j = 1 \/ ~Inside(sorted[j], sorted[j - 1])}}

\* dedupePrefixes: after each prefix in order, cover is the place of the last
\* one that was kept; what lies inside that is dropped.
Deduped(batch) ==
    LET sorted == Sorted(batch)
        cover[i \in DOMAIN sorted] ==
            IF i > 1 /\ Inside(sorted[i], sorted[cover[i - 1]]) THEN cover[i - 1] ELSE i
    IN  {sorted[i] : i \in {j \in DOMAIN sorted : cover[j] = j}}

AllAnswers == UNION {Answers[source] : source \in Sources}
Kept == [batch \in AllAnswers |-> Deduped(batch)]

-----------------------------------------------------------------------------
(* Rows                                                                    *)

Lists == {id \in Ids : rows[id].state = "here"}
Named(name) == {id \in Lists : rows[id].name = name}
NoRow == [state |-> "unused", name |-> BlockList, source |-> Manual,
          auto |-> FALSE, note |-> "never"]

Unused == {id \in Ids : rows[id].state = "unused"}
NewId == CHOOSE id \in Unused : \A i \in Unused : id <= i

\* validateList: a manual list has no automatic refresh.
Row(name, source, auto) ==
    [state |-> "here", name |-> name, source |-> source,
     auto |-> auto /\ source # Manual, note |-> "never"]

NoProc == [at |-> "idle", id |-> 0, row |-> NoRow, new |-> <<>>]

\* One list, just made.
Init ==
    /\ \E source \in Sources \cup {Manual} :
           rows = [id \in Ids |-> IF id = 1 THEN Row(BlockList, source, TRUE) ELSE NoRow]
    /\ entries = [id \in Ids |-> {}]
    /\ refs = {} /\ procs = [p \in Procs |-> NoProc]
    /\ todo = <<>>
    /\ budget = [clicks |-> MaxClicks, fails |-> MaxFails, restarts |-> MaxRestarts]
    /\ tried = {} /\ hand = {} /\ raced = {} /\ loose = {}

Click == /\ budget.clicks > 0
         /\ budget' = [budget EXCEPT !.clicks = @ - 1]

\* A new request; which of the free slots it takes makes no difference.
Start(proc) ==
    LET free == {p \in Requests : procs[p].at = "idle"} IN
    /\ Click
    /\ free # {}
    /\ procs' = [procs EXCEPT ![CHOOSE p \in free : TRUE] = proc]

Step(p, from, proc) ==
    /\ procs[p].at = from
    /\ procs' = [procs EXCEPT ![p] = proc]

At(p, at) == [procs[p] EXCEPT !.at = at, !.row = NoRow]

\* The adds that wait to insert into the list, now with a check out of date.
Adding(id) == \E p \in Procs : procs[p].at = "insert" /\ procs[p].id = id
Stale(id) == raced' = IF Adding(id) THEN raced \cup {id} ELSE raced

-----------------------------------------------------------------------------
(* The operator edits                                                      *)

\* CreateList from handleListCreate or handleBlockCountry: a country or a feed
\* is fetched at once.
CreateList(name, source, auto) ==
    /\ Unused # {} /\ Named(name) = {}
    /\ rows' = [rows EXCEPT ![NewId] = Row(name, source, auto)]
    /\ Start(IF source \in Sources \ Hostnames
             THEN [NoProc EXCEPT !.at = "get", !.id = NewId] ELSE NoProc)
    /\ UNCHANGED <<entries, refs, todo, tried, hand, raced, loose>>

\* (mutant) Another list may have the name.
UpdateListAnyName(id, name, source, auto) ==
    /\ Click
    /\ id \in Lists
    /\ rows' = [rows EXCEPT ![id] = 
                   [Row(name, source, auto) EXCEPT !.note = rows[id].note]]
    /\ hand' = IF source = rows[id].source THEN hand ELSE hand \cup {id}
    /\ loose' = loose \cup ({rows[id].name} \ {name})
    /\ UNCHANGED <<entries, refs, procs, todo, tried, raced>>

\* handleListUpdate: whatever the form holds, by id; the entries stay, and the
\* rules keep the old name.
UpdateList(id, name, source, auto) ==
    /\ Click
    /\ id \in Lists /\ Named(name) \subseteq {id}
    /\ rows' = [rows EXCEPT ![id] =
                   [Row(name, source, auto) EXCEPT !.note = rows[id].note]]
    /\ hand' = IF source = rows[id].source THEN hand ELSE hand \cup {id}
    /\ loose' = loose \cup ({rows[id].name} \ {name})
    /\ UNCHANGED <<entries, refs, procs, todo, tried, raced>>

\* A deletion of the list that does not see a new rule that refers to the name.
Deleting(p, name) ==
    /\ procs[p].id \in Named(name)
    /\ procs[p].at = "delete" \/ (procs[p].at = "refs" /\ procs[p].row.name # name)

\* A rule that refers to the name is saved; the last one is deleted.
ReferTo(name) ==
    /\ Click
    /\ name \notin refs
    /\ refs' = refs \cup {name}
    /\ loose' = IF Named(name) = {} \/ \E p \in Procs : Deleting(p, name)
                THEN loose \cup {name} ELSE loose \ {name}
    /\ UNCHANGED <<rows, entries, procs, todo, tried, hand, raced>>

DropReferences(name) ==
    /\ Click
    /\ name \in refs
    /\ refs' = refs \ {name}
    /\ loose' = loose \ {name}
    /\ UNCHANGED <<rows, entries, procs, todo, tried, hand, raced>>

\* DeleteList: the row is read, the references are looked up, a transaction
\* removes entries and row.
DeleteStart(id) ==
    /\ id \in Lists
    /\ Start([NoProc EXCEPT !.at = "refs", !.id = id, !.row = rows[id]])
    /\ UNCHANGED <<rows, entries, refs, todo, tried, hand, raced, loose>>

\* (mutant) Refuses nothing.
DeleteCheckNothing(p) ==
    /\ Step(p, "refs", At(p, "delete"))
    /\ UNCHANGED <<rows, entries, refs, todo, budget, tried, hand, raced, loose>>

DeleteCheck(p) ==
    /\ Step(p, "refs", IF procs[p].row.name \in refs THEN NoProc ELSE At(p, "delete"))
    /\ UNCHANGED <<rows, entries, refs, todo, budget, tried, hand, raced, loose>>

DeleteCommit(p) ==
    LET id == procs[p].id IN
    /\ Step(p, "delete", NoProc)
    /\ IF id \in Lists
       THEN /\ rows' = [rows EXCEPT ![id].state = Gone]
            /\ entries' = [entries EXCEPT ![id] = {}]
            /\ Stale(id)
       ELSE UNCHANGED <<rows, entries, raced>>
    /\ UNCHANGED <<refs, todo, budget, tried, hand, loose>>

\* handleListEntryAdd refuses a sourced list.
AddStart(id, new) ==
    /\ id \in Lists /\ rows[id].source = Manual /\ Listable(new)
    /\ Start([NoProc EXCEPT !.at = "add", !.id = id, !.new = <<new>>])
    /\ UNCHANGED <<rows, entries, refs, todo, tried, hand, raced, loose>>

\* handleAPIBlock and handleQuickBlock: whatever the source of the block list,
\* which is made when there is none.
BlockStart(new) ==
    /\ Listable(new)
    /\ IF Named(BlockList) # {} THEN UNCHANGED rows
       ELSE /\ Unused # {}
            /\ rows' = [rows EXCEPT ![NewId] = Row(BlockList, Manual, FALSE)]
    /\ Start([NoProc EXCEPT !.at = "add", !.new = <<new>>,
                 !.id = CHOOSE id \in Ids : /\ rows'[id].state = "here"
                                               /\ rows'[id].name = BlockList])
    /\ UNCHANGED <<entries, refs, todo, tried, hand, raced, loose>>

\* (mutant) Only what the entries contain is refused, not what contains them.
AddCheckInside(p) ==
    LET id == procs[p].id IN
    /\ Step(p, "add",
            IF /\ id \in Lists
               /\ \A e \in entries[id], n \in ToSet(procs[p].new) : n[1] \notin Covered(e)
            THEN At(p, "insert") ELSE NoProc)
    /\ UNCHANGED <<rows, entries, refs, todo, budget, tried, hand, raced, loose>>

\* AddListEntry reads the list and its entries ...
AddCheck(p) ==
    LET id == procs[p].id IN
    /\ Step(p, "add",
            IF id \in Lists /\ \A e \in entries[id], n \in ToSet(procs[p].new) : ~Overlaps(e, n)
            THEN At(p, "insert") ELSE NoProc)
    /\ UNCHANGED <<rows, entries, refs, todo, budget, tried, hand, raced, loose>>

\* ... and inserts: of equal entries the UNIQUE index refuses the second.
AddInsert(p) ==
    LET id == procs[p].id IN
    /\ Step(p, "insert", NoProc)
    /\ entries' = [entries EXCEPT ![id] = @ \cup ToSet(procs[p].new)]
    /\ hand' = hand \cup {id}
    /\ raced' = IF \E q \in Procs \ {p} : procs[q].at = "insert" /\ procs[q].id = id
                THEN raced \cup {id} ELSE raced
    /\ UNCHANGED <<rows, refs, todo, budget, tried, loose>>

\* handleListEntryDelete and handleAPIUnblock, by the id of the entry.
DeleteEntry(id, e) ==
    /\ Click
    /\ e \in entries[id]
    /\ entries' = [entries EXCEPT ![id] = @ \ {e}]
    /\ hand' = hand \cup {id}
    /\ UNCHANGED <<rows, refs, procs, todo, tried, raced, loose>>

-----------------------------------------------------------------------------
(* Refreshing a list                                                       *)

\* handleListRefresh reads the row from which it refreshes.
RefreshStart(id) ==
    /\ id \in Lists /\ rows[id].source # Manual
    /\ Start([NoProc EXCEPT !.at = "fetch", !.id = id, !.row = rows[id]])
    /\ UNCHANGED <<rows, entries, refs, todo, tried, hand, raced, loose>>

\* doRefresh reads the row of the list just made, which may be gone again, or
\* be a manual one: then the error is noted.
RefreshGet(p) ==
    LET id == procs[p].id IN
    /\ Step(p, "get", IF id \in Lists /\ rows[id].source # Manual
                      THEN [At(p, "fetch") EXCEPT !.row = rows[id]] ELSE NoProc)
    /\ rows' = IF id \in Lists /\ rows[id].source = Manual
               THEN [rows EXCEPT ![id].note = "failed"] ELSE rows
    /\ UNCHANGED <<entries, refs, todo, budget, tried, hand, raced, loose>>

\* After an outcome a request ends, and the loop takes the next list.
Outcome(p, from, note) ==
    LET id == procs[p].id IN
    /\ Step(p, from, NoProc)
    /\ rows' = IF id \in Lists THEN [rows EXCEPT ![id].note = note] ELSE rows
    /\ tried' = IF p = Refresher THEN tried \cup {id} ELSE tried

\* countryNetworks, fetchFeed, resolveHost: at least one prefix.
Fetch(p) ==
    /\ procs[p].at = "fetch"
    /\ \E batch \in Answers[procs[p].row.source] :
           Step(p, "fetch", [At(p, "replace") EXCEPT !.new = batch])
    /\ UNCHANGED <<rows, entries, refs, todo, budget, tried, hand, raced, loose>>

\* (mutant) A failing refresh ends the round.
RefreshFailsForAll(p) ==
    /\ budget.fails > 0
    /\ budget' = [budget EXCEPT !.fails = @ - 1]
    /\ \E from \in {"fetch", "replace"} : Outcome(p, from, "failed")
    /\ todo' = IF p = Refresher THEN <<>> ELSE todo
    /\ UNCHANGED <<entries, refs, hand, raced, loose>>

\* The fetch fails or takes longer than two minutes, or the transaction of the
\* replace fails: noted, and nothing else changes.
RefreshFails(p) ==
    /\ budget.fails > 0
    /\ budget' = [budget EXCEPT !.fails = @ - 1]
    /\ \E from \in {"fetch", "replace"} : Outcome(p, from, "failed")
    /\ UNCHANGED <<entries, refs, todo, hand, raced, loose>>

\* ReplaceListEntries, in one transaction, also when the list is gone or has
\* become a manual one by now.
Replace(p) ==
    LET id == procs[p].id IN
    /\ procs[p].at = "replace"
    /\ Step(p, "replace", [At(p, "stamp") EXCEPT !.new = <<>>])
    /\ entries' = [entries EXCEPT ![id] = Kept[procs[p].new]]
    /\ hand' = hand \ {id}
    /\ IF Adding(id) THEN raced' = raced \cup {id} ELSE raced' = raced \ {id}
    /\ UNCHANGED <<rows, refs, todo, budget, tried, loose>>

\* SetListRefreshed
Stamp(p) ==
    /\ Outcome(p, "stamp", "refreshed")
    /\ UNCHANGED <<entries, refs, todo, budget, hand, raced, loose>>

-----------------------------------------------------------------------------
(* The loop: RefreshSourcedLists at the start and every 12 hours           *)

AutoLists == {id \in Lists : rows[id].auto}

LoopWakes ==
    /\ procs[Refresher].at = "idle" /\ DOMAIN todo = {} /\ AutoLists # {}
    /\ todo' = [id \in AutoLists |-> rows[id]]
    /\ tried' = {}
    /\ UNCHANGED <<rows, entries, refs, procs, budget, hand, raced, loose>>

LoopNext ==
    /\ \E id \in DOMAIN todo :
           /\ \A i \in DOMAIN todo : id <= i
           /\ Step(Refresher, "idle",
                   [NoProc EXCEPT !.at = "fetch", !.id = id, !.row = todo[id]])
           /\ todo' = [i \in DOMAIN todo \ {id} |-> todo[i]]
    /\ UNCHANGED <<rows, entries, refs, budget, tried, hand, raced, loose>>

Restart ==
    /\ budget.restarts > 0
    /\ budget' = [budget EXCEPT !.restarts = @ - 1]
    /\ procs' = [p \in Procs |-> NoProc]
    /\ todo' = <<>> /\ tried' = {}
    /\ UNCHANGED <<rows, entries, refs, hand, raced, loose>>

Refresh(p) == Fetch(p) \/ RefreshFails(p) \/ Replace(p) \/ Stamp(p)
Loop == LoopWakes \/ LoopNext \/ Refresh(Refresher)

Next ==
    \/ \E name \in Names, source \in Sources \cup {Manual}, auto \in BOOLEAN :
           \/ CreateList(name, source, auto)
           \/ \E id \in Ids : UpdateList(id, name, source, auto)
    \/ \E name \in Names : ReferTo(name) \/ DropReferences(name)
    \/ \E id \in Ids :
           \/ DeleteStart(id) \/ RefreshStart(id)
           \/ \E new \in ByHand : AddStart(id, new)
           \/ \E e \in entries[id] : DeleteEntry(id, e)
    \/ \E new \in ByHand : BlockStart(new)
    \/ \E p \in Requests :
           \/ DeleteCheck(p) \/ DeleteCommit(p)
           \/ AddCheck(p) \/ AddInsert(p)
           \/ RefreshGet(p) \/ Refresh(p)
    \/ Loop
    \/ Restart

ListsSpec == Init /\ [][Next]_listsVars

\* The ticker ticks, a fetch ends by its time limit, and statements return.
ListsFairSpec == ListsSpec /\ WF_listsVars(Loop)

-----------------------------------------------------------------------------
(* Properties                                                              *)

ListsTypeOK ==
    /\ \A id \in Ids :
           /\ rows[id].state \in {"unused", "here", Gone}
           /\ rows[id].name \in Names /\ rows[id].source \in Sources \cup {Manual}
           /\ rows[id].auto \in BOOLEAN
           /\ rows[id].note \in {"never", "refreshed", "failed"}
    /\ \A name \in Names : Cardinality(Named(name)) <= 1
    /\ refs \subseteq Names

\* The widest of the prefixes that may be on a list.
Widest(batch) ==
    LET ok == {p \in ToSet(batch) : p[2] < Size /\ Listable(p)}
    IN  {p \in ok : \A q \in ok : p # q => ~(Covered(p) \subseteq Covered(q))}

\* Every name the rules refer to is that of a list, unless it was given away by
\* a rename or referred to while no list, or a dying one, had it
\* (lists.go:203-205).
RefsResolve == \A name \in refs : Named(name) # {} \/ name \in loose

\* The entries of a list do not overlap, unless it changed between the check
\* of an add and the insert (lists.go:56-58).
NoOverlaps == \A id \in Lists \ raced : \A e, f \in entries[id] : e # f => ~Overlaps(e, f)

\* A list nobody edited by hand since its last refresh holds what one answer of
\* a source comes down to, never a mix of two refreshes that overtook each
\* other (lists.go:430-434).
OneAnswer ==
    \A id \in Lists \ hand : entries[id] \in {{}} \cup {Kept[batch] : batch \in AllAnswers}

\* ... and of that answer the widest prefixes, none missing and none more.
KeepsWidest ==
    \A id \in Lists \ hand :
        entries[id] # {} => \E batch \in AllAnswers : entries[id] = Widest(batch)

\* What is rendered of the lists is taken by nft, and is what their sources
\* said.
SetsLoad == RefsResolve /\ NoOverlaps /\ OneAnswer /\ KeepsWidest

\* "One failing feed never blocks the others" (listsource.go:268): a list that
\* is due when the loop wakes gets its outcome in that round, whatever happens
\* to the lists before it, unless the service restarts.
EveryListTried ==
    \A id \in Ids, k \in 0..MaxRestarts :
        (budget.restarts = k /\ id \in DOMAIN todo)
            ~> (budget.restarts # k \/ id \in tried)
=============================================================================
