------------------------- MODULE AddressListsProofs -------------------------
(***************************************************************************)
(* What is proved of AddressLists, for every set of lists, names, sources, *)
(* answers and requests in progress, and every number of clicks, failures  *)
(* and restarts.                                                           *)
(***************************************************************************)
EXTENDS AddressLists, FiniteSetTheorems, WellFoundedInduction, TLAPS

\* A list that is refreshed automatically has a source.
RowRec ==
    {r \in [state : {"unused", "here", Gone}, name : Names,
            source : Sources \cup {Manual}, auto : BOOLEAN,
            note : {"never", "refreshed", "failed"}] :
        r.auto => r.source # Manual}

OneName == \A i, j \in Lists : rows[i].name = rows[j].name => i = j

RowsInv == rows \in [Ids -> RowRec] /\ refs \subseteq Names /\ OneName

Places  == {"idle", "get", "fetch", "replace", "stamp", "refs", "delete",
            "add", "insert"}
Batches == AllAnswers \cup {<<>>} \cup {<<n>> : n \in ByHand}
ProcRec == [at : Places, id : Ids \cup {0}, row : RowRec, new : Batches]

\* What is fetched has a source, what is replaced is an answer of one, what is
\* added is one prefix.
ProcOK(x) ==
    /\ x.at = "fetch" => x.row.source \in Sources
    /\ x.at = "replace" => x.new \in AllAnswers
    /\ x.at \in {"add", "insert"} => x.new \in {<<n>> : n \in ByHand}
    /\ x.at \notin {"idle", "get", "fetch", "replace", "stamp"} => x.id \in Ids

ProcsInv ==
    /\ procs \in [Procs -> ProcRec]
    /\ \A p \in Procs : ProcOK(procs[p])
    /\ DOMAIN todo \subseteq Ids
    /\ \A id \in DOMAIN todo : todo[id] \in RowRec /\ todo[id].source \in Sources

\* The name of a list that a deletion will remove without looking at it again:
\* no rule refers to it but one that came too late to be seen.
DyingInv ==
    \A p \in Procs : procs[p].id \in Lists =>
        LET name == rows[procs[p].id].name IN
        \/ procs[p].at = "delete"
        \/ procs[p].at = "refs" /\ procs[p].row.name # name
        => name \notin refs \/ name \in loose

RefsInv == RefsResolve /\ DyingInv

\* The lists that are gone included, which a late refresh may fill.
EntriesInv ==
    /\ DOMAIN entries = Ids
    /\ \A id \in Ids \ hand : entries[id] \in {{}} \cup {Kept[batch] : batch \in AllAnswers}

\* What an add has checked stays true until it inserts.
OverlapInv ==
    /\ \A id \in Ids \ raced : \A e, f \in entries[id] : e # f => ~Overlaps(e, f)
    /\ \A p \in Procs : procs[p].at = "insert" /\ procs[p].id \notin raced =>
           \A e \in entries[procs[p].id], n \in ToSet(procs[p].new) : ~Overlaps(e, n)

IInv == RowsInv /\ ProcsInv /\ RefsInv /\ EntriesInv

-----------------------------------------------------------------------------
(* Operators                                                               *)

LEMMA RowIsRec ==
  ASSUME NEW name \in Names, NEW source \in Sources \cup {Manual},
         NEW auto \in BOOLEAN
  PROVE  /\ Row(name, source, auto) \in RowRec
         /\ Row(name, source, auto).name = name
         /\ Row(name, source, auto).state = "here"
         /\ [Row(name, source, auto) EXCEPT !.note = "refreshed"].name = name
BY DEF Row, RowRec, Gone

LEMMA SetOfOne == ASSUME NEW n PROVE ToSet(<<n>>) = {n}
  BY DOMAIN <<n>> = {1}, <<n>>[1] = n DEF ToSet

LEMMA NoProcOK == NoProc \in ProcRec /\ ProcOK(NoProc) /\ NoRow \in RowRec
BY ListsAssumption DEF NoProc, NoRow, ProcRec, ProcOK, RowRec, Places, Batches, Gone

\* A set of numbers has a smallest one.
LEMMA Smallest ==
  ASSUME NEW S \in SUBSET Nat, S # {}
  PROVE  \E m \in S : \A k \in S : m <= k
<1>1. PICK m \in S : \A k \in S : ~(<<k, m>> \in OpToRel(<, Nat))
  BY WFMin, NatLessThanWellFounded
<1>2. ASSUME NEW k \in S PROVE m <= k
  <2>1. ~(k < m)
    BY <1>1 DEF OpToRel
  <2> QED BY <2>1
<1> QED BY <1>2

LEMMA NewIdUnused == Unused # {} => NewId \in Unused
<1> SUFFICES ASSUME Unused # {} PROVE \E id \in Unused : \A i \in Unused : id <= i
  BY DEF NewId
<1>1. Unused \subseteq Nat
  BY ListsAssumption DEF Unused
<1> QED BY <1>1, Smallest

LEMMA OneNamed ==
  ASSUME OneName, NEW name
  PROVE  Cardinality(Named(name)) <= 1
<1>1. CASE Named(name) = {}
  BY <1>1, FS_EmptySet
<1>2. CASE Named(name) # {}
  <2>1. PICK i : Named(name) = {i}
    BY <1>2 DEF Named, OneName
  <2>2. Cardinality(Named(name)) = 1
    BY <2>1, FS_Singleton
  <2> QED BY <2>2
<1> QED BY <1>1, <1>2

LEMMA RowsInvGivesType == RowsInv => ListsTypeOK
BY OneNamed DEF RowsInv, ListsTypeOK, RowRec

-----------------------------------------------------------------------------
(* The rows                                                                *)

LEMMA RowsInit == Init => RowsInv
<1> SUFFICES ASSUME Init PROVE RowsInv
  OBVIOUS
<1>1. PICK source \in Sources \cup {Manual} :
        rows = [id \in Ids |-> IF id = 1 THEN Row(BlockList, source, TRUE) ELSE NoRow]
  BY DEF Init
<1>2. Row(BlockList, source, TRUE) \in RowRec
  BY RowIsRec, ListsAssumption
<1>3. rows \in [Ids -> RowRec]
  BY <1>1, <1>2, NoProcOK
<1>4. OneName
  BY <1>1 DEF OneName, Lists, NoRow
<1> QED BY <1>3, <1>4 DEF Init, RowsInv

\* The notes, and whether a list is still there, are all that changes.
LEMMA RowsSame ==
  ASSUME RowsInv, rows' \in [Ids -> RowRec], refs' \subseteq Names,
         Lists' \subseteq Lists,
         \A id \in Lists' : rows'[id].name = rows[id].name
  PROVE  RowsInv'
BY DEF RowsInv, OneName

\* A list that was there gets the row, or one that was not, under a name no
\* other list has.
LEMMA RowsPut ==
  ASSUME RowsInv, NEW id \in Ids, NEW row \in RowRec,
         Named(row.name) \subseteq {id},
         rows' = [rows EXCEPT ![id] = row], refs' = refs
  PROVE  RowsInv'
<1>1. rows' \in [Ids -> RowRec]
  BY DEF RowsInv
<1>2. ASSUME NEW i \in Lists', NEW j \in Lists', rows'[i].name = rows'[j].name
      PROVE  i = j
  BY <1>2 DEF RowsInv, OneName, Lists, Named
<1> QED BY <1>1, <1>2 DEF RowsInv, OneName

LEMMA OutcomeRows ==
  ASSUME RowsInv, ProcsInv, NEW p \in Procs, NEW from,
         NEW note \in {"refreshed", "failed"}, Outcome(p, from, note)
  PROVE  /\ rows' \in [Ids -> RowRec] /\ Lists' = Lists
         /\ \A id \in Lists : rows'[id].name = rows[id].name
<1> DEFINE id == procs[p].id
<1>1. CASE id \notin Lists
  BY <1>1 DEF Outcome, RowsInv, Lists
<1>2. CASE id \in Lists
  <2>1. rows' = [rows EXCEPT ![id].note = note]
    BY <1>2 DEF Outcome
  <2>2. rows' \in [Ids -> RowRec]
    BY <1>2, <2>1 DEF RowsInv, RowRec, Lists
  <2> QED BY <1>2, <2>1, <2>2 DEF RowsInv, RowRec, Lists
<1> QED BY <1>1, <1>2

\* The steps that change neither the rows nor what rules refer to.
Quiet ==
    \/ \E id \in Ids :
           \/ DeleteStart(id) \/ RefreshStart(id)
           \/ \E new \in ByHand : AddStart(id, new)
           \/ \E e \in entries[id] : DeleteEntry(id, e)
    \/ \E p \in Requests : DeleteCheck(p) \/ AddCheck(p) \/ AddInsert(p)
    \/ \E p \in Procs : Fetch(p) \/ Replace(p)
    \/ LoopWakes \/ LoopNext \/ Restart

LEMMA QuietRows == ASSUME Quiet PROVE rows' = rows /\ refs' = refs
<1>1. CASE \E id \in Ids :
             \/ DeleteStart(id) \/ RefreshStart(id)
             \/ \E new \in ByHand : AddStart(id, new)
             \/ \E e \in entries[id] : DeleteEntry(id, e)
  BY <1>1 DEF DeleteStart, RefreshStart, AddStart, DeleteEntry
<1>2. CASE \E p \in Requests : DeleteCheck(p) \/ AddCheck(p) \/ AddInsert(p)
  BY <1>2 DEF DeleteCheck, AddCheck, AddInsert
<1>3. CASE \E p \in Procs : Fetch(p) \/ Replace(p)
  BY <1>3 DEF Fetch, Replace
<1>4. CASE LoopWakes \/ LoopNext \/ Restart
  BY <1>4 DEF LoopWakes, LoopNext, Restart
<1> QED BY <1>1, <1>2, <1>3, <1>4 DEF Quiet

\* Every step is a quiet one, or one of these.
LEMMA Cases ==
  ASSUME Next
  PROVE  \/ Quiet
         \/ \E name \in Names, source \in Sources \cup {Manual}, auto \in BOOLEAN :
                \/ CreateList(name, source, auto)
                \/ \E id \in Ids : UpdateList(id, name, source, auto)
         \/ \E name \in Names : ReferTo(name) \/ DropReferences(name)
         \/ \E new \in ByHand : BlockStart(new)
         \/ \E p \in Procs :
                DeleteCommit(p) \/ RefreshGet(p) \/ RefreshFails(p) \/ Stamp(p)
BY DEF Next, Quiet, Loop, Refresh, Procs

LEMMA RowsStep == RowsInv /\ ProcsInv /\ [Next]_listsVars => RowsInv'
<1> SUFFICES ASSUME RowsInv, ProcsInv, [Next]_listsVars PROVE RowsInv'
  OBVIOUS
<1>1. CASE UNCHANGED listsVars \/ Quiet
  BY <1>1, QuietRows DEF listsVars, RowsInv, OneName, Lists
<1>2. ASSUME NEW name \in Names, NEW source \in Sources \cup {Manual},
             NEW auto \in BOOLEAN, CreateList(name, source, auto)
      PROVE  RowsInv'
  <2>1. NewId \in Ids /\ Named(name) = {} /\ refs' = refs
    BY <1>2, NewIdUnused DEF CreateList, Unused
  <2>2. rows' = [rows EXCEPT ![NewId] = Row(name, source, auto)]
    BY <1>2 DEF CreateList
  <2> QED BY <2>1, <2>2, RowIsRec, RowsPut
<1>3. ASSUME NEW name \in Names, NEW source \in Sources \cup {Manual},
             NEW auto \in BOOLEAN, NEW id \in Ids, UpdateList(id, name, source, auto)
      PROVE  RowsInv'
  <2> DEFINE row == [Row(name, source, auto) EXCEPT !.note = rows[id].note]
  <2>1. row \in RowRec /\ row.name = name
    BY <1>3 DEF RowsInv, RowRec, Row, Gone
  <2>2. /\ Named(name) \subseteq {id} /\ refs' = refs
        /\ rows' = [rows EXCEPT ![id] = row]
    BY <1>3 DEF UpdateList
  <2> HIDE DEF row
  <2> QED BY <2>1, <2>2, RowsPut
<1>4. ASSUME NEW name \in Names, ReferTo(name) \/ DropReferences(name)
      PROVE  RowsInv'
  BY <1>4 DEF ReferTo, DropReferences, RowsInv, OneName, Lists
<1>5. ASSUME NEW new \in ByHand, BlockStart(new)
      PROVE  RowsInv'
  <2>1. CASE Named(BlockList) # {}
    BY <1>5, <2>1 DEF BlockStart, RowsInv, OneName, Lists
  <2>2. CASE Named(BlockList) = {}
    <3>1. NewId \in Ids /\ refs' = refs
      BY <1>5, <2>2, NewIdUnused DEF BlockStart, Unused
    <3>2. rows' = [rows EXCEPT ![NewId] = Row(BlockList, Manual, FALSE)]
      BY <1>5, <2>2 DEF BlockStart
    <3> QED BY <2>2, <3>1, <3>2, RowIsRec, RowsPut, ListsAssumption
  <2> QED BY <2>1, <2>2
<1>6. ASSUME NEW p \in Procs, DeleteCommit(p)
      PROVE  RowsInv'
  <2>1. CASE procs[p].id \in Lists
    <3>1. rows' = [rows EXCEPT ![procs[p].id].state = Gone] /\ refs' = refs
      BY <1>6, <2>1 DEF DeleteCommit
    <3>2. rows' \in [Ids -> RowRec]
      BY <2>1, <3>1 DEF RowsInv, RowRec, Lists
    <3> QED BY <2>1, <3>1, <3>2, RowsSame DEF RowsInv, RowRec, Lists, Gone
  <2>2. CASE procs[p].id \notin Lists
    BY <1>6, <2>2 DEF DeleteCommit, RowsInv, OneName, Lists
  <2> QED BY <2>1, <2>2
<1>7. ASSUME NEW p \in Procs, RefreshGet(p)
      PROVE  RowsInv'
  <2>1. CASE procs[p].id \in Lists /\ rows[procs[p].id].source = Manual
    <3>1. rows' = [rows EXCEPT ![procs[p].id].note = "failed"] /\ refs' = refs
      BY <1>7, <2>1 DEF RefreshGet
    <3>2. rows' \in [Ids -> RowRec]
      BY <2>1, <3>1 DEF RowsInv, RowRec, Lists
    <3> QED BY <2>1, <3>1, <3>2, RowsSame DEF RowsInv, RowRec, Lists
  <2>2. CASE ~(procs[p].id \in Lists /\ rows[procs[p].id].source = Manual)
    BY <1>7, <2>2 DEF RefreshGet, RowsInv, OneName, Lists
  <2> QED BY <2>1, <2>2
<1>8. ASSUME NEW p \in Procs, RefreshFails(p) \/ Stamp(p)
      PROVE  RowsInv'
  BY <1>8, OutcomeRows, RowsSame DEF RefreshFails, Stamp, RowsInv
<1> QED BY <1>1, <1>2, <1>3, <1>4, <1>5, <1>6, <1>7, <1>8, Cases

-----------------------------------------------------------------------------
(* Where the requests and the loop are                                     *)

LEMMA ProcsInit == Init => ProcsInv
BY NoProcOK DEF Init, ProcsInv

\* One process gets new locals, the loop keeps its lists.
LEMMA StepProcs ==
  ASSUME ProcsInv, NEW p \in Procs, NEW proc \in ProcRec, ProcOK(proc),
         procs' = [procs EXCEPT ![p] = proc], todo' = todo
  PROVE  ProcsInv'
<1>1. procs' \in [Procs -> ProcRec]
  BY DEF ProcsInv
<1>2. ASSUME NEW q \in Procs PROVE ProcOK(procs[q])'
  <2>1. CASE q = p
    BY <2>1 DEF ProcsInv, ProcOK
  <2>2. CASE q # p
    <3>1. procs'[q] = procs[q] /\ ProcOK(procs[q])
      BY <2>2 DEF ProcsInv
    <3> QED BY <3>1 DEF ProcOK
  <2> QED BY <2>1, <2>2
<1> QED BY <1>1, <1>2 DEF ProcsInv

LEMMA StartProc ==
  ASSUME NEW proc, Start(proc)
  PROVE  \E p \in Procs : procs[p].at = "idle" /\ procs' = [procs EXCEPT ![p] = proc]
BY DEF Start, Procs

LEMMA StartProcs ==
  ASSUME ProcsInv, NEW proc \in ProcRec, ProcOK(proc), Start(proc), todo' = todo
  PROVE  ProcsInv'
BY StartProc, StepProcs

LEMMA AtOK ==
  ASSUME ProcsInv, NEW p \in Procs, NEW at \in Places
  PROVE  /\ At(p, at) \in ProcRec
         /\ At(p, at).at = at /\ At(p, at).id = procs[p].id
         /\ At(p, at).new = procs[p].new
BY NoProcOK DEF ProcsInv, At, ProcRec

\* A step of process p.
LEMMA PlaceStep ==
  ASSUME ProcsInv, RowsInv, NEW p \in Procs,
         \/ DeleteCheck(p) \/ DeleteCommit(p) \/ AddCheck(p) \/ AddInsert(p)
         \/ RefreshGet(p) \/ Fetch(p) \/ Replace(p) \/ Stamp(p) \/ RefreshFails(p)
  PROVE  ProcsInv'
<1>0. procs[p] \in ProcRec /\ ProcOK(procs[p])
  BY DEF ProcsInv
<1>1. CASE DeleteCommit(p) \/ AddInsert(p) \/ Stamp(p) \/ RefreshFails(p)
  <2>1. procs' = [procs EXCEPT ![p] = NoProc] /\ todo' = todo
    BY <1>1 DEF DeleteCommit, AddInsert, Stamp, RefreshFails, Outcome, Step
  <2> QED BY <2>1, NoProcOK, StepProcs
<1>2. CASE DeleteCheck(p)
  <2> DEFINE proc == IF procs[p].row.name \in refs THEN NoProc ELSE At(p, "delete")
  <2>1. procs' = [procs EXCEPT ![p] = proc] /\ todo' = todo /\ procs[p].at = "refs"
    BY <1>2 DEF DeleteCheck, Step
  <2>2. proc \in ProcRec /\ ProcOK(proc)
    BY <1>0, <2>1, AtOK, NoProcOK DEF ProcOK, Places
  <2> HIDE DEF proc
  <2> QED BY <2>1, <2>2, StepProcs
<1>3. CASE AddCheck(p)
  <2>1. PICK proc \in {NoProc, At(p, "insert")} :
          procs' = [procs EXCEPT ![p] = proc] /\ todo' = todo /\ procs[p].at = "add"
    BY <1>3 DEF AddCheck, Step
  <2>2. proc \in ProcRec /\ ProcOK(proc)
    BY <1>0, <2>1, AtOK, NoProcOK DEF ProcOK, Places
  <2> QED BY <2>1, <2>2, StepProcs
<1>4. CASE RefreshGet(p)
  <2> DEFINE id    == procs[p].id
             found == [At(p, "fetch") EXCEPT !.row = rows[id]]
             proc  == IF id \in Lists /\ rows[id].source # Manual THEN found ELSE NoProc
  <2>1. procs' = [procs EXCEPT ![p] = proc] /\ todo' = todo
    BY <1>4 DEF RefreshGet, Step
  <2>2. CASE id \in Lists /\ rows[id].source # Manual
    <3>1. rows[id] \in RowRec /\ rows[id].source \in Sources
      BY <2>2 DEF RowsInv, RowRec, Lists
    <3>2. found \in ProcRec /\ found.at = "fetch" /\ found.row = rows[id]
      BY <1>0, <3>1 DEF At, ProcRec, Places
    <3>3. ProcOK(found)
      BY <3>1, <3>2 DEF ProcOK
    <3> HIDE DEF found
    <3> QED BY <2>1, <2>2, <3>2, <3>3, StepProcs
  <2>3. CASE ~(id \in Lists /\ rows[id].source # Manual)
    BY <2>1, <2>3, NoProcOK, StepProcs
  <2> QED BY <2>2, <2>3
<1>5. CASE Fetch(p)
  <2>1. PICK batch \in Answers[procs[p].row.source] :
          procs' = [procs EXCEPT ![p] = [At(p, "replace") EXCEPT !.new = batch]]
    BY <1>5 DEF Fetch, Step
  <2>2. batch \in AllAnswers
    BY <1>0, <1>5 DEF Fetch, ProcOK, AllAnswers
  <2> DEFINE proc == [At(p, "replace") EXCEPT !.new = batch]
  <2>3. proc \in ProcRec /\ proc.at = "replace" /\ proc.new = batch
    BY <1>0, <2>2, NoProcOK DEF At, ProcRec, Batches, Places
  <2>4. ProcOK(proc)
    BY <2>2, <2>3 DEF ProcOK
  <2> HIDE DEF proc
  <2>5. procs' = [procs EXCEPT ![p] = proc] /\ todo' = todo
    BY <1>5, <2>1 DEF Fetch, proc
  <2> QED BY <2>3, <2>4, <2>5, StepProcs
<1>6. CASE Replace(p)
  <2> DEFINE proc == [At(p, "stamp") EXCEPT !.new = <<>>]
  <2>1. procs' = [procs EXCEPT ![p] = proc] /\ todo' = todo
    BY <1>6 DEF Replace, Step
  <2>2. proc \in ProcRec /\ proc.at = "stamp"
    BY <1>0, NoProcOK DEF At, ProcRec, Batches, Places
  <2>3. ProcOK(proc)
    BY <2>2 DEF ProcOK
  <2> HIDE DEF proc
  <2> QED BY <2>1, <2>2, <2>3, StepProcs
<1> QED BY <1>1, <1>2, <1>3, <1>4, <1>5, <1>6

\* A new request.
LEMMA StartStep ==
  ASSUME ProcsInv, RowsInv, NEW id \in Ids,
         \/ DeleteStart(id) \/ RefreshStart(id)
         \/ \E new \in ByHand : AddStart(id, new)
  PROVE  ProcsInv'
<1>1. CASE DeleteStart(id)
  <2> DEFINE proc == [NoProc EXCEPT !.at = "refs", !.id = id, !.row = rows[id]]
  <2>1. proc \in ProcRec /\ ProcOK(proc)
    BY NoProcOK DEF NoProc, ProcRec, ProcOK, Places, RowsInv
  <2>2. Start(proc) /\ todo' = todo
    BY <1>1 DEF DeleteStart
  <2> HIDE DEF proc
  <2> QED BY <2>1, <2>2, StartProcs
<1>2. CASE RefreshStart(id)
  <2> DEFINE proc == [NoProc EXCEPT !.at = "fetch", !.id = id, !.row = rows[id]]
  <2>0. rows[id].source \in Sources
    BY <1>2 DEF RefreshStart, RowsInv, RowRec
  <2>1. proc \in ProcRec /\ ProcOK(proc)
    BY <2>0, NoProcOK DEF NoProc, ProcRec, ProcOK, Places, RowsInv
  <2>2. Start(proc) /\ todo' = todo
    BY <1>2 DEF RefreshStart
  <2> HIDE DEF proc
  <2> QED BY <2>1, <2>2, StartProcs
<1>3. ASSUME NEW new \in ByHand, AddStart(id, new) PROVE ProcsInv'
  <2> DEFINE proc == [NoProc EXCEPT !.at = "add", !.id = id, !.new = <<new>>]
  <2>1. proc \in ProcRec /\ ProcOK(proc)
    BY NoProcOK DEF NoProc, ProcRec, ProcOK, Places, Batches
  <2>2. Start(proc) /\ todo' = todo
    BY <1>3 DEF AddStart
  <2> HIDE DEF proc
  <2> QED BY <2>1, <2>2, StartProcs
<1> QED BY <1>1, <1>2, <1>3

\* The loop reads the rows that are due, takes one, or starts anew.
LEMMA LoopStep ==
  ASSUME ProcsInv, RowsInv, LoopWakes \/ LoopNext \/ Restart
  PROVE  ProcsInv'
<1>1. CASE LoopWakes
  <2>1. /\ procs' = procs /\ DOMAIN todo' = AutoLists
        /\ \A id \in AutoLists : todo'[id] = rows[id]
    BY <1>1 DEF LoopWakes
  <2>2. \A id \in AutoLists : id \in Ids /\ rows[id] \in RowRec /\ rows[id].source \in Sources
    BY DEF AutoLists, Lists, RowsInv, RowRec
  <2> QED BY <2>1, <2>2 DEF ProcsInv, ProcOK
<1>2. CASE LoopNext
  <2>1. PICK id \in DOMAIN todo :
          /\ Step(Refresher, "idle",
                  [NoProc EXCEPT !.at = "fetch", !.id = id, !.row = todo[id]])
          /\ todo' = [i \in DOMAIN todo \ {id} |-> todo[i]]
    BY <1>2 DEF LoopNext
  <2> DEFINE proc == [NoProc EXCEPT !.at = "fetch", !.id = id, !.row = todo[id]]
  <2>2. proc \in ProcRec /\ ProcOK(proc)
    BY NoProcOK DEF NoProc, ProcRec, ProcOK, Places, ProcsInv
  <2>3. procs' = [procs EXCEPT ![Refresher] = proc]
    BY <2>1 DEF Step
  <2> HIDE DEF proc
  <2>4. procs' \in [Procs -> ProcRec] /\ \A p \in Procs : ProcOK(procs'[p])
    BY <2>2, <2>3 DEF ProcsInv
  <2> QED BY <2>1, <2>4 DEF ProcsInv, ProcOK
<1>3. CASE Restart
  <2>1. procs' = [p \in Procs |-> NoProc] /\ DOMAIN todo' = {}
    BY <1>3 DEF Restart
  <2> QED BY <2>1, NoProcOK DEF ProcsInv, ProcOK
<1> QED BY <1>1, <1>2, <1>3

LEMMA ProcsStep == RowsInv /\ ProcsInv /\ [Next]_listsVars => ProcsInv'
<1> SUFFICES ASSUME RowsInv, ProcsInv, [Next]_listsVars PROVE ProcsInv'
  OBVIOUS
<1>1. ASSUME procs' = procs, todo' = todo PROVE ProcsInv'
  BY <1>1 DEF ProcsInv, ProcOK
<1>2. CASE UNCHANGED listsVars
  BY <1>1, <1>2 DEF listsVars
<1>3. CASE Quiet
  <2>1. ASSUME NEW id \in Ids, NEW e \in entries[id], DeleteEntry(id, e)
        PROVE  ProcsInv'
    BY <1>1, <2>1 DEF DeleteEntry
  <2> QED BY <1>3, <2>1, StartStep, PlaceStep, LoopStep DEF Quiet, Procs
<1>4. ASSUME NEW name \in Names, NEW source \in Sources \cup {Manual},
             NEW auto \in BOOLEAN, CreateList(name, source, auto)
      PROVE  ProcsInv'
  <2> DEFINE get  == [NoProc EXCEPT !.at = "get", !.id = NewId]
             proc == IF source \in Sources \ Hostnames THEN get ELSE NoProc
  <2>1. NewId \in Ids
    BY <1>4, NewIdUnused DEF CreateList, Unused
  <2>2. get \in ProcRec /\ ProcOK(get)
    BY <2>1, NoProcOK DEF NoProc, ProcRec, ProcOK, Places
  <2>3. Start(proc) /\ todo' = todo
    BY <1>4 DEF CreateList
  <2> HIDE DEF get
  <2> QED BY <2>2, <2>3, NoProcOK, StartProcs
<1>5. ASSUME NEW name, NEW source, NEW auto, NEW id, UpdateList(id, name, source, auto)
      PROVE  ProcsInv'
  BY <1>1, <1>5 DEF UpdateList
<1>6. ASSUME NEW name, ReferTo(name) \/ DropReferences(name) PROVE ProcsInv'
  BY <1>1, <1>6 DEF ReferTo, DropReferences
<1>7. ASSUME NEW new \in ByHand, BlockStart(new) PROVE ProcsInv'
  <2> DEFINE id == CHOOSE i \in Ids : rows'[i].state = "here" /\ rows'[i].name = BlockList
             proc == [NoProc EXCEPT !.at = "add", !.new = <<new>>, !.id = id]
  <2>1. \E i \in Ids : rows'[i].state = "here" /\ rows'[i].name = BlockList
    <3>1. CASE Named(BlockList) # {}
      BY <1>7, <3>1 DEF BlockStart, Named, Lists
    <3>2. CASE Named(BlockList) = {}
      <4>1. NewId \in Ids /\ rows' = [rows EXCEPT ![NewId] = Row(BlockList, Manual, FALSE)]
        BY <1>7, <3>2, NewIdUnused DEF BlockStart, Unused
      <4>2. rows'[NewId] = Row(BlockList, Manual, FALSE)
        BY <4>1 DEF RowsInv
      <4> QED BY <4>1, <4>2 DEF Row
    <3> QED BY <3>1, <3>2
  <2>2. id \in Ids
    BY <2>1
  <2>3. Start(proc) /\ todo' = todo
    BY <1>7 DEF BlockStart
  <2> HIDE DEF id
  <2>4. proc \in ProcRec /\ ProcOK(proc)
    BY <2>2, NoProcOK DEF NoProc, ProcRec, ProcOK, Places, Batches
  <2> HIDE DEF proc
  <2> QED BY <2>3, <2>4, StartProcs
<1> QED BY <1>2, <1>3, <1>4, <1>5, <1>6, <1>7, PlaceStep, Cases

-----------------------------------------------------------------------------
(* What rules refer to                                                     *)

LEMMA RefsInit == Init => RefsInv
BY DEF Init, RefsInv, RefsResolve, DyingInv, NoProc

\* No deletion comes nearer to its end, and lists and names stay.
LEMMA RefsSame ==
  ASSUME RefsInv, refs' = refs, loose' = loose, Lists' = Lists,
         \A id \in Lists : rows'[id].name = rows[id].name,
         \A p \in Procs : procs'[p] = procs[p] \/ procs'[p].at \notin {"refs", "delete"}
  PROVE  RefsInv'
<1>1. \A name : Named(name)' = Named(name)
  BY DEF Named
<1>2. RefsResolve'
  BY <1>1 DEF RefsInv, RefsResolve
<1>3. DyingInv'
  BY DEF RefsInv, DyingInv
<1> QED BY <1>2, <1>3 DEF RefsInv

\* The steps that are no part of a deletion put no process into one.
LEMMA OtherProcs ==
  ASSUME ProcsInv,
         \/ \E id \in Ids : RefreshStart(id)
         \/ \E id \in Ids, new \in ByHand : AddStart(id, new)
         \/ \E id \in Ids : \E e \in entries[id] : DeleteEntry(id, e)
         \/ \E p \in Procs :
               \/ AddCheck(p) \/ AddInsert(p) \/ RefreshGet(p) \/ Fetch(p)
               \/ Replace(p) \/ Stamp(p) \/ RefreshFails(p)
         \/ \E name, source, auto : CreateList(name, source, auto)
         \/ \E new \in ByHand : BlockStart(new)
         \/ LoopWakes \/ LoopNext \/ Restart
  PROVE  \A p \in Procs : procs'[p] = procs[p] \/ procs'[p].at \notin {"refs", "delete"}
<1> DEFINE Kept1 == \A p \in Procs : \/ procs'[p] = procs[p]
                                     \/ procs'[p].at \notin {"refs", "delete"}
<1>1. ASSUME NEW p \in Procs, NEW proc, proc.at \notin {"refs", "delete"},
             procs' = [procs EXCEPT ![p] = proc]
      PROVE  Kept1
  BY <1>1 DEF ProcsInv
<1>2. ASSUME NEW proc, proc.at \notin {"refs", "delete"}, Start(proc)
      PROVE  Kept1
  BY <1>1, <1>2, StartProc
<1>3. ASSUME NEW p \in Procs, NEW from, NEW proc, proc.at \notin {"refs", "delete"},
             Step(p, from, proc)
      PROVE  Kept1
  BY <1>1, <1>3 DEF Step
<1>4. CASE \E id \in Ids : RefreshStart(id)
  <2>1. PICK id \in Ids :
          Start([NoProc EXCEPT !.at = "fetch", !.id = id, !.row = rows[id]])
    BY <1>4 DEF RefreshStart
  <2> QED BY <1>2, <2>1 DEF NoProc
<1>5. CASE \/ \E id \in Ids, new \in ByHand : AddStart(id, new)
           \/ \E new \in ByHand : BlockStart(new)
  <2>1. PICK id, new : Start([NoProc EXCEPT !.at = "add", !.id = id, !.new = <<new>>])
    <3>1. CASE \E id \in Ids, new \in ByHand : AddStart(id, new)
      BY <3>1 DEF AddStart
    <3>2. CASE \E new \in ByHand : BlockStart(new)
      <4>1. PICK new : Start([NoProc EXCEPT !.at = "add", !.new = <<new>>,
                 !.id = CHOOSE id \in Ids : /\ rows'[id].state = "here"
                                               /\ rows'[id].name = BlockList])
        BY <3>2 DEF BlockStart
      <4>2. ASSUME NEW id
            PROVE  [NoProc EXCEPT !.at = "add", !.new = <<new>>, !.id = id]
                   = [NoProc EXCEPT !.at = "add", !.id = id, !.new = <<new>>]
        BY DEF NoProc
      <4> QED BY <4>1, <4>2
    <3> QED BY <1>5, <3>1, <3>2
  <2> QED BY <1>2, <2>1 DEF NoProc
<1>6. CASE \E id \in Ids : \E e \in entries[id] : DeleteEntry(id, e)
  BY <1>6 DEF DeleteEntry
<1>7. CASE \E name, source, auto : CreateList(name, source, auto)
  <2>1. PICK source : Start(IF source \in Sources \ Hostnames
                            THEN [NoProc EXCEPT !.at = "get", !.id = NewId] ELSE NoProc)
    BY <1>7 DEF CreateList
  <2> QED BY <1>2, <2>1 DEF NoProc
<1>8. CASE \E p \in Procs :
               \/ AddCheck(p) \/ AddInsert(p) \/ RefreshGet(p) \/ Fetch(p)
               \/ Replace(p) \/ Stamp(p) \/ RefreshFails(p)
  <2>1. PICK p \in Procs :
               \/ AddCheck(p) \/ AddInsert(p) \/ RefreshGet(p) \/ Fetch(p)
               \/ Replace(p) \/ Stamp(p) \/ RefreshFails(p)
    BY <1>8
  <2>2. \A at \in Places : At(p, at).at = at
    BY AtOK
  <2>3. CASE AddCheck(p)
    <3>1. \/ Step(p, "add", NoProc)
          \/ Step(p, "add", At(p, "insert"))
      BY <2>3 DEF AddCheck
    <3> QED BY <1>3, <2>2, <3>1 DEF NoProc, Places
  <2>4. CASE AddInsert(p) \/ Stamp(p) \/ RefreshFails(p)
    <3>1. PICK from : Step(p, from, NoProc)
      BY <2>4 DEF AddInsert, Stamp, RefreshFails, Outcome
    <3> QED BY <1>3, <3>1 DEF NoProc
  <2>5. CASE RefreshGet(p)
    <3>1. \/ Step(p, "get", NoProc)
          \/ Step(p, "get", [At(p, "fetch") EXCEPT !.row = rows[procs[p].id]])
      BY <2>5 DEF RefreshGet
    <3>2. [At(p, "fetch") EXCEPT !.row = rows[procs[p].id]].at = "fetch"
      BY AtOK DEF ProcRec, Places
    <3> QED BY <1>3, <3>1, <3>2 DEF NoProc
  <2>6. CASE Fetch(p)
    <3>1. PICK batch : Step(p, "fetch", [At(p, "replace") EXCEPT !.new = batch])
      BY <2>6 DEF Fetch
    <3>2. [At(p, "replace") EXCEPT !.new = batch].at = "replace"
      BY AtOK DEF ProcRec, Places
    <3> QED BY <1>3, <3>1, <3>2
  <2>7. CASE Replace(p)
    <3>1. Step(p, "replace", [At(p, "stamp") EXCEPT !.new = <<>>])
      BY <2>7 DEF Replace
    <3>2. [At(p, "stamp") EXCEPT !.new = <<>>].at = "stamp"
      BY AtOK DEF ProcRec, Places
    <3> QED BY <1>3, <3>1, <3>2
  <2> QED BY <2>1, <2>3, <2>4, <2>5, <2>6, <2>7
<1>9. CASE LoopWakes \/ Restart
  BY <1>9 DEF LoopWakes, Restart, NoProc
<1>10. CASE LoopNext
  <2>1. PICK id : Step(Refresher, "idle", [NoProc EXCEPT !.at = "fetch", !.id = id,
                                                         !.row = todo[id]])
    BY <1>10 DEF LoopNext
  <2>2. [NoProc EXCEPT !.at = "fetch", !.id = id, !.row = todo[id]].at = "fetch"
    BY DEF NoProc
  <2> QED BY <1>3, <2>1, <2>2 DEF Procs
<1> QED BY <1>4, <1>5, <1>6, <1>7, <1>8, <1>9, <1>10

\* A list that was not there gets a name no list has.
LEMMA RefsCreate ==
  ASSUME RowsInv, RefsInv, refs' = refs, loose' = loose,
         NEW id \in Unused, NEW row \in RowRec, row.state = "here",
         Named(row.name) = {}, rows' = [rows EXCEPT ![id] = row],
         \A p \in Procs : procs'[p] = procs[p] \/ procs'[p].at \notin {"refs", "delete"}
  PROVE  RefsInv'
<1>1. Lists' = Lists \cup {id} /\ \A i \in Lists : rows'[i] = rows[i]
  BY DEF Lists, Unused, RowsInv
<1>2. RefsResolve'
  <2>1. \A name : Named(name) \subseteq Named(name)'
    BY <1>1 DEF Named
  <2> QED BY <2>1 DEF RefsInv, RefsResolve
<1>3. row.name \notin refs \/ row.name \in loose
  BY DEF RefsInv, RefsResolve
<1>4. DyingInv'
  <2> SUFFICES ASSUME NEW p \in Procs, procs'[p].id \in Lists',
                      \/ procs'[p].at = "delete"
                      \/ /\ procs'[p].at = "refs"
                         /\ procs'[p].row.name # rows'[procs'[p].id].name
               PROVE  \/ rows'[procs'[p].id].name \notin refs
                      \/ rows'[procs'[p].id].name \in loose
    BY DEF DyingInv
  <2>1. procs'[p] = procs[p]
    OBVIOUS
  <2>2. CASE procs[p].id = id
    BY <1>3, <2>1, <2>2 DEF RowsInv, Unused
  <2>3. CASE procs[p].id \in Lists
    BY <1>1, <2>1, <2>3 DEF RefsInv, DyingInv
  <2> QED BY <1>1, <2>1, <2>2, <2>3
<1> QED BY <1>2, <1>4 DEF RefsInv

LEMMA RefsStep == RowsInv /\ ProcsInv /\ RefsInv /\ [Next]_listsVars => RefsInv'
<1> SUFFICES ASSUME RowsInv, ProcsInv, RefsInv, [Next]_listsVars PROVE RefsInv'
  OBVIOUS
<1>1. CASE UNCHANGED listsVars
  BY <1>1, RefsSame DEF listsVars, Lists
<1>2. CASE \/ \E id \in Ids : RefreshStart(id)
           \/ \E id \in Ids : \E new \in ByHand : AddStart(id, new)
           \/ \E id \in Ids : \E e \in entries[id] : DeleteEntry(id, e)
           \/ \E p \in Procs : AddCheck(p) \/ AddInsert(p) \/ Fetch(p) \/ Replace(p)
           \/ LoopWakes \/ LoopNext \/ Restart
  <2>1. rows' = rows /\ refs' = refs /\ loose' = loose
    BY <1>2 DEF RefreshStart, AddStart, DeleteEntry, AddCheck, AddInsert, Fetch, Replace,
                LoopWakes, LoopNext, Restart
  <2>2. Lists' = Lists
    BY <2>1 DEF Lists
  <2> QED BY <1>2, <2>1, <2>2, OtherProcs, RefsSame
<1>3. ASSUME NEW p \in Procs, RefreshGet(p) \/ RefreshFails(p) \/ Stamp(p)
      PROVE  RefsInv'
  <2>1. Lists' = Lists /\ \A id \in Lists : rows'[id].name = rows[id].name
    <3>1. CASE RefreshGet(p)
      BY <3>1 DEF RefreshGet, Lists, RowsInv, RowRec
    <3>2. CASE RefreshFails(p) \/ Stamp(p)
      BY <3>2, OutcomeRows DEF RefreshFails, Stamp
    <3> QED BY <1>3, <3>1, <3>2
  <2>2. refs' = refs /\ loose' = loose
    BY <1>3 DEF RefreshGet, RefreshFails, Stamp
  <2> QED BY <1>3, <2>1, <2>2, OtherProcs, RefsSame
<1>4. ASSUME NEW name \in Names, NEW source \in Sources \cup {Manual},
             NEW auto \in BOOLEAN, CreateList(name, source, auto)
      PROVE  RefsInv'
  <2>1. NewId \in Unused /\ Named(name) = {} /\ refs' = refs /\ loose' = loose
    BY <1>4, NewIdUnused DEF CreateList
  <2>2. rows' = [rows EXCEPT ![NewId] = Row(name, source, auto)]
    BY <1>4 DEF CreateList
  <2>3. \A p \in Procs : procs'[p] = procs[p] \/ procs'[p].at \notin {"refs", "delete"}
    BY <1>4, OtherProcs
  <2> DEFINE row == Row(name, source, auto)
  <2>4. row \in RowRec /\ row.name = name /\ row.state = "here"
    BY RowIsRec
  <2> HIDE DEF row
  <2>5. rows' = [rows EXCEPT ![NewId] = row]
    BY <2>2 DEF row
  <2> QED BY <2>1, <2>3, <2>4, <2>5, RefsCreate
<1>5. ASSUME NEW new \in ByHand, BlockStart(new)
      PROVE  RefsInv'
  <2>0. refs' = refs /\ loose' = loose
    BY <1>5 DEF BlockStart
  <2>1. CASE Named(BlockList) # {}
    <3>1. rows' = rows /\ Lists' = Lists
      BY <1>5, <2>1 DEF BlockStart, Lists
    <3> QED BY <1>5, <2>0, <3>1, OtherProcs, RefsSame
  <2>2. CASE Named(BlockList) = {}
    <3>1. NewId \in Unused
      BY <1>5, <2>2, NewIdUnused DEF BlockStart
    <3>2. rows' = [rows EXCEPT ![NewId] = Row(BlockList, Manual, FALSE)]
      BY <1>5, <2>2 DEF BlockStart
    <3>3. \A p \in Procs : procs'[p] = procs[p] \/ procs'[p].at \notin {"refs", "delete"}
      BY <1>5, OtherProcs
    <3> DEFINE row == Row(BlockList, Manual, FALSE)
    <3>4. row \in RowRec /\ row.name = BlockList /\ row.state = "here"
      BY RowIsRec, ListsAssumption
    <3> HIDE DEF row
    <3>5. rows' = [rows EXCEPT ![NewId] = row]
      BY <3>2 DEF row
    <3> QED BY <2>0, <2>2, <3>1, <3>3, <3>4, <3>5, RefsCreate
  <2> QED BY <2>1, <2>2
\* The name a list gives away becomes loose; one it takes had no list, so that
\* if rules refer to it, it is.
<1>6. ASSUME NEW name \in Names, NEW source \in Sources \cup {Manual},
             NEW auto \in BOOLEAN, NEW id \in Ids, UpdateList(id, name, source, auto)
      PROVE  RefsInv'
  <2>1. /\ id \in Lists /\ Named(name) \subseteq {id}
        /\ refs' = refs /\ procs' = procs
        /\ loose' = loose \cup ({rows[id].name} \ {name})
    BY <1>6 DEF UpdateList
  <2>2. /\ rows'[id].name = name /\ rows'[id].state = "here"
        /\ \A i \in Ids \ {id} : rows'[i] = rows[i]
    BY <1>6 DEF UpdateList, RowsInv, Row
  <2>3. Lists' = Lists
    BY <2>1, <2>2 DEF Lists
  <2>4. name = rows[id].name \/ name \notin refs \/ name \in loose
    BY <2>1 DEF Named, RefsInv, RefsResolve
  <2>5. RefsResolve'
    BY <2>1, <2>2, <2>3 DEF RefsInv, RefsResolve, Named, Lists
  <2>6. DyingInv'
    <3> SUFFICES ASSUME NEW p \in Procs, procs[p].id \in Lists,
                        \/ procs[p].at = "delete"
                        \/ /\ procs[p].at = "refs"
                           /\ procs[p].row.name # rows'[procs[p].id].name
                 PROVE  \/ rows'[procs[p].id].name \notin refs
                        \/ rows'[procs[p].id].name \in loose'
      BY <2>1, <2>3 DEF DyingInv
    <3>1. CASE procs[p].id = id
      BY <2>1, <2>2, <2>4, <3>1 DEF RefsInv, DyingInv
    <3>2. CASE procs[p].id # id
      <4>1. rows'[procs[p].id] = rows[procs[p].id]
        BY <2>2, <3>2 DEF Lists
      <4> QED BY <2>1, <4>1 DEF RefsInv, DyingInv
    <3> QED BY <3>1, <3>2
  <2> QED BY <2>5, <2>6 DEF RefsInv
<1>7. ASSUME NEW name \in Names, ReferTo(name)
      PROVE  RefsInv'
  <2>1. rows' = rows /\ procs' = procs /\ refs' = refs \cup {name}
    BY <1>7 DEF ReferTo
  <2>2. Lists' = Lists /\ \A n : Named(n)' = Named(n)
    BY <2>1 DEF Lists, Named
  <2>3. loose \ {name} \subseteq loose'
    BY <1>7 DEF ReferTo
  <2>4. CASE Named(name) = {} \/ \E p \in Procs : Deleting(p, name)
    <3>1. name \in loose'
      BY <1>7, <2>4 DEF ReferTo
    <3>2. RefsResolve'
      BY <2>1, <2>2, <2>3, <3>1 DEF RefsInv, RefsResolve
    <3>3. DyingInv'
      BY <2>1, <2>2, <2>3, <3>1 DEF RefsInv, DyingInv
    <3> QED BY <3>2, <3>3 DEF RefsInv
  <2>5. CASE Named(name) # {} /\ \A p \in Procs : ~Deleting(p, name)
    <3>1. RefsResolve'
      BY <2>1, <2>2, <2>3, <2>5 DEF RefsInv, RefsResolve
    <3>2. DyingInv'
      BY <2>1, <2>2, <2>3, <2>5 DEF RefsInv, DyingInv, Deleting, Named
    <3> QED BY <3>1, <3>2 DEF RefsInv
  <2> QED BY <2>4, <2>5
<1>8. ASSUME NEW name \in Names, DropReferences(name)
      PROVE  RefsInv'
  <2>1. /\ rows' = rows /\ procs' = procs /\ refs' = refs \ {name}
        /\ loose' = loose \ {name}
    BY <1>8 DEF DropReferences
  <2>2. Lists' = Lists /\ \A n : Named(n)' = Named(n)
    BY <2>1 DEF Lists, Named
  <2> QED BY <2>1, <2>2 DEF RefsInv, RefsResolve, DyingInv
<1>9. ASSUME NEW id \in Ids, DeleteStart(id)
      PROVE  RefsInv'
  <2>1. rows' = rows /\ refs' = refs /\ loose' = loose
    BY <1>9 DEF DeleteStart
  <2>2. Lists' = Lists /\ \A n : Named(n)' = Named(n)
    BY <2>1 DEF Lists, Named
  <2>3. PICK p \in Procs :
          procs' = [procs EXCEPT ![p] = [NoProc EXCEPT !.at = "refs", !.id = id,
                                                       !.row = rows[id]]]
    BY <1>9, StartProc DEF DeleteStart
  <2>4. \A q \in Procs : \/ procs'[q] = procs[q]
                         \/ /\ procs'[q].at = "refs" /\ procs'[q].id = id
                            /\ procs'[q].row = rows[id]
    BY <2>3 DEF ProcsInv, NoProc
  <2> QED BY <2>1, <2>2, <2>4 DEF RefsInv, RefsResolve, DyingInv
\* The name looked up is the one that was read; if the list has another by now,
\* that one is loose already.
<1>10. ASSUME NEW p \in Procs, DeleteCheck(p)
       PROVE  RefsInv'
  <2>1. rows' = rows /\ refs' = refs /\ loose' = loose /\ procs[p].at = "refs"
    BY <1>10 DEF DeleteCheck, Step
  <2>2. Lists' = Lists /\ \A n : Named(n)' = Named(n)
    BY <2>1 DEF Lists, Named
  <2>3. \A q \in Procs : \/ procs'[q] = procs[q]
                         \/ procs'[q].at = "idle"
                         \/ /\ q = p /\ procs'[q].at = "delete" /\ procs'[q].id = procs[p].id
                            /\ procs[p].row.name \notin refs
    BY <1>10, AtOK DEF DeleteCheck, Step, ProcsInv, NoProc, Places
  <2>4. DyingInv'
    BY <2>1, <2>2, <2>3 DEF RefsInv, DyingInv
  <2> QED BY <2>1, <2>2, <2>4 DEF RefsInv, RefsResolve
<1>11. ASSUME NEW p \in Procs, DeleteCommit(p)
       PROVE  RefsInv'
  <2>1. /\ refs' = refs /\ loose' = loose /\ procs[p].at = "delete"
        /\ procs' = [procs EXCEPT ![p] = NoProc]
    BY <1>11 DEF DeleteCommit, Step
  <2>2. \A q \in Procs : procs'[q] = procs[q] \/ procs'[q].at \notin {"refs", "delete"}
    BY <2>1 DEF ProcsInv, NoProc
  <2>3. CASE procs[p].id \notin Lists
    <3>1. rows' = rows /\ Lists' = Lists
      BY <1>11, <2>3 DEF DeleteCommit, Lists
    <3> QED BY <2>1, <2>2, <3>1, RefsSame
  <2>4. CASE procs[p].id \in Lists
    <3> DEFINE id == procs[p].id
    <3>1. /\ \A i \in Ids : rows'[i].name = rows[i].name
          /\ rows'[id].state = Gone
          /\ \A i \in Ids \ {id} : rows'[i] = rows[i]
      BY <1>11, <2>4 DEF DeleteCommit, Lists, RowsInv, RowRec
    <3>2. Lists' = Lists \ {id}
      BY <2>4, <3>1 DEF Lists, Gone
    <3>3. rows[id].name \notin refs \/ rows[id].name \in loose
      BY <2>1, <2>4 DEF RefsInv, DyingInv
    <3>4. RefsResolve'
      BY <2>1, <3>1, <3>2, <3>3 DEF RefsInv, RefsResolve, Named, Lists
    <3>5. DyingInv'
      BY <2>1, <2>2, <3>1, <3>2 DEF RefsInv, DyingInv, Lists
    <3> QED BY <3>4, <3>5 DEF RefsInv
  <2> QED BY <2>3, <2>4
<1> QED
  <2>1. CASE Quiet
    BY <1>2, <1>9, <1>10, <2>1 DEF Quiet, Procs
  <2> QED BY <1>1, <1>3, <1>4, <1>5, <1>6, <1>7, <1>8, <1>11, <2>1, Cases

-----------------------------------------------------------------------------
(* The entries                                                             *)

LEMMA EntriesInit == Init => EntriesInv
BY DEF Init, EntriesInv

\* The steps that leave the entries alone, and who edited them.
LEMMA EntriesUntouched ==
  ASSUME ProcsInv,
         \/ \E id \in Ids :
               \/ DeleteStart(id) \/ RefreshStart(id)
               \/ \E new \in ByHand : AddStart(id, new)
         \/ \E p \in Procs :
               \/ DeleteCheck(p) \/ AddCheck(p) \/ RefreshGet(p) \/ Fetch(p)
               \/ RefreshFails(p) \/ Stamp(p)
         \/ \E name, source, auto : CreateList(name, source, auto)
         \/ \E name : ReferTo(name) \/ DropReferences(name)
         \/ \E new \in ByHand : BlockStart(new)
         \/ LoopWakes \/ LoopNext \/ Restart \/ UNCHANGED listsVars
  PROVE  entries' = entries /\ hand' = hand /\ raced' = raced
<1>1. CASE \/ \E id \in Ids :
               \/ DeleteStart(id) \/ RefreshStart(id)
               \/ \E new \in ByHand : AddStart(id, new)
           \/ \E name, source, auto : CreateList(name, source, auto)
           \/ \E name : ReferTo(name) \/ DropReferences(name)
           \/ \E new \in ByHand : BlockStart(new)
  BY <1>1 DEF DeleteStart, RefreshStart, AddStart, CreateList, ReferTo, DropReferences,
              BlockStart
<1>2. CASE \/ \E p \in Procs :
               \/ DeleteCheck(p) \/ AddCheck(p) \/ RefreshGet(p) \/ Fetch(p)
               \/ RefreshFails(p) \/ Stamp(p)
           \/ LoopWakes \/ LoopNext \/ Restart \/ UNCHANGED listsVars
  BY <1>2 DEF DeleteCheck, AddCheck, RefreshGet, Fetch, RefreshFails, Stamp, LoopWakes,
              LoopNext, Restart, listsVars
<1> QED BY <1>1, <1>2

\* Every step leaves the entries alone, or is one of these.
LEMMA EntriesCases ==
  ASSUME ProcsInv, [Next]_listsVars
  PROVE  \/ entries' = entries /\ hand' = hand /\ raced' = raced
         \/ \E id \in Ids, name \in Names, source \in Sources \cup {Manual},
               auto \in BOOLEAN : UpdateList(id, name, source, auto)
         \/ \E id \in Ids : \E e \in entries[id] : DeleteEntry(id, e)
         \/ \E p \in Procs : DeleteCommit(p) \/ AddInsert(p) \/ Replace(p)
<1>1. CASE Quiet
  BY <1>1, EntriesUntouched DEF Quiet, Procs
<1> QED BY <1>1, EntriesUntouched, Cases

LEMMA EntriesStep == ProcsInv /\ EntriesInv /\ [Next]_listsVars => EntriesInv'
<1> SUFFICES ASSUME ProcsInv, EntriesInv, [Next]_listsVars PROVE EntriesInv'
  OBVIOUS
<1>1. CASE entries' = entries /\ hand' = hand
  BY <1>1 DEF EntriesInv
<1>2. ASSUME NEW id, NEW name, NEW source, NEW auto, UpdateList(id, name, source, auto)
      PROVE  EntriesInv'
  BY <1>2 DEF UpdateList, EntriesInv
<1>3. ASSUME NEW id \in Ids, NEW e \in entries[id], DeleteEntry(id, e)
      PROVE  EntriesInv'
  BY <1>3 DEF DeleteEntry, EntriesInv
<1>4. ASSUME NEW p \in Procs, DeleteCommit(p)
      PROVE  EntriesInv'
  BY <1>4 DEF DeleteCommit, EntriesInv
<1>5. ASSUME NEW p \in Procs, AddInsert(p)
      PROVE  EntriesInv'
  BY <1>5 DEF AddInsert, EntriesInv
\* A refresh that was overtaken replaces what the other one wrote as a whole.
<1>6. ASSUME NEW p \in Procs, Replace(p)
      PROVE  EntriesInv'
  <2>1. procs[p].new \in AllAnswers
    BY <1>6 DEF Replace, ProcsInv, ProcOK
  <2>2. /\ entries' = [entries EXCEPT ![procs[p].id] = Kept[procs[p].new]]
        /\ hand' = hand \ {procs[p].id}
    BY <1>6 DEF Replace
  <2> QED BY <2>1, <2>2 DEF EntriesInv
<1> QED BY <1>1, <1>2, <1>3, <1>4, <1>5, <1>6, EntriesCases

-----------------------------------------------------------------------------
(* dedupePrefixes                                                          *)

\* One prefix lies within another; it ends before another begins.
Within(p, q) == q[1] <= p[1] /\ p[1] + p[2] <= q[1] + q[2]
EndsBefore(p, q) == p[1] + p[2] <= q[1]

\* A prefix is a pair of numbers and has at least one address.
LEMMA MaskedNat ==
  ASSUME NEW p \in Masked
  PROVE  p[1] \in Nat /\ p[2] \in Nat /\ p[2] > 0 /\ p = <<p[1], p[2]>> /\ p[2] \in Sizes
<1>1. p \in (0..(Size - 1)) \X Sizes
  BY DEF Masked
<1>2. p[1] \in 0..(Size - 1) /\ p[2] \in Sizes /\ p = <<p[1], p[2]>>
  BY <1>1
<1>3. p[2] \in 1..Size
  BY <1>2, PrefixAssumption
<1> QED BY <1>2, <1>3, PrefixAssumption

\* In steps of s: one step that begins in a block of m steps ends in it.
LEMMA Multiples ==
  ASSUME NEW s \in Nat, s > 0, NEW a \in Nat, NEW b \in Nat, NEW m \in Nat,
         b * s <= a * s, a * s < b * s + m * s
  PROVE  a * s + s <= b * s + m * s
<1>1. a < b + m
  <2> SUFFICES ASSUME a >= b + m PROVE FALSE
    OBVIOUS
  <2>1. PICK d \in Nat : a = (b + m) + d
    <3>1. a - (b + m) \in Nat
      OBVIOUS
    <3> QED BY <3>1
  <2>2. a * s = (b * s + m * s) + d * s
    BY <2>1
  <2>3. d * s >= 0
    OBVIOUS
  <2> QED BY <2>2, <2>3
<1>2. PICK d \in Nat : b + m = (a + 1) + d
  <2>1. (b + m) - (a + 1) \in Nat
    BY <1>1
  <2> QED BY <2>1
<1>3. b * s + m * s = (a * s + s) + d * s
  <2>1. (b + m) * s = ((a + 1) + d) * s
    BY <1>2
  <2> QED BY <2>1
<1>4. d * s >= 0
  OBVIOUS
<1> QED BY <1>3, <1>4

\* Masked prefixes never overlap in part.
LEMMA Nested ==
  ASSUME NEW p \in Masked, NEW q \in Masked, p[2] <= q[2],
         q[1] <= p[1], p[1] < q[1] + q[2]
  PROVE  Within(p, q)
<1>1. PICK a \in Nat, b \in Nat : p[1] = a * p[2] /\ q[1] = b * q[2]
  BY PrefixAssumption DEF Masked
<1>2. PICK m \in Nat : q[2] = m * p[2]
  <2>1. 1..Size \subseteq Nat
    BY PrefixAssumption
  <2> QED BY <2>1, MaskedNat, PrefixAssumption
<1> DEFINE s == p[2]
<1>3. s \in Nat /\ s > 0
  BY MaskedNat
<1>4. q[1] = (b * m) * s
  BY <1>1, <1>2, <1>3
<1>5. b * m \in Nat
  OBVIOUS
<1> HIDE DEF s
<1>6. a * s + s <= (b * m) * s + m * s
  BY <1>1, <1>2, <1>3, <1>4, <1>5, Multiples DEF s
<1> QED BY <1>1, <1>2, <1>4, <1>6 DEF Within, s

\* A sort is what it is in Go: a permutation of the prefixes in order.  One
\* exists, since every place can be counted: that of i is the number of those
\* that come before it, equal ones by their index.
LEMMA SortExists ==
  ASSUME NEW batch \in Seq(Masked), NEW ok \in SUBSET (DOMAIN batch)
  PROVE  /\ Cardinality(ok) \in Nat
         /\ \E f \in Bijection(1..Cardinality(ok), ok) :
               \A i, j \in 1..Cardinality(ok) :
                   i < j => ~Before(batch[f[j]], batch[f[i]])
<1> DEFINE n == Cardinality(ok)
           lt(i, j) == \/ Before(batch[i], batch[j])
                       \/ batch[i] = batch[j] /\ i < j
           below(i) == {j \in ok : lt(j, i)}
           before(i) == Cardinality(below(i))
           rank == [i \in ok |-> before(i) + 1]
<1>1. IsFiniteSet(ok) /\ n \in Nat
  <2>1. IsFiniteSet(DOMAIN batch)
    <3>1. DOMAIN batch = 1..Len(batch) /\ Len(batch) \in Nat
      OBVIOUS
    <3> QED BY <3>1, FS_Interval
  <2> QED BY <2>1, FS_Subset, FS_CardinalityType
<1>2. \A i \in ok : i \in Nat /\ batch[i] \in Masked
  OBVIOUS
<1>3. \A i \in ok : batch[i][1] \in Nat /\ batch[i][2] \in Nat /\ batch[i] = <<batch[i][1], batch[i][2]>>
  BY <1>2, MaskedNat
<1>4. \A i, j \in ok : lt(i, j) \/ lt(j, i) \/ i = j
  <2> TAKE i, j \in ok
  <2>1. CASE batch[i] = batch[j]
    BY <1>2, <2>1
  <2>2. CASE batch[i] # batch[j]
    <3>1. batch[i][1] # batch[j][1] \/ batch[i][2] # batch[j][2]
      BY <1>3, <2>2
    <3> QED BY <1>3, <3>1 DEF Before
  <2> QED BY <2>1, <2>2
<1>5. \A i, j \in ok : lt(i, j) => ~lt(j, i)
  BY <1>2, <1>3 DEF Before
<1>6. \A i, j, k \in ok : lt(i, j) /\ lt(j, k) => lt(i, k)
  BY <1>2, <1>3 DEF Before
<1> HIDE DEF lt
<1>7. \A i \in ok : IsFiniteSet(below(i)) /\ Cardinality(below(i)) \in Nat
                    /\ Cardinality(below(i)) < n
  <2> TAKE i \in ok
  <2>1. below(i) \subseteq ok \ {i}
    BY <1>5
  <2>2. IsFiniteSet(ok \ {i}) /\ Cardinality(ok \ {i}) = n - 1
    BY <1>1, FS_RemoveElement
  <2>3. IsFiniteSet(below(i)) /\ Cardinality(below(i)) <= n - 1
    <3> HIDE DEF below
    <3> QED BY <2>1, <2>2, FS_Subset
  <2>4. Cardinality(below(i)) \in Nat
    BY <2>3, FS_CardinalityType
  <2> QED BY <1>1, <2>3, <2>4
<1>8. \A i \in ok : before(i) \in Nat /\ before(i) + 1 \in 1..n
  <2> HIDE DEF below
  <2> QED BY <1>1, <1>7
<1>9. ASSUME NEW i \in ok, NEW j \in ok, lt(i, j)
      PROVE  before(i) < before(j)
  <2>1. below(i) \subseteq below(j) \ {i}
    BY <1>5, <1>6, <1>9
  <2>2. i \in below(j)
    BY <1>9
  <2>3. IsFiniteSet(below(j) \ {i}) /\ Cardinality(below(j) \ {i}) = Cardinality(below(j)) - 1
    <3> HIDE DEF below
    <3> QED BY <1>7, <2>2, FS_RemoveElement
  <2>4. Cardinality(below(i)) <= Cardinality(below(j)) - 1
    <3> HIDE DEF below
    <3> QED BY <2>1, <2>3, FS_Subset
  <2> HIDE DEF below
  <2> QED BY <1>7, <1>9, <2>4
<1> HIDE DEF before
<1>10. rank \in [ok -> 1..n]
  BY <1>8
<1>11. \A i, j \in ok : lt(i, j) => rank[i] < rank[j]
  BY <1>8, <1>9
<1>12. \A i, j \in ok : rank[i] = rank[j] => i = j
  <2> TAKE i, j \in ok
  <2>1. rank[i] \in Nat /\ rank[j] \in Nat
    BY <1>10
  <2> HIDE DEF rank
  <2> QED BY <1>4, <1>11, <2>1
<1>13. rank \in Injection(ok, 1..n)
  <2> HIDE DEF rank
  <2> QED BY <1>10, <1>12 DEF Injection, IsInjective
<1>14. rank \in Surjection(ok, 1..n)
  <2> HIDE DEF rank
  <2>1. IsFiniteSet(1..n) /\ Cardinality(1..n) = n
    BY <1>1, FS_Interval
  <2> QED BY <1>13, <2>1, FS_Injection
<1> DEFINE f == [k \in 1..n |-> CHOOSE i \in ok : rank[i] = k]
<1>15. \A k \in 1..n : f[k] \in ok /\ rank[f[k]] = k
  <2> HIDE DEF rank
  <2> TAKE k \in 1..n
  <2>1. \E i \in ok : rank[i] = k
    BY <1>14 DEF Surjection
  <2> QED BY <2>1
<1>16. \A i \in ok : rank[i] \in 1..n /\ f[rank[i]] = i
  <2> TAKE i \in ok
  <2>1. rank[i] \in 1..n
    BY <1>10
  <2> HIDE DEF rank, f
  <2> QED BY <1>12, <1>15, <2>1
<1>17. f \in Bijection(1..n, ok)
  <2>1. f \in [1..n -> ok]
    BY <1>15
  <2> HIDE DEF f, rank
  <2>2. \A k, l \in 1..n : f[k] = f[l] => k = l
    BY <1>15
  <2> QED BY <1>16, <2>1, <2>2 DEF Bijection, Injection, IsInjective, Surjection
<1>18. ASSUME NEW i \in 1..n, NEW j \in 1..n, i < j
       PROVE  ~Before(batch[f[j]], batch[f[i]])
  <2> HIDE DEF f, rank
  <2>1. Before(batch[f[j]], batch[f[i]]) => lt(f[j], f[i])
    BY DEF lt
  <2>2. lt(f[j], f[i]) => j < i
    BY <1>15, <1>11
  <2>3. i \in Nat /\ j \in Nat
    BY <1>1
  <2> QED BY <1>18, <2>1, <2>2, <2>3
<1> HIDE DEF f
<1> QED BY <1>1, <1>17, <1>18

\* What dedupePrefixes goes through.
LEMMA SortedIs ==
  ASSUME NEW batch \in AllAnswers
  PROVE  /\ Sorted(batch) \in Seq(Masked)
         /\ ToSet(Sorted(batch)) = {p \in ToSet(batch) : p[2] < Size /\ Listable(p)}
         /\ \A i, j \in DOMAIN Sorted(batch) :
                i < j => ~Before(Sorted(batch)[j], Sorted(batch)[i])
<1> DEFINE ok    == {i \in DOMAIN batch : batch[i][2] < Size /\ Listable(batch[i])}
           ranks == 1..Cardinality(ok)
           fits(f) == \A i, j \in ranks : i < j => ~Before(batch[f[j]], batch[f[i]])
           place == CHOOSE f \in Bijection(ranks, ok) : fits(f)
<1>1. batch \in Seq(Masked)
  BY PrefixAssumption DEF AllAnswers
<1>2. Cardinality(ok) \in Nat /\ \E f \in Bijection(ranks, ok) : fits(f)
  <2>1. ok \in SUBSET (DOMAIN batch)
    OBVIOUS
  <2> HIDE DEF ok
  <2> QED BY <1>1, <2>1, SortExists
<1>3. place \in Bijection(ranks, ok) /\ fits(place)
  <2> HIDE DEF ranks, ok, fits
  <2> QED BY <1>2
<1>4. Sorted(batch) = [i \in ranks |-> batch[place[i]]]
  BY DEF Sorted
<1>5. /\ \A i \in ranks : place[i] \in ok
      /\ \A k \in ok : \E i \in ranks : place[i] = k
  <2> HIDE DEF ranks, ok, place
  <2> QED BY <1>3 DEF Bijection, Injection, Surjection
<1>6. \A k \in ok : batch[k] \in Masked
  BY <1>1
<1> HIDE DEF place
<1>7. Sorted(batch) \in Seq(Masked)
  <2> HIDE DEF ok
  <2> QED BY <1>2, <1>4, <1>5, <1>6
<1>8. ToSet(Sorted(batch)) = {batch[k] : k \in ok}
  <2> HIDE DEF ok
  <2>1. DOMAIN Sorted(batch) = ranks
    BY <1>4
  <2> HIDE DEF ranks
  <2> QED BY <1>4, <1>5, <2>1 DEF ToSet
<1>9. {batch[k] : k \in ok} = {p \in ToSet(batch) : p[2] < Size /\ Listable(p)}
  BY DEF ToSet
<1>10. \A i, j \in DOMAIN Sorted(batch) :
          i < j => ~Before(Sorted(batch)[j], Sorted(batch)[i])
  <2> HIDE DEF ok, ranks
  <2>1. fits(place)
    BY <1>3
  <2> QED BY <1>4, <2>1
<1> QED BY <1>7, <1>8, <1>9, <1>10

\* One step of the running cover.
Cover(sorted, cover) ==
    [i \in DOMAIN sorted |->
        IF i > 1 /\ Inside(sorted[i], sorted[cover[i - 1]]) THEN cover[i - 1] ELSE i]

\* The equation of the running cover has a solution: one for the first k
\* prefixes gives one for k + 1.
LEMMA CoverExists ==
  ASSUME NEW sorted \in Seq(Masked)
  PROVE  \E cover : cover = Cover(sorted, cover)
<1> DEFINE n == Len(sorted)
           next(cover, i) == IF i > 1 /\ Inside(sorted[i], sorted[cover[i - 1]])
                             THEN cover[i - 1] ELSE i
           good(k) == \E cover \in [1..k -> Nat] : \A i \in 1..k : cover[i] = next(cover, i)
           bad == {k \in 0..n : ~good(k)}
<1>1. n \in Nat /\ DOMAIN sorted = 1..n
  OBVIOUS
<1>2. good(0)
  <2> DEFINE e == [i \in 1..0 |-> 0]
  <2>1. e \in [1..0 -> Nat]
    OBVIOUS
  <2>2. 1..0 = {}
    OBVIOUS
  <2> QED BY <2>1, <2>2
<1>3. ASSUME NEW k \in Nat, good(k) PROVE good(k + 1)
  <2>1. PICK c \in [1..k -> Nat] : \A i \in 1..k : c[i] = next(c, i)
    BY <1>3
  <2> DEFINE d == [i \in 1..(k + 1) |-> IF i = k + 1 THEN next(c, i) ELSE c[i]]
  <2>2. next(c, k + 1) \in Nat
    BY <2>1
  <2>3. d \in [1..(k + 1) -> Nat]
    <3> HIDE DEF next
    <3> QED BY <2>2
  <2>4. ASSUME NEW i \in 1..(k + 1) PROVE d[i] = next(d, i)
    <3>1. i > 1 => d[i - 1] = c[i - 1]
      <4> HIDE DEF next
      <4> QED OBVIOUS
    <3>2. next(d, i) = next(c, i)
      <4> HIDE DEF d
      <4> QED BY <3>1
    <3>3. d[i] = next(c, i)
      <4> HIDE DEF next
      <4>1. CASE i = k + 1
        BY <4>1
      <4>2. CASE i # k + 1
        <5>1. i \in 1..k
          BY <4>2
        <5> QED BY <2>1, <4>2, <5>1
      <4> QED BY <4>1, <4>2
    <3> QED BY <3>2, <3>3
  <2> HIDE DEF d, next
  <2> QED BY <2>3, <2>4
<1>4. good(n)
  <2> SUFFICES ASSUME bad # {} PROVE FALSE
    <3> HIDE DEF good
    <3> QED BY <1>1
  <2> HIDE DEF good
  <2>1. bad \in SUBSET Nat
    BY <1>1
  <2>2. PICK m \in bad : \A k \in bad : m <= k
    BY <2>1, Smallest
  <2>3. m \in Nat /\ m # 0 /\ m <= n /\ ~good(m)
    BY <1>1, <1>2, <2>2
  <2>4. m - 1 \in Nat /\ m - 1 \in 0..n /\ m - 1 \notin bad
    BY <1>1, <2>2, <2>3
  <2>5. good(m - 1)
    BY <2>4
  <2>6. good((m - 1) + 1)
    BY <1>3, <2>4, <2>5
  <2>7. (m - 1) + 1 = m
    BY <2>3
  <2> QED BY <2>3, <2>6, <2>7
<1>5. PICK c \in [1..n -> Nat] : \A i \in 1..n : c[i] = next(c, i)
  BY <1>4
<1>6. c = [i \in 1..n |-> next(c, i)]
  <2> HIDE DEF next
  <2> QED BY <1>5
<1> QED BY <1>1, <1>6 DEF Cover

\* So what dedupePrefixes keeps are the covers.
LEMMA DedupedIs ==
  ASSUME NEW batch \in AllAnswers
  PROVE  LET sorted == Sorted(batch) IN
         \E cover : /\ cover = Cover(sorted, cover)
                    /\ Kept[batch] = {sorted[i] : i \in {j \in DOMAIN sorted : cover[j] = j}}
<1> DEFINE sorted == Sorted(batch)
           cover == CHOOSE c : c = Cover(sorted, c)
<1>1. cover = Cover(sorted, cover)
  BY SortedIs, CoverExists
<1>2. Deduped(batch) = {sorted[i] : i \in {j \in DOMAIN sorted : cover[j] = j}}
  BY DEF Deduped, Cover
<1>3. Kept[batch] = Deduped(batch)
  BY DEF Kept
<1> HIDE DEF cover
<1> QED BY <1>1, <1>2, <1>3

\* Up to each prefix: the cover is the last that was kept, every prefix so far
\* lies within one that was kept, and one that was kept ends before the next.
CoverInv(sorted, cover, i) ==
    LET kept == {j \in 1..i : cover[j] = j} IN
    /\ cover[i] \in kept /\ \A k \in kept : k <= cover[i]
    /\ \A j \in 1..i : \E k \in kept : Within(sorted[j], sorted[k])
    /\ \A k, j \in kept : k < j => EndsBefore(sorted[k], sorted[j])

\* A prefix that is not inside the cover begins behind it: it does not begin
\* before it, and if it begins in it, it is wider and comes first in the order.
LEMMA NotInside ==
  ASSUME NEW p \in Masked, NEW c \in Masked, ~Before(p, c)
  PROVE  IF Inside(p, c) THEN Within(p, c) ELSE EndsBefore(c, p)
<1>1. /\ p[1] \in Nat /\ p[2] \in Nat /\ p[2] > 0
      /\ c[1] \in Nat /\ c[2] \in Nat /\ c[2] > 0
  BY MaskedNat
<1>2. c[1] <= p[1]
  BY <1>1 DEF Before
<1>3. CASE Inside(p, c)
  BY <1>1, <1>3, Nested DEF Inside, Covered
<1>4. CASE p[1] < c[1] + c[2] /\ p[2] > c[2]
  <2>1. Within(c, p) \/ p[1] # c[1]
    BY <1>1, <1>4 DEF Within
  <2>2. p[1] = c[1]
    <3> SUFFICES ASSUME c[1] < p[1] PROVE FALSE
      BY <1>1, <1>2
    <3>1. PICK a \in Nat, b \in Nat : c[1] = a * c[2] /\ p[1] = b * p[2]
      BY PrefixAssumption DEF Masked
    <3>2. PICK m \in Nat : p[2] = m * c[2]
      <4>1. 1..Size \subseteq Nat
        BY PrefixAssumption
      <4>2. c[2] \in Sizes /\ p[2] \in Sizes /\ c[2] <= p[2]
        BY <1>1, <1>4, MaskedNat
      <4> QED BY <4>1, <4>2, PrefixAssumption
    <3> DEFINE s == c[2]
    <3>3. p[1] = (b * m) * s /\ b * m \in Nat
      BY <1>1, <3>1, <3>2
    <3>4. s \in Nat /\ s > 0
      BY <1>1
    <3>5. a * s < (b * m) * s /\ (b * m) * s < a * s + 1 * s
      BY <1>1, <1>4, <3>1, <3>3
    <3> HIDE DEF s
    <3>6. (b * m) * s + s <= a * s + 1 * s
      BY <3>3, <3>4, <3>5, Multiples
    <3>7. (b * m) * s \in Nat /\ a * s \in Nat
      BY <3>3, <3>4
    <3> QED BY <3>4, <3>5, <3>6, <3>7
  <2> QED BY <1>1, <1>4, <2>2 DEF Before
<1>5. CASE c[1] + c[2] <= p[1]
  BY <1>1, <1>2, <1>5 DEF Inside, Covered, EndsBefore
<1>6. p[1] < c[1] + c[2] /\ p[2] <= c[2] => Inside(p, c)
  BY <1>1, <1>2 DEF Inside, Covered
<1> QED BY <1>1, <1>3, <1>4, <1>5, <1>6

\* What ends before a prefix ends before all that begins behind that.
LEMMA EndsBeforeTrans ==
  ASSUME NEW p \in Masked, NEW c \in Masked, NEW q \in Masked, EndsBefore(p, c), EndsBefore(c, q)
  PROVE  EndsBefore(p, q)
<1>1. /\ p[1] \in Nat /\ p[2] \in Nat /\ c[1] \in Nat /\ c[2] \in Nat
      /\ q[1] \in Nat /\ q[2] \in Nat
  BY MaskedNat
<1> QED BY <1>1 DEF EndsBefore

\* The running cover keeps its invariant from each prefix to the next, by the
\* order of the sort and because masked prefixes are nested or apart.
LEMMA CoverHolds ==
  ASSUME NEW sorted \in Seq(Masked),
         \A i, j \in DOMAIN sorted : i < j => ~Before(sorted[j], sorted[i]),
         NEW cover, cover = Cover(sorted, cover),
         NEW i \in DOMAIN sorted
  PROVE  CoverInv(sorted, cover, i)
<1> DEFINE n == Len(sorted)
           bad == {k \in 1..n : ~CoverInv(sorted, cover, k)}
<1>1. n \in Nat /\ DOMAIN sorted = 1..n
  OBVIOUS
<1>2. \A k \in 1..n : sorted[k] \in Masked
  OBVIOUS
<1>3. \A k \in 1..n :
         cover[k] = IF k > 1 /\ Inside(sorted[k], sorted[cover[k - 1]])
                    THEN cover[k - 1] ELSE k
  BY <1>1 DEF Cover
<1>4. \A p \in Masked : Within(p, p)
  BY MaskedNat DEF Within
<1>5. 1 \in 1..n => CoverInv(sorted, cover, 1)
  <2> SUFFICES ASSUME 1 \in 1..n PROVE CoverInv(sorted, cover, 1)
    OBVIOUS
  <2>1. cover[1] = 1
    BY <1>3
  <2>2. Within(sorted[1], sorted[1])
    BY <1>2, <1>4
  <2> QED BY <2>1, <2>2 DEF CoverInv
<1>6. ASSUME NEW k \in 1..n, k + 1 \in 1..n, CoverInv(sorted, cover, k)
      PROVE  CoverInv(sorted, cover, k + 1)
  <2> DEFINE c == cover[k]
             l == k + 1
             kept(y) == {x \in 1..y : cover[x] = x}
  <2>1. c \in kept(k) /\ \A m \in kept(k) : m <= c
    BY <1>6 DEF CoverInv
  <2>2. \A j \in 1..k : \E m \in kept(k) : Within(sorted[j], sorted[m])
    BY <1>6 DEF CoverInv
  <2>3. \A m, j \in kept(k) : m < j => EndsBefore(sorted[m], sorted[j])
    BY <1>6 DEF CoverInv
  <2>4. /\ k \in Nat /\ l \in Nat /\ l - 1 = k /\ l > 1 /\ c < l
        /\ c \in 1..n /\ l \in 1..n /\ l # c
    BY <1>1, <1>6, <2>1
  <2>5. cover[l] = IF Inside(sorted[l], sorted[c]) THEN c ELSE l
    BY <1>3, <2>4
  <2>6. ~Before(sorted[l], sorted[c])
    BY <1>1, <2>4
  <2>7. IF Inside(sorted[l], sorted[c]) THEN Within(sorted[l], sorted[c])
        ELSE EndsBefore(sorted[c], sorted[l])
    BY <1>2, <2>4, <2>6, NotInside
  <2>8. kept(l) = kept(k) \cup {j \in {l} : cover[l] = l}
    BY <2>4
  <2>9. \A j \in 1..l : j \in 1..k \/ j = l
    BY <2>4
  <2>10. \A j \in kept(k) : j \in 1..n /\ j < l
    BY <1>1, <1>6
  <2>11. SUFFICES /\ cover[l] \in kept(l) /\ \A m \in kept(l) : m <= cover[l]
                  /\ \A j \in 1..l : \E m \in kept(l) : Within(sorted[j], sorted[m])
                  /\ \A m, j \in kept(l) : m < j => EndsBefore(sorted[m], sorted[j])
    BY DEF CoverInv
  <2> HIDE DEF l, c, kept
  <2>12. CASE Inside(sorted[l], sorted[c])
    <3>1. cover[l] = c /\ kept(l) = kept(k)
      BY <2>4, <2>5, <2>8, <2>12
    <3>2. Within(sorted[l], sorted[c])
      BY <2>7, <2>12
    <3> QED BY <2>1, <2>2, <2>3, <2>9, <3>1, <3>2
  <2>13. CASE ~Inside(sorted[l], sorted[c])
    <3>1. cover[l] = l /\ kept(l) = kept(k) \cup {l}
      BY <2>5, <2>8, <2>13
    <3>2. Within(sorted[l], sorted[l])
      BY <1>2, <1>4, <2>4
    <3>3. ASSUME NEW m \in kept(k) PROVE EndsBefore(sorted[m], sorted[l])
      <4>1. CASE m = c
        BY <2>7, <2>13, <4>1
      <4>2. CASE m # c
        <5>1. EndsBefore(sorted[m], sorted[c])
          <6>1. m < c
            BY <2>1, <2>4, <2>10, <4>2
          <6> QED BY <2>1, <2>3, <6>1
        <5>2. EndsBefore(sorted[c], sorted[l])
          BY <2>7, <2>13
        <5>3. /\ sorted[m] \in Masked /\ sorted[c] \in Masked /\ sorted[l] \in Masked
          BY <1>2, <2>4, <2>10
        <5> QED BY <5>1, <5>2, <5>3, EndsBeforeTrans
      <4> QED BY <4>1, <4>2
    <3>4. \A m \in kept(l) : m <= l
      BY <2>4, <2>10, <3>1
    <3>5. \A m, j \in kept(l) : m < j => EndsBefore(sorted[m], sorted[j])
      <4> SUFFICES ASSUME NEW m \in kept(l), NEW j \in kept(l), m < j
                   PROVE  EndsBefore(sorted[m], sorted[j])
        OBVIOUS
      <4>1. m # l
        BY <2>4, <2>10, <3>1
      <4>2. m \in kept(k)
        BY <3>1, <4>1
      <4> QED BY <2>3, <3>1, <3>3, <4>2
    <3>6. \A j \in 1..l : \E m \in kept(l) : Within(sorted[j], sorted[m])
      BY <2>2, <2>9, <3>1, <3>2
    <3> QED BY <3>1, <3>4, <3>5, <3>6
  <2> QED BY <2>12, <2>13
<1>7. bad = {}
  <2> SUFFICES ASSUME bad # {} PROVE FALSE
    OBVIOUS
  <2>1. bad \in SUBSET Nat
    BY <1>1
  <2>2. PICK m \in bad : \A k \in bad : m <= k
    BY <2>1, Smallest
  <2>3. m \in 1..n /\ m \in Nat /\ ~CoverInv(sorted, cover, m)
    BY <1>1, <2>2
  <2>4. m # 1
    BY <1>5, <2>3
  <2>5. m - 1 \in 1..n /\ (m - 1) + 1 = m /\ ~(m <= m - 1)
    BY <1>1, <2>3, <2>4
  <2>6. m - 1 \notin bad
    BY <2>2, <2>5
  <2>7. CoverInv(sorted, cover, m - 1)
    BY <2>5, <2>6
  <2>8. CoverInv(sorted, cover, (m - 1) + 1)
    BY <1>6, <2>3, <2>5, <2>7
  <2> QED BY <2>3, <2>5, <2>8
<1> QED BY <1>1, <1>7

\* What dedupePrefixes keeps of an answer: prefixes that do not touch each
\* other, and within which all the rest lies.
LEMMA KeptHolds ==
  ASSUME NEW batch \in AllAnswers
  PROVE  LET ok == {p \in ToSet(batch) : p[2] < Size /\ Listable(p)} IN
         /\ ok \subseteq Masked /\ Kept[batch] \subseteq ok
         /\ \A p \in ok : \E q \in Kept[batch] : Within(p, q)
         /\ \A p, q \in Kept[batch] : p # q => EndsBefore(p, q) \/ EndsBefore(q, p)
<1> DEFINE ok == {p \in ToSet(batch) : p[2] < Size /\ Listable(p)}
           sorted == Sorted(batch)
           n == Len(sorted)
<1>1. PICK cover : /\ cover = Cover(sorted, cover)
                   /\ Kept[batch] = {sorted[i] : i \in {j \in DOMAIN sorted : cover[j] = j}}
  BY DedupedIs
<1>2. /\ sorted \in Seq(Masked) /\ ToSet(sorted) = ok
      /\ \A i, j \in DOMAIN sorted : i < j => ~Before(sorted[j], sorted[i])
  BY SortedIs
<1> HIDE DEF sorted, ok
<1>3. n \in Nat /\ DOMAIN sorted = 1..n /\ \A i \in 1..n : sorted[i] \in Masked
  BY <1>2
<1>4. ok = {sorted[i] : i \in 1..n}
  BY <1>2, <1>3 DEF ToSet
<1>5. \A i \in 1..n : CoverInv(sorted, cover, i)
  BY <1>1, <1>2, <1>3, CoverHolds
<1> DEFINE kept == {j \in 1..n : cover[j] = j}
<1>6. Kept[batch] = {sorted[i] : i \in kept}
  BY <1>1, <1>3
<1>7. CASE n = 0
  <2>1. 1..n = {}
    BY <1>7
  <2> QED BY <1>4, <1>6, <2>1 DEF ok
<1>8. CASE n # 0
  <2>1. n \in 1..n
    BY <1>3, <1>8
  <2>2. /\ \A j \in 1..n : \E k \in kept : Within(sorted[j], sorted[k])
        /\ \A k, j \in kept : k < j => EndsBefore(sorted[k], sorted[j])
    BY <1>5, <2>1 DEF CoverInv
  <2>3. ok \subseteq Masked /\ Kept[batch] \subseteq ok
    BY <1>3, <1>4, <1>6
  <2>4. \A p \in ok : \E q \in Kept[batch] : Within(p, q)
    BY <1>4, <1>6, <2>2
  <2>5. ASSUME NEW p \in Kept[batch], NEW q \in Kept[batch], p # q
        PROVE  EndsBefore(p, q) \/ EndsBefore(q, p)
    <3>1. PICK i \in kept, j \in kept : p = sorted[i] /\ q = sorted[j]
      BY <1>6
    <3>2. i \in Nat /\ j \in Nat /\ i # j
      BY <1>3, <2>5, <3>1
    <3>3. i < j \/ j < i
      BY <3>2
    <3> QED BY <2>2, <3>1, <3>3
  <2> QED BY <2>3, <2>4, <2>5 DEF ok
<1> QED BY <1>3, <1>7, <1>8

\* dedupePrefixes leaves no overlaps, whatever a source answers ...
LEMMA AnswersDisjoint ==
  ASSUME NEW batch \in AllAnswers, NEW e \in Kept[batch], NEW f \in Kept[batch], e # f
  PROVE  ~Overlaps(e, f)
<1>1. e \in Masked /\ f \in Masked /\ (EndsBefore(e, f) \/ EndsBefore(f, e))
  BY KeptHolds
<1> QED BY <1>1, MaskedNat DEF EndsBefore, Overlaps

\* ... and keeps the widest prefixes, none missing and none more.
THEOREM AnswersWidest ==
  ASSUME NEW batch \in AllAnswers
  PROVE  Kept[batch] = Widest(batch)
<1> DEFINE ok == {p \in ToSet(batch) : p[2] < Size /\ Listable(p)}
<1>1. /\ ok \subseteq Masked /\ Kept[batch] \subseteq ok
      /\ \A p \in ok : \E q \in Kept[batch] : Within(p, q)
      /\ \A p, q \in Kept[batch] : p # q => EndsBefore(p, q) \/ EndsBefore(q, p)
  BY KeptHolds
<1>2. Widest(batch) = {p \in ok : \A q \in ok : p # q => ~(Covered(p) \subseteq Covered(q))}
  BY DEF Widest
<1> HIDE DEF ok
<1>3. ASSUME NEW p \in Masked, NEW q \in Masked
      PROVE  /\ Covered(p) \subseteq Covered(q) <=> Within(p, q)
             /\ Within(p, q) /\ Within(q, p) => p = q
             /\ Within(p, q) => ~EndsBefore(p, q) /\ ~EndsBefore(q, p)
  <2>1. /\ p[1] \in Nat /\ p[2] \in Nat /\ p[2] > 0 /\ p = <<p[1], p[2]>>
        /\ q[1] \in Nat /\ q[2] \in Nat /\ q[2] > 0 /\ q = <<q[1], q[2]>>
    BY MaskedNat
  <2>2. Within(p, q) => Covered(p) \subseteq Covered(q)
    BY <2>1 DEF Within, Covered
  <2>3. ASSUME Covered(p) \subseteq Covered(q) PROVE Within(p, q)
    <3>1. p[1] \in Covered(p) /\ p[1] + p[2] - 1 \in Covered(p)
      BY <2>1 DEF Covered
    <3>2. p[1] \in Covered(q) /\ p[1] + p[2] - 1 \in Covered(q)
      BY <2>3, <3>1
    <3> QED BY <2>1, <3>2 DEF Covered, Within
  <2>4. Within(p, q) /\ Within(q, p) => p = q
    <3>1. Within(p, q) /\ Within(q, p) => p[1] = q[1] /\ p[2] = q[2]
      BY <2>1 DEF Within
    <3> QED BY <2>1, <3>1
  <2>5. Within(p, q) => ~EndsBefore(p, q) /\ ~EndsBefore(q, p)
    BY <2>1 DEF Within, EndsBefore
  <2> QED BY <2>2, <2>3, <2>4, <2>5
<1>4. ASSUME NEW p \in Kept[batch], NEW q \in ok, Covered(p) \subseteq Covered(q)
      PROVE  p = q
  <2>1. PICK k \in Kept[batch] : Within(q, k)
    BY <1>1
  <2>2. p \in Masked /\ q \in Masked /\ k \in Masked
    BY <1>1
  <2>3. Within(p, q)
    BY <1>3, <1>4, <2>2
  <2>4. Within(p, k)
    BY <2>1, <2>2, <2>3, MaskedNat DEF Within
  <2>5. k = p
    BY <1>1, <1>3, <2>2, <2>4
  <2> QED BY <1>3, <2>1, <2>2, <2>3, <2>5
<1>5. ASSUME NEW p \in Widest(batch)
      PROVE  p \in Kept[batch]
  <2>1. p \in ok
    BY <1>2
  <2>2. PICK k \in Kept[batch] : Within(p, k)
    BY <1>1, <2>1
  <2>3. k \in ok /\ k \in Masked /\ p \in Masked
    BY <1>1, <2>1
  <2>4. Covered(p) \subseteq Covered(k)
    BY <1>3, <2>2, <2>3
  <2>5. p = k
    BY <1>2, <2>3, <2>4
  <2> QED BY <2>5
<1>6. Kept[batch] \subseteq Widest(batch)
  BY <1>1, <1>2, <1>4
<1> QED BY <1>5, <1>6

-----------------------------------------------------------------------------
(* Overlaps                                                                *)

LEMMA OverlapInit == Init => OverlapInv
BY DEF Init, OverlapInv, NoProc

\* Nobody comes to an insert but by its check.
LEMMA Checked ==
  ASSUME ProcsInv, Next, NEW q \in Procs, procs'[q].at = "insert"
  PROVE  procs'[q] = procs[q] \/ AddCheck(q)
<1>1. ASSUME NEW p \in Procs, NEW proc, proc.at # "insert",
             procs' = [procs EXCEPT ![p] = proc]
      PROVE  procs'[q] = procs[q]
  BY <1>1 DEF ProcsInv
<1>2. ASSUME NEW proc, proc.at # "insert", Start(proc)
      PROVE  procs'[q] = procs[q]
  BY <1>1, <1>2, StartProc
<1>3. ASSUME NEW p \in Procs, NEW from, NEW proc, proc.at # "insert",
             Step(p, from, proc)
      PROVE  procs'[q] = procs[q]
  BY <1>1, <1>3 DEF Step
<1>4. ASSUME NEW p \in Procs, AddCheck(p)
      PROVE  procs'[q] = procs[q] \/ AddCheck(q)
  <2>1. CASE q = p
    BY <1>4, <2>1
  <2>2. CASE q # p
    BY <1>4, <2>2 DEF AddCheck, Step, ProcsInv
  <2> QED BY <2>1, <2>2
<1>5. ASSUME NEW p \in Procs, DeleteCheck(p)
      PROVE  procs'[q] = procs[q]
  <2>1. Step(p, "refs", NoProc) \/ Step(p, "refs", At(p, "delete"))
    BY <1>5 DEF DeleteCheck
  <2>2. At(p, "delete").at = "delete"
    BY AtOK DEF Places
  <2> QED BY <1>3, <2>1, <2>2 DEF NoProc
<1>6. ASSUME NEW p \in Procs, DeleteCommit(p) PROVE procs'[q] = procs[q]
  BY <1>3, <1>6 DEF DeleteCommit, NoProc
<1>7. ASSUME NEW id \in Ids, DeleteStart(id) PROVE procs'[q] = procs[q]
  <2>1. Start([NoProc EXCEPT !.at = "refs", !.id = id, !.row = rows[id]])
    BY <1>7 DEF DeleteStart
  <2> QED BY <1>2, <2>1 DEF NoProc
<1>8. ASSUME \/ \E id \in Ids : \E name, source, auto : UpdateList(id, name, source, auto)
             \/ \E name : ReferTo(name) \/ DropReferences(name)
             \/ \E id \in Ids : \E e \in entries[id] : DeleteEntry(id, e)
      PROVE  procs'[q] = procs[q]
  BY <1>8 DEF UpdateList, ReferTo, DropReferences, DeleteEntry
<1>9. ASSUME NEW id \in Ids, RefreshStart(id) PROVE procs'[q] = procs[q]
  <2>1. Start([NoProc EXCEPT !.at = "fetch", !.id = id, !.row = rows[id]])
    BY <1>9 DEF RefreshStart
  <2> QED BY <1>2, <2>1 DEF NoProc
<1>10. ASSUME NEW id \in Ids, NEW new \in ByHand, AddStart(id, new)
       PROVE  procs'[q] = procs[q]
  <2>1. Start([NoProc EXCEPT !.at = "add", !.id = id, !.new = <<new>>])
    BY <1>10 DEF AddStart
  <2> QED BY <1>2, <2>1 DEF NoProc
<1>11. ASSUME NEW new \in ByHand, BlockStart(new) PROVE procs'[q] = procs[q]
  <2>1. Start([NoProc EXCEPT !.at = "add", !.new = <<new>>,
                 !.id = CHOOSE id \in Ids : /\ rows'[id].state = "here"
                                               /\ rows'[id].name = BlockList])
    BY <1>11 DEF BlockStart
  <2> QED BY <1>2, <2>1 DEF NoProc
<1>12. ASSUME NEW name, NEW source, NEW auto, CreateList(name, source, auto)
       PROVE  procs'[q] = procs[q]
  <2>1. Start(IF source \in Sources \ Hostnames
              THEN [NoProc EXCEPT !.at = "get", !.id = NewId] ELSE NoProc)
    BY <1>12 DEF CreateList
  <2> QED BY <1>2, <2>1 DEF NoProc
<1>13. ASSUME NEW p \in Procs, AddInsert(p) \/ Stamp(p) \/ RefreshFails(p)
       PROVE  procs'[q] = procs[q]
  <2>1. PICK from : Step(p, from, NoProc)
    BY <1>13 DEF AddInsert, Stamp, RefreshFails, Outcome
  <2> QED BY <1>3, <2>1 DEF NoProc
<1>14. ASSUME NEW p \in Procs, RefreshGet(p) PROVE procs'[q] = procs[q]
  <2>1. \/ Step(p, "get", NoProc)
        \/ Step(p, "get", [At(p, "fetch") EXCEPT !.row = rows[procs[p].id]])
    BY <1>14 DEF RefreshGet
  <2>2. [At(p, "fetch") EXCEPT !.row = rows[procs[p].id]].at = "fetch"
    BY AtOK DEF ProcRec, Places
  <2> QED BY <1>3, <2>1, <2>2 DEF NoProc
<1>15. ASSUME NEW p \in Procs, Fetch(p) PROVE procs'[q] = procs[q]
  <2>1. PICK batch : Step(p, "fetch", [At(p, "replace") EXCEPT !.new = batch])
    BY <1>15 DEF Fetch
  <2>2. [At(p, "replace") EXCEPT !.new = batch].at = "replace"
    BY AtOK DEF ProcRec, Places
  <2> QED BY <1>3, <2>1, <2>2
<1>16. ASSUME NEW p \in Procs, Replace(p) PROVE procs'[q] = procs[q]
  <2>1. Step(p, "replace", [At(p, "stamp") EXCEPT !.new = <<>>])
    BY <1>16 DEF Replace
  <2>2. [At(p, "stamp") EXCEPT !.new = <<>>].at = "stamp"
    BY AtOK DEF ProcRec, Places
  <2> QED BY <1>3, <2>1, <2>2
<1>17. CASE LoopWakes \/ Restart
  BY <1>17 DEF LoopWakes, Restart, NoProc
<1>18. CASE LoopNext
  <2>1. PICK id : Step(Refresher, "idle", [NoProc EXCEPT !.at = "fetch", !.id = id,
                                                         !.row = todo[id]])
    BY <1>18 DEF LoopNext
  <2>2. [NoProc EXCEPT !.at = "fetch", !.id = id, !.row = todo[id]].at = "fetch"
    BY DEF NoProc
  <2> QED BY <1>3, <2>1, <2>2 DEF Procs
<1>19. CASE Quiet
  BY <1>4, <1>5, <1>7, <1>8, <1>9, <1>10, <1>13, <1>15, <1>16, <1>17, <1>18, <1>19
     DEF Quiet, Procs
<1> QED BY <1>6, <1>8, <1>11, <1>12, <1>13, <1>14, <1>19, Cases

\* What the check of an add lets through.
LEMMA CheckHolds ==
  ASSUME ProcsInv, NEW p \in Procs, AddCheck(p), procs'[p].at = "insert"
  PROVE  /\ procs'[p].id = procs[p].id /\ procs'[p].new = procs[p].new
         /\ \A e \in entries[procs[p].id], n \in ToSet(procs[p].new) : ~Overlaps(e, n)
<1> DEFINE free == /\ procs[p].id \in Lists
                   /\ \A e \in entries[procs[p].id], n \in ToSet(procs[p].new) : ~Overlaps(e, n)
<1>1. procs'[p] = IF free THEN At(p, "insert") ELSE NoProc
  BY DEF AddCheck, Step, ProcsInv
<1>2. free
  BY <1>1 DEF NoProc
<1> HIDE DEF free
<1>3. procs'[p] = At(p, "insert")
  BY <1>1, <1>2
<1> QED BY <1>2, <1>3, AtOK DEF free, Places

LEMMA OverlapStep ==
  ASSUME ProcsInv, EntriesInv, OverlapInv, [Next]_listsVars
  PROVE  OverlapInv'
\* It is enough that entries are added by nobody but who checked them.
<1> DEFINE Apart(id) == \A e, f \in entries[id] : e # f => ~Overlaps(e, f)
           Waits(p)  == \A e \in entries[procs[p].id], n \in ToSet(procs[p].new) : ~Overlaps(e, n)
<1>1. ASSUME \A id \in Ids : entries'[id] \subseteq entries[id], raced \subseteq raced'
      PROVE  OverlapInv'
  <2>1. \A id \in Ids \ raced' : \A e, f \in entries'[id] : e # f => ~Overlaps(e, f)
    BY <1>1 DEF OverlapInv
  <2>2. ASSUME NEW q \in Procs, procs'[q].at = "insert", procs'[q].id \notin raced'
        PROVE  \A e \in entries'[procs'[q].id], n \in ToSet(procs'[q].new) : ~Overlaps(e, n)
    <3>1. procs'[q].id \in Ids
      <4>1. CASE Next
        BY <2>2, <4>1, Checked, CheckHolds DEF ProcsInv, ProcOK, AddCheck, Step
      <4>2. CASE UNCHANGED listsVars
        BY <2>2, <4>2 DEF listsVars, ProcsInv, ProcOK
      <4> QED BY <4>1, <4>2
    <3>2. \A e \in entries[procs'[q].id], n \in ToSet(procs'[q].new) : ~Overlaps(e, n)
      <4>1. CASE procs'[q] = procs[q]
        BY <1>1, <2>2, <4>1 DEF OverlapInv
      <4>2. CASE Next /\ AddCheck(q)
        BY <2>2, <4>2, CheckHolds
      <4> QED BY <2>2, <4>1, <4>2, Checked DEF listsVars
    <3> QED BY <1>1, <3>1, <3>2
  <2> QED BY <2>1, <2>2 DEF OverlapInv
<1>2. CASE entries' = entries /\ hand' = hand /\ raced' = raced
  BY <1>1, <1>2
<1>3. ASSUME NEW id \in Ids, NEW name, NEW source, NEW auto, UpdateList(id, name, source, auto)
      PROVE  OverlapInv'
  BY <1>1, <1>3 DEF UpdateList
<1>4. ASSUME NEW id \in Ids, NEW e \in entries[id], DeleteEntry(id, e)
      PROVE  OverlapInv'
  <2>1. \A i \in Ids : entries'[i] \subseteq entries[i]
    BY <1>4 DEF DeleteEntry, EntriesInv
  <2> QED BY <1>1, <1>4, <2>1 DEF DeleteEntry
<1>5. ASSUME NEW p \in Procs, DeleteCommit(p)
      PROVE  OverlapInv'
  <2>1. \A i \in Ids : entries'[i] \subseteq entries[i]
    BY <1>5 DEF DeleteCommit, EntriesInv
  <2>2. raced \subseteq raced'
    BY <1>5 DEF DeleteCommit, Stale
  <2> QED BY <1>1, <2>1, <2>2
\* What is inserted was checked, and nothing was added to the list since, or
\* the list is marked.
<1>6. ASSUME NEW p \in Procs, AddInsert(p)
      PROVE  OverlapInv'
  <2> DEFINE id == procs[p].id
  <2>1. PICK n \in ByHand : procs[p].new = <<n>>
    BY <1>6 DEF AddInsert, Step, ProcsInv, ProcOK
  <2>0. ToSet(procs[p].new) = {n}
    BY <2>1, SetOfOne
  <2>2. /\ entries' = [entries EXCEPT ![id] = @ \cup {n}]
        /\ procs' = [procs EXCEPT ![p] = NoProc]
        /\ procs[p].at = "insert"
    BY <1>6, <2>0 DEF AddInsert, Step
  <2>3. /\ raced \subseteq raced'
        /\ \A q \in Procs \ {p} :
              procs[q].at = "insert" /\ procs[q].id = id => id \in raced'
    BY <1>6 DEF AddInsert
  <2>4. ASSUME NEW i \in Ids \ raced', NEW e \in entries'[i], NEW f \in entries'[i], e # f
        PROVE  ~Overlaps(e, f)
    <3>1. CASE i # id
      BY <2>2, <2>3, <2>4, <3>1 DEF OverlapInv, EntriesInv
    <3>2. CASE i = id
      <4>1. entries'[id] = entries[id] \cup {n}
        BY <2>2, <3>2 DEF EntriesInv
      <4>2. \A x \in entries[id] : ~Overlaps(x, n)
        <5>1. id \notin raced
          BY <2>3, <2>4, <3>2
        <5> QED BY <2>0, <2>2, <5>1 DEF OverlapInv
      <4>3. \A x, y \in entries[id] : x # y => ~Overlaps(x, y)
        BY <2>3, <2>4, <3>2 DEF OverlapInv
      <4>4. Overlaps(e, f) => Overlaps(f, e)
        BY DEF Overlaps
      <4> QED BY <2>4, <3>2, <4>1, <4>2, <4>3, <4>4
    <3> QED BY <3>1, <3>2
  <2>5. ASSUME NEW q \in Procs, procs'[q].at = "insert", procs'[q].id \notin raced'
        PROVE  \A e \in entries'[procs'[q].id], m \in ToSet(procs'[q].new) : ~Overlaps(e, m)
    <3>1. q # p /\ procs'[q] = procs[q]
      BY <2>2, <2>5 DEF ProcsInv, NoProc
    <3>2. procs[q].id # id /\ procs[q].id \notin raced
      BY <2>3, <2>5, <3>1
    <3>3. procs[q].id \in Ids
      BY <2>5, <3>1 DEF ProcsInv, ProcOK
    <3>4. entries'[procs[q].id] = entries[procs[q].id]
      BY <2>2, <3>2, <3>3 DEF EntriesInv
    <3> QED BY <2>5, <3>1, <3>2, <3>4 DEF OverlapInv
  <2> QED BY <2>4, <2>5 DEF OverlapInv
\* An answer brings no overlaps; who has checked against what it replaces is
\* marked.
<1>7. ASSUME NEW p \in Procs, Replace(p)
      PROVE  OverlapInv'
  <2> DEFINE id == procs[p].id
  <2>1. procs[p].at = "replace" /\ procs[p].new \in AllAnswers
    BY <1>7 DEF Replace, ProcsInv, ProcOK
  <2>2. /\ entries' = [entries EXCEPT ![id] = Kept[procs[p].new]]
        /\ procs' = [procs EXCEPT ![p] = [At(p, "stamp") EXCEPT !.new = <<>>]]
    BY <1>7 DEF Replace, Step
  <2>3. /\ \A i : i # id => (i \in raced' <=> i \in raced)
        /\ Adding(id) => id \in raced'
    BY <1>7 DEF Replace
  <2>4. [At(p, "stamp") EXCEPT !.new = <<>>].at = "stamp"
    BY AtOK DEF ProcRec, Places
  <2>5. ASSUME NEW i \in Ids \ raced', NEW e \in entries'[i], NEW f \in entries'[i], e # f
        PROVE  ~Overlaps(e, f)
    <3>1. CASE i # id
      BY <2>2, <2>3, <2>5, <3>1 DEF OverlapInv, EntriesInv
    <3>2. CASE i = id
      <4>1. entries'[i] = Kept[procs[p].new]
        BY <2>2, <3>2 DEF EntriesInv
      <4> QED BY <2>1, <2>5, <4>1, AnswersDisjoint
    <3> QED BY <3>1, <3>2
  <2>6. ASSUME NEW q \in Procs, procs'[q].at = "insert", procs'[q].id \notin raced'
        PROVE  \A e \in entries'[procs'[q].id], m \in ToSet(procs'[q].new) : ~Overlaps(e, m)
    <3>1. q # p /\ procs'[q] = procs[q]
      BY <2>2, <2>4, <2>6 DEF ProcsInv
    <3>2. procs[q].id # id /\ procs[q].id \notin raced
      BY <2>3, <2>6, <3>1 DEF Adding
    <3>3. procs[q].id \in Ids
      BY <2>6, <3>1 DEF ProcsInv, ProcOK
    <3>4. entries'[procs[q].id] = entries[procs[q].id]
      BY <2>2, <3>2, <3>3 DEF EntriesInv
    <3> QED BY <2>6, <3>1, <3>2, <3>4 DEF OverlapInv
  <2> QED BY <2>5, <2>6 DEF OverlapInv
<1> QED BY <1>2, <1>3, <1>4, <1>5, <1>6, <1>7, EntriesCases

-----------------------------------------------------------------------------
(* Theorems                                                                *)

LEMMA Invariance == ListsSpec => []IInv
<1>1. Init => IInv
  BY RowsInit, ProcsInit, RefsInit, EntriesInit DEF IInv
<1>2. IInv /\ [Next]_listsVars => IInv'
  BY RowsStep, ProcsStep, RefsStep, EntriesStep DEF IInv
<1> QED BY <1>1, <1>2, PTL DEF ListsSpec

\* However creations, renames and deletions interleave, no two lists have the
\* same name, and the rows hold what the code puts there.
THEOREM ListsTyped == ListsSpec => []ListsTypeOK
<1>1. IInv => ListsTypeOK
  BY RowsInvGivesType DEF IInv
<1> QED BY <1>1, Invariance, PTL

\* A name that rules refer to is that of a list, although a deletion looks for
\* references some statements before it removes the list, under the name it
\* has read before that; but for the names recorded in loose.
THEOREM RefsAlwaysResolve == ListsSpec => []RefsResolve
<1>1. IInv => RefsResolve
  BY DEF IInv, RefsInv
<1> QED BY <1>1, Invariance, PTL

\* However many refreshes of a list overtake each other, and whatever its row
\* says by the time they end, a list nobody edited holds one answer.
THEOREM NeverAMix == ListsSpec => []OneAnswer
<1>1. IInv => OneAnswer
  BY DEF IInv, EntriesInv, OneAnswer, Lists
<1> QED BY <1>1, Invariance, PTL

\* Whatever sources answer and whatever is added by hand, the entries of a list
\* that did not change between a check and its insert never overlap; "because
\* masked prefixes never partially overlap, a single running cover prefix is
\* enough to catch all containment in one pass" (lists.go:500-503).
THEOREM EntriesDisjoint == ListsSpec => []NoOverlaps
<1>1. Init => OverlapInv
  BY OverlapInit
<1>2. IInv /\ OverlapInv /\ [Next]_listsVars => OverlapInv'
  BY OverlapStep DEF IInv
<1>3. OverlapInv => NoOverlaps
  BY DEF OverlapInv, NoOverlaps, Lists
<1> QED BY <1>1, <1>2, <1>3, Invariance, PTL DEF ListsSpec

\* All of it together: nft takes what is rendered of the lists, and it is what
\* their sources said, through every interleaving of requests, refreshes and
\* restarts.
THEOREM ListsLoad == ListsSpec => []SetsLoad
<1>1. OneAnswer => KeepsWidest
  <2> SUFFICES ASSUME OneAnswer, NEW id \in Lists \ hand, entries[id] # {}
               PROVE  \E batch \in AllAnswers : entries[id] = Widest(batch)
    BY DEF KeepsWidest
  <2>1. PICK batch \in AllAnswers : entries[id] = Kept[batch]
    BY DEF OneAnswer
  <2> QED BY <2>1, AnswersWidest
<1> QED BY <1>1, EntriesDisjoint, RefsAlwaysResolve, NeverAMix, PTL DEF SetsLoad
=============================================================================
