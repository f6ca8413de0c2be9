--------------------------- MODULE ListSyncProofs ---------------------------
(***************************************************************************)
(* What is proved of ListSync, for every set of tables, entries and        *)
(* callers, with or without overlapping edits, and every budget of         *)
(* failures; and then of DriftWatch, which adds the poller and the changes *)
(* made outside nftably, for every bound on these.                         *)
(***************************************************************************)
EXTENDS DriftWatch, ApplyPipelineProofs, FiniteSetTheorems

\* A push, and a confirm once it has deleted the row, only run while no apply
\* is armed; the snapshot covers what the script will replace or remove.
WindowInv ==
    /\ pc \in {"push", "push_record", "confirm_status", "confirm_ledger",
               "confirm_baseline"} => ~Pending
    /\ pc \in {"apply_record", "apply_arm"} =>
          DOMAIN snaps = Owned(cand) \cup ledger
    /\ pc = "apply_load" => DOMAIN row.prev = Owned(cand) \cup ledger

-----------------------------------------------------------------------------
(* What a snapshot undoes                                                  *)

LEMMA UndoesItself ==
    ASSUME NEW k, NEW s
    PROVE  Restored(Restored(k, s), s) = Restored(k, s)
BY DEF Restored

LEMMA UndoesLoad ==
    ASSUME NEW k, NEW c, NEW R, NEW s, Owned(c) \cup R \subseteq DOMAIN s
    PROVE  Restored(Loaded(k, c, R), s) = Restored(k, s)
BY DEF Restored, Loaded, Owned

-----------------------------------------------------------------------------
(* The steps                                                               *)

\* The steps that change neither kernel, row nor ledger keep WindowInv if they
\* start none of the phases it speaks of.
CallStep == \/ EditModel \/ EditList \/ \E a \in Callers : Call(a)
            \/ PushNothing \/ PushRepoint \/ PushRecord

\* A call changes the kernel, the row and the ledger in its push only.
LEMMA CallFrame ==
    ASSUME CallStep
    PROVE  /\ UNCHANGED <<kernel, row, ledger>>
           /\ \/ UNCHANGED <<pc, cand, snaps>>
              \/ pc' = "idle"
              \/ pc = "push" /\ pc' = "push_record"
              \/ pc' = "push" /\ ~Pending
<1> USE DEF Goto, Return, Keep, store, locals, process, vars, syncVars
<1>1. CASE EditModel
  BY <1>1 DEF EditModel, EditTable
<1>2. CASE EditList
  BY <1>2 DEF EditList, SetList
<1>3. ASSUME NEW a \in Callers, NEW x \in Cidrs,
             BlockStart(a, x) \/ UnblockStart(a, x)
      PROVE  UNCHANGED <<kernel, row, ledger, pc, cand, snaps>>
  BY <1>3 DEF BlockStart, UnblockStart
<1>4. ASSUME NEW a \in Callers,
             \/ WriteEntry(a) \/ WriteEntryRefused(a) \/ RefreshStart(a)
             \/ RefreshBefore(a) \/ RefreshReplace(a) \/ RefreshAfter(a)
             \/ RefreshFails(a) \/ PushSkips(a)
      PROVE  UNCHANGED <<kernel, row, ledger, pc, cand, snaps>>
  BY <1>4 DEF WriteEntry, WriteEntryRefused, RefreshStart, RefreshBefore,
     RefreshReplace, RefreshAfter, RefreshFails, PushSkips, SetList
<1>5. ASSUME NEW a \in Callers, PushBegin(a)
      PROVE  UNCHANGED <<kernel, row, ledger>> /\ pc' = "push" /\ ~Pending
  BY <1>5 DEF PushBegin, InSync
<1>6. CASE PushNothing \/ PushRepoint \/ PushRecord
  BY <1>6 DEF PushNothing, PushRepoint, PushRecord
<1> QED
  BY <1>1, <1>2, <1>3, <1>4, <1>5, <1>6 DEF CallStep, Call

\* Every step keeps WindowInv.
LEMMA WindowStep ==
    ASSUME WindowInv, [SyncNext]_allVars
    PROVE  WindowInv'
<1> USE DEF WindowInv, Pending
<1>1. CASE Apply
  <2>1. CASE ApplySnapshot
    <3>1. DOMAIN snaps' = Owned(cand) \cup ledger
      BY <2>1 DEF ApplySnapshot, Listing
    <3> QED
      BY <2>1, <3>1 DEF ApplySnapshot, Goto, store, Owned
  <2>2. CASE ApplyRecord
    BY <2>2 DEF ApplyRecord, Goto, Owned
  <2>3. CASE ApplyArm
    BY <2>3 DEF ApplyArm, Goto, locals, Owned
  <2>4. CASE pc' \in {"idle", "apply_snapshot", "fail_clear", "fail_status"}
    BY <2>4
  <2> QED
    BY <1>1, <2>1, <2>2, <2>3, <2>4 DEF Goto, Return, Apply, ApplyBegin,
       ApplyAbandon, ApplyArmFails, ApplyLoad, ApplyLoadFails, ApplyFailClear,
       ApplyFailStatus
<1>2. CASE Confirm
  BY <1>2 DEF Goto, Return, Confirm, ConfirmBegin, ConfirmClear,
     ConfirmStatus, ConfirmFails, ConfirmLedger, ConfirmBaseline, NoRow
<1>3. CASE Revert
  BY <1>3 DEF Goto, Return, store, locals, Revert, RollbackBegin, TimerFires,
     Recover, RecoverReturns, RevertLoad, RevertLoadFails, RevertClear,
     RevertClearFails, RevertStatus, AutoRevert, AutoRevertReturns, Owned
<1>4. CASE Restart \/ SyncCrash
  BY <1>4 DEF Restart, Goto, SyncCrash, Crash
<1>5. CASE CallStep
  BY <1>5, CallFrame DEF Owned
<1>6. CASE PushElements
  BY <1>6 DEF PushElements, process, locals, store
<1>7. CASE UNCHANGED allVars
  BY <1>7 DEF allVars, vars, store, process, locals, Owned
<1> QED
  BY <1>1, <1>2, <1>3, <1>4, <1>5, <1>6, <1>7 DEF SyncNext, CallStep, Push

\* No step in a window changes what the apply and the pushes write, except the
\* script of the apply or of its revert.
Undisturbed ==
    Pending /\ ~Loading =>
        /\ UNCHANGED <<kernel, baseline>>
        /\ \A v \in DOMAIN versions : versions'[v].config = versions[v].config

\* A status is all that the pipeline changes of a version it has recorded.
LEMMA StatusKeepsConfig ==
    ASSUME StateOK, NEW v, NEW st, SetStatus(v, st)
    PROVE  \A w \in DOMAIN versions : versions'[w].config = versions[w].config
<1> SUFFICES ASSUME NEW w \in DOMAIN versions
             PROVE  versions'[w].config = versions[w].config
  OBVIOUS
<1>1. versions[w] \in Version
  BY DEF StateOK
<1> QED
  BY <1>1 DEF SetStatus, Version

\* Every step leaves an open window undisturbed.
LEMMA UndisturbedStep ==
    ASSUME StateOK, WindowInv, [SyncNext]_allVars
    PROVE  Undisturbed
<1> SUFFICES ASSUME Pending, ~Loading
             PROVE  /\ UNCHANGED <<kernel, baseline>>
                    /\ \A v \in DOMAIN versions :
                          versions'[v].config = versions[v].config
  BY DEF Undisturbed
<1>0. pc \notin {"push", "push_record", "confirm_status", "confirm_ledger",
                 "confirm_baseline", "apply_load", "revert_load"}
  BY DEF WindowInv, Loading
<1>1. CASE UNCHANGED <<kernel, baseline, versions>>
  BY <1>1
<1>2. ASSUME NEW v, NEW st, SetStatus(v, st), UNCHANGED <<kernel, baseline>>
      PROVE  \A w \in DOMAIN versions : versions'[w].config = versions[w].config
  BY <1>2, StatusKeepsConfig
<1>3. CASE Apply
  <2>1. CASE ApplyRecord
    <3>1. PICK x : versions' = Append(versions, x)
      BY <2>1 DEF ApplyRecord
    <3>2. \A w \in DOMAIN versions : versions'[w] = versions[w]
      BY <3>1 DEF StateOK
    <3> QED
      BY <2>1, <3>2 DEF ApplyRecord
  <2>2. CASE ApplyFailStatus
    BY <1>1, <1>2, <2>2 DEF ApplyFailStatus
  <2> QED
    BY <1>0, <1>1, <1>3, <2>1, <2>2 DEF Goto, Apply, ApplyBegin, ApplySnapshot,
       ApplyAbandon, ApplyArm, ApplyArmFails, ApplyLoad, ApplyLoadFails,
       ApplyFailClear, store
<1>4. CASE Confirm
  BY <1>0, <1>1, <1>4 DEF Goto, Confirm, ConfirmBegin, ConfirmClear,
     ConfirmStatus, ConfirmFails, ConfirmLedger, ConfirmBaseline, store
<1>5. CASE Revert
  <2>1. CASE RevertStatus
    BY <1>1, <1>2, <2>1 DEF RevertStatus
  <2> QED
    BY <1>0, <1>1, <1>5, <2>1 DEF Goto, Revert, RollbackBegin, TimerFires,
       Recover, RecoverReturns, RevertLoad, RevertLoadFails, RevertClear,
       RevertClearFails, AutoRevert, AutoRevertReturns, store
<1>6. CASE Restart \/ SyncCrash \/ UNCHANGED allVars
  BY <1>1, <1>6 DEF Restart, SyncCrash, Crash, store, allVars, vars
<1>7. CASE EditModel \/ EditList \/ Push
  BY <1>0, <1>1, <1>7 DEF EditModel, EditTable, EditList, Push, PushElements,
     PushNothing, PushRepoint, PushRecord, Goto
<1>8. ASSUME NEW a \in Callers, Call(a)
      PROVE  UNCHANGED <<kernel, baseline, versions>>
  BY <1>8 DEF Call, BlockStart, UnblockStart, WriteEntry, WriteEntryRefused,
     RefreshStart, RefreshBefore, RefreshReplace, RefreshAfter, RefreshFails,
     PushBegin, PushSkips, Keep, vars, store
<1> QED
  BY <1>1, <1>3, <1>4, <1>5, <1>6, <1>7, <1>8 DEF SyncNext

-----------------------------------------------------------------------------
(* What is pushed                                                          *)

\* A push is one call's, from the moment it takes applyMu.
IsPusher(a) == calls[a].at \in {"pushing", "recording"}

PusherInv ==
    /\ pc \in {"push", "push_record"} => \E a \in Callers : IsPusher(a)
    /\ \A a \in Callers :
          /\ calls[a].at = "pushing"   => pc = "push"
          /\ calls[a].at = "recording" => pc = "push_record"
    /\ \A a, b \in Callers : IsPusher(a) /\ IsPusher(b) => a = b

SyncInv == IInv /\ SyncTypeOK /\ PusherInv

\* One call at a time works on the list if nothing overlaps.
AloneInv ==
    \A a, b \in Callers : calls[a].at # "idle" /\ calls[b].at # "idle" => a = b

\* What a call knows of the model it began with, when nobody else works on the
\* list: the difference it computed leads from there to the model as it is.
CallInv ==
    \A a \in Callers :
       LET c == calls[a] IN
       /\ c.at \in {"add", "delete", "before", "replace"} => model = c.prior
       /\ c.at = "add" => c.del = {}
       /\ c.at = "delete" => c.add = {}
       /\ c.at = "replace" => c.del = list
       /\ c.at \in {"after", "push", "pushing", "recording"} =>
             Owned(model) = Owned(c.prior)
       /\ c.at = "after" => \A t \in Owned(model) : c.prior[t] = c.del
       /\ c.at \in {"push", "pushing", "recording"} =>
             /\ c.add \cap c.del = {}
             /\ \A t \in Owned(model) :
                   /\ c.del \subseteq c.prior[t]
                   /\ model[t] = (c.prior[t] \ c.del) \cup c.add

\* What is still to be deleted or added, of which table.
Elems(s) == {s[i] : i \in DOMAIN s}
Once(s)  == \A i, j \in DOMAIN s : s[i] = s[j] => i = j

\* What table t holds in the middle of a push that has the runs T before it.
Between(a, t, T) ==
    (calls[a].prior[t] \ IF <<"del", t>> \in T THEN {} ELSE calls[a].del)
       \cup IF <<"add", t>> \in T THEN {} ELSE calls[a].add

\* In the middle of a push that meets no failure, the kernel is on its way from
\* the model before the call, which is the confirmed one, to the model as it is.
PushOK(a) ==
    /\ \E v \in DOMAIN versions :
          IsLastConfirmed(v) /\ versions[v].config = calls[a].prior
    /\ cand = model
    /\ job.ok
    /\ Once(job.todo)
    /\ \A i \in DOMAIN job.todo : job.todo[i][2] \in Owned(model)
    /\ \A t \in Owned(model) : kernel[t] = Between(a, t, Elems(job.todo))
    /\ ~job.pushed => \A t \in Owned(model) : kernel[t] = calls[a].prior[t]

PushInv == \A a \in Callers : calls[a].at = "pushing" => PushOK(a)

\* ApplyPipeline's invariants of what runs, put off while a push is at work.
RunningInv ==
    /\ LatestInv /\ SettledInv /\ LastExists /\ SnapshotInv
    /\ RunsInv
    /\ pc # "push" => InForceInv

-----------------------------------------------------------------------------
(* The nft runs of a push                                                  *)

\* An order of a finite set names each of its elements once.
LEMMA OrderNames ==
    ASSUME NEW S \in SUBSET Tables, NEW order \in SetToSeqs(S)
    PROVE  /\ Len(order) \in Nat /\ DOMAIN order = 1 .. Len(order)
           /\ \A i \in DOMAIN order : order[i] \in S
           /\ \A i, j \in DOMAIN order : order[i] = order[j] => i = j
           /\ \A t \in S : \E i \in DOMAIN order : order[i] = t
<1> DEFINE n == Cardinality(S)
<1>1. IsFiniteSet(S) /\ n \in Nat
  BY TablesAreFinite, FS_Subset, FS_CardinalityType
<1>2. /\ order \in [1 .. n -> S]
      /\ \A i, j \in 1 .. n : i # j => order[i] # order[j]
  BY DEF SetToSeqs
<1>3. Len(order) = n /\ DOMAIN order = 1 .. n
  BY <1>1, <1>2
<1>4. order \in Injection(1 .. n, S)
  BY <1>2 DEF Injection, IsInjective
<1>5. Cardinality(1 .. n) = n
  BY <1>1, FS_Interval
<1>6. order \in Surjection(1 .. n, S)
  BY <1>1, <1>4, <1>5, FS_Injection
<1>7. \A t \in S : \E i \in 1 .. n : order[i] = t
  BY <1>6 DEF Surjection
<1> QED
  BY <1>1, <1>2, <1>3, <1>7

\* Every table gets each kind of change that is not empty, once.
LEMMA OperationsCover ==
    ASSUME NEW a \in Callers, NEW S \in SUBSET Tables,
           NEW order \in SetToSeqs(S)
    PROVE  LET ops == Operations(a, order) IN
           /\ ops \in Seq({"add", "del"} \X Tables)
           /\ \A i, j \in DOMAIN ops : ops[i] = ops[j] => i = j
           /\ \A i \in DOMAIN ops : ops[i][2] \in S
           /\ \A t \in S :
                 /\ calls[a].del # {} =>
                       \E i \in DOMAIN ops : ops[i] = <<"del", t>>
                 /\ calls[a].add # {} =>
                       \E i \in DOMAIN ops : ops[i] = <<"add", t>>
<1> DEFINE n    == Len(order)
           add  == [i \in 1 .. n |-> <<"add", order[i]>>]
           del  == [i \in 1 .. n |-> <<"del", order[i]>>]
           both == [i \in 1 .. (2 * n) |->
                       <<IF i % 2 = 1 THEN "del" ELSE "add",
                         order[(i + 1) \div 2]>>]
<1>1. /\ n \in Nat /\ DOMAIN order = 1 .. n
      /\ \A i \in 1 .. n : order[i] \in S /\ order[i] \in Tables
      /\ \A i, j \in 1 .. n : order[i] = order[j] => i = j
      /\ \A t \in S : \E i \in 1 .. n : order[i] = t
  BY OrderNames
<1>2. Operations(a, order) = IF calls[a].del = {} THEN add
                             ELSE IF calls[a].add = {} THEN del ELSE both
  BY DEF Operations
<1> HIDE DEF n
<1>3. CASE calls[a].del = {}
  <2>1. /\ add \in Seq({"add", "del"} \X Tables)
        /\ DOMAIN add = 1 .. n
        /\ \A i \in 1 .. n : add[i] = <<"add", order[i]>>
    BY <1>1
  <2>2. Operations(a, order) = add
    BY <1>2, <1>3
  <2> HIDE DEF add
  <2>3. \A t \in S : \E i \in DOMAIN add : add[i] = <<"add", t>>
    BY <1>1, <2>1
  <2>4. \A i, j \in DOMAIN add : add[i] = add[j] => i = j
    BY <1>1, <2>1
  <2>5. \A i \in DOMAIN add : add[i][2] \in S
    BY <1>1, <2>1
  <2> QED
    BY <1>3, <2>1, <2>2, <2>3, <2>4, <2>5
<1>4. CASE calls[a].del # {} /\ calls[a].add = {}
  <2>1. /\ del \in Seq({"add", "del"} \X Tables)
        /\ DOMAIN del = 1 .. n
        /\ \A i \in 1 .. n : del[i] = <<"del", order[i]>>
    BY <1>1
  <2>2. Operations(a, order) = del
    BY <1>2, <1>4
  <2> HIDE DEF del
  <2>3. \A t \in S : \E i \in DOMAIN del : del[i] = <<"del", t>>
    BY <1>1, <2>1
  <2>4. \A i, j \in DOMAIN del : del[i] = del[j] => i = j
    BY <1>1, <2>1
  <2>5. \A i \in DOMAIN del : del[i][2] \in S
    BY <1>1, <2>1
  <2> QED
    BY <1>4, <2>1, <2>2, <2>3, <2>4, <2>5
<1>5. CASE calls[a].del # {} /\ calls[a].add # {}
  <2>0. \A i \in 1 .. (2 * n) : (i + 1) \div 2 \in 1 .. n
    BY <1>1
  <2>1. /\ both \in Seq({"add", "del"} \X Tables)
        /\ DOMAIN both = 1 .. (2 * n)
        /\ \A i \in 1 .. (2 * n) :
              /\ both[i] = <<IF i % 2 = 1 THEN "del" ELSE "add",
                             order[(i + 1) \div 2]>>
              /\ both[i][2] \in S
    BY <1>1, <2>0
  <2>2. Operations(a, order) = both
    BY <1>2, <1>5
  <2>3. ASSUME NEW i \in 1 .. (2 * n), NEW j \in 1 .. (2 * n), both[i] = both[j]
        PROVE  i = j
    <3>1. (i % 2 = 1) <=> (j % 2 = 1)
      BY <2>1, <2>3
    <3>2. (i + 1) \div 2 = (j + 1) \div 2
      BY <1>1, <2>0, <2>1, <2>3
    <3> QED
      BY <3>1, <3>2, <1>1
  <2>4. ASSUME NEW t \in S
        PROVE  /\ \E i \in 1 .. (2 * n) : both[i] = <<"del", t>>
               /\ \E i \in 1 .. (2 * n) : both[i] = <<"add", t>>
    <3>1. PICK i \in 1 .. n : order[i] = t
      BY <1>1
    <3>2. /\ 2 * i - 1 \in 1 .. (2 * n) /\ 2 * i \in 1 .. (2 * n)
          /\ (2 * i - 1) % 2 = 1 /\ (2 * i) % 2 = 0
          /\ (2 * i - 1 + 1) \div 2 = i /\ (2 * i + 1) \div 2 = i
      BY <1>1
    <3>3. both[2 * i - 1] = <<"del", order[(2 * i - 1 + 1) \div 2]>>
      BY <2>1, <3>2
    <3>4. both[2 * i] = <<"add", order[(2 * i + 1) \div 2]>>
      BY <2>1, <3>2
    <3> QED
      BY <3>1, <3>2, <3>3, <3>4
  <2> HIDE DEF both
  <2> QED
    BY <1>5, <2>1, <2>2, <2>3, <2>4
<1> QED
  BY <1>3, <1>4, <1>5

-----------------------------------------------------------------------------
(* Types                                                                   *)

Calls == [Callers ->
            [at    : {"idle", "add", "delete", "before", "replace", "after",
                      "push", "pushing", "recording"},
             prior : Configs, add : SUBSET Cidrs, del : SUBSET Cidrs]]
Jobs  == [todo : Seq({"add", "del"} \X Tables), pushed : BOOLEAN, ok : BOOLEAN]

\* The caller in the push is the one Pusher names.
LEMMA PusherIs ==
    ASSUME PusherInv
    PROVE  /\ \A a \in Callers : IsPusher(a) => a = Pusher
           /\ pc \in {"push", "push_record"} => Pusher \in Callers
           /\ pc = "push" => calls[Pusher].at = "pushing"
           /\ pc = "push_record" => calls[Pusher].at = "recording"
<1>1. ASSUME NEW a \in Callers, IsPusher(a)
      PROVE  Pusher \in Callers /\ IsPusher(Pusher)
  BY <1>1 DEF Pusher, IsPusher
<1>2. pc \in {"push", "push_record"} => Pusher \in Callers /\ IsPusher(Pusher)
  BY <1>1 DEF PusherInv
<1> QED
  BY <1>1, <1>2 DEF PusherInv, IsPusher

LEMMA EmptyCall == NoCall \in [at    : {"idle"}, prior : Configs,
                               add : SUBSET Cidrs, del : SUBSET Cidrs]
BY EmptyTypes DEF NoCall

LEMMA EmptyJob == NoJob \in Jobs
BY DEF NoJob, Jobs

\* A table that refers to the list renders it; the list is no table's absence.
LEMMA ListIsContent ==
    ASSUME NEW l \in SUBSET Cidrs
    PROVE  l \in Contents /\ l \in Cell /\ l # Absent
BY ContentsAreElements, AbsentAssumption DEF Cell

\* A new list reaches every table that is there.
LEMMA SetListType ==
    ASSUME StateOK, NEW l \in SUBSET Cidrs, SetList(l)
    PROVE  /\ list' = l /\ l \in SUBSET Cidrs
           /\ model' \in Configs
           /\ Owned(model') = Owned(model)
           /\ \A t \in Owned(model') : model'[t] = l
<1>1. list' = l /\ model' = [t \in Tables |-> IF t \in Owned(model) THEN l ELSE Absent]
  BY DEF SetList
<1>2. l \in Cell /\ Absent \in Cell /\ l # Absent
  BY ListIsContent DEF Cell
<1>3. model' \in Configs
  BY <1>1, <1>2 DEF Configs
<1>4. Owned(model') = Owned(model)
  BY <1>1, <1>2 DEF Owned
<1> QED
  BY <1>1, <1>3, <1>4 DEF Owned

\* Re-pointing a version changes its configuration and nothing else.
LEMMA RepointChanges ==
    ASSUME versions \in Seq(Version), NEW n, NEW c \in Configs,
           versions' = [versions EXCEPT ![n].config = c]
    PROVE  /\ versions' \in Seq(Version)
           /\ Len(versions') = Len(versions)
           /\ DOMAIN versions' = DOMAIN versions
           /\ \A w \in DOMAIN versions :
                 /\ versions'[w].status = versions[w].status
                 /\ versions'[w].config = IF w = n THEN c
                                                   ELSE versions[w].config
<1> DEFINE Updated(r) == [r EXCEPT !.config = c]
<1>1. \A r \in Version :
         /\ Updated(r) \in Version
         /\ Updated(r).status = r.status /\ Updated(r).config = c
  BY DEF Version
<1>2. versions' = [versions EXCEPT ![n] = Updated(versions[n])]
  OBVIOUS
<1> HIDE DEF Updated
<1>3. CASE n \in DOMAIN versions
  BY <1>1, <1>2, <1>3
<1>4. CASE n \notin DOMAIN versions
  <2>1. versions' = [w \in DOMAIN versions |-> versions[w]]
    BY <1>2, <1>4
  <2>2. versions' = versions
    BY <2>1
  <2> QED
    BY <1>4, <2>2
<1> QED
  BY <1>3, <1>4

-----------------------------------------------------------------------------
(* The steps next to the pipeline                                          *)

\* The pipeline works on; the list and the calls know nothing of it.
Pipeline == /\ Apply \/ Confirm \/ Revert \/ Restart \/ UNCHANGED vars
            /\ UNCHANGED syncVars

\* A step of a handler leaves the calls and the lists alone.
LEMMA PipelineFrame ==
    ASSUME Pipeline
    PROVE  /\ [Next]_vars
           /\ UNCHANGED <<model, list, calls, job>>
           /\ \/ pc' = pc
              \/ pc \notin {"push", "push_record"} /\ pc' \notin {"push", "push_record"}
<1>1. [Next]_vars /\ UNCHANGED <<list, calls, job>>
  BY DEF Pipeline, Next, syncVars
<1>2. UNCHANGED model
  BY DEF Pipeline, vars, store, Apply, ApplyBegin, ApplySnapshot, ApplyAbandon,
     ApplyRecord, ApplyArm, ApplyArmFails, ApplyLoad, ApplyLoadFails,
     ApplyFailClear, ApplyFailStatus, Confirm, ConfirmBegin, ConfirmClear,
     ConfirmStatus, ConfirmFails, ConfirmLedger, ConfirmBaseline, Revert,
     RollbackBegin, TimerFires, Recover, RecoverReturns, RevertLoad,
     RevertLoadFails, RevertClear, RevertClearFails, RevertStatus, AutoRevert,
     AutoRevertReturns, Restart
<1> USE DEF Goto, Return
<1>3. CASE Apply
  BY <1>1, <1>2, <1>3 DEF Apply, ApplyBegin, ApplySnapshot, ApplyAbandon, ApplyRecord,
     ApplyArm, ApplyArmFails, ApplyLoad, ApplyLoadFails, ApplyFailClear,
     ApplyFailStatus
<1>4. CASE Confirm
  BY <1>1, <1>2, <1>4 DEF Confirm, ConfirmBegin, ConfirmClear, ConfirmStatus,
     ConfirmFails, ConfirmLedger, ConfirmBaseline
<1>5. CASE Revert
  BY <1>1, <1>2, <1>5 DEF Revert, RollbackBegin, TimerFires, Recover, RecoverReturns,
     RevertLoad, RevertLoadFails, RevertClear, RevertClearFails, RevertStatus,
     AutoRevert, AutoRevertReturns
<1>6. CASE Restart \/ UNCHANGED vars
  BY <1>1, <1>2, <1>6 DEF Restart, vars
<1> QED
  BY <1>3, <1>4, <1>5, <1>6 DEF Pipeline

\* An edit of the operator is one of the pipeline's model.
LEMMA EditModelFrame ==
    ASSUME SyncTypeOK, EditModel
    PROVE  /\ [Next]_vars
           /\ \E t \in Tables, c \in {list, Absent} :
                 model' = [model EXCEPT ![t] = c]
           /\ UNCHANGED <<versions, row, ledger, baseline, kernel, process,
                          faults, list, calls, job>>
<1>1. PICK t \in Tables, c \in {list, Absent} : EditTable(t, c)
  BY DEF EditModel
<1>2. c \in Cell
  BY ListIsContent DEF SyncTypeOK, Cell
<1> QED
  BY <1>1, <1>2 DEF EditModel, EditTable, Next, Edit, syncVars

Phases == {"idle", "add", "delete", "before", "replace", "after", "push",
           "pushing", "recording"}

CallState == [at : Phases, prior : Configs, add : SUBSET Cidrs,
              del : SUBSET Cidrs]

\* The call of a goes on with these locals.
Moved(a, at, prior, add, del) ==
    LET c == calls'[a] IN
    /\ calls' = [calls EXCEPT ![a] = c]
    /\ c \in CallState
    /\ c.at = at /\ c.prior = prior /\ c.add = add /\ c.del = del

\* It goes on as it is.
MovedTo(a, at) == Moved(a, at, calls[a].prior, calls[a].add, calls[a].del)
Ended(a) == Moved(a, "idle", AllAbsent, {}, {})

LEMMA CallStates ==
    ASSUME StateOK, SyncTypeOK
    PROVE  /\ \A a \in Callers : calls[a] \in CallState
           /\ NoCall \in CallState /\ list \in SUBSET Cidrs /\ model \in Configs
BY EmptyCall DEF SyncTypeOK, StateOK, CallState, Phases

\* Writing one caller's record moves that caller and no other.
LEMMA Moves ==
    ASSUME StateOK, SyncTypeOK, NEW a \in Callers, NEW c \in CallState,
           calls' = [calls EXCEPT ![a] = c]
    PROVE  Moved(a, c.at, c.prior, c.add, c.del)
BY DEF Moved, SyncTypeOK

\* A caller whose record is emptied is done.
LEMMA Ends ==
    ASSUME StateOK, SyncTypeOK, NEW a \in Callers,
           calls' = [calls EXCEPT ![a] = NoCall]
    PROVE  Ended(a)
<1>1. NoCall \in CallState
  BY CallStates
<1>2. Moved(a, NoCall.at, NoCall.prior, NoCall.add, NoCall.del)
  BY <1>1, Moves
<1> QED
  BY <1>2 DEF Ended, NoCall

\* The steps of a call that only look.
LocalCall(a) ==
    \/ \E x \in Cidrs : BlockStart(a, x) \/ UnblockStart(a, x)
    \/ WriteEntryRefused(a) \/ RefreshStart(a) \/ RefreshBefore(a)
    \/ RefreshAfter(a)

\* A step of a call before its push changes that call only.
LEMMA LocalCallMoves ==
    ASSUME StateOK, SyncTypeOK, NEW a \in Callers, LocalCall(a)
    PROVE  /\ UNCHANGED <<vars, list, job>>
           /\ \/ /\ calls[a].at = "idle" /\ Alone({a})
                 /\ \/ \E x \in Cidrs : Moved(a, "add", model, {x}, {})
                    \/ \E x \in list : Moved(a, "delete", model, {}, {x})
                    \/ Moved(a, "before", model, {}, {})
              \/ calls[a].at \in {"add", "delete"} /\ Ended(a)
              \/ /\ calls[a].at = "before"
                 /\ Moved(a, "replace", calls[a].prior, calls[a].add, list)
              \/ /\ calls[a].at = "after"
                 /\ Moved(a, "push", calls[a].prior, list \ calls[a].del,
                          calls[a].del \ list)
<1> USE DEF Step, Keep
<1> DEFINE c == calls[a]
<1>0. /\ c \in CallState /\ NoCall \in CallState
      /\ list \in SUBSET Cidrs /\ model \in Configs
  BY CallStates
<1> HIDE DEF c
<1>1. ASSUME NEW x \in Cidrs, BlockStart(a, x)
      PROVE  Moved(a, "add", model, {x}, {})
  <2> DEFINE d == [NoCall EXCEPT !.at = "add", !.prior = model,
                                  !.add = {x}]
  <2>1. /\ d \in CallState
        /\ d.at = "add" /\ d.prior = model
        /\ d.add = {x} /\ d.del = {}
    BY <1>0 DEF CallState, Phases, NoCall
  <2>2. calls' = [calls EXCEPT ![a] = d]
    BY <1>1 DEF BlockStart
  <2> HIDE DEF d
  <2>3. Moved(a, d.at, d.prior, d.add, d.del)
    BY <2>1, <2>2, Moves
  <2> QED
    BY <1>1, <2>1, <2>3 DEF BlockStart
<1>2. ASSUME NEW x \in Cidrs, UnblockStart(a, x)
      PROVE  Moved(a, "delete", model, {}, {x})
  <2> DEFINE d == [NoCall EXCEPT !.at = "delete", !.prior = model,
                                  !.del = {x}]
  <2>1. /\ d \in CallState
        /\ d.at = "delete" /\ d.prior = model
        /\ d.add = {} /\ d.del = {x}
    BY <1>0 DEF CallState, Phases, NoCall
  <2>2. calls' = [calls EXCEPT ![a] = d]
    BY <1>2 DEF UnblockStart
  <2> HIDE DEF d
  <2>3. Moved(a, d.at, d.prior, d.add, d.del)
    BY <2>1, <2>2, Moves
  <2> QED
    BY <1>2, <2>1, <2>3 DEF UnblockStart
<1>3. ASSUME RefreshStart(a)
      PROVE  Moved(a, "before", model, {}, {})
  <2> DEFINE d == [NoCall EXCEPT !.at = "before", !.prior = model]
  <2>1. /\ d \in CallState
        /\ d.at = "before" /\ d.prior = model
        /\ d.add = {} /\ d.del = {}
    BY <1>0 DEF CallState, Phases, NoCall
  <2>2. calls' = [calls EXCEPT ![a] = d]
    BY <1>3 DEF RefreshStart
  <2> HIDE DEF d
  <2>3. Moved(a, d.at, d.prior, d.add, d.del)
    BY <2>1, <2>2, Moves
  <2> QED
    BY <1>3, <2>1, <2>3 DEF RefreshStart
<1>4. WriteEntryRefused(a) => calls[a].at \in {"add", "delete"} /\ Ended(a)
  BY Ends DEF WriteEntryRefused
<1>5. ASSUME RefreshBefore(a)
      PROVE  /\ calls[a].at = "before"
             /\ Moved(a, "replace", calls[a].prior, calls[a].add, list)
  <2> DEFINE d == [c EXCEPT !.at = "replace", !.del = list]
  <2>1. /\ d \in CallState
        /\ d.at = "replace" /\ d.prior = c.prior
        /\ d.add = c.add /\ d.del = list
    BY <1>0 DEF CallState, Phases
  <2>2. calls' = [calls EXCEPT ![a] = d]
    BY <1>5 DEF RefreshBefore, c
  <2> HIDE DEF d
  <2>3. Moved(a, d.at, d.prior, d.add, d.del)
    BY <2>1, <2>2, Moves
  <2> QED
    BY <1>5, <2>1, <2>3 DEF c, RefreshBefore
<1>6. ASSUME RefreshAfter(a)
      PROVE  /\ calls[a].at = "after"
             /\ Moved(a, "push", calls[a].prior, list \ calls[a].del,
                      calls[a].del \ list)
  <2> DEFINE d == [c EXCEPT !.at = "push", !.add = list \ c.del,
                            !.del = c.del \ list]
  <2>1. /\ d \in CallState
        /\ d.at = "push" /\ d.prior = c.prior
        /\ d.add = list \ c.del /\ d.del = c.del \ list
    BY <1>0 DEF CallState, Phases
  <2>2. calls' = [calls EXCEPT ![a] = d]
    BY <1>6 DEF RefreshAfter, c
  <2> HIDE DEF d
  <2>3. Moved(a, d.at, d.prior, d.add, d.del)
    BY <2>1, <2>2, Moves
  <2> QED
    BY <1>6, <2>1, <2>3 DEF c, RefreshAfter
<1> QED
  BY <1>1, <1>2, <1>3, <1>4, <1>5, <1>6 DEF LocalCall, BlockStart,
     UnblockStart, RefreshStart, RefreshBefore, RefreshAfter,
     WriteEntryRefused

\* A call that only moves on.
LEMMA Advances ==
    ASSUME StateOK, SyncTypeOK, NEW a \in Callers, NEW s \in Phases,
           calls' = [calls EXCEPT ![a] = [calls[a] EXCEPT !.at = s]]
    PROVE  MovedTo(a, s)
<1> DEFINE c == calls[a]
           d == [c EXCEPT !.at = s]
<1>1. c \in CallState
  BY CallStates
<1>2. calls' = [calls EXCEPT ![a] = d]
  OBVIOUS
<1> HIDE DEF c
<1>3. d \in CallState /\ d.at = s /\ d.prior = c.prior /\ d.add = c.add /\ d.del = c.del
  BY <1>1 DEF CallState
<1> HIDE DEF d
<1>4. Moved(a, d.at, d.prior, d.add, d.del)
  BY <1>2, <1>3, Moves
<1> QED
  BY <1>3, <1>4 DEF MovedTo, c

\* A failed statement ends a refresh, or lets it go on without what it read.
LEMMA FailedRefreshMoves ==
    ASSUME StateOK, SyncTypeOK, NEW a \in Callers, RefreshFails(a)
    PROVE  /\ UNCHANGED <<store, kernel, process, list, job>> /\ Fail("db")
           /\ calls[a].at \in {"before", "replace", "after"}
           /\ MovedTo(a, "replace") \/ Ended(a)
<1>1. CASE Step(a, "before", [calls[a] EXCEPT !.at = "replace"])
  BY <1>1, Advances DEF RefreshFails, Step, Phases
<1>2. CASE \E from \in {"replace", "after"} : Step(a, from, NoCall)
  BY <1>2, Ends DEF RefreshFails, Step
<1> QED
  BY <1>1, <1>2 DEF RefreshFails

\* The steps that write the list.
ListWrite(a) == WriteEntry(a) \/ RefreshReplace(a)

\* A call that writes the list gives it its own change.
LEMMA ListWriteMoves ==
    ASSUME StateOK, SyncTypeOK, NEW a \in Callers, ListWrite(a)
    PROVE  /\ UNCHANGED <<versions, row, ledger, baseline, kernel, process,
                          faults, job>>
           /\ \/ /\ \/ calls[a].at = "add" /\ list \cap calls[a].add = {}
                    \/ calls[a].at = "delete" /\ calls[a].del \subseteq list
                 /\ MovedTo(a, "push")
                 /\ SetList((list \ calls[a].del) \cup calls[a].add)
              \/ /\ calls[a].at = "replace"
                 /\ MovedTo(a, "after")
                 /\ \E feed \in SUBSET Cidrs : SetList(feed)
<1>1. WriteEntry(a) => MovedTo(a, "push")
  BY Advances DEF WriteEntry, Step, Phases
<1>2. RefreshReplace(a) => MovedTo(a, "after")
  BY Advances DEF RefreshReplace, Step, Phases
<1> QED
  BY <1>1, <1>2 DEF ListWrite, WriteEntry, RefreshReplace, Step

\* A push moves the caller it is for.
LEMMA PushMoves ==
    ASSUME StateOK, SyncTypeOK, PusherInv
    PROVE  /\ \A a \in Callers :
                 /\ PushBegin(a) => calls[a].at = "push" /\ MovedTo(a, "pushing")
                 /\ PushSkips(a) => calls[a].at = "push" /\ Ended(a)
           /\ PushNothing \/ PushRecord => Pusher \in Callers /\ Ended(Pusher)
           /\ PushRepoint => Pusher \in Callers /\ MovedTo(Pusher, "recording")
<1>1. \A a \in Callers : PushSkips(a) => calls[a].at = "push" /\ Ended(a)
  BY Ends DEF PushSkips, Step
<1>2. ASSUME PushNothing \/ PushRecord
      PROVE  Pusher \in Callers /\ Ended(Pusher)
  BY <1>2, PusherIs, Ends DEF PushNothing, PushRecord
<1>3. ASSUME PushRepoint
      PROVE  Pusher \in Callers /\ MovedTo(Pusher, "recording")
  <2>1. Pusher \in Callers
    BY <1>3, PusherIs DEF PushRepoint, Goto
  <2>2. calls' = [calls EXCEPT ![Pusher] = [calls[Pusher] EXCEPT
                                               !.at = "recording"]]
    BY <1>3 DEF PushRepoint
  <2> QED
    BY <2>1, <2>2, Advances DEF Phases
<1>4. \A a \in Callers :
         PushBegin(a) => calls[a].at = "push" /\ MovedTo(a, "pushing")
  BY Advances DEF PushBegin, Step, Phases
<1> QED
  BY <1>1, <1>2, <1>3, <1>4

\* What the steps of a call and of a push leave alone.
LEMMA MovedFrame ==
    ASSUME SyncTypeOK, NEW a \in Callers, NEW at, NEW prior, NEW add, NEW del,
           Moved(a, at, prior, add, del)
    PROVE  /\ calls' \in [Callers -> CallState]
           /\ calls'[a].at = at /\ calls'[a].prior = prior
           /\ calls'[a].add = add /\ calls'[a].del = del
           /\ \A b \in Callers \ {a} : calls'[b] = calls[b]
<1>1. calls \in [Callers -> CallState]
  BY DEF SyncTypeOK, CallState, Phases
<1> DEFINE c == calls'[a]
<1>2. /\ calls' = [calls EXCEPT ![a] = c]
      /\ c \in CallState
      /\ c.at = at /\ c.prior = prior /\ c.add = add /\ c.del = del
  BY DEF Moved
<1>3. calls' \in [Callers -> CallState] /\ \A b \in Callers \ {a} : calls'[b] = calls[b]
  <2> HIDE DEF c
  <2> QED
    BY <1>1, <1>2
<1> QED
  BY <1>2, <1>3

\* Every step keeps PusherInv.
LEMMA PusherStep ==
    ASSUME StateOK, SyncTypeOK, PusherInv, [SyncNext]_allVars
    PROVE  PusherInv'
<1> USE DEF IsPusher
<1>1. CASE UNCHANGED <<pc, calls>>
  BY <1>1 DEF PusherInv
<1>2. CASE Pipeline
  BY <1>2, PipelineFrame DEF PusherInv
<1>3. CASE SyncCrash
  <2>1. pc' = "down" /\ \A a \in Callers : calls'[a].at = "idle"
    BY <1>3 DEF SyncCrash, Crash, NoCall
  <2> QED
    BY <2>1 DEF PusherInv
<1>4. ASSUME NEW a \in Callers, UNCHANGED pc,
             calls[a].at \notin {"pushing", "recording"},
             calls'[a].at \notin {"pushing", "recording"},
             \A b \in Callers \ {a} : calls'[b] = calls[b]
      PROVE  PusherInv'
  BY <1>4 DEF PusherInv
<1>5. ASSUME NEW a \in Callers,
             LocalCall(a) \/ ListWrite(a) \/ RefreshFails(a) \/ PushSkips(a)
      PROVE  PusherInv'
  <2>1. UNCHANGED pc
    BY <1>5, LocalCallMoves, ListWriteMoves DEF RefreshFails, PushSkips, vars,
       process
  <2>2. /\ calls[a].at \notin {"pushing", "recording"}
        /\ \E at \in Phases \ {"pushing", "recording"} :
              \E prior, add, del : Moved(a, at, prior, add, del)
    <3>1. CASE LocalCall(a)
      BY <3>1, LocalCallMoves DEF Ended, Phases
    <3>2. CASE ListWrite(a)
      BY <3>2, ListWriteMoves DEF MovedTo, Phases
    <3>3. CASE PushSkips(a)
      BY <3>3, PushMoves DEF Ended, Phases
    <3>4. CASE RefreshFails(a)
      BY <3>4, FailedRefreshMoves DEF Ended, MovedTo, Phases
    <3> QED
      BY <1>5, <3>1, <3>2, <3>3, <3>4
  <2> QED
    BY <2>1, <2>2, <1>4, MovedFrame
<1>6. ASSUME NEW a \in Callers, PushBegin(a)
      PROVE  PusherInv'
  <2>1. MovedTo(a, "pushing") /\ pc = "idle" /\ pc' = "push"
    BY <1>6, PushMoves DEF PushBegin, Goto
  <2>2. /\ calls'[a].at = "pushing"
        /\ \A b \in Callers \ {a} : calls'[b] = calls[b]
    BY <2>1, MovedFrame DEF MovedTo
  <2> QED
    BY <2>1, <2>2 DEF PusherInv
<1>7. CASE PushNothing \/ PushRecord
  <2>1. Pusher \in Callers /\ Ended(Pusher) /\ pc' = "idle"
    BY <1>7, PushMoves DEF PushNothing, PushRecord, Return
  <2>2. /\ calls'[Pusher].at = "idle"
        /\ \A b \in Callers \ {Pusher} : calls'[b] = calls[b]
    BY <2>1, MovedFrame DEF Ended
  <2>3. \A b \in Callers \ {Pusher} : ~IsPusher(b)
    BY PusherIs
  <2> QED
    BY <2>1, <2>2, <2>3 DEF PusherInv
<1>8. CASE PushRepoint
  <2>1. Pusher \in Callers /\ MovedTo(Pusher, "recording") /\ pc' = "push_record"
    BY <1>8, PushMoves DEF PushRepoint, Goto
  <2>2. /\ calls'[Pusher].at = "recording"
        /\ \A b \in Callers \ {Pusher} : calls'[b] = calls[b]
    BY <2>1, MovedFrame DEF MovedTo
  <2>3. \A b \in Callers \ {Pusher} : ~IsPusher(b)
    BY PusherIs
  <2> QED
    BY <2>1, <2>2, <2>3 DEF PusherInv
<1>9. EditModel \/ EditList \/ PushElements => UNCHANGED <<pc, calls>>
  BY DEF EditModel, EditList, PushElements, EditTable, process, syncVars
<1> QED
  BY <1>1, <1>2, <1>3, <1>5, <1>6, <1>7, <1>8, <1>9 DEF SyncNext, Pipeline,
     Call, LocalCall, ListWrite, Push, allVars

LEMMA SyncTypes ==
    ASSUME SyncTypeOK
    PROVE  /\ list \in SUBSET Cidrs
           /\ \A t \in Owned(model) : model[t] = list
           /\ calls \in [Callers -> CallState]
           /\ job \in Jobs
BY DEF SyncTypeOK, CallState, Phases, Jobs

\* The type invariant holds at first.
LEMMA SyncTypeInit == SyncInit => SyncTypeOK
<1> SUFFICES ASSUME SyncInit PROVE SyncTypeOK
  OBVIOUS
<1>1. Owned(model) = {} /\ list \in SUBSET Cidrs
  BY DEF SyncInit, Init, Owned, AllAbsent
<1>2. calls \in [Callers -> CallState]
  BY EmptyCall DEF SyncInit, CallState, Phases
<1>3. job \in Jobs
  BY EmptyJob DEF SyncInit
<1> QED
  BY <1>1, <1>2, <1>3 DEF SyncTypeOK, CallState, Phases, Jobs

\* Every step keeps the type invariant.
LEMMA SyncTypeStep ==
    ASSUME StateOK, SyncTypeOK, PusherInv, [SyncNext]_allVars
    PROVE  SyncTypeOK'
<1>0. /\ list \in SUBSET Cidrs
      /\ \A t \in Owned(model) : model[t] = list
      /\ calls \in [Callers -> CallState]
      /\ job \in Jobs
  BY SyncTypes
<1> DEFINE ListOK == list \in SUBSET Cidrs /\ \A t \in Owned(model) : model[t] = list
<1>1. ListOK'
  <2>1. CASE UNCHANGED <<list, model>>
    BY <1>0, <2>1 DEF Owned
  <2>2. CASE EditModel
    <3>1. PICK t \in Tables, c \in {list, Absent} :
             model' = [model EXCEPT ![t] = c] /\ list' = list
      BY <2>2, EditModelFrame
    <3>2. \A u \in Owned(model') : model'[u] = list
      BY <1>0, <3>1 DEF Owned, StateOK, Configs
    <3> QED
      BY <1>0, <3>1, <3>2
  <2>3. ASSUME NEW l \in SUBSET Cidrs, SetList(l)
        PROVE  ListOK'
    BY <2>3, SetListType
  <2>4. EditList => \E l \in SUBSET Cidrs : SetList(l)
    <3> SUFFICES ASSUME EditList PROVE \E l \in SUBSET Cidrs : SetList(l)
      OBVIOUS
    <3>1. PICK x \in Cidrs : SetList((list \ {x}) \cup ({x} \ list))
      BY DEF EditList
    <3>2. (list \ {x}) \cup ({x} \ list) \in SUBSET Cidrs
      BY <1>0
    <3> QED
      BY <3>1, <3>2
  <2>5. ASSUME NEW a \in Callers, ListWrite(a)
        PROVE  \E l \in SUBSET Cidrs : SetList(l)
    <3>1. (list \ calls[a].del) \cup calls[a].add \in SUBSET Cidrs
      BY <1>0 DEF CallState
    <3> QED
      BY <2>5, <3>1, ListWriteMoves
  <2>6. ASSUME NEW a \in Callers,
               \/ LocalCall(a) \/ RefreshFails(a) \/ PushBegin(a)
               \/ PushSkips(a)
        PROVE  UNCHANGED <<list, model>>
    BY <2>6, LocalCallMoves DEF RefreshFails, PushBegin, PushSkips, vars, store
  <2>7. Push \/ SyncCrash \/ UNCHANGED allVars => UNCHANGED <<list, model>>
    BY DEF Push, PushElements, PushNothing, PushRepoint, PushRecord, SyncCrash,
       Crash, store, allVars, vars, syncVars
  <2>8. Pipeline => UNCHANGED <<list, model>>
    BY PipelineFrame
  <2> HIDE DEF ListOK
  <2> QED
    BY <2>1, <2>2, <2>3, <2>4, <2>5, <2>6, <2>7, <2>8 DEF SyncNext, Pipeline,
       Call, LocalCall, ListWrite
<1>2. (calls \in [Callers -> CallState])'
  <2>1. CASE UNCHANGED calls
    BY <1>0, <2>1
  <2>2. ASSUME NEW a \in Callers, NEW at, NEW prior, NEW add, NEW del,
               Moved(a, at, prior, add, del)
        PROVE  calls' \in [Callers -> CallState]
    BY <2>2, MovedFrame
  <2>3. ASSUME NEW a \in Callers, Call(a)
        PROVE  \E at, prior, add, del : Moved(a, at, prior, add, del)
    <3>1. CASE LocalCall(a)
      BY <3>1, LocalCallMoves DEF Ended
    <3>2. CASE ListWrite(a)
      BY <3>2, ListWriteMoves DEF MovedTo
    <3>3. CASE PushBegin(a) \/ PushSkips(a)
      BY <3>3, PushMoves DEF Ended, MovedTo
    <3>4. CASE RefreshFails(a)
      BY <3>4, FailedRefreshMoves DEF Ended, MovedTo
    <3> QED
      BY <2>3, <3>1, <3>2, <3>3, <3>4 DEF Call, LocalCall, ListWrite
  <2>4. CASE PushNothing \/ PushRecord \/ PushRepoint
    BY <2>4, <2>2, PushMoves DEF Ended, MovedTo
  <2>5. CASE SyncCrash
    <3>1. NoCall \in CallState
      BY CallStates
    <3> QED
      BY <2>5, <3>1 DEF SyncCrash
  <2>6. EditModel \/ EditList \/ PushElements \/ Pipeline => UNCHANGED calls
    BY DEF EditModel, EditList, PushElements, Pipeline, syncVars
  <2> QED
    BY <2>1, <2>2, <2>3, <2>4, <2>5, <2>6 DEF SyncNext, Pipeline, Push,
       allVars, syncVars
<1>3. (job \in Jobs)'
  <2>1. CASE UNCHANGED job
    BY <1>0, <2>1
  <2>2. CASE PushNothing \/ PushRecord \/ SyncCrash
    BY <2>2, EmptyJob DEF PushNothing, PushRecord, SyncCrash, Jobs
  <2>3. ASSUME NEW a \in Callers, PushBegin(a)
        PROVE  job' \in Jobs
    <3>1. PICK order \in SetToSeqs(Owned(model)) :
             job' = [NoJob EXCEPT !.todo = Operations(a, order)]
      BY <2>3 DEF PushBegin
    <3>2. Operations(a, order) \in Seq({"add", "del"} \X Tables)
      BY OperationsCover, OwnedType
    <3> QED
      BY <3>1, <3>2 DEF NoJob, Jobs
  <2>4. CASE PushElements
    <3>1. PICK ok \in BOOLEAN : job' = [todo   |-> Tail(job.todo),
                                        pushed |-> job.pushed \/ ok,
                                        ok     |-> job.ok /\ ok]
      BY <2>4 DEF PushElements
    <3>2. Tail(job.todo) \in Seq({"add", "del"} \X Tables)
      BY <1>0, <2>4 DEF PushElements, Jobs
    <3> QED
      BY <1>0, <3>1, <3>2 DEF Jobs
  <2>5. ASSUME NEW a \in Callers, Call(a), ~PushBegin(a)
        PROVE  UNCHANGED job
    BY <2>5, LocalCallMoves DEF Call, LocalCall, WriteEntry, RefreshReplace,
       RefreshFails, PushSkips
  <2>6. EditModel \/ EditList \/ PushRepoint \/ Pipeline => UNCHANGED job
    BY DEF EditModel, EditList, PushRepoint, Pipeline, syncVars
  <2> QED
    BY <2>1, <2>2, <2>3, <2>4, <2>5, <2>6 DEF SyncNext, Pipeline, Push,
       allVars, syncVars
<1> QED
  BY <1>1, <1>2, <1>3 DEF SyncTypeOK, CallState, Phases, Jobs

\* A step that changes at most the model, the kernel, the baseline and the
\* configurations keeps what the pipeline relies on.
LEMMA IInvFrame ==
    ASSUME IInv, StateOK', UNCHANGED <<row, timer, firing>>,
           DOMAIN versions' = DOMAIN versions, Len(versions') = Len(versions),
           \A v \in DOMAIN versions : versions'[v].status = versions[v].status,
           UNCHANGED <<pc, vid>> \/ pc' \in {"idle", "push", "push_record"}
    PROVE  IInv'
<1> USE DEF IInv
<1>1. Pending' = Pending
  BY DEF Pending
<1>2. RowInv'
  BY <1>1 DEF RowInv
<1>3. Pending => row.version \in DOMAIN versions
  BY DEF RowInv, StateOK, Pending
<1>4. VersionInv'
  BY <1>1, <1>3 DEF VersionInv
<1>5. TimerInv'
  BY <1>1 DEF TimerInv
<1> QED
  BY <1>2, <1>4, <1>5

\* Every step keeps the pipeline's invariant.
LEMMA SyncIInvStep ==
    ASSUME IInv, SyncTypeOK, PusherInv, [SyncNext]_allVars
    PROVE  IInv'
<1>0. StateOK
  BY DEF IInv
<1>1. CASE [Next]_vars
  BY <1>1, IInvStep
<1>2. Pipeline \/ EditModel \/ SyncCrash => [Next]_vars
  BY PipelineFrame, EditModelFrame DEF SyncCrash, Next
<1>3. ASSUME NEW l \in SUBSET Cidrs, SetList(l),
             UNCHANGED <<versions, row, ledger, baseline, kernel, process,
                         faults>>
      PROVE  IInv'
  <2>1. StateOK'
    BY <1>0, <1>3, SetListType DEF StateOK, process
  <2> QED
    BY <1>3, <2>1, IInvFrame DEF process
<1>4. CASE EditList
  <2>1. PICK x \in Cidrs : SetList((list \ {x}) \cup ({x} \ list))
    BY <1>4 DEF EditList
  <2>2. (list \ {x}) \cup ({x} \ list) \in SUBSET Cidrs
    BY SyncTypes
  <2> QED
    BY <1>3, <1>4, <2>1, <2>2 DEF EditList
<1>5. ASSUME NEW a \in Callers, ListWrite(a)
      PROVE  IInv'
  <2>1. (list \ calls[a].del) \cup calls[a].add \in SUBSET Cidrs
    BY SyncTypes DEF CallState
  <2> QED
    BY <1>0, <1>3, <1>5, <2>1, ListWriteMoves
<1>6. ASSUME NEW a \in Callers, LocalCall(a)
      PROVE  [Next]_vars
  BY <1>0, <1>6, LocalCallMoves
<1>7. ASSUME NEW a \in Callers, RefreshFails(a) \/ PushSkips(a)
      PROVE  IInv'
  <2>1. StateOK'
    <3>1. faults' \in [FaultKinds -> Nat]
      BY <1>0, <1>7, FailType DEF RefreshFails, PushSkips, StateOK, FaultKinds
    <3> QED
      BY <1>0, <1>7, <3>1 DEF RefreshFails, PushSkips, store, process, locals,
         StateOK
  <2> QED
    BY <1>7, <2>1, IInvFrame DEF RefreshFails, PushSkips, store, process, locals
<1>8. ASSUME NEW a \in Callers, PushBegin(a)
      PROVE  IInv'
  <2>1. StateOK'
    BY <1>0, <1>8 DEF PushBegin, Goto, store, StateOK
  <2> QED
    BY <1>8, <2>1, IInvFrame DEF PushBegin, Goto, store
<1>9. CASE PushElements
  <2>1. faults' \in [FaultKinds -> Nat]
    BY <1>0, <1>9, FailType DEF PushElements, StateOK, FaultKinds
  <2>2. kernel' \in Configs
    <3> DEFINE t   == Head(job.todo)[2]
               op  == Head(job.todo)[1]
               els == calls[Pusher][op]
               new == IF op = "add" THEN kernel[t] \cup els ELSE kernel[t] \ els
    <3>1. CASE kernel' # kernel
      <4>1. kernel' = [kernel EXCEPT ![t] = new] /\ kernel[t] # Absent
        BY <1>9, <3>1 DEF PushElements
      <4>2. Head(job.todo) \in {"add", "del"} \X Tables
        BY <1>9, SyncTypes DEF PushElements, Jobs
      <4>3. Pusher \in Callers
        BY <1>9, PusherIs DEF PushElements
      <4>4. els \in SUBSET Cidrs
        BY <4>2, <4>3, SyncTypes DEF CallState
      <4>5. kernel[t] \in SUBSET Cidrs
        BY <1>0, <4>1, <4>2, ContentsAreElements DEF StateOK, Configs, Cell
      <4>6. new \in Cell
        BY <4>4, <4>5, ListIsContent
      <4> HIDE DEF new, t
      <4> QED
        BY <1>0, <4>1, <4>6 DEF StateOK, Configs
    <3> QED
      BY <1>0, <3>1 DEF StateOK
  <2>3. StateOK'
    BY <1>0, <1>9, <2>1, <2>2 DEF PushElements, store, process, StateOK
  <2> QED
    BY <1>9, <2>3, IInvFrame DEF PushElements, store, process
<1>10. CASE PushNothing
  <2>1. StateOK'
    BY <1>0, <1>10, EmptyTypes DEF PushNothing, Return, store, StateOK
  <2> QED
    BY <1>10, <2>1, IInvFrame DEF PushNothing, Return, store
<1>11. CASE PushRepoint
  <2>1. /\ versions' \in Seq(Version) /\ Len(versions') = Len(versions)
        /\ DOMAIN versions' = DOMAIN versions
        /\ \A v \in DOMAIN versions : versions'[v].status = versions[v].status
    <3>1. CASE versions' = versions
      BY <1>0, <3>1 DEF StateOK
    <3>2. CASE versions' = [versions EXCEPT ![LatestApplied].config = cand]
      <4>1. versions \in Seq(Version) /\ cand \in Configs
        BY <1>0 DEF StateOK
      <4> QED
        BY <3>2, <4>1, RepointChanges
    <3> QED
      BY <1>11, <3>1, <3>2 DEF PushRepoint
  <2>2. faults' \in [FaultKinds -> Nat]
    BY <1>0, <1>11, FailType DEF PushRepoint, StateOK, FaultKinds
  <2>3. StateOK'
    BY <1>0, <1>11, <2>1, <2>2 DEF PushRepoint, Goto, locals, StateOK
  <2> QED
    BY <1>11, <2>1, <2>3, IInvFrame DEF PushRepoint, Goto
<1>12. CASE PushRecord
  <2>1. faults' \in [FaultKinds -> Nat]
    BY <1>0, <1>12, FailType DEF PushRecord, StateOK, FaultKinds
  <2>2. baseline' \in {{}} \cup {{f} : f \in Snapshots}
    <3>1. Listing(kernel, ledger) \in Snapshots
      BY <1>0, ListingType DEF StateOK
    <3> QED
      BY <1>0, <1>12, <3>1 DEF PushRecord, StateOK
  <2>3. StateOK'
    BY <1>0, <1>12, <2>1, <2>2, EmptyTypes DEF PushRecord, Return, StateOK
  <2> QED
    BY <1>12, <2>3, IInvFrame DEF PushRecord, Return
<1>13. CASE UNCHANGED allVars
  BY <1>1, <1>13 DEF allVars
<1> QED
  BY <1>1, <1>2, <1>4, <1>5, <1>6, <1>7, <1>8, <1>9, <1>10, <1>11, <1>12, <1>13
     DEF SyncNext, Pipeline, Call, LocalCall, ListWrite, Push

\* SyncInv holds at first.
LEMMA SyncInvInit == SyncInit => SyncInv
<1>1. SyncInit => PusherInv
  BY DEF SyncInit, Init, PusherInv, IsPusher, NoCall
<1> QED
  BY <1>1, IInvInit, SyncTypeInit DEF SyncInv, SyncInit

\* Every step keeps SyncInv.
LEMMA SyncInvStep ==
    ASSUME SyncInv, [SyncNext]_allVars
    PROVE  SyncInv'
BY SyncIInvStep, SyncTypeStep, PusherStep DEF SyncInv, IInv

\* SyncInv holds always.
LEMMA SyncInvHolds == SyncSpec => []SyncInv
BY SyncInvInit, SyncInvStep, PTL DEF SyncSpec

\* In a confirm window the kernel changes by the apply's own script or its
\* revert's only, and neither the fingerprint nor a recorded config changes: no
\* block, unblock or refresh pushes, whenever it read the model and whenever it
\* gets applyMu, and whatever fails or restarts.
THEOREM WindowSafe == SyncSpec => WindowUndisturbed
<1>1. SyncInit => WindowInv
  BY DEF SyncInit, Init, WindowInv
<1>2. WindowInv /\ [SyncNext]_allVars => WindowInv'
  BY WindowStep
<1>3. SyncInv => StateOK
  BY DEF SyncInv, IInv
<1>4. StateOK /\ WindowInv /\ [SyncNext]_allVars => [Undisturbed]_allVars
  BY UndisturbedStep
<1> QED
  BY <1>1, <1>2, <1>3, <1>4, SyncInvHolds, PTL DEF SyncSpec, WindowUndisturbed,
     Undisturbed

\* Every table that refers to the list renders it, and every variable keeps to
\* its type, whatever calls and edits overlap.
THEOREM SyncTypeCorrect == SyncSpec => []SyncTypeOK
<1>1. SyncInv => SyncTypeOK
  BY DEF SyncInv
<1> QED
  BY <1>1, SyncInvHolds, PTL

-----------------------------------------------------------------------------
(* A call that nothing overlaps                                            *)

\* The call that takes a step is the only one, and the steps that are no call's
\* and write the list or the model happen while there is none.
LEMMA OneMoves ==
    ASSUME SyncTypeOK, AloneInv, Overlap = FALSE
    PROVE  /\ \A a \in Callers :
                 calls[a].at # "idle" \/ Alone({a}) =>
                    \A b \in Callers \ {a} : calls[b].at = "idle"
           /\ EditModel \/ EditList => \A a \in Callers : calls[a].at = "idle"
BY DEF AloneInv, Alone, EditModel, EditList

\* How a step changes the calls.
LEMMA CallSteps ==
    ASSUME StateOK, SyncTypeOK, PusherInv, [SyncNext]_allVars
    PROVE  \/ UNCHANGED calls
           \/ SyncCrash /\ \A a \in Callers : calls'[a].at = "idle"
           \/ \E a \in Callers :
                 /\ calls[a].at # "idle" \/ Alone({a})
                 /\ \A b \in Callers \ {a} : calls'[b] = calls[b]
<1>1. ASSUME NEW a \in Callers, NEW at, NEW prior, NEW add, NEW del,
             Moved(a, at, prior, add, del)
      PROVE  \A b \in Callers \ {a} : calls'[b] = calls[b]
  BY <1>1, MovedFrame
<1>2. ASSUME NEW a \in Callers, LocalCall(a)
      PROVE  /\ calls[a].at # "idle" \/ Alone({a})
             /\ \A b \in Callers \ {a} : calls'[b] = calls[b]
  BY <1>1, <1>2, LocalCallMoves DEF Ended
<1>3. ASSUME NEW a \in Callers, ListWrite(a)
      PROVE  /\ calls[a].at # "idle"
             /\ \A b \in Callers \ {a} : calls'[b] = calls[b]
  BY <1>1, <1>3, ListWriteMoves DEF MovedTo
<1>4. ASSUME NEW a \in Callers,
             RefreshFails(a) \/ PushBegin(a) \/ PushSkips(a)
      PROVE  /\ calls[a].at # "idle"
             /\ \A b \in Callers \ {a} : calls'[b] = calls[b]
  BY <1>1, <1>4, FailedRefreshMoves, PushMoves DEF MovedTo, Ended
<1>5. ASSUME PushNothing \/ PushRecord \/ PushRepoint
      PROVE  /\ Pusher \in Callers
             /\ calls[Pusher].at # "idle"
             /\ \A b \in Callers \ {Pusher} : calls'[b] = calls[b]
  <2>1. /\ Pusher \in Callers
        /\ \A b \in Callers \ {Pusher} : calls'[b] = calls[b]
    BY <1>1, <1>5, PushMoves DEF MovedTo, Ended
  <2>2. calls[Pusher].at # "idle"
    BY <1>5, PusherIs DEF PushNothing, PushRecord, PushRepoint, Goto
  <2> QED
    BY <2>1, <2>2
<1>6. SyncCrash => \A a \in Callers : calls'[a].at = "idle"
  BY DEF SyncCrash, NoCall
<1>7. EditModel \/ EditList \/ PushElements \/ Pipeline \/ UNCHANGED allVars
         => UNCHANGED calls
  BY DEF EditModel, EditList, PushElements, Pipeline, syncVars, allVars
<1> QED
  BY <1>2, <1>3, <1>4, <1>5, <1>6, <1>7 DEF SyncNext, Call, LocalCall,
     ListWrite, Push, Pipeline

\* Without overlap one caller at a time is under way.
LEMMA AloneStep ==
    ASSUME StateOK, SyncTypeOK, PusherInv, AloneInv, Overlap = FALSE,
           [SyncNext]_allVars
    PROVE  AloneInv'
<1>1. CASE UNCHANGED calls \/ \A a \in Callers : calls'[a].at = "idle"
  BY <1>1 DEF AloneInv
<1>2. ASSUME NEW a \in Callers, calls[a].at # "idle" \/ Alone({a}),
             \A b \in Callers \ {a} : calls'[b] = calls[b]
      PROVE  AloneInv'
  <2>1. \A b \in Callers \ {a} : calls'[b].at = "idle"
    BY <1>2, OneMoves
  <2> QED
    BY <2>1 DEF AloneInv
<1> QED
  BY <1>1, <1>2, CallSteps

\* What CallInv says of one call.
CallOK(m, l, at, prior, add, del) ==
    /\ at \in {"add", "delete", "before", "replace"} => m = prior
    /\ at = "add" => del = {}
    /\ at = "delete" => add = {}
    /\ at = "replace" => del = l
    /\ at \in {"after", "push", "pushing", "recording"} =>
          Owned(m) = Owned(prior)
    /\ at = "after" => \A t \in Owned(m) : prior[t] = del
    /\ at \in {"push", "pushing", "recording"} =>
          /\ add \cap del = {}
          /\ \A t \in Owned(m) :
                /\ del \subseteq prior[t]
                /\ m[t] = (prior[t] \ del) \cup add

\* Without overlap every step keeps what a call knows of the list.
LEMMA CallInvStep ==
    ASSUME StateOK, SyncTypeOK, PusherInv, AloneInv, CallInv, Overlap = FALSE,
           \A a \in Callers : ~RefreshFails(a), [SyncNext]_allVars
    PROVE  CallInv'
<1>0. \A a \in Callers : CallOK(model, list, calls[a].at, calls[a].prior,
                                calls[a].add, calls[a].del)
  BY DEF CallInv, CallOK
<1>a. \A t \in Owned(model) : model[t] = list
  BY SyncTypes
<1>1. CASE UNCHANGED <<model, list, calls>>
  BY <1>1 DEF CallInv, Owned
<1>2. CASE \A a \in Callers : calls'[a].at = "idle"
  BY <1>2 DEF CallInv
<1>3. ASSUME NEW a \in Callers, calls[a].at # "idle" \/ Alone({a}),
             NEW at, NEW prior, NEW add, NEW del, Moved(a, at, prior, add, del),
             CallOK(model', list', at, prior, add, del)
      PROVE  CallInv'
  <2>1. \A b \in Callers \ {a} : calls'[b].at = "idle"
    BY <1>3, OneMoves, MovedFrame
  <2>2. /\ calls'[a].at = at /\ calls'[a].prior = prior
        /\ calls'[a].add = add /\ calls'[a].del = del
    BY <1>3, MovedFrame
  <2>3. CallOK(model', list', calls'[a].at, calls'[a].prior, calls'[a].add,
              calls'[a].del)
    BY <1>3, <2>2 DEF CallOK
  <2> QED
    BY <2>1, <2>3 DEF CallInv, CallOK
<1>4. ASSUME NEW a \in Callers, LocalCall(a)
      PROVE  CallInv'
  <2>1. UNCHANGED <<model, list>> /\ Owned(model') = Owned(model)
    BY <1>4, LocalCallMoves DEF vars
  <2>2. calls[a].at # "idle" \/ Alone({a})
    BY <1>4, LocalCallMoves
  <2>3. ASSUME Ended(a) PROVE CallInv'
    <3>1. CallOK(model', list', "idle", AllAbsent, {}, {})
      BY DEF CallOK
    <3> QED
      BY <1>3, <2>2, <2>3, <3>1 DEF Ended
  <2>4. ASSUME NEW x \in Cidrs, Moved(a, "add", model, {x}, {}) PROVE CallInv'
    <3>1. CallOK(model', list', "add", model, {x}, {})
      BY <2>1 DEF CallOK
    <3> QED
      BY <1>3, <2>2, <2>4, <3>1
  <2>5. ASSUME NEW x \in list, Moved(a, "delete", model, {}, {x}) PROVE CallInv'
    <3>1. CallOK(model', list', "delete", model, {}, {x})
      BY <2>1 DEF CallOK
    <3> QED
      BY <1>3, <2>2, <2>5, <3>1
  <2>6. ASSUME Moved(a, "before", model, {}, {}) PROVE CallInv'
    <3>1. CallOK(model', list', "before", model, {}, {})
      BY <2>1 DEF CallOK
    <3> QED
      BY <1>3, <2>2, <2>6, <3>1
  <2>7. ASSUME calls[a].at = "before",
               Moved(a, "replace", calls[a].prior, calls[a].add, list)
        PROVE  CallInv'
    <3>1. CallOK(model', list', "replace", calls[a].prior, calls[a].add, list)
      BY <1>0, <2>1, <2>7 DEF CallOK
    <3> QED
      BY <1>3, <2>2, <2>7, <3>1
  <2>8. ASSUME calls[a].at = "after",
               Moved(a, "push", calls[a].prior, list \ calls[a].del,
                     calls[a].del \ list)
        PROVE  CallInv'
    <3>1. /\ Owned(model) = Owned(calls[a].prior)
          /\ \A t \in Owned(model) : calls[a].prior[t] = calls[a].del
      BY <1>0, <2>8 DEF CallOK
    <3>2. CallOK(model', list', "push", calls[a].prior,
                 list \ calls[a].del, calls[a].del \ list)
      BY <1>a, <2>1, <3>1 DEF CallOK
    <3> QED
      BY <1>3, <2>2, <2>8, <3>2
  <2> QED
    BY <1>4, <2>3, <2>4, <2>5, <2>6, <2>7, <2>8, LocalCallMoves
<1>5. ASSUME NEW a \in Callers, ListWrite(a)
      PROVE  CallInv'
  <2> DEFINE c == calls[a]
             l == (list \ c.del) \cup c.add
  <2>0. c.del \in SUBSET Cidrs /\ c.add \in SUBSET Cidrs /\ l \in SUBSET Cidrs
    BY SyncTypes DEF CallState
  <2>1. CASE /\ \/ c.at = "add" /\ list \cap c.add = {}
                \/ c.at = "delete" /\ c.del \subseteq list
             /\ MovedTo(a, "push") /\ SetList(l)
    <3>1. /\ Owned(model') = Owned(model)
          /\ \A t \in Owned(model') : model'[t] = l
      BY <2>0, <2>1, SetListType
    <3>2. /\ model = c.prior
          /\ c.add \cap c.del = {} /\ c.del \subseteq list
      BY <1>0, <2>1 DEF CallOK
    <3>3. \A t \in Owned(model') : c.prior[t] = list
      BY <1>a, <3>1, <3>2
    <3>4. CallOK(model', list', "push", c.prior, c.add,
                  c.del)
      BY <3>1, <3>2, <3>3 DEF CallOK
    <3> QED
      BY <1>3, <2>1, <3>4 DEF MovedTo
  <2>2. ASSUME NEW feed \in SUBSET Cidrs, SetList(feed), c.at = "replace",
               MovedTo(a, "after")
        PROVE  CallInv'
    <3>1. Owned(model') = Owned(model)
      BY <2>2, SetListType
    <3>2. model = c.prior /\ c.del = list
      BY <1>0, <2>2 DEF CallOK
    <3>3. CallOK(model', list', "after", c.prior, c.add,
                  c.del)
      BY <1>a, <3>1, <3>2 DEF CallOK
    <3> QED
      BY <1>3, <2>2, <3>3 DEF MovedTo
  <2> QED
    BY <1>5, <2>1, <2>2, ListWriteMoves
<1>6. ASSUME NEW a \in Callers, calls[a].at \in {"push", "pushing"},
             NEW s \in {"pushing", "recording"}, MovedTo(a, s),
             UNCHANGED <<model, list>>
      PROVE  CallInv'
  <2>1. CallOK(model, list, calls[a].at, calls[a].prior, calls[a].add,
               calls[a].del)
    BY <1>0
  <2>2. CallOK(model', list', s, calls[a].prior, calls[a].add,
                calls[a].del)
    BY <1>6, <2>1 DEF CallOK
  <2> QED
    BY <1>3, <1>6, <2>2 DEF MovedTo
<1>7. ASSUME NEW a \in Callers, calls[a].at # "idle", Ended(a)
      PROVE  CallInv'
  <2>1. CallOK(model', list', "idle", AllAbsent, {}, {})
    BY DEF CallOK
  <2> QED
    BY <1>3, <1>7, <2>1 DEF Ended
<1>8. ASSUME NEW a \in Callers, PushBegin(a) PROVE CallInv'
  BY <1>6, <1>8, PushMoves DEF PushBegin, store
<1>9. ASSUME NEW a \in Callers, PushSkips(a) PROVE CallInv'
  BY <1>7, <1>9, PushMoves
<1>10. CASE PushNothing \/ PushRecord
  BY <1>7, <1>10, PushMoves, PusherIs DEF PushNothing, PushRecord
<1>11. CASE PushRepoint
  BY <1>6, <1>11, PushMoves, PusherIs DEF PushRepoint, Goto
<1>12. CASE EditModel \/ EditList
  <2>1. UNCHANGED calls
    BY <1>12 DEF EditModel, EditList, syncVars
  <2> QED
    BY <1>2, <1>12, <2>1, OneMoves
<1>13. CASE SyncCrash
  BY <1>2, <1>13 DEF SyncCrash, NoCall
<1>14. PushElements \/ Pipeline \/ UNCHANGED allVars
         => UNCHANGED <<model, list, calls>>
  BY PipelineFrame DEF PushElements, store, allVars, vars, syncVars
<1> QED
  BY <1>1, <1>4, <1>5, <1>8, <1>9, <1>10, <1>11, <1>12, <1>13, <1>14
     DEF SyncNext, Call, LocalCall, ListWrite, Push, Pipeline

-----------------------------------------------------------------------------
(* A push that meets no failure                                            *)

NoFailure == \A kind \in FaultKinds : ~Fail(kind)

\* One nft run is taken off the list of those to do.
LEMMA TailOnce ==
    ASSUME NEW S, NEW s \in Seq(S), s # <<>>, Once(s)
    PROVE  /\ Head(s) \in Elems(s) /\ Head(s) = s[1] /\ 1 \in DOMAIN s
           /\ Once(Tail(s))
           /\ Elems(Tail(s)) = Elems(s) \ {Head(s)}
           /\ \A i \in DOMAIN Tail(s) :
                 i + 1 \in DOMAIN s /\ Tail(s)[i] = s[i + 1]
<1> DEFINE n == Len(s)
<1>1. n \in Nat /\ n >= 1 /\ DOMAIN s = 1 .. n /\ Head(s) = s[1]
  OBVIOUS
<1>2. /\ DOMAIN Tail(s) = 1 .. (n - 1)
      /\ \A i \in 1 .. (n - 1) : Tail(s)[i] = s[i + 1]
  OBVIOUS
<1> HIDE DEF n
<1>3. \A i \in DOMAIN Tail(s) : i + 1 \in DOMAIN s /\ Tail(s)[i] = s[i + 1]
  BY <1>1, <1>2
<1>4. Once(Tail(s))
  BY <1>1, <1>2, <1>3 DEF Once
<1>5. ASSUME NEW e \in Elems(s), e # Head(s)
      PROVE  e \in Elems(Tail(s))
  <2>1. PICK i \in 1 .. n : s[i] = e
    BY <1>1, <1>5 DEF Elems
  <2>2. i # 1 /\ i - 1 \in 1 .. (n - 1) /\ (i - 1) + 1 = i
    BY <1>1, <1>5, <2>1
  <2>3. Tail(s)[i - 1] = e
    BY <1>2, <2>1, <2>2
  <2> QED
    BY <1>2, <2>2, <2>3 DEF Elems
<1>6. ASSUME NEW e \in Elems(Tail(s))
      PROVE  e \in Elems(s) /\ e # Head(s)
  <2>1. PICK i \in 1 .. (n - 1) : Tail(s)[i] = e
    BY <1>2, <1>6 DEF Elems
  <2>2. i + 1 \in 1 .. n /\ i + 1 # 1 /\ 1 \in 1 .. n /\ s[i + 1] = e
    BY <1>1, <1>2, <2>1
  <2>3. s[i + 1] # s[1]
    BY <1>1, <2>2 DEF Once
  <2> QED
    BY <1>1, <2>2, <2>3 DEF Elems
<1> QED
  BY <1>1, <1>3, <1>4, <1>5, <1>6 DEF Elems

\* While a push is at work, nothing of the pipeline touches what it works on.
LEMMA PipelineWaits ==
    ASSUME Pipeline, pc = "push"
    PROVE  UNCHANGED <<versions, kernel, cand>>
<1>1. CASE Apply
  BY <1>1 DEF Goto, Apply, ApplyBegin, ApplySnapshot, ApplyAbandon,
     ApplyRecord, ApplyArm, ApplyArmFails, ApplyLoad, ApplyLoadFails,
     ApplyFailClear, ApplyFailStatus
<1>2. CASE Confirm
  BY <1>2 DEF Goto, Confirm, ConfirmBegin, ConfirmClear, ConfirmStatus,
     ConfirmFails, ConfirmLedger, ConfirmBaseline
<1>3. CASE Revert
  BY <1>3 DEF Goto, store, locals, Revert, RollbackBegin, TimerFires, Recover,
     RecoverReturns, RevertLoad, RevertLoadFails, RevertClear,
     RevertClearFails, RevertStatus, AutoRevert, AutoRevertReturns
<1>4. CASE Restart \/ UNCHANGED vars
  BY <1>4 DEF Goto, Restart, vars
<1> QED
  BY <1>1, <1>2, <1>3, <1>4 DEF Pipeline

\* The call of a push works on nothing else.
LEMMA OnlyPushes ==
    ASSUME SyncInv, AloneInv, Overlap = FALSE, pc = "push"
    PROVE  /\ Pusher \in Callers /\ calls[Pusher].at = "pushing"
           /\ ~EditModel /\ ~EditList
           /\ \A a \in Callers : ~LocalCall(a) /\ ~ListWrite(a) /\ ~PushSkips(a)
<1>1. Pusher \in Callers /\ calls[Pusher].at = "pushing"
  BY PusherIs DEF SyncInv
<1>2. ASSUME NEW a \in Callers, LocalCall(a) \/ ListWrite(a) \/ PushSkips(a)
      PROVE  FALSE
  <2>1. StateOK /\ SyncTypeOK /\ PusherInv
    BY DEF SyncInv, IInv
  <2>2. calls[a].at # "pushing" /\ (calls[a].at # "idle" \/ Alone({a}))
    BY <1>2, <2>1, LocalCallMoves, ListWriteMoves, PushMoves
  <2> QED
    BY <1>1, <2>1, <2>2, OneMoves
<1> QED
  BY <1>1, <1>2, OneMoves DEF SyncInv

\* The steps around a push leave what the pipeline keeps of its versions.
LEMMA PushFrame ==
    ASSUME StateOK, LatestInv, SettledInv, LastExists, UNCHANGED row,
           DOMAIN versions' = DOMAIN versions, Len(versions') = Len(versions),
           \A v \in DOMAIN versions : versions'[v].status = versions[v].status,
           pc \in {"idle", "push", "push_record"},
           pc' \in {"idle", "push", "push_record"}
    PROVE  /\ LatestInv' /\ SettledInv' /\ LastExists' /\ SnapshotInv'
           /\ \A v \in DOMAIN versions : IsLastConfirmed(v)' <=> IsLastConfirmed(v)
<1>1. Pending' = Pending
  BY DEF Pending
<1>2. LatestInv'
  BY <1>1 DEF LatestInv
<1>3. SettledInv'
  BY <1>1 DEF SettledInv
<1>4. \A v \in DOMAIN versions : IsLastConfirmed(v)' <=> IsLastConfirmed(v)
  BY DEF IsLastConfirmed
<1>5. LastExists'
  BY <1>4 DEF LastExists, NoneConfirmed
<1>6. SnapshotInv'
  BY DEF SnapshotInv
<1> QED
  BY <1>2, <1>3, <1>4, <1>5, <1>6

\* Without an armed apply, what is in force is what runs.
LEMMA InForceRuns ==
    ASSUME IInv, ~Pending, NEW c
    PROVE  InForce(c) <=> Runs(c)
<1>1. row.prev = NoTables /\ kernel \in Configs
  BY DEF IInv, RowInv, NoRow, StateOK
<1> QED
  BY <1>1, RestoreNothing DEF InForce, Runs

\* There is one last confirmed version.
LEMMA OneLast ==
    ASSUME StateOK, NEW v, NEW w, IsLastConfirmed(v), IsLastConfirmed(w)
    PROVE  v = w
<1>1. DOMAIN versions \subseteq Nat
  BY DEF StateOK
<1>2. v \in Nat /\ w \in Nat /\ v <= w /\ w <= v
  BY <1>1 DEF IsLastConfirmed
<1> QED
  BY <1>2

\* A push that begins changes exactly what the call wrote.
LEMMA PushBeginOK ==
    ASSUME SyncInv, RunningInv, CallInv, NEW a \in Callers, PushBegin(a)
    PROVE  RunningInv' /\ PushInv'
<1>0. StateOK /\ SyncTypeOK /\ PusherInv /\ pc = "idle" /\ ~Pending
  BY DEF SyncInv, IInv, PushBegin, Goto, InSync
<1>1. RunningInv'
  <2>1. /\ pc' = "push" /\ ~Pending'
        /\ UNCHANGED <<versions, row>>
    BY <1>0 DEF PushBegin, Goto, store, Pending
  <2>2. LatestInv' /\ SettledInv' /\ LastExists' /\ SnapshotInv'
    BY <1>0, <2>1, PushFrame DEF RunningInv
  <2>3. RunsInv'
    BY <2>1 DEF RunsInv
  <2> QED
    BY <2>1, <2>2, <2>3 DEF RunningInv
<1>2. PICK order \in SetToSeqs(Owned(model)) :
         job' = [NoJob EXCEPT !.todo = Operations(a, order)]
  BY DEF PushBegin
<1> DEFINE ops == Operations(a, order)
<1>3. job'.todo = ops /\ job'.ok /\ ~job'.pushed
  BY <1>2 DEF NoJob
<1>4. /\ Once(ops)
      /\ \A i \in DOMAIN ops : ops[i][2] \in Owned(model)
      /\ \A t \in Owned(model) :
            /\ calls[a].del # {} => <<"del", t>> \in Elems(ops)
            /\ calls[a].add # {} => <<"add", t>> \in Elems(ops)
  BY OperationsCover, OwnedType DEF Once, Elems
<1>5. /\ MovedTo(a, "pushing") /\ calls[a].at = "push"
      /\ cand' = model
      /\ UNCHANGED <<versions, kernel, model, row>>
  BY <1>0, PushMoves DEF PushBegin, store
<1>6. /\ calls'[a].prior = calls[a].prior /\ calls'[a].add = calls[a].add
      /\ calls'[a].del = calls[a].del
      /\ \A b \in Callers \ {a} : calls'[b] = calls[b]
  BY <1>0, <1>5, MovedFrame DEF MovedTo
<1>7. \A b \in Callers : calls[b].at # "pushing"
  BY <1>0 DEF PusherInv
<1>8. /\ LatestApplied \in DOMAIN versions /\ IsLastConfirmed(LatestApplied)
      /\ versions[LatestApplied].config = calls[a].prior
      /\ InForceInv
  BY <1>0, LatestIsConfirmed DEF RunningInv, PushBegin, InSync
<1> DEFINE v == LatestApplied
<1> HIDE DEF ops, v
<1>9. \A t \in Owned(model) : kernel[t] = calls[a].prior[t]
  <2>1. InForce(versions[v].config)
    BY <1>0, <1>8 DEF InForceInv, v
  <2>2. Runs(calls[a].prior)
    BY <1>0, <1>8, <2>1, InForceRuns DEF v, SyncInv
  <2>3. Owned(model) = Owned(calls[a].prior)
    BY <1>5 DEF CallInv
  <2> QED
    BY <2>2, <2>3 DEF Runs
<1>10. \A t \in Owned(model) :
          calls[a].prior[t] =
             (calls[a].prior[t] \ IF <<"del", t>> \in Elems(ops)
                                     THEN {} ELSE calls[a].del)
                \cup IF <<"add", t>> \in Elems(ops) THEN {} ELSE calls[a].add
  BY <1>4
<1>11. PushOK(a)'
  <2>1. \E w \in DOMAIN versions' :
           IsLastConfirmed(w)' /\ versions'[w].config = calls'[a].prior
    BY <1>5, <1>6, <1>8 DEF IsLastConfirmed, v
  <2>2. Owned(model') = Owned(model)
    BY <1>5
  <2>3. \A t \in Owned(model') : kernel'[t] = Between(a, t, Elems(job.todo))'
    BY <1>3, <1>5, <1>6, <1>9, <1>10, <2>2 DEF Between
  <2>4. Once(job'.todo) /\ \A i \in DOMAIN job'.todo : job'.todo[i][2] \in Owned(model')
    BY <1>3, <1>4, <2>2
  <2>5. \A t \in Owned(model') : kernel'[t] = calls'[a].prior[t]
    BY <1>5, <1>6, <1>9, <2>2
  <2> QED
    BY <1>3, <1>5, <2>1, <2>3, <2>4, <2>5 DEF PushOK
<1> QED
  BY <1>1, <1>6, <1>7, <1>11 DEF PushInv

\* A run of a push that meets no failure finds what it deletes, and takes the
\* table where it is to go.
LEMMA PushElementsOK ==
    ASSUME SyncInv, WindowInv, RunningInv, CallInv, PushInv, PushElements,
           NoFailure
    PROVE  RunningInv' /\ PushInv'
<1>0. StateOK /\ SyncTypeOK /\ PusherInv /\ pc = "push" /\ ~Pending
  BY DEF SyncInv, IInv, WindowInv, PushElements
<1>a. PICK a \in Callers : a = Pusher /\ calls[a].at = "pushing" /\ PushOK(a)
  BY <1>0, PusherIs DEF PushInv
<1> DEFINE t == Head(job.todo)[2]
           op == Head(job.todo)[1]
           els == calls[a][op]
           add == calls[a].add
           del == calls[a].del
           prior == calls[a].prior
<1>1. /\ UNCHANGED <<versions, row, pc, cand, model, calls>>
      /\ job.todo # <<>>
      /\ LET can == kernel[t] # Absent /\ (op = "del" => els \subseteq kernel[t])
         IN  \/ /\ can
                /\ kernel' = [kernel EXCEPT ![t] = IF op = "add" THEN @ \cup els
                                                                 ELSE @ \ els]
                /\ job' = [todo |-> Tail(job.todo), pushed |-> job.pushed \/ TRUE,
                           ok   |-> job.ok /\ TRUE]
             \/ ~can
  BY <1>a DEF PushElements, NoFailure, FaultKinds, store, process
<1>2. RunningInv'
  <2>1. LatestInv' /\ SettledInv' /\ LastExists' /\ SnapshotInv'
    BY <1>0, <1>1, PushFrame DEF RunningInv
  <2>2. RunsInv'
    BY <1>0, <1>1 DEF RunsInv, Pending
  <2> QED
    BY <1>0, <1>1, <2>1, <2>2 DEF RunningInv
<1>3. a \in Callers /\ calls[a].at = "pushing" /\ PushOK(a)
  BY <1>a
<1>4. /\ add \cap del = {} /\ Owned(model) = Owned(prior)
      /\ \A u \in Owned(model) : del \subseteq prior[u]
  BY <1>3 DEF CallInv
<1>5. /\ job.todo \in Seq({"add", "del"} \X Tables) /\ Once(job.todo)
      /\ add \in SUBSET Cidrs /\ prior \in Configs
  BY <1>0, <1>3, SyncTypes DEF PushOK, Jobs, CallState
<1>6. /\ Head(job.todo) \in Elems(job.todo) /\ Head(job.todo) = job.todo[1]
      /\ 1 \in DOMAIN job.todo
      /\ Once(Tail(job.todo))
      /\ Elems(Tail(job.todo)) = Elems(job.todo) \ {Head(job.todo)}
      /\ \A i \in DOMAIN Tail(job.todo) :
            i + 1 \in DOMAIN job.todo /\ Tail(job.todo)[i] = job.todo[i + 1]
  BY <1>1, <1>5, TailOnce
<1>7. /\ Head(job.todo) = <<op, t>> /\ op \in {"add", "del"} /\ t \in Owned(model)
      /\ t \in Tables
  <2>1. Head(job.todo) \in {"add", "del"} \X Tables
    BY <1>5, <1>6
  <2>2. t \in Owned(model)
    BY <1>3, <1>6 DEF PushOK
  <2> QED
    BY <2>1, <2>2
<1>8. els = IF op = "add" THEN add ELSE del
  <2>1. calls[a] \in CallState
    BY <1>0, <1>3, SyncTypes
  <2> QED
    BY <1>7, <2>1 DEF CallState
<1>9. \A u \in Owned(model) : kernel[u] = Between(a, u, Elems(job.todo))
  BY <1>3 DEF PushOK
<1> DEFINE now  == Elems(job.todo)
           next == Elems(Tail(job.todo))
<1>10. <<op, t>> \in now /\ next = now \ {<<op, t>>}
  BY <1>6, <1>7
<1> HIDE DEF t, op, els, add, del, prior, now, next
<1>11. kernel[t] = (prior[t] \ IF <<"del", t>> \in now THEN {} ELSE del)
                      \cup IF <<"add", t>> \in now THEN {} ELSE add
  BY <1>7, <1>9 DEF Between, now, add, del, prior
<1>12. prior[t] \in SUBSET Cidrs
  BY <1>4, <1>5, <1>7, ContentsAreElements DEF Owned, Configs, Cell
<1>13. kernel[t] # Absent
  <2>1. kernel[t] \in SUBSET Cidrs
    BY <1>5, <1>11, <1>12
  <2> QED
    BY <2>1, ListIsContent
<1>14. op = "del" => els \subseteq kernel[t]
  BY <1>4, <1>7, <1>8, <1>10, <1>11
<1>15. /\ kernel' = [kernel EXCEPT ![t] = IF op = "add" THEN @ \cup els ELSE @ \ els]
       /\ job' = [todo |-> Tail(job.todo), pushed |-> job.pushed \/ TRUE,
                  ok   |-> job.ok /\ TRUE]
  BY <1>1, <1>13, <1>14 DEF t, op, els
<1>16. job'.todo = Tail(job.todo) /\ job'.pushed /\ job'.ok = job.ok
  BY <1>15, <1>0, SyncTypes DEF Jobs
<1>17. kernel'[t] = (prior[t] \ IF <<"del", t>> \in next THEN {} ELSE del)
                       \cup IF <<"add", t>> \in next THEN {} ELSE add
  <2>1. kernel'[t] = IF op = "add" THEN kernel[t] \cup els ELSE kernel[t] \ els
    BY <1>0, <1>7, <1>15 DEF StateOK, Configs
  <2>2. CASE op = "add"
    <3>1. <<"add", t>> \in now /\ <<"add", t>> \notin next
          /\ (<<"del", t>> \in next <=> <<"del", t>> \in now)
      BY <1>10, <2>2
    <3> QED
      BY <1>8, <1>11, <2>1, <2>2, <3>1
  <2>3. CASE op = "del"
    <3>1. <<"del", t>> \in now /\ <<"del", t>> \notin next
          /\ (<<"add", t>> \in next <=> <<"add", t>> \in now)
      BY <1>10, <2>3
    <3> QED
      BY <1>4, <1>8, <1>11, <2>1, <2>3, <3>1
  <2> QED
    BY <1>7, <2>2, <2>3
<1>18. ASSUME NEW u \in Owned(model), u # t
       PROVE  /\ kernel'[u] = kernel[u]
              /\ <<"add", u>> \in next <=> <<"add", u>> \in now
              /\ <<"del", u>> \in next <=> <<"del", u>> \in now
  BY <1>0, <1>10, <1>15, <1>18 DEF Owned, StateOK, Configs
<1>19. ASSUME NEW u \in Owned(model)
       PROVE  kernel'[u] = Between(a, u, next)
  <2>1. CASE u = t
    BY <1>17, <2>1 DEF Between, add, del, prior
  <2>2. CASE u # t
    <3>1. kernel'[u] = Between(a, u, now)
      BY <1>9, <1>18, <2>2 DEF now
    <3> QED
      BY <1>18, <2>2, <3>1 DEF Between
  <2> QED
    BY <2>1, <2>2
<1>20. PushOK(a)'
  <2>1. \E w \in DOMAIN versions' :
           IsLastConfirmed(w)' /\ versions'[w].config = calls'[a].prior
    BY <1>1, <1>3 DEF PushOK, IsLastConfirmed
  <2>2. Owned(model') = Owned(model)
    BY <1>1
  <2>3. \A u \in Owned(model') : kernel'[u] = Between(a, u, Elems(job.todo))'
    BY <1>1, <1>16, <1>19, <2>2 DEF Between, next
  <2>4. \A k \in DOMAIN job'.todo : job'.todo[k][2] \in Owned(model')
    BY <1>3, <1>6, <1>16, <2>2 DEF PushOK
  <2>5. cand' = model' /\ job'.ok /\ Once(job'.todo) /\ job'.pushed
    BY <1>1, <1>3, <1>6, <1>16 DEF PushOK
  <2> QED
    BY <2>1, <2>3, <2>4, <2>5 DEF PushOK
<1>21. \A b \in Callers : calls'[b].at = "pushing" => b = a
  BY <1>0, <1>1, <1>3 DEF PusherInv, IsPusher
<1> QED
  BY <1>2, <1>20, <1>21 DEF PushInv

\* A push that comes to its end leaves the kernel on the model it re-points the
\* confirmed version to.
LEMMA PushEndOK ==
    ASSUME SyncInv, WindowInv, RunningInv, CallInv, PushInv, NoFailure,
           PushNothing \/ PushRepoint \/ PushRecord
    PROVE  RunningInv' /\ PushInv'
<1>0. StateOK /\ SyncTypeOK /\ PusherInv /\ IInv
  BY DEF SyncInv, IInv
<1>1. PushInv'
  <2>1. Ended(Pusher) \/ MovedTo(Pusher, "recording")
    BY <1>0, PushMoves
  <2>2. /\ Pusher \in Callers
        /\ \A b \in Callers \ {Pusher} : calls[b].at # "pushing"
    BY <1>0, PusherIs, PushMoves DEF IsPusher
  <2>3. calls'[Pusher].at # "pushing"
        /\ \A b \in Callers \ {Pusher} : calls'[b] = calls[b]
    BY <1>0, <2>1, <2>2, MovedFrame DEF Ended, MovedTo
  <2> QED
    BY <2>2, <2>3 DEF PushInv
<1>2. UNCHANGED <<row, kernel>> /\ Pending' = Pending
  BY DEF PushNothing, PushRepoint, PushRecord, store, Pending
<1>3. CASE PushRecord
  <2>1. UNCHANGED versions /\ pc = "push_record" /\ pc' = "idle"
    BY <1>3 DEF PushRecord, Return
  <2>2. LatestInv' /\ SettledInv' /\ LastExists' /\ SnapshotInv'
    BY <1>0, <1>2, <2>1, PushFrame DEF RunningInv
  <2>3. RunsInv'
    BY <1>2, <2>1 DEF RunningInv, RunsInv, Runs
  <2>4. InForceInv'
    BY <1>2, <2>1 DEF RunningInv, InForceInv, InForce, IsLastConfirmed
  <2> QED
    BY <1>1, <2>2, <2>3, <2>4 DEF RunningInv
<1>4. CASE PushNothing \/ PushRepoint
  <2>1. pc = "push" /\ pc' \in {"idle", "push_record"} /\ ~Pending /\ job.todo = <<>>
    BY <1>4 DEF PushNothing, PushRepoint, Return, Goto, WindowInv
  <2>2. PICK a \in Callers : a = Pusher /\ calls[a].at = "pushing" /\ PushOK(a)
    BY <1>0, <2>1, PusherIs DEF PushInv
  <2>3. PICK v \in DOMAIN versions :
           IsLastConfirmed(v) /\ versions[v].config = calls[a].prior
    BY <2>2 DEF PushOK
  <2>4. /\ DOMAIN versions' = DOMAIN versions /\ Len(versions') = Len(versions)
        /\ \A w \in DOMAIN versions : versions'[w].status = versions[w].status
        /\ Runs(versions'[v].config)
    <3>1. Owned(calls[a].prior) = Owned(model)
      BY <2>2 DEF CallInv
    <3>2. CASE PushNothing
      <4>1. versions' = versions /\ ~job.pushed
        BY <3>2 DEF PushNothing, store
      <4>2. Runs(calls[a].prior)
        BY <2>2, <3>1, <4>1 DEF PushOK, Runs
      <4> QED
        BY <2>3, <4>1, <4>2
    <3>3. CASE PushRepoint
      <4>1. versions' = [versions EXCEPT ![LatestApplied].config = cand]
        BY <2>2, <3>3 DEF PushRepoint, PushOK, NoFailure, FaultKinds
      <4>2. LatestApplied = v
        <5>1. \A w \in DOMAIN versions : versions[w].status # "pending"
          BY <1>0, <2>1 DEF RunningInv, SettledInv, Pending, StateOK
        <5>2. versions[v].status \in {"pending", "confirmed"}
          BY <2>3 DEF IsLastConfirmed
        <5>3. ASSUME NEW w \in DOMAIN versions,
                     versions[w].status \in {"pending", "confirmed"}
              PROVE  w <= v
          BY <2>3, <5>1, <5>3 DEF IsLastConfirmed
        <5> QED
          BY <1>0, <5>2, <5>3, NewestIs DEF LatestApplied
      <4>3. versions \in Seq(Version) /\ cand \in Configs
        BY <1>0 DEF StateOK
      <4>4. /\ DOMAIN versions' = DOMAIN versions
            /\ Len(versions') = Len(versions)
            /\ \A w \in DOMAIN versions :
                  /\ versions'[w].status = versions[w].status
                  /\ versions'[w].config = IF w = v THEN cand
                                                    ELSE versions[w].config
        BY <4>1, <4>2, <4>3, RepointChanges
      <4>5. Runs(model)
        <5>1. Elems(job.todo) = {}
          BY <2>1 DEF Elems
        <5>2. \A t \in Owned(model) :
                 kernel[t] = (calls[a].prior[t] \ calls[a].del) \cup calls[a].add
          BY <2>2, <5>1 DEF PushOK, Between
        <5>3. \A t \in Owned(model) :
                 model[t] = (calls[a].prior[t] \ calls[a].del) \cup calls[a].add
          BY <2>2 DEF CallInv
        <5> QED
          BY <5>2, <5>3 DEF Runs
      <4>6. cand = model
        BY <2>2 DEF PushOK
      <4> QED
        BY <4>4, <4>5, <4>6
    <3> QED
      BY <1>4, <3>2, <3>3
  <2>5. LatestInv' /\ SettledInv' /\ LastExists' /\ SnapshotInv'
        /\ \A w \in DOMAIN versions : IsLastConfirmed(w)' <=> IsLastConfirmed(w)
    BY <1>0, <1>2, <2>1, <2>4, PushFrame DEF RunningInv
  <2>6. RunsInv'
    BY <1>2, <2>1 DEF RunsInv
  <2>7. ASSUME NEW w \in DOMAIN versions', IsLastConfirmed(w)'
        PROVE  InForce(versions[w].config)'
    <3>1. w = v
      BY <1>0, <2>3, <2>4, <2>5, <2>7, OneLast
    <3>2. InForce(versions'[v].config)
      BY <1>0, <2>1, <2>4, InForceRuns
    <3> QED
      BY <1>2, <3>1, <3>2 DEF InForce
  <2>8. InForceInv'
    BY <2>7 DEF InForceInv
  <2> QED
    BY <1>1, <2>5, <2>6, <2>8 DEF RunningInv
<1> QED
  BY <1>3, <1>4

\* A step of the pipeline, or an edit.
LEMMA PipelineOK ==
    ASSUME SyncInv, RunningInv, PushInv, AloneInv, Overlap = FALSE, NoFailure,
           Pipeline \/ EditModel
    PROVE  RunningInv' /\ PushInv'
<1>0. StateOK /\ SyncTypeOK /\ PusherInv /\ IInv
  BY DEF SyncInv, IInv
<1>1. [Next]_vars /\ UNCHANGED calls
  BY <1>0, PipelineFrame, EditModelFrame
<1>2. ~Fail("db") /\ ~Fail("crash") /\ ~Fail("kill")
  BY DEF NoFailure, FaultKinds
<1>3. SInv
  BY <1>0 DEF SInv, RunningInv
<1>4. pc = "push" => Pipeline /\ pc' = "push"
  BY PipelineFrame, OnlyPushes
<1>5. pc # "push" => pc' # "push"
  BY <1>0, PipelineFrame, EditModelFrame DEF process
<1>6. LatestInv' /\ SettledInv' /\ LastExists' /\ SnapshotInv' /\ RunsInv'
  BY <1>0, <1>1, <1>2, <1>3, LatestStep, SettledStep, LastExistsStep, SInvStep,
     RunsStep DEF RunningInv, SInv
<1>7. pc' # "push" => InForceInv'
  <2> SUFFICES ASSUME pc' # "push" PROVE InForceInv'
    OBVIOUS
  <2>1. LatestInv /\ RunsInv /\ InForceInv
    BY <1>4 DEF RunningInv
  <2> QED
    BY <1>1, <1>2, <1>3, <2>1, InForceStep
<1>8. PushInv'
  <2> SUFFICES ASSUME NEW a \in Callers, calls[a].at = "pushing"
               PROVE  PushOK(a)'
    BY <1>1 DEF PushInv
  <2>1. pc = "push" /\ PushOK(a)
    BY <1>0 DEF PusherInv, PushInv
  <2>2. UNCHANGED <<versions, kernel, cand, job, model>>
    BY <1>4, <2>1, PipelineWaits, PipelineFrame
  <2>3. Owned(model') = Owned(model)
    BY <2>2
  <2> QED
    BY <1>1, <2>1, <2>2, <2>3 DEF PushOK, IsLastConfirmed, Between
<1> QED
  BY <1>6, <1>7, <1>8 DEF RunningInv

\* Where nothing fails no refresh does.
LEMMA NoRefreshFails ==
    ASSUME NoFailure
    PROVE  \A a \in Callers : ~RefreshFails(a)
BY DEF NoFailure, RefreshFails, FaultKinds

SyncedInv == AloneInv /\ RunningInv /\ CallInv /\ PushInv

\* As long as nothing fails and nothing overlaps a call, what runs is what is
\* recorded to run.
LEMMA SyncedStep ==
    ASSUME SyncInv, WindowInv, SyncedInv, Overlap = FALSE, NoFailure,
           [SyncNext]_allVars
    PROVE  SyncedInv'
<1>0. /\ StateOK /\ SyncTypeOK /\ PusherInv
      /\ AloneInv /\ RunningInv /\ CallInv /\ PushInv
  BY DEF SyncInv, IInv, SyncedInv
<1>1. AloneInv' /\ CallInv'
  BY <1>0, AloneStep, CallInvStep, NoRefreshFails
<1>2. ASSUME Pipeline \/ EditModel
      PROVE  RunningInv' /\ PushInv'
  BY <1>0, <1>2, PipelineOK
<1>3. ~SyncCrash
  BY DEF SyncCrash, Crash, NoFailure, FaultKinds
<1>4. ASSUME UNCHANGED <<versions, row, ledger, baseline, kernel, process>>,
             pc # "push"
      PROVE  RunningInv' /\ PushInv'
  <2>1. PusherInv'
    BY <1>0, PusherStep
  <2>2. PushInv'
    BY <1>4, <2>1 DEF PusherInv, PushInv, process
  <2>3. Pending' = Pending
    BY <1>4 DEF Pending
  <2>4. LatestInv' /\ SettledInv'
    BY <1>0, <1>4, <2>3 DEF RunningInv, LatestInv, SettledInv, process
  <2>5. LastExists' /\ \A v : IsLastConfirmed(v)' <=> IsLastConfirmed(v)
    BY <1>0, <1>4 DEF RunningInv, LastExists, NoneConfirmed, IsLastConfirmed
  <2>6. SnapshotInv'
    BY <1>0, <1>4 DEF RunningInv, SnapshotInv, process
  <2>7. RunsInv'
    BY <1>0, <1>4, <2>3 DEF RunningInv, RunsInv, Runs, process
  <2>8. InForceInv'
    BY <1>0, <1>4, <2>5 DEF RunningInv, InForceInv, InForce, process
  <2> QED
    BY <2>2, <2>4, <2>5, <2>6, <2>7, <2>8 DEF RunningInv
<1>5. ASSUME EditList
      PROVE  RunningInv' /\ PushInv'
  <2>1. pc # "push"
    BY <1>0, <1>5, OnlyPushes
  <2> QED
    BY <1>4, <1>5, <2>1 DEF EditList
<1>6. ASSUME NEW a \in Callers, LocalCall(a) \/ ListWrite(a) \/ PushSkips(a)
      PROVE  RunningInv' /\ PushInv'
  <2>1. pc # "push"
    BY <1>0, <1>6, OnlyPushes
  <2>2. UNCHANGED <<versions, row, ledger, baseline, kernel, process>>
    BY <1>0, <1>6, LocalCallMoves, ListWriteMoves DEF PushSkips, vars, store,
       process, locals
  <2> QED
    BY <1>4, <2>1, <2>2
<1>7. ASSUME NEW a \in Callers, PushBegin(a)
      PROVE  RunningInv' /\ PushInv'
  BY <1>0, <1>7, PushBeginOK
<1>8. ASSUME Push
      PROVE  RunningInv' /\ PushInv'
  BY <1>0, <1>8, PushElementsOK, PushEndOK DEF Push
<1>9. RunningInv' /\ PushInv'
  BY <1>2, <1>3, <1>5, <1>6, <1>7, <1>8, NoRefreshFails DEF SyncNext, Pipeline, Call,
     LocalCall, ListWrite, allVars
<1> QED
  BY <1>1, <1>9 DEF SyncedInv

\* SyncedInv holds at first.
LEMMA SyncedInit == SyncInit => SyncedInv
<1> SUFFICES ASSUME SyncInit PROVE SyncedInv
  OBVIOUS
<1>1. /\ versions = <<>> /\ pc = "idle" /\ ~Pending /\ row.version = 0
      /\ \A a \in Callers : calls[a].at = "idle"
  BY DEF SyncInit, Init, Pending, NoRow, NoCall
<1>2. DOMAIN versions = {} /\ Len(versions) = 0
  BY <1>1
<1>3. AloneInv /\ CallInv /\ PushInv
  BY <1>1 DEF AloneInv, CallInv, PushInv
<1>4. LatestInv /\ SettledInv /\ SnapshotInv
  BY <1>1, <1>2 DEF LatestInv, SettledInv, SnapshotInv
<1>5. LastExists /\ RunsInv /\ InForceInv
  BY <1>1, <1>2 DEF LastExists, NoneConfirmed, RunsInv, InForceInv
<1> QED
  BY <1>3, <1>4, <1>5 DEF SyncedInv, RunningInv

\* How any step changes the budget of failures.
LEMMA SyncFaults ==
    ASSUME [SyncNext]_allVars
    PROVE  UNCHANGED faults \/ \E kind \in FaultKinds : Fail(kind)
<1>1. Pipeline => UNCHANGED faults \/ \E kind \in FaultKinds : Fail(kind)
  BY PipelineFrame, FaultSteps
<1>2. SyncCrash => Fail("crash")
  BY DEF SyncCrash, Crash
<1>3. ASSUME NEW a \in Callers, Call(a)
      PROVE  UNCHANGED faults \/ \E kind \in FaultKinds : Fail(kind)
  BY <1>3 DEF Call, BlockStart, UnblockStart, WriteEntry, WriteEntryRefused,
     RefreshStart, RefreshBefore, RefreshReplace, RefreshAfter, RefreshFails,
     PushBegin, PushSkips, Keep, vars, FaultKinds
<1>4. Push => UNCHANGED faults \/ \E kind \in FaultKinds : Fail(kind)
  BY DEF Push, PushElements, PushNothing, PushRepoint, PushRecord, FaultKinds
<1>5. EditModel \/ EditList \/ UNCHANGED allVars => UNCHANGED faults
  BY DEF EditModel, EditTable, EditList, allVars, vars
<1> QED
  BY <1>1, <1>2, <1>3, <1>4, <1>5 DEF SyncNext, Pipeline, FaultKinds

SyncedUnlessFailed ==
    /\ SyncInv /\ WindowInv /\ BudgetInv
    /\ faults = Faults => SyncedInv

\* Without overlap SyncedInv holds until something fails.
LEMMA SyncedHolds ==
    ASSUME Overlap = FALSE
    PROVE  SyncSpec => []SyncedUnlessFailed
<1> USE DEF SyncedUnlessFailed
<1>1. SyncInit => SyncedUnlessFailed
  <2>1. SyncInit => WindowInv
    BY DEF SyncInit, Init, WindowInv
  <2>2. SyncInit => BudgetInv
    BY FaultsAssumption DEF SyncInit, Init, BudgetInv
  <2> QED
    BY <2>1, <2>2, SyncInvInit, SyncedInit
<1>2. SyncedUnlessFailed /\ [SyncNext]_allVars => SyncedUnlessFailed'
  <2> SUFFICES ASSUME SyncedUnlessFailed, [SyncNext]_allVars
               PROVE  SyncedUnlessFailed'
    OBVIOUS
  <2>1. StateOK
    BY DEF SyncInv, IInv
  <2>2. /\ BudgetInv'
        /\ faults' = Faults => faults = Faults /\ NoFailure
    BY <2>1, SyncFaults, FaultFrame DEF NoFailure
  <2>3. SyncInv' /\ WindowInv'
    BY SyncInvStep, WindowStep
  <2>4. faults' = Faults => SyncedInv'
    BY <2>2, SyncedStep
  <2> QED
    BY <2>2, <2>3, <2>4
<1> QED
  BY <1>1, <1>2, PTL DEF SyncSpec

\* The Changes page shows no difference only when the kernel runs the model, if
\* the model is left alone while a call is in progress, until something fails:
\* that an edit may overlap a call is all there is to the race that loses a
\* push.
THEOREM QuietIsLoaded ==
    ASSUME Overlap = FALSE
    PROVE  SyncSpec => [](faults = Faults => QuietMeansLoaded)
<1>1. SyncedUnlessFailed => (faults = Faults => QuietMeansLoaded)
  <2> SUFFICES ASSUME SyncInv, SyncedInv, pc = "idle", LatestApplied # 0,
                      model = versions[LatestApplied].config
               PROVE  \A t \in Owned(model) : kernel[t] = model[t]
    BY DEF SyncedUnlessFailed, QuietMeansLoaded
  <2>1. Runs(versions[LatestApplied].config)
    BY LatestFound DEF SyncInv, SyncedInv, RunningInv
  <2> QED
    BY <2>1 DEF Runs
<1> QED
  BY <1>1, SyncedHolds, PTL

-----------------------------------------------------------------------------
(* The poller and what is changed outside nftably (DriftWatch)             *)


-----------------------------------------------------------------------------
(* The steps                                                               *)

\* What the poller and an operator with nft do to the rest of the system.
LEMMA DriftSteps ==
    ASSUME [DriftNext]_watchVars
    PROVE  \/ SystemStep \/ DriftCrash \/ ForeignEdit
           \/ UNCHANGED allVars /\ UNCHANGED <<foreign, tampered, missed>>
           \/ PollFails
<1>1. PollBaseline \/ PollLedger \/ PollVerdict =>
         UNCHANGED allVars /\ UNCHANGED <<foreign, tampered, missed>>
  BY DEF PollBaseline, PollLedger, PollVerdict, PollRead
<1>2. ASSUME NEW t \in Tables, PollTable(t)
      PROVE  UNCHANGED allVars /\ UNCHANGED <<foreign, tampered, missed>>
  BY <1>2 DEF PollTable, PollRead
<1>3. LowerFlag \/ UNCHANGED watchVars =>
         UNCHANGED allVars /\ UNCHANGED <<foreign, tampered, missed>>
  BY DEF LowerFlag, watchVars, driftVars
<1> QED
  BY <1>1, <1>2, <1>3 DEF DriftNext, Poll

\* A step of the poller or of somebody with nft keeps what the pipeline and the
\* pushes rely on, since none of it speaks of what the kernel runs.
LEMMA OutsideStep ==
    ASSUME SyncInv, WindowInv, StateOK', UNCHANGED <<store, process, syncVars>>
    PROVE  SyncInv' /\ WindowInv'
<1>1. IInv'
  BY IInvFrame DEF SyncInv, store, process
<1>2. SyncTypeOK'
  <2>1. UNCHANGED <<list, model, calls, job>>
    BY DEF store, syncVars
  <2> QED
    BY <2>1 DEF SyncInv, SyncTypeOK, Owned
<1>3. PusherInv'
  <2>1. UNCHANGED <<pc, calls>>
    BY DEF process, syncVars
  <2> QED
    BY <2>1 DEF SyncInv, PusherInv, IsPusher
<1>4. WindowInv'
  <2>1. UNCHANGED <<pc, row, snaps, cand, ledger>>
    BY DEF process, store
  <2> QED
    BY <2>1 DEF WindowInv, Pending, Owned
<1> QED
  BY <1>1, <1>2, <1>3, <1>4 DEF SyncInv

\* A foreign edit keeps the types of the pipeline's variables.
LEMMA ForeignEditState ==
    ASSUME StateOK, ForeignEdit
    PROVE  StateOK'
<1>1. kernel' \in Configs
  BY DEF ForeignEdit, StateOK, Configs
<1> QED
  BY <1>1 DEF ForeignEdit, StateOK, store, process

\* A reading that fails keeps the types of the pipeline's variables.
LEMMA PollFailsState ==
    ASSUME StateOK, PollFails
    PROVE  StateOK'
<1>1. faults' \in [FaultKinds -> Nat]
  BY FailType DEF PollFails, StateOK, FaultKinds
<1> QED
  BY <1>1 DEF PollFails, StateOK, store, process

\* A step uses up at most one failure.
LEMMA DriftFaults ==
    ASSUME [DriftNext]_watchVars
    PROVE  UNCHANGED faults \/ \E kind \in FaultKinds : Fail(kind)
<1>1. SystemStep \/ DriftCrash =>
         UNCHANGED faults \/ \E kind \in FaultKinds : Fail(kind)
  BY SyncFaults DEF SystemStep, DriftCrash, SyncNext
<1>2. PollFails => Fail("nft")
  BY DEF PollFails
<1>3. ForeignEdit \/ UNCHANGED allVars => UNCHANGED faults
  BY DEF ForeignEdit, allVars, vars
<1> QED
  BY <1>1, <1>2, <1>3, DriftSteps DEF FaultKinds

\* What the rest of the system relies on, next to the poller.
BelowInv == SyncInv /\ WindowInv /\ BudgetInv

\* Every step keeps what is known of the pipeline and of the pushes.
LEMMA BelowStep ==
    ASSUME BelowInv, [DriftNext]_watchVars
    PROVE  BelowInv'
<1>0. StateOK
  BY DEF BelowInv, SyncInv, IInv
<1>1. BudgetInv'
  BY <1>0, DriftFaults, FaultFrame DEF BelowInv
<1>2. CASE [SyncNext]_allVars
  BY <1>1, <1>2, SyncInvStep, WindowStep DEF BelowInv
<1>3. CASE ForeignEdit
  BY <1>0, <1>1, <1>3, ForeignEditState, OutsideStep DEF BelowInv, ForeignEdit
<1>4. CASE PollFails
  BY <1>0, <1>1, <1>4, PollFailsState, OutsideStep DEF BelowInv, PollFails
<1> QED
  BY <1>2, <1>3, <1>4, DriftSteps DEF SystemStep, DriftCrash, SyncNext

\* What is known of the pipeline and of the pushes holds at first.
LEMMA BelowInit == DriftInit => BelowInv
<1>1. DriftInit => WindowInv
  BY DEF DriftInit, SyncInit, Init, WindowInv
<1>2. DriftInit => BudgetInv
  BY FaultsAssumption DEF DriftInit, SyncInit, Init, BudgetInv
<1> QED
  BY <1>1, <1>2, SyncInvInit DEF DriftInit, BelowInv

-----------------------------------------------------------------------------
(* Types                                                                   *)

Polls == [at   : {"wait", "ledger", "list"},
          base : {{}} \cup {{f} : f \in Snapshots},
          refs : SUBSET Tables,
          live : Snapshots]

\* DriftTypeOK of the variables that are this module's own; no table is listed
\* before the ledger is read.
WatchOK ==
    /\ poll \in Polls
    /\ DOMAIN poll.live \subseteq poll.refs
    /\ poll.at = "ledger" => DOMAIN poll.live = {}
    /\ sampled \in BOOLEAN /\ flag \in BOOLEAN /\ lower \in BOOLEAN
    /\ calm \in BOOLEAN /\ missed \in BOOLEAN
    /\ foreign \in 0..MaxForeign
    /\ tampered \subseteq Tables

\* A poller that waits has read nothing.
LEMMA NoPollType ==
    /\ NoPoll \in Polls /\ NoPoll.at = "wait"
    /\ DOMAIN NoPoll.live \subseteq NoPoll.refs
<1>1. NoTables \in Snapshots
  BY EmptyTypes
<1> QED
  BY <1>1 DEF NoPoll, Polls, NoTables

\* What a tick has read is kept as it goes on.
LEMMA PollMoves ==
    ASSUME StateOK, poll \in Polls, DOMAIN poll.live \subseteq poll.refs
    PROVE  /\ PollBaseline =>
                 /\ poll' \in Polls /\ poll'.at = "ledger"
                 /\ poll'.base = baseline /\ DOMAIN poll'.live = {}
           /\ PollLedger /\ poll' # NoPoll =>
                 /\ poll' \in Polls /\ poll'.at = "list"
                 /\ poll'.base = poll.base /\ poll'.refs = ledger
                 /\ poll'.live = poll.live
           /\ \A t \in Tables : PollTable(t) =>
                 /\ poll' \in Polls /\ poll'.at = "list"
                 /\ poll'.base = poll.base /\ poll'.refs = poll.refs
                 /\ DOMAIN poll'.live = DOMAIN poll.live \cup {t}
                 /\ t \in poll.refs
                 /\ \A u \in DOMAIN poll'.live :
                       poll'.live[u] = IF u = t THEN kernel[t] ELSE poll.live[u]
<1>1. ASSUME PollBaseline
      PROVE  /\ poll' \in Polls /\ poll'.at = "ledger"
             /\ poll'.base = baseline /\ DOMAIN poll'.live = {}
  <2> DEFINE d == [NoPoll EXCEPT !.at = "ledger", !.base = baseline]
  <2>1. baseline \in {{}} \cup {{f} : f \in Snapshots}
    BY DEF StateOK
  <2>2. NoPoll \in Polls /\ DOMAIN NoPoll.live = {}
    BY NoPollType DEF NoPoll, NoTables
  <2>3. d \in Polls /\ d.at = "ledger" /\ d.base = baseline /\ d.live = NoPoll.live
    BY <2>1, <2>2 DEF Polls
  <2>4. poll' = d
    BY <1>1 DEF PollBaseline
  <2> HIDE DEF d
  <2> QED
    BY <2>2, <2>3, <2>4
<1> DEFINE p == poll
<1>2. ASSUME PollLedger, poll' # NoPoll
      PROVE  /\ poll' \in Polls /\ poll'.at = "list"
             /\ poll'.base = p.base /\ poll'.refs = ledger
             /\ poll'.live = p.live
  <2> DEFINE d == [p EXCEPT !.at = "list", !.refs = ledger]
  <2>1. ledger \in SUBSET Tables /\ p \in Polls
    BY DEF StateOK
  <2>2. poll' = d
    BY <1>2 DEF PollLedger
  <2> HIDE DEF p
  <2>3. /\ d \in Polls /\ d.at = "list" /\ d.base = p.base /\ d.refs = ledger
        /\ d.live = p.live
    BY <2>1 DEF Polls
  <2> HIDE DEF d
  <2> QED
    BY <2>2, <2>3
<1>3. ASSUME NEW t \in Tables, PollTable(t)
      PROVE  /\ poll' \in Polls /\ poll'.at = "list"
             /\ poll'.base = p.base /\ poll'.refs = p.refs
             /\ DOMAIN poll'.live = DOMAIN p.live \cup {t}
             /\ t \in p.refs
             /\ \A u \in DOMAIN poll'.live :
                   poll'.live[u] = IF u = t THEN kernel[t] ELSE p.live[u]
  <2> DEFINE more == [u \in DOMAIN p.live \cup {t} |->
                         IF u = t THEN kernel[t] ELSE p.live[u]]
             d == [p EXCEPT !.live = more]
  <2>1. p.live \in Snapshots /\ p \in Polls
    BY DEF Polls
  <2>2. more \in Snapshots
    <3>1. PICK S \in SUBSET Tables : p.live \in [S -> Cell]
      BY <2>1 DEF Snapshots
    <3>2. kernel[t] \in Cell
      BY DEF StateOK, Configs
    <3>3. more \in [S \cup {t} -> Cell]
      BY <3>1, <3>2
    <3>4. S \cup {t} \in SUBSET Tables
      OBVIOUS
    <3> QED
      BY <3>3, <3>4 DEF Snapshots
  <2>3. /\ poll' = d /\ t \in p.refs /\ p.at = "list"
    BY <1>3 DEF PollTable
  <2>4. /\ DOMAIN more = DOMAIN p.live \cup {t}
        /\ \A u \in DOMAIN more : more[u] = IF u = t THEN kernel[t] ELSE p.live[u]
    OBVIOUS
  <2> HIDE DEF p, more
  <2>5. /\ d \in Polls /\ d.at = p.at /\ d.base = p.base /\ d.refs = p.refs
        /\ d.live = more
    BY <2>1, <2>2 DEF Polls
  <2> HIDE DEF d
  <2> QED
    BY <2>3, <2>4, <2>5
<1> QED
  BY <1>1, <1>2, <1>3

\* The poller's variables have their types at first.
LEMMA WatchInit == DriftInit => WatchOK
<1>1. MaxForeign \in 0..MaxForeign
  BY MaxForeignAssumption
<1>2. DriftInit => /\ poll = NoPoll /\ foreign = MaxForeign /\ tampered = {}
                   /\ sampled = FALSE /\ flag = FALSE /\ lower = FALSE
                   /\ calm = TRUE /\ missed = FALSE
  BY DEF DriftInit
<1> QED
  BY <1>1, <1>2, NoPollType DEF WatchOK

\* Every step keeps the types of the poller's variables.
LEMMA WatchStep ==
    ASSUME StateOK, WatchOK, [DriftNext]_watchVars
    PROVE  WatchOK'
<1> USE DEF WatchOK
<1>1. CASE SystemStep
  BY <1>1 DEF SystemStep
<1>2. CASE DriftCrash \/ LowerFlag
  BY <1>2, NoPollType DEF DriftCrash, LowerFlag
<1>3. CASE ForeignEdit
  <2>1. foreign' \in 0..MaxForeign
    BY <1>3, MaxForeignAssumption DEF ForeignEdit
  <2> QED
    BY <1>3, <2>1 DEF ForeignEdit
<1>4. ASSUME poll' \in Polls, DOMAIN poll'.live \subseteq poll'.refs,
             sampled' \in BOOLEAN, flag' \in BOOLEAN, calm' \in BOOLEAN,
             poll'.at = "ledger" => DOMAIN poll'.live = {},
             UNCHANGED <<lower, foreign, tampered, missed>>
      PROVE  WatchOK'
  BY <1>4
<1>5. CASE PollBaseline
  <2>1. calm' \in BOOLEAN
    <3>1. OnRecord \in BOOLEAN
      BY DEF OnRecord
    <3> QED
      BY <1>5, <3>1 DEF PollBaseline
  <2>2. UNCHANGED <<sampled, flag, lower, foreign, tampered, missed>>
    BY <1>5 DEF PollBaseline, PollRead
  <2>3. poll' \in Polls /\ DOMAIN poll'.live = {}
    BY <1>5, PollMoves
  <2> QED
    BY <1>4, <2>1, <2>2, <2>3
<1>6. CASE PollLedger
  <2>1. UNCHANGED <<sampled, flag, lower, calm, foreign, tampered, missed>>
    BY <1>6 DEF PollLedger, PollRead
  <2>2. CASE poll' = NoPoll
    BY <1>4, <2>1, <2>2, NoPollType
  <2>3. CASE poll' # NoPoll
    <3>1. poll' \in Polls /\ poll'.refs = ledger /\ poll'.live = poll.live
      BY <1>6, <2>3, PollMoves
    <3>2. DOMAIN poll'.live = {} /\ poll'.at = "list"
      BY <1>6, <2>3, <3>1, PollMoves DEF PollLedger
    <3> QED
      BY <1>4, <2>1, <3>1, <3>2
  <2> QED
    BY <2>2, <2>3
<1>7. ASSUME NEW t \in Tables, PollTable(t) PROVE WatchOK'
  BY <1>4, <1>7, PollMoves DEF PollTable, PollRead
<1>8. CASE PollVerdict
  <2>1. Verdict \in BOOLEAN
    BY DEF Verdict
  <2>2. /\ flag' = Verdict /\ sampled' = Verdict /\ poll' = NoPoll
        /\ UNCHANGED <<lower, calm, foreign, tampered, missed>>
    BY <1>8 DEF PollVerdict, PollRead
  <2> QED
    BY <1>4, <2>1, <2>2, NoPollType
<1>9. CASE PollFails
  BY <1>4, <1>9, NoPollType DEF PollFails
<1>10. CASE UNCHANGED watchVars
  BY <1>10 DEF watchVars, driftVars
<1> QED
  BY <1>1, <1>2, <1>3, <1>5, <1>6, <1>7, <1>8, <1>9, <1>10 DEF DriftNext, Poll

\* Both hold always.
LEMMA WatchHolds == DriftSpec => [](BelowInv /\ WatchOK)
<1>1. DriftInit => BelowInv /\ WatchOK
  BY BelowInit, WatchInit
<1>2. BelowInv /\ WatchOK /\ [DriftNext]_watchVars => (BelowInv /\ WatchOK)'
  BY BelowStep, WatchStep DEF BelowInv, SyncInv, IInv
<1> QED
  BY <1>1, <1>2, PTL DEF DriftSpec

\* The poller's variables, the flag and the history keep to their types, and the
\* tables listed in a tick are tables of the ledger it has read.
THEOREM DriftTypeCorrect == DriftSpec => []DriftTypeOK
<1>1. BelowInv /\ WatchOK => DriftTypeOK
  BY DEF BelowInv, SyncInv, WatchOK, Polls, DriftTypeOK
<1> QED
  BY <1>1, WatchHolds, PTL

-----------------------------------------------------------------------------
(* What is applied is what runs                                            *)

\* Nothing has failed and nobody has changed the kernel.
Untouched == foreign = MaxForeign /\ faults = Faults

\* Before the first foreign edit and the first failure, a step is one of
\* ListSync in which nothing fails.
LEMMA UntouchedStep ==
    ASSUME BelowInv, WatchOK, [DriftNext]_watchVars, Untouched'
    PROVE  /\ Untouched
           /\ [SyncNext]_allVars /\ NoFailure
<1>0. StateOK /\ BudgetInv
  BY DEF BelowInv, SyncInv, IInv
<1>1. faults = Faults /\ NoFailure
  BY <1>0, DriftFaults, FaultFrame DEF Untouched, NoFailure
<1>2. ~PollFails
  BY <1>1 DEF PollFails, NoFailure, FaultKinds
<1>3. ~ForeignEdit
  <2>1. foreign \in Nat /\ foreign <= MaxForeign
    BY MaxForeignAssumption DEF WatchOK
  <2> QED
    BY <2>1, MaxForeignAssumption DEF ForeignEdit, Untouched
<1>4. UNCHANGED foreign /\ [SyncNext]_allVars
  BY <1>2, <1>3, DriftSteps DEF SystemStep, DriftCrash, SyncNext
<1> QED
  BY <1>1, <1>4 DEF Untouched

\* As long as nothing fails and nobody else changes the kernel, the version
\* LatestAppliedConfig answers with is what the kernel runs, the elements pushed
\* past the pipeline included, if the model is left alone while a call is in
\* progress.
THEOREM AppliedLoaded ==
    ASSUME Overlap = FALSE
    PROVE  DriftSpec => []AppliedIsLoaded
<1> DEFINE J == BelowInv /\ WatchOK /\ (Untouched => SyncedInv)
<1>1. DriftInit => J
  BY BelowInit, WatchInit, SyncedInit DEF DriftInit
<1>2. J /\ [DriftNext]_watchVars => J'
  <2> SUFFICES ASSUME J, [DriftNext]_watchVars PROVE J'
    OBVIOUS
  <2>1. BelowInv' /\ WatchOK'
    BY BelowStep, WatchStep DEF BelowInv, SyncInv, IInv
  <2>2. ASSUME Untouched' PROVE SyncedInv'
    BY <2>2, UntouchedStep, SyncedStep DEF BelowInv
  <2> QED
    BY <2>1, <2>2
<1>3. J => AppliedIsLoaded
  <2> SUFFICES ASSUME J, Untouched, pc = "idle", LatestApplied # 0
               PROVE  Runs(versions[LatestApplied].config)
    BY DEF AppliedIsLoaded, LatestAppliedLoaded, Untouched, Runs
  <2> QED
    BY LatestFound DEF BelowInv, SyncInv, SyncedInv, RunningInv
<1> QED
  BY <1>1, <1>2, <1>3, PTL DEF DriftSpec

-----------------------------------------------------------------------------
(* An alarm has a cause                                                    *)

\* Until somebody else changes a table, its snapshot is what the kernel runs of
\* it, before the script and after its revert.
UntamperedInv == ~missed =>
    /\ pc \in {"apply_record", "apply_arm"} =>
          \A t \in DOMAIN snaps \ tampered : snaps[t] = kernel[t]
    /\ pc \in {"apply_load", "fail_clear", "revert_clear"} =>
          \A t \in DOMAIN row.prev \ tampered : row.prev[t] = kernel[t]

\* No statement is due that would record what nftably has done to the kernel,
\* and none was missed.
Recorded ==
    /\ pc \notin {"confirm_status", "confirm_ledger", "confirm_baseline",
                  "push_record"}
    /\ pc = "push" => ~job.pushed
    /\ ~missed
    /\ baseline # {}

\* The fingerprint is of the ledger's tables as they are in the ruleset that is
\* in force, but for what somebody else has changed.
BaselineInv ==
    Recorded =>
       \E f \in baseline :
          /\ baseline = {f} /\ DOMAIN f = ledger
          /\ \A t \in ledger \ tampered : f[t] = Restored(kernel, row.prev)[t]

\* The fingerprint is of the ledger's tables as the kernel runs them, but for
\* what somebody else has changed.
Matching ==
    \E f \in baseline :
       /\ baseline = {f} /\ DOMAIN f = ledger
       /\ \A t \in ledger \ tampered : f[t] = kernel[t]

\* In a tick that found everything on record and met no further change of
\* nftably's, what the poller has read stays as it is, but for what somebody
\* else changes.
PollInv ==
    poll.at # "wait" /\ calm /\ ~missed =>
       /\ Matching
       /\ poll.base = baseline
       /\ poll.at = "list" => poll.refs = ledger
       /\ \A t \in DOMAIN poll.live \ tampered : poll.live[t] = kernel[t]

CauseInv == UntamperedInv /\ BaselineInv /\ PollInv

\* Every step keeps UntamperedInv.
LEMMA UntamperedStep ==
    ASSUME StateOK, WatchOK, UntamperedInv, [DriftNext]_watchVars
    PROVE  UntamperedInv'
<1> USE DEF UntamperedInv
<1>1. CASE SystemStep
  <2>1. pc' \in {"apply_record", "apply_arm", "apply_load", "fail_clear",
                 "revert_clear"} =>
            /\ tampered' = tampered
            /\ ~missed' => ~missed /\ ~CutShort
    BY <1>1 DEF SystemStep, Recording, AtRecord
  <2>2. CASE UNCHANGED <<pc, snaps, row, kernel>>
    BY <2>1, <2>2
  <2>3. CASE Apply
    <3> USE DEF Goto, Return
    <3>1. CASE ApplySnapshot
      BY <2>1, <3>1 DEF ApplySnapshot, Listing
    <3>2. CASE ApplyRecord
      BY <2>1, <3>2 DEF ApplyRecord
    <3>3. CASE ApplyArm
      BY <2>1, <3>3 DEF ApplyArm, locals
    <3>4. CASE ApplyLoadFails
      BY <2>1, <3>4 DEF ApplyLoadFails, CutShort, store
    <3> QED
      BY <2>3, <3>1, <3>2, <3>3, <3>4 DEF Apply, ApplyBegin, ApplyAbandon,
         ApplyArmFails, ApplyLoad, ApplyFailClear, ApplyFailStatus
  <2>4. CASE Confirm
    BY <2>4 DEF Goto, Return, Confirm, ConfirmBegin, ConfirmClear,
       ConfirmStatus, ConfirmFails, ConfirmLedger, ConfirmBaseline
  <2>5. CASE Revert
    <3> USE DEF Goto, Return
    <3>1. CASE RevertLoad
      <4>1. kernel' = Restored(kernel, row.prev) /\ row' = row /\ pc' = "revert_clear"
        BY <3>1 DEF RevertLoad, store
      <4>2. DOMAIN row.prev \subseteq Tables
        BY DEF StateOK, Snapshots
      <4> QED
        BY <4>1, <4>2 DEF Restored
    <3>2. CASE TimerFires \/ \E v \in firing : AutoRevertReturns(v)
      BY <2>2, <3>2 DEF TimerFires, AutoRevertReturns, store, locals
    <3> QED
      BY <2>5, <3>1, <3>2 DEF Revert, RollbackBegin, Recover, RecoverReturns,
         RevertLoadFails, RevertClear, RevertClearFails, RevertStatus,
         AutoRevert
  <2>6. CASE Restart \/ UNCHANGED vars
    BY <2>2, <2>6 DEF Restart, Goto, vars
  <2>7. CASE CallStep
    BY <2>2, <2>7, CallFrame
  <2>8. CASE PushElements
    <3>1. pc' = "push"
      BY <2>8 DEF PushElements, process
    <3> QED
      BY <3>1
  <2> QED
    BY <1>1, <2>3, <2>4, <2>5, <2>6, <2>7, <2>8 DEF SystemStep, SyncNext,
       CallStep, Push
<1>2. CASE DriftCrash
  BY <1>2 DEF DriftCrash, SyncCrash, Crash
<1>3. CASE ForeignEdit
  <2>1. PICK t \in Tables : /\ \A u \in Tables \ {t} : kernel'[u] = kernel[u]
                            /\ tampered' = tampered \cup {t}
    BY <1>3 DEF ForeignEdit, StateOK, Configs
  <2>2. UNCHANGED <<pc, snaps, row, missed>>
    BY <1>3 DEF ForeignEdit, store, process
  <2>3. DOMAIN row.prev \subseteq Tables /\ DOMAIN snaps \subseteq Tables
    BY DEF StateOK, Snapshots
  <2> QED
    BY <2>1, <2>2, <2>3
<1>4. CASE UNCHANGED <<pc, snaps, row, kernel, tampered, missed>>
  BY <1>4
<1> QED
  BY <1>1, <1>2, <1>3, <1>4, DriftSteps DEF PollFails, allVars, vars, store,
     process

\* Of a table nobody else has changed, no step but a confirm and a push changes
\* what is in force.
LEMMA InForceStays ==
    ASSUME IInv, WindowInv, UntamperedInv, [SyncNext]_allVars, ~missed,
           ~CutShort, pc' # "confirm_status", pc' = "push" => ~job'.pushed,
           NEW t \in Tables \ tampered
    PROVE  Restored(kernel', row'.prev)[t] = Restored(kernel, row.prev)[t]
<1>1. CASE UNCHANGED <<row, kernel>>
  BY <1>1
<1>2. CASE Apply
  <2>1. CASE ApplyArm
    <3>1. row = NoRow /\ pc = "apply_arm"
      BY <2>1 DEF ApplyArm, Goto, IInv, RowInv
    <3>2. row'.prev = snaps /\ kernel' = kernel
      BY <2>1 DEF ApplyArm
    <3> QED
      BY <3>1, <3>2 DEF UntamperedInv, Restored, NoRow, NoTables
  <2>2. CASE ApplyLoad
    <3>1. /\ kernel' = Loaded(kernel, cand, ledger \ Owned(cand)) /\ row' = row
          /\ pc = "apply_load"
      BY <2>2 DEF ApplyLoad, store
    <3>2. Owned(cand) \cup (ledger \ Owned(cand)) \subseteq DOMAIN row.prev
      BY <3>1 DEF WindowInv
    <3> QED
      BY <3>1, <3>2, UndoesLoad
  <2>3. CASE ApplyFailClear
    <3>1. row' = row \/ row'.prev = NoTables
      BY <2>3 DEF ApplyFailClear, NoRow
    <3>2. pc = "fail_clear" /\ kernel' = kernel
      BY <2>3 DEF ApplyFailClear, Goto
    <3> QED
      BY <3>1, <3>2 DEF UntamperedInv, Restored, NoTables
  <2>4. CASE ApplyLoadFails
    BY <1>1, <2>4 DEF ApplyLoadFails, Goto, CutShort, store
  <2> QED
    BY <1>1, <1>2, <2>1, <2>2, <2>3, <2>4 DEF Apply, ApplyBegin, ApplySnapshot,
       ApplyAbandon, ApplyRecord, ApplyArmFails, ApplyFailStatus, store
<1>3. CASE Confirm
  BY <1>1, <1>3 DEF Confirm, ConfirmBegin, ConfirmClear, ConfirmStatus, Goto,
     ConfirmFails, ConfirmLedger, ConfirmBaseline, store
<1>4. CASE Revert
  <2>1. CASE RevertLoad
    BY <2>1, UndoesItself DEF RevertLoad, store
  <2>2. CASE RevertClear
    <3>1. row'.prev = NoTables /\ pc = "revert_clear" /\ kernel' = kernel
      BY <2>2 DEF RevertClear, Goto, NoRow
    <3> QED
      BY <3>1 DEF UntamperedInv, Restored, NoTables
  <2>3. CASE RevertLoadFails
    BY <1>1, <2>3, UndoesItself DEF RevertLoadFails, store
  <2> QED
    BY <1>1, <1>4, <2>1, <2>2, <2>3 DEF Revert, RollbackBegin, TimerFires,
       Recover, RecoverReturns, RevertClearFails, RevertStatus, AutoRevert,
       AutoRevertReturns, store
<1>5. CASE Restart \/ SyncCrash \/ UNCHANGED allVars
  BY <1>1, <1>5 DEF Restart, SyncCrash, Crash, store, allVars, vars
<1>6. CASE CallStep
  BY <1>1, <1>6, CallFrame
<1>7. CASE PushElements
  <2>1. pc = "push" /\ UNCHANGED <<pc, row>>
    BY <1>7 DEF PushElements, store, process
  <2>2. CASE /\ UNCHANGED row
             /\ job' = [todo |-> Tail(job.todo), pushed |-> job.pushed \/ TRUE,
                        ok   |-> job.ok /\ TRUE]
    BY <2>1, <2>2
  <2>3. CASE UNCHANGED kernel \/ Fail("kill")
    BY <1>1, <2>1, <2>3 DEF CutShort
  <2> QED
    BY <1>7, <2>1, <2>2, <2>3 DEF PushElements
<1> QED
  BY <1>2, <1>3, <1>4, <1>5, <1>6, <1>7 DEF SyncNext, CallStep, Push

\* Where the ledger and the fingerprint are written.
LEMMA RecordWrites ==
    ASSUME StateOK, [SyncNext]_allVars
    PROVE  /\ pc # "confirm_ledger" => ledger' = ledger
           /\ ~AtRecord => baseline' = baseline
           /\ AtRecord => UNCHANGED <<kernel, row, ledger>>
           /\ Recording => baseline' = {Listing(kernel, ledger)}
<1>1. CASE ConfirmBaseline \/ PushRecord
  <2>1. AtRecord /\ UNCHANGED <<kernel, row, ledger>>
    BY <1>1 DEF ConfirmBaseline, PushRecord, AtRecord, Return
  <2>2. ASSUME Recording PROVE baseline' = {Listing(kernel, ledger)}
    <3>1. ~Fail("nft") /\ ~Fail("db") /\ ledger # {}
      BY <2>2 DEF Recording, Fail, StateOK, FaultKinds
    <3> QED
      BY <1>1, <3>1 DEF ConfirmBaseline, PushRecord
  <2> QED
    BY <2>1, <2>2
<1> DEFINE Kept == /\ pc # "confirm_ledger" => ledger' = ledger
                   /\ baseline' = baseline
                   /\ ~AtRecord
<1>2. CASE Apply
  <2>1. Kept
    BY <1>2 DEF AtRecord, Goto, Return, store, Apply, ApplyBegin, ApplySnapshot,
       ApplyAbandon, ApplyRecord, ApplyArm, ApplyArmFails, ApplyLoad,
       ApplyLoadFails, ApplyFailClear, ApplyFailStatus
  <2> QED
    BY <2>1 DEF Recording
<1>3. CASE Confirm /\ ~ConfirmBaseline
  <2>1. Kept
    BY <1>3 DEF AtRecord, Goto, Return, store, Confirm, ConfirmBegin,
       ConfirmClear, ConfirmStatus, ConfirmFails, ConfirmLedger
  <2> QED
    BY <2>1 DEF Recording
<1>4. CASE Revert
  <2>1. Kept
    BY <1>4 DEF AtRecord, Goto, Return, store, locals, Revert, RollbackBegin,
       TimerFires, Recover, RecoverReturns, RevertLoad, RevertLoadFails,
       RevertClear, RevertClearFails, RevertStatus, AutoRevert,
       AutoRevertReturns
  <2> QED
    BY <2>1 DEF Recording
<1>5. CASE Restart \/ SyncCrash \/ UNCHANGED allVars
  <2>1. Kept
    BY <1>5 DEF AtRecord, Restart, Goto, SyncCrash, Crash, store, allVars, vars
  <2> QED
    BY <2>1 DEF Recording
<1>6. CASE EditModel \/ EditList \/ PushNothing \/ PushRepoint \/ PushElements
  <2>1. Kept
    BY <1>6 DEF AtRecord, EditModel, EditTable, EditList, PushNothing,
       PushRepoint, PushElements, Return, Goto, store, process
  <2> QED
    BY <2>1 DEF Recording
<1>7. ASSUME NEW a \in Callers, Call(a) PROVE Kept
  BY <1>7 DEF AtRecord, Call, BlockStart, UnblockStart, WriteEntry,
     WriteEntryRefused, RefreshStart, RefreshBefore, RefreshReplace,
     RefreshAfter, RefreshFails, PushBegin, PushSkips, Goto, Keep, vars, store,
     process
<1>8. ASSUME NEW a \in Callers, Call(a)
      PROVE  /\ pc # "confirm_ledger" => ledger' = ledger
             /\ ~AtRecord => baseline' = baseline
             /\ ~AtRecord
  BY <1>7, <1>8
<1> QED
  BY <1>1, <1>2, <1>3, <1>4, <1>5, <1>6, <1>8 DEF SyncNext, Push, Recording,
     Confirm

\* Who owes a record ends by making it, or is cut short.
LEMMA RecordIsDue ==
    ASSUME SyncTypeOK, [SyncNext]_allVars, ~SyncCrash,
           \/ pc \in {"confirm_status", "confirm_ledger", "confirm_baseline",
                      "push_record"}
           \/ pc = "push" /\ job.pushed
    PROVE  \/ pc' \in {"confirm_status", "confirm_ledger", "confirm_baseline",
                       "push_record"}
           \/ pc' = "push" /\ job'.pushed
           \/ AtRecord \/ CutShort
<1> DEFINE Due == \/ pc' \in {"confirm_status", "confirm_ledger",
                              "confirm_baseline", "push_record"}
                  \/ pc' = "push" /\ job'.pushed
                  \/ AtRecord \/ CutShort
<1>1. CASE UNCHANGED <<pc, job>>
  BY <1>1
<1>2. CASE Apply
  BY <1>2 DEF Goto, Apply, ApplyBegin, ApplySnapshot, ApplyAbandon,
     ApplyRecord, ApplyArm, ApplyArmFails, ApplyLoad, ApplyLoadFails,
     ApplyFailClear, ApplyFailStatus
<1>3. CASE Confirm
  BY <1>3 DEF AtRecord, CutShort, Goto, Return, Confirm, ConfirmBegin,
     ConfirmClear, ConfirmStatus, ConfirmFails, ConfirmLedger, ConfirmBaseline
<1>4. CASE Revert /\ UNCHANGED syncVars
  <2>1. CASE TimerFires \/ \E v \in firing : AutoRevertReturns(v)
    BY <1>1, <1>4, <2>1 DEF TimerFires, AutoRevertReturns, syncVars
  <2> QED
    BY <1>4, <2>1 DEF Goto, Revert, RollbackBegin, Recover, RecoverReturns,
       RevertLoad, RevertLoadFails, RevertClear, RevertClearFails,
       RevertStatus, AutoRevert
<1>5. CASE Restart \/ UNCHANGED allVars
  BY <1>1, <1>5 DEF Restart, Goto, allVars, syncVars, vars
<1>6. CASE EditModel \/ EditList
  BY <1>1, <1>6 DEF EditModel, EditTable, EditList, process, syncVars
<1>7. ASSUME NEW a \in Callers, Call(a) PROVE Due
  <2>1. UNCHANGED <<pc, job>> \/ pc = "idle"
    BY <1>7 DEF Call, BlockStart, UnblockStart, WriteEntry, WriteEntryRefused,
       RefreshStart, RefreshBefore, RefreshReplace, RefreshAfter, RefreshFails,
       PushBegin, PushSkips, Goto, Keep, vars, process
  <2> QED
    BY <1>1, <2>1
<1>8. CASE PushElements
  <2>1. pc' = "push" /\ pc = "push"
    BY <1>8 DEF PushElements, process
  <2>2. ASSUME NEW ok \in BOOLEAN,
               job' = [todo |-> Tail(job.todo), pushed |-> job.pushed \/ ok,
                       ok   |-> job.ok /\ ok]
        PROVE  job'.pushed
    BY <2>1, <2>2
  <2>3. job'.pushed
    BY <1>8, <2>2 DEF PushElements
  <2> QED
    BY <2>1, <2>3
<1>9. CASE PushNothing \/ PushRepoint \/ PushRecord
  BY <1>9 DEF PushNothing, PushRepoint, PushRecord, AtRecord, Return, Goto
<1> QED
  BY <1>2, <1>3, <1>4, <1>5, <1>6, <1>7, <1>8, <1>9 DEF SyncNext, Push

\* Every step keeps BaselineInv.
LEMMA BaselineStep ==
    ASSUME BelowInv, WatchOK, CauseInv, [DriftNext]_watchVars
    PROVE  BaselineInv'
<1>0. StateOK /\ IInv /\ RowInv /\ WindowInv /\ SyncTypeOK
  BY DEF BelowInv, SyncInv, IInv
<1>1. ASSUME UNCHANGED <<baseline, ledger>>, Recorded, tampered \subseteq tampered',
             \A t \in ledger \ tampered' :
                Restored(kernel', row'.prev)[t] = Restored(kernel, row.prev)[t]
      PROVE  BaselineInv'
  <2>1. PICK f \in baseline :
           /\ baseline = {f} /\ DOMAIN f = ledger
           /\ \A t \in ledger \ tampered : f[t] = Restored(kernel, row.prev)[t]
    BY <1>1 DEF CauseInv, BaselineInv
  <2>2. /\ f \in baseline' /\ baseline' = {f} /\ DOMAIN f = ledger'
        /\ \A t \in ledger' \ tampered' : f[t] = Restored(kernel', row'.prev)[t]
    BY <1>1, <2>1
  <2> QED
    BY <2>2 DEF BaselineInv
<1>2. CASE SystemStep
  <2>0. [SyncNext]_allVars /\ ~SyncCrash
    BY <1>2 DEF SystemStep
  <2>1. CASE Recording
    <3>1. /\ pc \in {"confirm_baseline", "push_record"}
          /\ UNCHANGED <<kernel, row, ledger>>
          /\ baseline' = {Listing(kernel, ledger)}
      BY <1>0, <2>0, <2>1, RecordWrites DEF Recording, AtRecord
    <3>2. row = NoRow
      BY <1>0, <3>1 DEF RowInv, WindowInv
    <3>3. \A t \in ledger : Listing(kernel, ledger)[t] = Restored(kernel, row.prev)[t]
      BY <1>0, <3>2 DEF Listing, Restored, NoRow, NoTables, StateOK
    <3>4. DOMAIN Listing(kernel, ledger) = ledger
      BY DEF Listing
    <3> HIDE DEF Listing
    <3> QED
      BY <3>1, <3>3, <3>4 DEF BaselineInv
  <2>2. CASE AtRecord /\ ~Recording
    BY <1>2, <2>2 DEF SystemStep, BaselineInv, Recorded
  <2>3. CASE ~AtRecord /\ ~Recorded'
    BY <2>3 DEF BaselineInv
  <2>4. CASE ~AtRecord /\ Recorded'
    <3>1. ~missed /\ ~CutShort /\ tampered' = tampered
      BY <1>2, <2>4 DEF SystemStep, Recorded, Recording
    <3>2. baseline' = baseline
      BY <1>0, <2>0, <2>4, RecordWrites
    <3>3. Recorded
      BY <1>0, <2>0, <2>4, <3>1, <3>2, RecordIsDue DEF Recorded
    <3>4. ledger' = ledger
      BY <1>0, <2>0, <3>3, RecordWrites DEF Recorded
    <3>5. pc' # "confirm_status" /\ (pc' = "push" => ~job'.pushed)
      BY <2>4 DEF Recorded
    <3>6. \A t \in Tables \ tampered :
             Restored(kernel', row'.prev)[t] = Restored(kernel, row.prev)[t]
      BY <1>0, <2>0, <3>1, <3>5, InForceStays DEF CauseInv
    <3> QED
      BY <1>0, <1>1, <3>1, <3>2, <3>3, <3>4, <3>6 DEF StateOK
  <2> QED
    BY <2>1, <2>2, <2>3, <2>4
<1>3. CASE DriftCrash
  <2>1. UNCHANGED <<baseline, ledger, kernel, row, tampered>>
    BY <1>3 DEF DriftCrash, SyncCrash, Crash, store
  <2>2. Recorded' => Recorded
    BY <1>3, <2>1 DEF DriftCrash, Recorded
  <2> QED
    BY <1>1, <2>1, <2>2 DEF BaselineInv
<1>4. CASE ForeignEdit
  <2>1. PICK t \in Tables : /\ \A u \in Tables \ {t} : kernel'[u] = kernel[u]
                            /\ tampered' = tampered \cup {t}
    BY <1>0, <1>4 DEF ForeignEdit, StateOK, Configs
  <2>2. UNCHANGED <<pc, job, missed, baseline, ledger, row>>
    BY <1>4 DEF ForeignEdit, store, process, syncVars
  <2>3. \A u \in ledger \ tampered' :
           Restored(kernel', row'.prev)[u] = Restored(kernel, row.prev)[u]
    BY <1>0, <2>1, <2>2 DEF Restored, StateOK
  <2>4. Recorded' => Recorded
    BY <2>2 DEF Recorded
  <2> QED
    BY <1>1, <2>1, <2>2, <2>3, <2>4 DEF BaselineInv
<1>5. CASE UNCHANGED <<pc, job, missed, baseline, ledger, tampered, kernel, row>>
  <2>1. Recorded' => Recorded
    BY <1>5 DEF Recorded
  <2> QED
    BY <1>1, <1>5, <2>1 DEF BaselineInv
<1> QED
  BY <1>2, <1>3, <1>4, <1>5, DriftSteps DEF PollFails, allVars, vars, store,
     process, syncVars

\* What is on record when no apply is armed is what the kernel runs.
LEMMA RecordMatches ==
    ASSUME StateOK, RowInv, BaselineInv, OnRecord, ~missed, baseline # {}
    PROVE  Matching
<1>1. Recorded
  BY DEF OnRecord, Recorded
<1>2. PICK f \in baseline :
         /\ baseline = {f} /\ DOMAIN f = ledger
         /\ \A t \in ledger \ tampered : f[t] = Restored(kernel, row.prev)[t]
  BY <1>1 DEF BaselineInv
<1>3. row = NoRow
  BY DEF RowInv, OnRecord
<1>4. \A t \in ledger \ tampered : f[t] = kernel[t]
  BY <1>2, <1>3 DEF Restored, NoRow, NoTables, StateOK
<1> QED
  BY <1>2, <1>4 DEF Matching

\* Every step keeps PollInv.
LEMMA PollStep ==
    ASSUME BelowInv, WatchOK, BaselineInv, PollInv, [DriftNext]_watchVars
    PROVE  PollInv'
<1>0. StateOK /\ RowInv
  BY DEF BelowInv, SyncInv, IInv
<1> DEFINE Reading == poll.at # "wait" /\ calm /\ ~missed
<1>1. CASE SystemStep
  <2> SUFFICES ASSUME Reading' PROVE PollInv'
    BY DEF PollInv
  <2>1. poll' = poll /\ calm /\ ~AtRecord /\ UNCHANGED <<kernel, ledger>>
    BY <1>1 DEF SystemStep
  <2>2. baseline' = baseline
    BY <1>0, <1>1, <2>1, RecordWrites DEF SystemStep
  <2>3. ~missed /\ tampered' = tampered
    BY <1>1, <2>1 DEF SystemStep, Recording
  <2> QED
    BY <2>1, <2>2, <2>3 DEF PollInv, Matching
<1>2. CASE DriftCrash
  BY <1>2 DEF DriftCrash, PollInv, NoPoll
<1>3. CASE ForeignEdit
  <2>1. PICK t \in Tables : /\ \A u \in Tables \ {t} : kernel'[u] = kernel[u]
                            /\ tampered' = tampered \cup {t}
    BY <1>0, <1>3 DEF ForeignEdit, StateOK, Configs
  <2>2. UNCHANGED <<baseline, ledger, poll, calm, missed>>
    BY <1>3 DEF ForeignEdit, store
  <2>3. DOMAIN poll.live \subseteq Tables /\ ledger \subseteq Tables
    BY <1>0 DEF WatchOK, Polls, Snapshots, StateOK
  <2>4. Matching => Matching'
    BY <2>1, <2>2, <2>3 DEF Matching
  <2> QED
    BY <2>1, <2>2, <2>3, <2>4 DEF PollInv
<1>4. CASE LowerFlag \/ UNCHANGED watchVars
  <2>1. UNCHANGED <<kernel, baseline, ledger, poll, calm, tampered, missed>>
    BY <1>4 DEF LowerFlag, allVars, vars, watchVars, driftVars
  <2> QED
    BY <2>1 DEF PollInv, Matching
<1>5. CASE Poll /\ poll'.at = "wait"
  BY <1>5 DEF PollInv
<1>6. CASE Poll /\ poll'.at # "wait"
  <2> SUFFICES ASSUME Reading' PROVE PollInv'
    BY DEF PollInv
  <2>0. poll' # NoPoll
    BY <1>6 DEF NoPoll
  <2>1. UNCHANGED <<kernel, baseline, ledger, tampered, missed>>
    BY <1>6, <2>0 DEF Poll, PollBaseline, PollLedger, PollTable, PollVerdict,
       PollFails, PollRead, allVars, vars
  <2>2. Matching' <=> Matching
    BY <2>1 DEF Matching
  <2>3. CASE PollBaseline
    <3>1. poll'.at = "ledger" /\ poll'.base = baseline /\ DOMAIN poll'.live = {}
      BY <1>0, <2>3, PollMoves DEF WatchOK
    <3>2. OnRecord /\ baseline # {} /\ ~missed
      BY <2>1, <2>3 DEF PollBaseline
    <3>3. Matching
      BY <1>0, <3>2, RecordMatches
    <3> QED
      BY <2>1, <2>2, <3>1, <3>3 DEF PollInv
  <2>4. CASE PollLedger
    <3>1. /\ poll'.at = "list" /\ poll'.base = poll.base /\ poll'.refs = ledger
          /\ poll'.live = poll.live
      BY <1>0, <2>0, <2>4, PollMoves DEF WatchOK
    <3>2. Reading
      BY <2>1, <2>4 DEF PollLedger
    <3> QED
      BY <2>1, <2>2, <3>1, <3>2 DEF PollInv
  <2>5. ASSUME NEW t \in Tables, PollTable(t) PROVE PollInv'
    <3>1. /\ poll'.at = "list" /\ poll'.base = poll.base /\ poll'.refs = poll.refs
          /\ DOMAIN poll'.live = DOMAIN poll.live \cup {t}
          /\ \A u \in DOMAIN poll'.live :
                poll'.live[u] = IF u = t THEN kernel[t] ELSE poll.live[u]
      BY <1>0, <2>5, PollMoves DEF WatchOK
    <3>2. Reading /\ poll.at = "list"
      BY <2>1, <2>5 DEF PollTable
    <3> QED
      BY <2>1, <2>2, <3>1, <3>2 DEF PollInv
  <2>6. ~PollVerdict /\ ~PollFails
    BY <2>0 DEF PollVerdict, PollFails
  <2> QED
    BY <1>6, <2>3, <2>4, <2>5, <2>6 DEF Poll
<1> QED
  BY <1>1, <1>2, <1>3, <1>4, <1>5, <1>6 DEF DriftNext

\* A fingerprint that matches what was listed, table by table, is the listing.
LEMMA AlarmNeedsTampering ==
    ASSUME BelowInv, WatchOK, CauseInv, Alarm, calm, ~missed
    PROVE  \E t \in ledger : t \in tampered
<1>0. StateOK
  BY DEF BelowInv, SyncInv, IInv
<1>1. /\ poll.at = "list" /\ DOMAIN poll.live = poll.refs
      /\ poll.base # {poll.live}
  BY DEF Alarm, Judged, Verdict
<1>2. /\ Matching /\ poll.base = baseline /\ poll.refs = ledger
      /\ \A t \in DOMAIN poll.live \ tampered : poll.live[t] = kernel[t]
  BY <1>1 DEF CauseInv, PollInv
<1>4. PICK f \in baseline :
         /\ baseline = {f} /\ DOMAIN f = ledger
         /\ \A t \in ledger \ tampered : f[t] = kernel[t]
  BY <1>2 DEF Matching
<1>6. \A t \in ledger \ tampered : f[t] = poll.live[t]
  BY <1>1, <1>2, <1>4
<1>7. f = [t \in DOMAIN f |-> f[t]]
  <2>1. baseline \in {{}} \cup {{g} : g \in Snapshots}
    BY <1>0 DEF StateOK
  <2>2. f \in Snapshots
    BY <1>4, <2>1
  <2> QED BY <2>2 DEF Snapshots
<1>8. poll.live = [t \in DOMAIN poll.live |-> poll.live[t]]
  BY DEF WatchOK, Polls, Snapshots
<1>9. f # poll.live
  BY <1>1, <1>2, <1>4
<1> QED
  BY <1>1, <1>2, <1>4, <1>6, <1>7, <1>8, <1>9

\* In a tick that finds nftably's own changes on record and meets no further one,
\* an alert means that somebody else changed an owned table, after any number of
\* applies, reverts, confirms and pushes, whatever fails and wherever nft is
\* killed, unless a change of nftably's was cut short before its record.
THEOREM AlarmCause == DriftSpec => AlarmHasCause
<1> DEFINE J == BelowInv /\ WatchOK /\ CauseInv
           Caused == Alarm /\ calm /\ ~missed => \E t \in ledger : t \in tampered
<1>1. DriftInit => J
  <2> SUFFICES ASSUME DriftInit PROVE CauseInv
    BY BelowInit, WatchInit
  <2>1. pc = "idle" /\ baseline = {} /\ poll = NoPoll
    BY DEF DriftInit, SyncInit, Init
  <2> QED
    BY <2>1 DEF CauseInv, UntamperedInv, BaselineInv, Recorded,
       PollInv, NoPoll
<1>2. J /\ [DriftNext]_watchVars => J' /\ [Caused]_watchVars
  <2> SUFFICES ASSUME J, [DriftNext]_watchVars PROVE J' /\ Caused
    OBVIOUS
  <2>1. BelowInv' /\ WatchOK'
    BY BelowStep, WatchStep DEF BelowInv, SyncInv, IInv
  <2>3. UntamperedInv'
    BY UntamperedStep DEF CauseInv, BelowInv, SyncInv, IInv
  <2>4. BaselineInv'
    BY BaselineStep
  <2>5. PollInv'
    BY PollStep DEF CauseInv
  <2>6. Caused
    BY AlarmNeedsTampering
  <2> QED
    BY <2>1, <2>3, <2>4, <2>5, <2>6 DEF CauseInv
<1> QED
  BY <1>1, <1>2, PTL DEF DriftSpec, AlarmHasCause
=============================================================================
