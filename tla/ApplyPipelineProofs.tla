------------------------ MODULE ApplyPipelineProofs ------------------------
(***************************************************************************)
(* What is proved of ApplyPipeline, for every set of tables and contents,  *)
(* every bound on the applies and every budget of failures.                *)
(***************************************************************************)
EXTENDS ApplyPipeline, TLAPS

\* Where pending_apply holds a row and where it does not, and that a row names
\* a recorded version.
RowInv ==
    /\ pc \in {"apply_snapshot", "apply_record", "apply_arm", "confirm_status",
               "confirm_ledger", "confirm_baseline", "revert_status"}
          => ~Pending
    /\ pc \in {"apply_load", "fail_clear", "confirm_clear", "revert_load",
               "revert_clear"}
          => Pending
    /\ pc \in {"apply_load", "confirm_clear", "revert_load", "revert_clear"}
          => row.version = vid
    /\ ~Pending => row = NoRow
    /\ row.version <= Len(versions)

\* The version a handler works on, and what it cannot be.
VersionInv ==
    /\ pc \in {"apply_arm", "apply_load", "fail_clear", "fail_status",
               "confirm_clear", "confirm_status", "revert_load",
               "revert_clear", "revert_status"}
          => vid \in DOMAIN versions
    /\ pc \in {"apply_arm", "apply_load", "fail_clear", "fail_status",
               "revert_load", "revert_clear", "revert_status"}
          => versions[vid].status # "confirmed"
    /\ Pending => versions[row.version].status # "confirmed"

\* The armed timer is that of the pending row and nothing else is waiting in
\* its name.
TimerInv ==
    /\ timer # 0 => Pending /\ timer = row.version /\ timer \notin firing
    /\ \A v \in firing : v <= Len(versions)
    /\ pc \in {"apply_arm", "apply_load"}
          => vid = Len(versions) /\ vid \notin firing
    /\ pc \in {"apply_load", "fail_clear", "fail_status", "confirm_clear",
               "revert_load", "revert_clear", "revert_status", "down", "boot"}
          => timer = 0

\* The snapshot covers what the script will change, and what a revert has
\* restored.
SnapshotInv ==
    /\ pc \in {"apply_record", "apply_arm"} =>
          snaps = Listing(kernel, Owned(cand) \cup ledger)
    /\ pc = "apply_load" =>
          row.prev = Listing(kernel, Owned(cand) \cup ledger)
    /\ pc \in {"fail_clear", "revert_clear"} =>
          kernel = Restored(kernel, row.prev)

IInv == StateOK /\ RowInv /\ VersionInv /\ TimerInv
-----------------------------------------------------------------------------
(* Operators                                                               *)

LEMMA OwnedType == ASSUME NEW c PROVE Owned(c) \in SUBSET Tables
BY DEF Owned

LEMMA LoadedType ==
    ASSUME NEW k \in Configs, NEW c \in Configs, NEW R
    PROVE  Loaded(k, c, R) \in Configs
BY DEF Loaded, Configs, Cell, Owned

LEMMA RestoredType ==
    ASSUME NEW k \in Configs, NEW s \in Snapshots
    PROVE  Restored(k, s) \in Configs
BY DEF Restored, Configs, Cell, Snapshots

LEMMA ListingType ==
    ASSUME NEW k \in Configs, NEW S \in SUBSET Tables
    PROVE  Listing(k, S) \in Snapshots
BY DEF Listing, Configs, Cell, Snapshots

LEMMA EmptyTypes ==
    /\ NoTables \in Snapshots
    /\ AllAbsent \in Configs
    /\ NoRow \in [version : Nat, prev : Snapshots]
<1>1. NoTables \in [{} -> Cell]
  BY DEF NoTables
<1>2. NoTables \in Snapshots
  BY <1>1 DEF Snapshots
<1>3. AllAbsent \in Configs
  BY DEF AllAbsent, Configs, Cell
<1> QED
  BY <1>2, <1>3 DEF NoRow

\* A status update changes the status of one version and nothing else.
LEMMA SetStatusType ==
    ASSUME versions \in Seq(Version), NEW v, NEW s \in Status,
           SetStatus(v, s)
    PROVE  /\ versions' \in Seq(Version)
           /\ Len(versions') = Len(versions)
           /\ \A w \in DOMAIN versions :
                 versions'[w].status = IF w = v THEN s ELSE versions[w].status
<1> DEFINE Updated(r) == [r EXCEPT !.status = s]
<1>1. \A r \in Version : Updated(r) \in Version /\ Updated(r).status = s
  BY DEF Version
<1>2. versions' = [versions EXCEPT ![v] = Updated(versions[v])]
  BY DEF SetStatus
<1> HIDE DEF Updated
<1>3. CASE v \in DOMAIN versions
  BY <1>1, <1>2, <1>3
<1>4. CASE v \notin DOMAIN versions
  <2>1. versions' = [w \in DOMAIN versions |-> versions[w]]
    BY <1>2, <1>4
  <2>2. versions' = versions
    BY <2>1
  <2> QED
    BY <1>4, <2>2
<1> QED
  BY <1>3, <1>4

\* A failure leaves a budget of failures.
LEMMA FailType ==
    ASSUME faults \in [FaultKinds -> Nat], NEW kind \in FaultKinds, Fail(kind)
    PROVE  faults' \in [FaultKinds -> Nat]
BY DEF Fail

-----------------------------------------------------------------------------
(* Type correctness                                                        *)

LEMMA StateInit == Init => StateOK
BY EmptyTypes, FaultsAssumption
   DEF Init, StateOK, NoRow, Version

\* Every step keeps the types of the variables.
LEMMA StateStep ==
    ASSUME StateOK, [Next]_vars
    PROVE  StateOK'
<1> USE DEF StateOK, Goto, Return, store, locals, process
<1>0. \A kind \in FaultKinds : Fail(kind) => faults' \in [FaultKinds -> Nat]
  BY FailType
<1>a. {"crash", "nft", "kill", "db"} \subseteq FaultKinds
  BY DEF FaultKinds
<1>1. CASE Edit
  <2>1. CASE \E t \in Tables, c \in Cell : EditTable(t, c)
    <3>1. model' \in Configs
      BY <2>1 DEF EditTable, Configs
    <3> QED
      BY <2>1, <3>1 DEF EditTable
  <2>2. CASE \E t, u \in Tables : RenameTable(t, u)
    <3>1. model' \in Configs
      BY <2>2 DEF RenameTable, Configs, Cell
    <3> QED
      BY <2>2, <3>1 DEF RenameTable
  <2> QED
    BY <1>1, <2>1, <2>2 DEF Edit
<1>2. CASE ApplyBegin
  BY <1>2 DEF ApplyBegin
<1>3. CASE ApplySnapshot
  BY <1>3, ListingType, OwnedType DEF ApplySnapshot
<1>4. CASE ApplyAbandon
  BY <1>4, EmptyTypes DEF ApplyAbandon
<1>5. CASE ApplyRecord
  <2>1. PICK doc \in {{model}, {}} :
           /\ versions' = Append(versions, [config |-> cand, snap |-> doc,
                                            status |-> "pending"])
           /\ IF doc = {} THEN Fail("db") ELSE UNCHANGED faults
    BY <1>5 DEF ApplyRecord
  <2>2. [config |-> cand, snap |-> doc, status |-> "pending"] \in Version
    BY DEF Version, Status
  <2>3. versions' \in Seq(Version)
    BY <2>1, <2>2
  <2>4. faults' \in [FaultKinds -> Nat]
    BY <2>1, <1>0, <1>a
  <2>5. vid' \in Nat
    BY <1>5 DEF ApplyRecord
  <2> QED
    BY <1>5, <2>3, <2>4, <2>5 DEF ApplyRecord
<1>6. CASE ApplyArm
  BY <1>6 DEF ApplyArm
<1>7. CASE ApplyArmFails
  BY <1>7, EmptyTypes, <1>0, <1>a DEF ApplyArmFails
<1>8. CASE ApplyLoad
  <2>1. kernel' \in Configs /\ inMem' \in {{S} : S \in SUBSET Tables}
    BY <1>8, OwnedType, LoadedType DEF ApplyLoad
  <2> QED
    BY <1>8, <2>1, EmptyTypes DEF ApplyLoad
<1>9. CASE ApplyLoadFails
  <2>1. kernel' \in Configs
    BY <1>9, LoadedType DEF ApplyLoadFails
  <2>2. faults' \in [FaultKinds -> Nat]
    BY <1>9, <1>0, <1>a DEF ApplyLoadFails
  <2> QED
    BY <1>9, <2>1, <2>2 DEF ApplyLoadFails
<1>10. CASE ApplyFailClear
  BY <1>10, EmptyTypes, <1>0, <1>a DEF ApplyFailClear
<1>11. CASE ApplyFailStatus
  BY <1>11, EmptyTypes, SetStatusType, <1>0, <1>a DEF ApplyFailStatus, Status
<1>12. CASE ConfirmBegin
  BY <1>12 DEF ConfirmBegin
<1>13. CASE ConfirmClear
  BY <1>13, EmptyTypes DEF ConfirmClear
<1>14. CASE ConfirmStatus
  BY <1>14, SetStatusType DEF ConfirmStatus, Status
<1>15. CASE ConfirmFails
  BY <1>15, EmptyTypes, <1>0, <1>a DEF ConfirmFails
<1>16. CASE ConfirmLedger
  BY <1>16, <1>0, <1>a DEF ConfirmLedger, Owned
<1>17. CASE ConfirmBaseline
  BY <1>17, ListingType, EmptyTypes, <1>0, <1>a DEF ConfirmBaseline
<1>18. CASE RollbackBegin
  BY <1>18 DEF RollbackBegin
<1>19. CASE TimerFires
  BY <1>19 DEF TimerFires
<1>20. CASE Recover
  BY <1>20 DEF Recover
<1>21. CASE RecoverReturns
  BY <1>21, EmptyTypes, <1>0, <1>a DEF RecoverReturns
<1>22. CASE RevertLoad
  BY <1>22, RestoredType DEF RevertLoad
<1>23. CASE RevertLoadFails
  BY <1>23, RestoredType, EmptyTypes, <1>0, <1>a DEF RevertLoadFails
<1>24. CASE RevertClear
  BY <1>24, EmptyTypes DEF RevertClear
<1>25. CASE RevertClearFails
  BY <1>25, EmptyTypes, <1>0, <1>a DEF RevertClearFails
<1>26. CASE RevertStatus
  BY <1>26, EmptyTypes, SetStatusType, <1>0, <1>a DEF RevertStatus, Status
<1>27. CASE Crash
  BY <1>27, EmptyTypes, <1>0, <1>a DEF Crash
<1>28. CASE Restart
  BY <1>28 DEF Restart
<1>29. CASE \E v \in firing : AutoRevert(v) \/ AutoRevertReturns(v)
  BY <1>29, <1>0, <1>a DEF AutoRevert, AutoRevertReturns
<1>30. CASE UNCHANGED vars
  BY <1>30 DEF vars
<1> QED
  BY <1>1, <1>2, <1>3, <1>4, <1>5, <1>6, <1>7, <1>8, <1>9, <1>10, <1>11,
     <1>12, <1>13, <1>14, <1>15, <1>16, <1>17, <1>18, <1>19, <1>20, <1>21,
     <1>22, <1>23, <1>24, <1>25, <1>26, <1>27, <1>28, <1>29, <1>30 DEF Next,
     Apply, Confirm, Revert

\* Every step leads to a statement of a handler.
LEMMA PcStep ==
    ASSUME TypeOK, [Next]_vars
    PROVE  pc' \in {"idle", "apply_snapshot", "apply_record", "apply_arm",
               "apply_load", "fail_clear", "fail_status", "confirm_clear",
               "confirm_status", "confirm_ledger", "confirm_baseline",
               "revert_load", "revert_clear", "revert_status", "down", "boot"}
<1> USE DEF TypeOK, Goto, Return, process
<1>1. CASE Edit
  BY <1>1 DEF Edit, EditTable, RenameTable
<1>2. CASE Apply
  BY <1>2 DEF Apply, ApplyBegin, ApplySnapshot, ApplyAbandon, ApplyRecord,
     ApplyArm, ApplyArmFails, ApplyLoad, ApplyLoadFails, ApplyFailClear,
     ApplyFailStatus
<1>3. CASE Confirm
  BY <1>3 DEF Confirm, ConfirmBegin, ConfirmClear, ConfirmStatus,
     ConfirmFails, ConfirmLedger, ConfirmBaseline
<1>4. CASE Revert
  BY <1>4 DEF Revert, RollbackBegin, TimerFires, Recover, RecoverReturns,
     RevertLoad, RevertLoadFails, RevertClear, RevertClearFails,
     RevertStatus, AutoRevert, AutoRevertReturns
<1>5. CASE Crash \/ Restart \/ UNCHANGED vars
  BY <1>5 DEF Crash, Restart, vars
<1> QED
  BY <1>1, <1>2, <1>3, <1>4, <1>5 DEF Next

\* Every variable keeps to its type.
THEOREM TypeCorrect == Spec => []TypeOK
<1>1. Init => TypeOK
  BY StateInit DEF Init, TypeOK
<1>2. TypeOK /\ [Next]_vars => TypeOK'
  BY StateStep, PcStep DEF TypeOK
<1> QED
  BY <1>1, <1>2, PTL DEF Spec

-----------------------------------------------------------------------------
(* The inductive invariant                                                 *)

LEMMA IInvInit == Init => IInv
<1>1. Init => Len(versions) = 0 /\ DOMAIN versions = {}
  BY DEF Init
<1> QED
  BY <1>1, StateInit
     DEF Init, IInv, RowInv, VersionInv, TimerInv, Pending, NoRow

\* Every step keeps the invariant.
LEMMA IInvStep ==
    ASSUME IInv, [Next]_vars
    PROVE  IInv'
<1>0. StateOK'
  BY StateStep DEF IInv
<1>a. /\ versions \in Seq(Version)
      /\ Len(versions) \in Nat
      /\ DOMAIN versions = 1 .. Len(versions)
      /\ row.version \in Nat /\ vid \in Nat /\ timer \in Nat
      /\ firing \in SUBSET Nat
  BY DEF IInv, StateOK
<1> USE <1>0, <1>a DEF IInv, RowInv, VersionInv, TimerInv, Pending, NoRow,
        Goto, Return, store, locals, process
<1>1. CASE Edit
  BY <1>1 DEF Edit, EditTable, RenameTable
<1>2. CASE ApplyBegin
  BY <1>2 DEF ApplyBegin
<1>3. CASE ApplySnapshot
  BY <1>3 DEF ApplySnapshot
<1>4. CASE ApplyAbandon
  BY <1>4 DEF ApplyAbandon
<1>5. CASE ApplyRecord
  <2>1. PICK new : versions' = Append(versions, new) /\ new.status = "pending"
    BY <1>5 DEF ApplyRecord
  <2>2. /\ Len(versions') = Len(versions) + 1
        /\ DOMAIN versions' = 1 .. Len(versions')
        /\ \A v \in DOMAIN versions : versions'[v] = versions[v]
        /\ versions'[Len(versions) + 1].status = "pending"
    BY <2>1
  <2> QED
    BY <1>5, <2>2 DEF ApplyRecord
<1>6. CASE ApplyArm
  BY <1>6 DEF ApplyArm
<1>7. CASE ApplyArmFails
  BY <1>7 DEF ApplyArmFails
<1>8. CASE ApplyLoad
  BY <1>8 DEF ApplyLoad
<1>9. CASE ApplyLoadFails
  BY <1>9 DEF ApplyLoadFails
<1>10. CASE ApplyFailClear
  BY <1>10 DEF ApplyFailClear
<1>11. CASE ApplyFailStatus
  BY <1>11, SetStatusType DEF ApplyFailStatus, Status
<1>12. CASE ConfirmBegin
  BY <1>12 DEF ConfirmBegin
<1>13. CASE ConfirmClear
  BY <1>13 DEF ConfirmClear
<1>14. CASE ConfirmStatus
  BY <1>14, SetStatusType DEF ConfirmStatus, Status
<1>15. CASE ConfirmFails
  BY <1>15 DEF ConfirmFails
<1>16. CASE ConfirmLedger
  BY <1>16 DEF ConfirmLedger
<1>17. CASE ConfirmBaseline
  BY <1>17 DEF ConfirmBaseline
<1>18. CASE RollbackBegin
  BY <1>18 DEF RollbackBegin
<1>19. CASE TimerFires
  BY <1>19 DEF TimerFires
<1>20. CASE Recover
  BY <1>20 DEF Recover
<1>21. CASE RecoverReturns
  BY <1>21 DEF RecoverReturns
<1>22. CASE RevertLoad
  BY <1>22 DEF RevertLoad
<1>23. CASE RevertLoadFails
  BY <1>23 DEF RevertLoadFails
<1>24. CASE RevertClear
  BY <1>24 DEF RevertClear
<1>25. CASE RevertClearFails
  BY <1>25 DEF RevertClearFails
<1>26. CASE RevertStatus
  BY <1>26, SetStatusType DEF RevertStatus, Status
<1>27. CASE Crash
  BY <1>27 DEF Crash
<1>28. CASE Restart
  BY <1>28 DEF Restart
<1>29. CASE \E v \in firing : AutoRevert(v) \/ AutoRevertReturns(v)
  <2>1. PICK v \in firing : AutoRevert(v) \/ AutoRevertReturns(v)
    BY <1>29
  <2>2. CASE AutoRevert(v)
    BY <2>2 DEF AutoRevert
  <2>3. CASE AutoRevertReturns(v)
    BY <2>3 DEF AutoRevertReturns
  <2> QED
    BY <2>1, <2>2, <2>3
<1>30. CASE UNCHANGED vars
  BY <1>30 DEF vars
<1> QED
  BY <1>1, <1>2, <1>3, <1>4, <1>5, <1>6, <1>7, <1>8, <1>9, <1>10, <1>11,
     <1>12, <1>13, <1>14, <1>15, <1>16, <1>17, <1>18, <1>19, <1>20, <1>21,
     <1>22, <1>23, <1>24, <1>25, <1>26, <1>27, <1>28, <1>29, <1>30 DEF Next,
     Apply, Confirm, Revert

\* The invariant holds always.
LEMMA IInvHolds == Spec => []IInv
BY IInvInit, IInvStep, PTL DEF Spec

-----------------------------------------------------------------------------
(* What follows from it                                                    *)

\* A revert only runs once the confirm window is over, whichever timers fired
\* late: the timer and the waiting autoRevert calls are told apart by version.
THEOREM RevertWindow == Spec => []RevertOnlyAfterWindow
<1>1. IInv => RevertOnlyAfterWindow
  BY DEF IInv, TimerInv, RevertOnlyAfterWindow
<1> QED
  BY <1>1, IInvHolds, PTL

\* The pending row is never in the way of the insert that arms an apply.
THEOREM ArmAccepted == Spec => []ArmNeverRefused
<1>1. IInv => ArmNeverRefused
  BY DEF IInv, RowInv, ArmNeverRefused
<1> QED
  BY <1>1, IInvHolds, PTL

\* No stale timer and no recovery reverts a version the operator confirmed.
THEOREM ConfirmedFinal == Spec => ConfirmedStays
<1> DEFINE Stays == \A v \in DOMAIN versions :
                       versions[v].status = "confirmed" =>
                           versions'[v].status = "confirmed"
<1>1. IInv /\ [Next]_vars => [Stays]_vars
  <2> SUFFICES ASSUME IInv, Next
               PROVE  Stays
    BY DEF vars
  <2>1. versions \in Seq(Version)
    BY DEF IInv, StateOK
  <2>2. CASE ApplyRecord
    BY <2>1, <2>2 DEF ApplyRecord
  <2>3. CASE ApplyFailStatus
    BY <2>1, <2>3, SetStatusType
       DEF ApplyFailStatus, IInv, VersionInv, Status
  <2>4. CASE ConfirmStatus
    BY <2>1, <2>4, SetStatusType DEF ConfirmStatus, Status
  <2>5. CASE RevertStatus
    BY <2>1, <2>5, SetStatusType
       DEF RevertStatus, IInv, VersionInv, Status
  <2>6. CASE UNCHANGED versions
    BY <2>6
  <2> QED
    BY <2>2, <2>3, <2>4, <2>5, <2>6
       DEF Next, Apply, Confirm, Revert, Edit, EditTable, RenameTable,
        AutoRevert,
           AutoRevertReturns, ApplyBegin, ApplySnapshot, ApplyAbandon,
           ApplyArm, ApplyArmFails, ApplyLoad, ApplyLoadFails, ApplyFailClear,
           ConfirmBegin, ConfirmClear, ConfirmFails, ConfirmLedger,
           ConfirmBaseline, RollbackBegin, TimerFires, Recover,
           RecoverReturns, RevertLoad, RevertLoadFails, RevertClear,
           RevertClearFails, Crash, Restart, store
<1> QED
  BY <1>1, IInvHolds, PTL DEF Spec, ConfirmedStays

-----------------------------------------------------------------------------
(* Failures                                                                *)

\* Failures are only ever used up.
BudgetInv == \A kind \in FaultKinds : faults[kind] <= Faults[kind]

\* With a failure spent, the budget is no longer what it was.
LEMMA FailSpends ==
    ASSUME StateOK, BudgetInv, NEW kind \in FaultKinds, Fail(kind)
    PROVE  /\ faults'[kind] # Faults[kind]
           /\ \A k \in FaultKinds : faults'[k] <= faults[k]
<1>1. /\ faults \in [FaultKinds -> Nat] /\ Faults \in [FaultKinds -> Nat]
      /\ \A k \in FaultKinds : faults[k] \in Nat /\ Faults[k] \in Nat
  BY FaultsAssumption DEF StateOK
<1>2. faults'[kind] = faults[kind] - 1 /\ faults[kind] <= Faults[kind]
  BY <1>1 DEF Fail, BudgetInv
<1>3. \A k \in FaultKinds \ {kind} : faults'[k] = faults[k]
  BY <1>1 DEF Fail
<1> QED
  BY <1>1, <1>2, <1>3

\* A step takes a failure from the budget, or leaves it alone.
LEMMA FaultSteps ==
    ASSUME [Next]_vars
    PROVE  UNCHANGED faults \/ \E kind \in FaultKinds : Fail(kind)
<1> USE DEF FaultKinds
<1>1. CASE Apply
  BY <1>1 DEF Apply, ApplyBegin, ApplySnapshot, ApplyAbandon, ApplyRecord,
     ApplyArm, ApplyArmFails, ApplyLoad, ApplyLoadFails, ApplyFailClear,
     ApplyFailStatus
<1>2. CASE Confirm
  BY <1>2 DEF Confirm, ConfirmBegin, ConfirmClear, ConfirmStatus,
     ConfirmFails, ConfirmLedger, ConfirmBaseline
<1>3. CASE Revert
  BY <1>3 DEF Revert, RollbackBegin, TimerFires, Recover, RecoverReturns,
     RevertLoad, RevertLoadFails, RevertClear, RevertClearFails, RevertStatus,
     AutoRevert, AutoRevertReturns
<1>4. CASE Edit
  BY <1>4 DEF Edit, EditTable, RenameTable
<1>5. CASE Crash \/ Restart \/ UNCHANGED vars
  BY <1>5 DEF Crash, Restart, vars
<1> QED
  BY <1>1, <1>2, <1>3, <1>4, <1>5 DEF Next

\* What was not intact stays so, and an intact step is none of a failure.
LEMMA FaultFrame ==
    ASSUME StateOK, BudgetInv, UNCHANGED faults \/ \E kind \in FaultKinds : Fail(kind)
    PROVE  /\ BudgetInv'
           /\ Intact' => Intact /\ ~Fail("db") /\ ~Fail("crash")
           /\ Working' => /\ Working
                          /\ \A kind \in {"nft", "kill", "db"} : ~Fail(kind)
           /\ faults' = Faults => /\ faults = Faults
                                  /\ \A kind \in FaultKinds : ~Fail(kind)
<1>0. /\ {"crash", "nft", "kill", "db"} = FaultKinds
      /\ faults \in [FaultKinds -> Nat] /\ Faults \in [FaultKinds -> Nat]
  BY FaultsAssumption DEF StateOK, FaultKinds
<1>1. CASE UNCHANGED faults
  <2>1. \A kind \in FaultKinds : ~Fail(kind)
    BY <1>0, <1>1 DEF Fail
  <2> QED
    BY <1>0, <1>1, <2>1 DEF BudgetInv, Intact, Working
<1>2. ASSUME NEW kind \in FaultKinds, Fail(kind)
      PROVE  /\ BudgetInv'
             /\ Intact' => kind \in {"nft", "kill"} /\ Intact
             /\ Working' => kind = "crash" /\ Working
             /\ faults' # Faults
  <2>0. \A k \in FaultKinds : faults[k] \in Nat /\ Faults[k] \in Nat
    BY <1>0
  <2>1. /\ faults'[kind] # Faults[kind]
        /\ \A k \in FaultKinds : faults'[k] <= faults[k]
    BY <1>2, FailSpends
  <2>3. \A k \in FaultKinds : faults'[k] \in Nat
    BY <1>0, <1>2, FailType
  <2>4. BudgetInv'
    BY <2>0, <2>1, <2>3 DEF BudgetInv
  <2>5. \A k \in FaultKinds : faults'[k] = Faults[k] => faults[k] = Faults[k]
    BY <2>0, <2>1, <2>3 DEF BudgetInv
  <2> QED
    BY <1>0, <2>1, <2>4, <2>5 DEF Intact, Working
<1>3. ASSUME NEW kind \in FaultKinds, NEW other \in FaultKinds,
             Fail(kind), Fail(other)
      PROVE  kind = other
  <2>1. faults[kind] \in Nat /\ faults'[kind] = faults[kind] - 1
    BY <1>0, <1>3 DEF Fail
  <2>2. kind # other => faults'[kind] = faults[kind]
    BY <1>0, <1>3 DEF Fail
  <2> QED
    BY <2>1, <2>2
<1> QED
  BY <1>0, <1>1, <1>2, <1>3

\* Where no failure of a kind is to come, none happens.
LEMMA NoneToCome ==
    ASSUME StateOK, NEW kind \in FaultKinds, faults[kind] = 0,
           UNCHANGED faults \/ \E k \in FaultKinds : Fail(k)
    PROVE  faults'[kind] = 0 /\ ~Fail(kind)
<1>1. faults \in [FaultKinds -> Nat]
  BY DEF StateOK
<1>2. ~Fail(kind)
  BY DEF Fail
<1>3. ASSUME NEW k \in FaultKinds, Fail(k)
      PROVE  faults'[kind] = 0
  BY <1>1, <1>2, <1>3 DEF Fail
<1> QED
  BY <1>2, <1>3

-----------------------------------------------------------------------------
(* ApplyPipeline implements SafeApply, if nft is never killed after it has *)
(* committed.                                                              *)

\* Putting back a listing of the kernel changes nothing.
LEMMA RestoreListing ==
    ASSUME NEW k \in Configs, NEW S \in SUBSET Tables
    PROVE  Restored(k, Listing(k, S)) = k
BY DEF Restored, Listing, Configs

\* A listing of the tables the script replaces or removes undoes the script.
LEMMA RestoreLoaded ==
    ASSUME NEW k \in Configs, NEW c \in Configs, NEW L \in SUBSET Tables
    PROVE  LET s == Listing(k, Owned(c) \cup L)
           IN  Restored(Loaded(k, c, L \ Owned(c)), s) = k
BY DEF Restored, Loaded, Listing, Owned, Configs

\* Restoring twice is restoring once.
LEMMA RestoreTwice ==
    ASSUME NEW k \in Configs, NEW s \in Snapshots
    PROVE  Restored(Restored(k, s), s) = Restored(k, s)
BY DEF Restored, Snapshots

\* Restoring an empty snapshot changes nothing.
LEMMA RestoreNothing ==
    ASSUME NEW k \in Configs
    PROVE  Restored(k, NoTables) = k
BY DEF Restored, NoTables, Configs

NoKill == faults["kill"] = 0

SInv == IInv /\ SnapshotInv

\* Every step but a kill keeps what is known of the snapshot.
LEMMA SInvStep ==
    ASSUME SInv, [Next]_vars, ~Fail("kill")
    PROVE  SInv'
<1>a. /\ IInv' /\ IInv /\ StateOK
      /\ kernel \in Configs /\ cand \in Configs /\ ledger \in SUBSET Tables
      /\ row.prev \in Snapshots
  BY IInvStep DEF SInv, IInv, StateOK
<1>d. Owned(cand) \cup ledger \in SUBSET Tables
  BY <1>a, OwnedType
<1> USE <1>a DEF SInv, SnapshotInv, Goto, Return, store, locals, process
<1>1. CASE Edit
  BY <1>1 DEF Edit, EditTable, RenameTable
<1>2. CASE ApplyBegin
  BY <1>2 DEF ApplyBegin
<1>3. CASE ApplySnapshot
  BY <1>3 DEF ApplySnapshot
<1>4. CASE ApplyAbandon
  BY <1>4 DEF ApplyAbandon
<1>5. CASE ApplyRecord
  BY <1>5 DEF ApplyRecord
<1>6. CASE ApplyArm
  BY <1>6 DEF ApplyArm
<1>7. CASE ApplyArmFails
  BY <1>7 DEF ApplyArmFails
<1>8. CASE ApplyLoad
  BY <1>8 DEF ApplyLoad
<1>9. CASE ApplyLoadFails
  BY <1>9, RestoreListing, <1>d DEF ApplyLoadFails
<1>10. CASE ApplyFailClear
  BY <1>10 DEF ApplyFailClear
<1>11. CASE ApplyFailStatus
  BY <1>11 DEF ApplyFailStatus
<1>12. CASE ConfirmBegin
  BY <1>12 DEF ConfirmBegin
<1>13. CASE ConfirmClear
  BY <1>13 DEF ConfirmClear
<1>14. CASE ConfirmStatus
  BY <1>14 DEF ConfirmStatus
<1>15. CASE ConfirmFails
  BY <1>15 DEF ConfirmFails
<1>16. CASE ConfirmLedger
  BY <1>16 DEF ConfirmLedger
<1>17. CASE ConfirmBaseline
  BY <1>17 DEF ConfirmBaseline
<1>18. CASE RollbackBegin
  BY <1>18 DEF RollbackBegin
<1>19. CASE TimerFires
  BY <1>19 DEF TimerFires
<1>20. CASE Recover
  BY <1>20 DEF Recover
<1>21. CASE RecoverReturns
  BY <1>21 DEF RecoverReturns
<1>22. CASE RevertLoad
  BY <1>22, RestoreTwice DEF RevertLoad
<1>23. CASE RevertLoadFails
  BY <1>23 DEF RevertLoadFails
<1>24. CASE RevertClear
  BY <1>24 DEF RevertClear
<1>25. CASE RevertClearFails
  BY <1>25 DEF RevertClearFails
<1>26. CASE RevertStatus
  BY <1>26 DEF RevertStatus
<1>27. CASE Crash
  BY <1>27 DEF Crash
<1>28. CASE Restart
  BY <1>28 DEF Restart
<1>29. CASE \E v \in firing : AutoRevert(v) \/ AutoRevertReturns(v)
  BY <1>29 DEF AutoRevert, AutoRevertReturns
<1>30. CASE UNCHANGED vars
  BY <1>30 DEF vars
<1> QED
  BY <1>1, <1>2, <1>3, <1>4, <1>5, <1>6, <1>7, <1>8, <1>9, <1>10, <1>11,
     <1>12, <1>13, <1>14, <1>15, <1>16, <1>17, <1>18, <1>19, <1>20, <1>21,
     <1>22, <1>23, <1>24, <1>25, <1>26, <1>27, <1>28, <1>29, <1>30 DEF Next,
     Apply, Confirm, Revert

\* With no kill to come, none comes.
LEMMA NoKillStep ==
    ASSUME StateOK, NoKill, [Next]_vars
    PROVE  NoKill' /\ ~Fail("kill")
BY FaultSteps, NoneToCome DEF NoKill, FaultKinds

\* Both hold always, if nft is never killed after its commit.
LEMMA SInvHolds == Faults["kill"] = 0 /\ Spec => [](SInv /\ NoKill)
<1>1. Faults["kill"] = 0 /\ Init => SInv /\ NoKill
  BY IInvInit DEF Init, SInv, SnapshotInv, NoKill
<1>2. SInv /\ NoKill /\ [Next]_vars => (SInv /\ NoKill)'
  BY SInvStep, NoKillStep DEF SInv, IInv
<1> QED
  BY <1>1, <1>2, PTL DEF Spec

\* Every step of the pipeline is a step of the promise, or none at all.
LEMMA SafeStep ==
    ASSUME SInv, [Next]_vars, ~Fail("kill")
    PROVE  [Safe!Next]_(Safe!vars)
<1>a. /\ IInv /\ StateOK
      /\ kernel \in Configs /\ cand \in Configs /\ ledger \in SUBSET Tables
      /\ row.prev \in Snapshots
  BY DEF SInv, IInv, StateOK
<1>d. Owned(cand) \cup ledger \in SUBSET Tables
  BY <1>a, OwnedType
<1>e. ~Pending => row.prev = NoTables
  BY <1>a DEF IInv, RowInv, NoRow
<1>f. /\ pc \in {"apply_arm"} => ~Pending
      /\ pc \in {"apply_load", "fail_clear", "confirm_clear", "revert_load",
                 "revert_clear"}
            => Pending
      /\ pc = "apply_arm" => vid # 0
  BY <1>a DEF IInv, RowInv, VersionInv, StateOK
<1> DEFINE Same == /\ UNCHANGED <<kernel, row>>
                   /\ (pc = "confirm_clear") = (pc' = "confirm_clear")
<1>0. Same => UNCHANGED Safe!vars
  BY DEF Safe!vars, Pending
<1> USE <1>a, <1>e, <1>f DEF Pending, NoRow, Goto, Return, store, locals,
        process
<1>1. CASE ApplyArm
  <2>1. /\ Restored(kernel, row.prev) = kernel
        /\ Restored(kernel, row'.prev) = kernel
    BY <1>1, <1>d, RestoreListing, RestoreNothing
       DEF ApplyArm, SInv, SnapshotInv
  <2> QED
    BY <1>1, <2>1 DEF ApplyArm, Safe!Next, Safe!Arm
<1>2. CASE ApplyLoad
  <2>1. /\ Restored(kernel', row.prev) = kernel
        /\ Restored(kernel, row.prev) = kernel
    <3>1. row.prev = Listing(kernel, Owned(cand) \cup ledger)
      BY <1>2 DEF ApplyLoad, SInv, SnapshotInv
    <3>2. kernel' = Loaded(kernel, cand, ledger \ Owned(cand))
      BY <1>2 DEF ApplyLoad
    <3>3. Restored(kernel, row.prev) = kernel
      BY <1>d, <3>1, RestoreListing
    <3>4. LET s == Listing(kernel, Owned(cand) \cup ledger)
          IN  Restored(Loaded(kernel, cand, ledger \ Owned(cand)), s) = kernel
      BY RestoreLoaded
    <3> QED
      BY <3>1, <3>2, <3>3, <3>4
  <2>2. kernel' \in Configs
    BY <1>2, LoadedType DEF ApplyLoad
  <2> QED
    BY <1>2, <2>1, <2>2 DEF ApplyLoad, Safe!Next, Safe!Load
<1>3. CASE ApplyLoadFails
  BY <1>3, <1>0 DEF ApplyLoadFails
<1>4. CASE ApplyFailClear
  <2>1. Restored(kernel, NoTables) = kernel
    BY RestoreNothing
  <2>2. CASE UNCHANGED row
    BY <1>4, <2>2, <1>0 DEF ApplyFailClear
  <2>3. CASE row' = NoRow
    BY <1>4, <2>1, <2>3
       DEF ApplyFailClear, SInv, SnapshotInv, Safe!Next, Safe!StandDown
  <2> QED
    BY <1>4, <2>2, <2>3 DEF ApplyFailClear
<1>5. CASE ConfirmBegin
  BY <1>5 DEF ConfirmBegin, Safe!Next, Safe!Ask
<1>6. CASE ConfirmClear
  <2>1. Restored(kernel, NoTables) = kernel
    BY RestoreNothing
  <2> QED
    BY <1>6, <2>1 DEF ConfirmClear, Safe!Next, Safe!Keep
<1>7. CASE ConfirmFails
  BY <1>7, <1>0 DEF ConfirmFails, Safe!Next, Safe!Forget
<1>8. CASE RevertLoad
  <2>1. /\ Restored(kernel', row.prev) = Restored(kernel, row.prev)
        /\ kernel' \in Configs
    BY <1>8, RestoreTwice, RestoredType DEF RevertLoad
  <2> QED
    BY <1>8, <2>1 DEF RevertLoad, Safe!Next, Safe!Load
<1>9. CASE RevertLoadFails
  BY <1>9, <1>0 DEF RevertLoadFails
<1>10. CASE RevertClear
  <2>1. Restored(kernel, NoTables) = kernel
    BY RestoreNothing
  <2> QED
    BY <1>10, <2>1
       DEF RevertClear, SInv, SnapshotInv, Safe!Next, Safe!StandDown
<1>11. CASE Crash
  BY <1>11, <1>0 DEF Crash, Safe!Next, Safe!Forget
<1>12. CASE \E v \in firing : AutoRevert(v) \/ AutoRevertReturns(v)
  BY <1>12, <1>0 DEF AutoRevert, AutoRevertReturns
<1>13. CASE Edit
  BY <1>13, <1>0 DEF Edit, EditTable, RenameTable
<1>14. CASE \/ ApplyBegin \/ ApplySnapshot \/ ApplyAbandon \/ ApplyRecord
            \/ ApplyArmFails \/ ApplyFailStatus \/ ConfirmStatus
            \/ ConfirmLedger \/ ConfirmBaseline \/ RollbackBegin
            \/ TimerFires \/ Recover \/ RecoverReturns
            \/ RevertClearFails \/ RevertStatus \/ Restart
  BY <1>14, <1>0
     DEF ApplyBegin, ApplySnapshot, ApplyAbandon, ApplyRecord, ApplyArmFails,
         ApplyFailStatus, ConfirmStatus, ConfirmLedger, ConfirmBaseline,
         RollbackBegin, TimerFires, Recover, RecoverReturns, RevertClearFails,
         RevertStatus, Restart
<1>15. CASE UNCHANGED vars
  BY <1>15, <1>0 DEF vars
<1> QED
  BY <1>1, <1>2, <1>3, <1>4, <1>5, <1>6, <1>7, <1>8, <1>9, <1>10, <1>11,
     <1>12, <1>13, <1>14, <1>15 DEF Next, Apply, Confirm, Revert

\* The apply pipeline keeps the promise of SafeApply for every interleaving of
\* edits, timers, crashes and failing statements, as long as an nft run that
\* reports an error has changed nothing.
THEOREM Refinement == Faults["kill"] = 0 => (Spec => ImplementsSafeApply)
<1>1. Init => Safe!Init
  <2> SUFFICES ASSUME Init PROVE Safe!Init
    OBVIOUS
  <2>1. Restored(kernel, NoTables) = kernel
    BY RestoreNothing DEF Init
  <2> QED
    BY <2>1 DEF Init, Safe!Init, Pending, NoRow
<1>2. SInv /\ NoKill /\ [Next]_vars => [Safe!Next]_(Safe!vars)
  BY SafeStep, NoKillStep DEF SInv, IInv
<1> QED
  BY <1>1, <1>2, SInvHolds, PTL DEF Spec, ImplementsSafeApply, Safe!Spec

-----------------------------------------------------------------------------
(* At rest: versions, ledger and kernel agree as long as no crash and no   *)
(* SQL failure happened                                                    *)

\* The pending apply, and whatever version a handler works on, is the newest:
\* nothing is inserted before it is settled.
LatestInv ==
    /\ Pending => row.version = Len(versions)
    /\ pc \in {"apply_arm", "apply_load", "fail_clear", "fail_status",
               "confirm_clear", "confirm_status", "confirm_ledger",
               "revert_load", "revert_clear", "revert_status"}
          => vid = Len(versions)
    /\ pc \in {"apply_arm", "apply_load"} => versions[vid].config = cand

\* A version is marked pending while it has the row, and in the statements
\* between the row and its status.
SettledInv ==
    /\ pc \notin {"down", "boot"}
    /\ pc = "fail_status" => ~Pending
    /\ \A v \in DOMAIN versions :
          versions[v].status = "pending" <=>
              \/ v = row.version
              \/ /\ v = vid
                 /\ pc \in {"apply_arm", "fail_status", "confirm_status",
                            "revert_status"}

\* Version v is the newest that was confirmed.
IsLastConfirmed(v) ==
    /\ v \in DOMAIN versions
    /\ versions[v].status = "confirmed"
    /\ \A w \in DOMAIN versions : versions[w].status = "confirmed" => w <= v

NoneConfirmed == \A v \in DOMAIN versions : versions[v].status # "confirmed"
LastExists == NoneConfirmed \/ \E v \in DOMAIN versions : IsLastConfirmed(v)

\* The ledger holds the tables of the newest confirmed version.
LedgerOfLast ==
    \/ NoneConfirmed /\ ledger = {}
    \/ \E v \in DOMAIN versions :
          IsLastConfirmed(v) /\ ledger = Owned(versions[v].config)

\* Memory holds the tables of the pending apply from its load on; the ledger
\* only lags in the statement before it is written.
LedgerInv ==
    /\ Pending /\ pc \notin {"apply_load", "fail_clear"} =>
          inMem = {Owned(versions[Len(versions)].config)}
    /\ pc \in {"confirm_status", "confirm_ledger"} =>
          inMem = {Owned(versions[Len(versions)].config)}
    /\ pc = "confirm_ledger" =>
          /\ Len(versions) \in DOMAIN versions
          /\ versions[Len(versions)].status = "confirmed"
    /\ pc # "confirm_ledger" => LedgerOfLast

\* The tables that some applied configuration contains.
Known == {t \in Tables : \E v \in DOMAIN versions :
                            t \in Owned(versions[v].config)}

\* Nothing that names tables names a foreign one.
KnownInv ==
    /\ ledger \subseteq Known
    /\ Pending => DOMAIN row.prev \subseteq Known
    /\ pc = "apply_record" => DOMAIN snaps = Owned(cand) \cup ledger
    /\ pc = "apply_arm" => DOMAIN snaps \subseteq Known

\* A new version is put behind the others, which stay as they are.
LEMMA RecordAdds ==
    ASSUME StateOK, ApplyRecord
    PROVE  /\ Len(versions') = Len(versions) + 1
           /\ DOMAIN versions' = 1 .. Len(versions')
           /\ DOMAIN versions \subseteq DOMAIN versions'
           /\ \A v \in DOMAIN versions' :
                 v \in DOMAIN versions \/ v = Len(versions')
           /\ \A v \in DOMAIN versions : versions'[v] = versions[v]
           /\ versions'[Len(versions')].config = cand
           /\ versions'[Len(versions')].status = "pending"
<1>1. versions \in Seq(Version) /\ DOMAIN versions = 1 .. Len(versions)
  BY DEF StateOK
<1>2. PICK new : /\ versions' = Append(versions, new)
                 /\ new.status = "pending" /\ new.config = cand
  BY DEF ApplyRecord
<1>3. /\ Len(versions') = Len(versions) + 1
      /\ DOMAIN versions' = 1 .. Len(versions')
      /\ \A v \in DOMAIN versions : versions'[v] = versions[v]
      /\ versions'[Len(versions) + 1] = new
  BY <1>1, <1>2
<1>4. /\ DOMAIN versions \subseteq DOMAIN versions'
      /\ \A v \in DOMAIN versions' : v \in DOMAIN versions \/ v = Len(versions')
  BY <1>1, <1>3
<1> QED
  BY <1>2, <1>3, <1>4

\* A status is written to the version the handler works on, and nothing else.
LEMMA StatusChanges ==
    ASSUME StateOK, vid \in DOMAIN versions, NEW s \in Status, SetStatus(vid, s)
    PROVE  /\ Len(versions') = Len(versions)
           /\ DOMAIN versions' = DOMAIN versions
           /\ \A v \in DOMAIN versions :
                 /\ versions'[v].config = versions[v].config
                 /\ versions'[v].status = IF v = vid THEN s
                                                     ELSE versions[v].status
<1>1. versions \in Seq(Version) /\ DOMAIN versions = 1 .. Len(versions)
  BY DEF StateOK
<1>2. /\ versions' \in Seq(Version) /\ Len(versions') = Len(versions)
      /\ \A v \in DOMAIN versions :
            versions'[v].status = IF v = vid THEN s ELSE versions[v].status
  BY <1>1, SetStatusType
<1>3. \A r \in Version : [r EXCEPT !.status = s].config = r.config
  BY DEF Version
<1>4. \A v \in DOMAIN versions :
         /\ versions[v] \in Version
         /\ versions'[v] = IF v = vid THEN [versions[v] EXCEPT !.status = s]
                                      ELSE versions[v]
  BY <1>1 DEF SetStatus
<1>5. \A v \in DOMAIN versions : versions'[v].config = versions[v].config
  BY <1>3, <1>4
<1> QED
  BY <1>1, <1>2, <1>5

\* Every other step leaves the recorded versions alone.
StatusWrite == ApplyFailStatus \/ ConfirmStatus \/ RevertStatus

\* Only a record and a change of status write versions.
LEMMA VersionsStay ==
    ASSUME [Next]_vars, ~ApplyRecord, ~StatusWrite
    PROVE  versions' = versions
BY DEF StatusWrite, Next, Apply, Confirm, Revert, Edit, EditTable, RenameTable,
       AutoRevert, AutoRevertReturns, ApplyBegin, ApplySnapshot,
       ApplyAbandon, ApplyArm, ApplyArmFails, ApplyLoad, ApplyLoadFails,
       ApplyFailClear, ConfirmBegin, ConfirmClear, ConfirmFails,
       ConfirmLedger, ConfirmBaseline, RollbackBegin, TimerFires, Recover,
       RecoverReturns, RevertLoad, RevertLoadFails, RevertClear,
       RevertClearFails, Crash, Restart, store, vars

\* Every step keeps LatestInv.
LEMMA LatestStep ==
    ASSUME IInv, LatestInv, [Next]_vars
    PROVE  LatestInv'
<1>a. /\ Len(versions) \in Nat
      /\ DOMAIN versions = 1 .. Len(versions)
      /\ row.version \in Nat /\ vid \in Nat
      /\ pc \in {"apply_arm", "apply_load"} => vid \in DOMAIN versions
  BY DEF IInv, StateOK, VersionInv
<1>b. /\ pc \in {"apply_snapshot", "apply_record", "apply_arm"} => ~Pending
      /\ pc \in {"confirm_status", "confirm_ledger", "confirm_baseline",
                 "revert_status"} => ~Pending
  BY DEF IInv, RowInv
<1> USE <1>a, <1>b DEF LatestInv, Pending, NoRow, Goto, Return, store, locals,
        process
<1>1. CASE Edit
  BY <1>1 DEF Edit, EditTable, RenameTable
<1>2. CASE ApplyBegin
  BY <1>2 DEF ApplyBegin
<1>3. CASE ApplySnapshot
  BY <1>3 DEF ApplySnapshot
<1>4. CASE ApplyAbandon
  BY <1>4 DEF ApplyAbandon
<1>5. CASE ApplyRecord
  <2>1. /\ Len(versions') = Len(versions) + 1
        /\ versions'[Len(versions')].config = cand
    BY <1>5, RecordAdds DEF IInv
  <2> QED
    BY <1>5, <2>1 DEF ApplyRecord
<1>6. CASE ApplyArm
  BY <1>6 DEF ApplyArm
<1>7. CASE ApplyArmFails \/ ApplyLoad \/ ApplyLoadFails
  BY <1>7 DEF ApplyArmFails, ApplyLoad, ApplyLoadFails
<1>8. CASE ApplyFailClear
  BY <1>8 DEF ApplyFailClear
<1>9. CASE ApplyFailStatus \/ ConfirmStatus \/ RevertStatus
  <2>1. Len(versions') = Len(versions)
    BY <1>9, SetStatusType DEF IInv, StateOK, ApplyFailStatus, ConfirmStatus,
       RevertStatus, Status
  <2> QED
    BY <1>9, <2>1 DEF ApplyFailStatus, ConfirmStatus, RevertStatus
<1>10. CASE ConfirmBegin \/ RollbackBegin \/ Recover
  BY <1>10 DEF ConfirmBegin, RollbackBegin, Recover
<1>11. CASE ConfirmClear
  BY <1>11 DEF ConfirmClear
<1>12. CASE ConfirmFails \/ ConfirmLedger \/ ConfirmBaseline
  BY <1>12 DEF ConfirmFails, ConfirmLedger, ConfirmBaseline
<1>13. CASE TimerFires \/ RecoverReturns \/ RevertLoad
  BY <1>13 DEF TimerFires, RecoverReturns, RevertLoad
<1>14. CASE RevertLoadFails \/ RevertClearFails
  BY <1>14 DEF RevertLoadFails, RevertClearFails
<1>15. CASE RevertClear
  BY <1>15 DEF RevertClear
<1>16. CASE Crash \/ Restart
  BY <1>16 DEF Crash, Restart
<1>17. CASE \E v \in firing : AutoRevert(v) \/ AutoRevertReturns(v)
  BY <1>17 DEF AutoRevert, AutoRevertReturns
<1>18. CASE UNCHANGED vars
  BY <1>18 DEF vars
<1> QED
  BY <1>1, <1>2, <1>3, <1>4, <1>5, <1>6, <1>7, <1>8, <1>9, <1>10, <1>11, <1>12,
     <1>13, <1>14, <1>15, <1>16, <1>17, <1>18 DEF Next, Apply, Confirm, Revert

\* Between crashes and failing statements, a version is marked "pending"
\* exactly while it is to be settled.
LEMMA SettledStep ==
    ASSUME IInv, LatestInv, SettledInv, [Next]_vars, ~Fail("db"), ~Fail("crash")
    PROVE  SettledInv'
<1>0. StateOK
  BY DEF IInv
<1>a. /\ Len(versions) \in Nat /\ DOMAIN versions = 1 .. Len(versions)
      /\ row.version \in Nat /\ vid \in Nat
  BY <1>0 DEF StateOK
<1>b. /\ pc \in {"apply_snapshot", "apply_record", "apply_arm"}
            => row.version = 0
      /\ pc \in {"confirm_status", "confirm_ledger", "confirm_baseline",
                 "revert_status"}
            => row.version = 0
  BY DEF IInv, RowInv, Pending
<1>c. pc \in {"apply_load", "fail_clear", "confirm_clear", "revert_load",
             "revert_clear"}
         => row.version # 0 /\ row.version = vid
  BY DEF IInv, RowInv, LatestInv, Pending
<1>d. pc \in {"fail_status", "confirm_status", "revert_status"}
         => vid \in DOMAIN versions
  BY DEF IInv, VersionInv
<1> USE <1>a, <1>b, <1>c, <1>d DEF SettledInv, Pending, NoRow, Goto, Return,
        store, locals, process
<1>1. CASE Edit
  BY <1>1 DEF Edit, EditTable, RenameTable
<1>2. CASE ApplyBegin
  BY <1>2 DEF ApplyBegin
<1>3. CASE ApplySnapshot
  BY <1>3 DEF ApplySnapshot
<1>4. CASE ApplyAbandon
  BY <1>4 DEF ApplyAbandon
<1>5. CASE ApplyRecord
  <2>1. /\ Len(versions') = Len(versions) + 1
        /\ \A v \in DOMAIN versions' :
              v \in DOMAIN versions \/ v = Len(versions')
        /\ \A v \in DOMAIN versions : versions'[v] = versions[v]
        /\ versions'[Len(versions')].status = "pending"
    BY <1>5, <1>0, RecordAdds
  <2>2. /\ pc = "apply_record" /\ pc' = "apply_arm" /\ vid' = Len(versions')
        /\ row' = row /\ row.version = 0
    BY <1>5, <2>1, <1>a DEF ApplyRecord
  <2> QED
    BY <2>1, <2>2, <1>a
<1>6. CASE ApplyArm
  BY <1>6 DEF ApplyArm
<1>7. CASE ApplyArmFails
  BY <1>7 DEF ApplyArmFails
<1>8. CASE ApplyLoad
  BY <1>8 DEF ApplyLoad
<1>9. CASE ApplyLoadFails
  BY <1>9 DEF ApplyLoadFails
<1>10. CASE ApplyFailClear
  BY <1>10 DEF ApplyFailClear
<1>11. CASE ApplyFailStatus
  <2>1. /\ DOMAIN versions' = DOMAIN versions
        /\ \A v \in DOMAIN versions :
              versions'[v].status = IF v = vid THEN "failed"
                                    ELSE versions[v].status
    BY <1>11, <1>0, StatusChanges DEF ApplyFailStatus, Status
  <2> QED
    BY <1>11, <2>1 DEF ApplyFailStatus
<1>12. CASE ConfirmBegin \/ RollbackBegin
  BY <1>12 DEF ConfirmBegin, RollbackBegin
<1>13. CASE Recover \/ RecoverReturns
  BY <1>13 DEF Recover, RecoverReturns
<1>14. CASE ConfirmClear
  BY <1>14 DEF ConfirmClear
<1>15. CASE ConfirmStatus
  <2>1. /\ DOMAIN versions' = DOMAIN versions
        /\ \A v \in DOMAIN versions :
              versions'[v].status = IF v = vid THEN "confirmed"
                                    ELSE versions[v].status
    BY <1>15, <1>0, StatusChanges DEF ConfirmStatus, Status
  <2> QED
    BY <1>15, <2>1 DEF ConfirmStatus
<1>16. CASE ConfirmFails \/ ConfirmLedger
  BY <1>16 DEF ConfirmFails, ConfirmLedger
<1>17. CASE ConfirmBaseline
  BY <1>17 DEF ConfirmBaseline
<1>18. CASE TimerFires \/ RevertLoad
  BY <1>18 DEF TimerFires, RevertLoad
<1>19. CASE RevertLoadFails
  BY <1>19 DEF RevertLoadFails
<1>20. CASE RevertClear
  BY <1>20 DEF RevertClear
<1>21. CASE RevertClearFails
  BY <1>21 DEF RevertClearFails
<1>22. CASE RevertStatus
  <2>1. /\ DOMAIN versions' = DOMAIN versions
        /\ \A v \in DOMAIN versions :
              versions'[v].status = IF v = vid THEN "reverted"
                                    ELSE versions[v].status
    BY <1>22, <1>0, StatusChanges DEF RevertStatus, Status
  <2> QED
    BY <1>22, <2>1 DEF RevertStatus
<1>23. CASE Crash \/ Restart
  BY <1>23 DEF Crash, Restart
<1>24. CASE \E v \in firing : AutoRevert(v) \/ AutoRevertReturns(v)
  BY <1>24 DEF AutoRevert, AutoRevertReturns
<1>25. CASE UNCHANGED vars
  BY <1>25 DEF vars
<1> QED
  BY <1>1, <1>2, <1>3, <1>4, <1>5, <1>6, <1>7, <1>8, <1>9, <1>10, <1>11,
     <1>12, <1>13, <1>14, <1>15, <1>16, <1>17, <1>18, <1>19, <1>20, <1>21,
     <1>22, <1>23, <1>24, <1>25 DEF Next, Apply, Confirm, Revert

\* The ledger is that of the last confirmed version still if the confirmed
\* versions, their configurations and the ledger are what they were.
LEMMA LedgerFrame ==
    ASSUME LedgerOfLast, UNCHANGED ledger,
           DOMAIN versions \subseteq DOMAIN versions',
           \A v \in DOMAIN versions :
              /\ versions'[v].config = versions[v].config
              /\ versions'[v].status = "confirmed"
                    <=> versions[v].status = "confirmed",
           \A v \in DOMAIN versions' \ DOMAIN versions :
              versions'[v].status # "confirmed"
    PROVE  LedgerOfLast'
<1>1. CASE NoneConfirmed /\ ledger = {}
  BY <1>1 DEF LedgerOfLast, NoneConfirmed
<1>2. ASSUME NEW v \in DOMAIN versions, IsLastConfirmed(v),
             ledger = Owned(versions[v].config)
      PROVE  LedgerOfLast'
  <2>1. IsLastConfirmed(v)'
    BY <1>2 DEF IsLastConfirmed
  <2>2. v \in DOMAIN versions' /\ ledger' = Owned(versions'[v].config)
    BY <1>2
  <2> QED
    BY <2>1, <2>2 DEF LedgerOfLast
<1> QED
  BY <1>1, <1>2 DEF LedgerOfLast

\* Every step but a crash and an SQL failure keeps LedgerInv.
LEMMA LedgerStep ==
    ASSUME IInv, LatestInv, SettledInv, LedgerInv, [Next]_vars, ~Fail("db"),
           ~Fail("crash")
    PROVE  LedgerInv'
<1>0. StateOK
  BY DEF IInv
<1>a. /\ Len(versions) \in Nat /\ DOMAIN versions = 1 .. Len(versions)
      /\ row.version \in Nat /\ vid \in Nat
  BY <1>0 DEF StateOK
<1>b. /\ pc \in {"apply_snapshot", "apply_record", "apply_arm"}
            => row.version = 0
      /\ pc \in {"confirm_status", "confirm_ledger", "confirm_baseline",
                 "revert_status"}
            => row.version = 0
      /\ pc = "fail_status" => row.version = 0
      /\ pc \notin {"down", "boot"}
  BY DEF IInv, RowInv, SettledInv, Pending
<1>c. pc \in {"apply_load", "fail_clear", "confirm_clear", "revert_load",
             "revert_clear"}
         => row.version # 0
  BY DEF IInv, RowInv, Pending
<1>d. /\ pc \in {"apply_load", "fail_status", "confirm_status",
                 "revert_status"}
            => vid \in DOMAIN versions
      /\ pc \in {"fail_status", "revert_status"}
            => versions[vid].status # "confirmed"
      /\ pc \in {"apply_load", "confirm_status"} => vid = Len(versions)
      /\ pc = "apply_load" => versions[vid].config = cand
  BY DEF IInv, VersionInv, LatestInv
<1>e. pc # "confirm_ledger" => LedgerOfLast
  BY DEF LedgerInv
<1>f. UNCHANGED <<ledger, versions>> => (LedgerOfLast <=> LedgerOfLast')
  BY DEF LedgerOfLast, NoneConfirmed, IsLastConfirmed
<1>g. pc = "confirm_clear" =>
         inMem = {Owned(versions[Len(versions)].config)}
  BY <1>c DEF LedgerInv, Pending
<1>h. ASSUME Len(versions) \in DOMAIN versions,
             versions[Len(versions)].status = "confirmed",
             versions' = versions,
             ledger' = Owned(versions'[Len(versions')].config)
      PROVE  LedgerOfLast'
  <2>1. \A w \in DOMAIN versions : w <= Len(versions)
    BY <1>a
  <2>2. IsLastConfirmed(Len(versions))
    BY <1>h, <2>1 DEF IsLastConfirmed
  <2> QED
    BY <1>h, <2>2 DEF LedgerOfLast, IsLastConfirmed
<1> USE <1>a, <1>b, <1>c, <1>d, <1>e, <1>f DEF LedgerInv, Pending, NoRow, Goto,
        Return, store, locals, process
<1>1. CASE Edit
  BY <1>1 DEF Edit, EditTable, RenameTable
<1>2. CASE ApplyBegin
  BY <1>2 DEF ApplyBegin
<1>3. CASE ApplySnapshot
  BY <1>3 DEF ApplySnapshot
<1>4. CASE ApplyAbandon
  BY <1>4 DEF ApplyAbandon
<1>5. CASE ApplyRecord
  <2>1. /\ Len(versions') = Len(versions) + 1
        /\ DOMAIN versions \subseteq DOMAIN versions'
        /\ \A v \in DOMAIN versions' :
              v \in DOMAIN versions \/ v = Len(versions')
        /\ \A v \in DOMAIN versions : versions'[v] = versions[v]
        /\ versions'[Len(versions')].status = "pending"
    BY <1>5, <1>0, RecordAdds
  <2>2. LedgerOfLast'
    BY <1>5, <2>1, <1>e, LedgerFrame DEF ApplyRecord
  <2> QED
    BY <1>5, <2>2 DEF ApplyRecord
<1>6. CASE ApplyArm
  BY <1>6 DEF ApplyArm
<1>7. CASE ApplyArmFails
  BY <1>7 DEF ApplyArmFails
<1>8. CASE ApplyLoad
  BY <1>8 DEF ApplyLoad
<1>9. CASE ApplyLoadFails
  BY <1>9 DEF ApplyLoadFails
<1>10. CASE ApplyFailClear
  BY <1>10 DEF ApplyFailClear
<1>11. CASE ApplyFailStatus
  <2>1. /\ Len(versions') = Len(versions) /\ DOMAIN versions' = DOMAIN versions
        /\ \A v \in DOMAIN versions :
              /\ versions'[v].config = versions[v].config
              /\ versions'[v].status = IF v = vid THEN "failed"
                                       ELSE versions[v].status
    BY <1>11, <1>0, <1>d, StatusChanges DEF ApplyFailStatus, Status
  <2>2. versions[vid].status # "confirmed"
    BY <1>11, <1>d DEF ApplyFailStatus
  <2>3. LedgerOfLast'
    BY <1>11, <2>1, <2>2, <1>e, LedgerFrame DEF ApplyFailStatus
  <2> QED
    BY <1>11, <2>3, <1>b, <1>d DEF ApplyFailStatus
<1>12. CASE ConfirmBegin \/ RollbackBegin
  BY <1>12 DEF ConfirmBegin, RollbackBegin
<1>13. CASE Recover \/ RecoverReturns
  BY <1>13 DEF Recover, RecoverReturns
<1>14. CASE ConfirmClear
  <2>1. inMem = {Owned(versions[Len(versions)].config)}
    BY <1>14, <1>g DEF ConfirmClear
  <2> QED
    BY <1>14, <2>1 DEF ConfirmClear
<1>15. CASE ConfirmStatus
  <2>1. /\ Len(versions') = Len(versions) /\ DOMAIN versions' = DOMAIN versions
        /\ \A v \in DOMAIN versions :
              /\ versions'[v].config = versions[v].config
              /\ versions'[v].status = IF v = vid THEN "confirmed"
                                       ELSE versions[v].status
    BY <1>15, <1>0, <1>d, StatusChanges DEF ConfirmStatus, Status
  <2>2. vid \in DOMAIN versions /\ vid = Len(versions)
    BY <1>15, <1>d DEF ConfirmStatus
  <2>3. inMem = {Owned(versions[Len(versions)].config)}
    BY <1>15 DEF ConfirmStatus
  <2>4. /\ inMem' = {Owned(versions'[Len(versions')].config)}
        /\ Len(versions') \in DOMAIN versions'
        /\ versions'[Len(versions')].status = "confirmed"
    BY <1>15, <2>1, <2>2, <2>3 DEF ConfirmStatus
  <2> QED
    BY <1>15, <2>4 DEF ConfirmStatus
<1>16. CASE ConfirmFails
  BY <1>16 DEF ConfirmFails
<1>17. CASE ConfirmLedger
  <2>1. /\ inMem = {Owned(versions[Len(versions)].config)}
        /\ Len(versions) \in DOMAIN versions
        /\ versions[Len(versions)].status = "confirmed"
    BY <1>17 DEF ConfirmLedger
  <2>0. inMem # {}
    BY <2>1
  <2>2. ledger' = UNION inMem /\ versions' = versions
    BY <1>17, <2>0 DEF ConfirmLedger
  <2>3. ledger' = Owned(versions'[Len(versions')].config)
    BY <2>1, <2>2
  <2>5. LedgerOfLast'
    BY <2>1, <2>2, <2>3, <1>h
  <2> QED
    BY <1>17, <2>5, <1>b DEF ConfirmLedger
<1>18. CASE ConfirmBaseline
  BY <1>18 DEF ConfirmBaseline
<1>19. CASE TimerFires \/ RevertLoad
  BY <1>19 DEF TimerFires, RevertLoad
<1>20. CASE RevertLoadFails
  BY <1>20 DEF RevertLoadFails
<1>21. CASE RevertClear
  BY <1>21 DEF RevertClear
<1>22. CASE RevertClearFails
  BY <1>22 DEF RevertClearFails
<1>23. CASE RevertStatus
  <2>1. /\ Len(versions') = Len(versions) /\ DOMAIN versions' = DOMAIN versions
        /\ \A v \in DOMAIN versions :
              /\ versions'[v].config = versions[v].config
              /\ versions'[v].status = IF v = vid THEN "reverted"
                                       ELSE versions[v].status
    BY <1>23, <1>0, <1>d, StatusChanges DEF RevertStatus, Status
  <2>2. versions[vid].status # "confirmed"
    BY <1>23, <1>d DEF RevertStatus
  <2>3. LedgerOfLast'
    BY <1>23, <2>1, <2>2, <1>e, LedgerFrame DEF RevertStatus
  <2> QED
    BY <1>23, <2>3, <1>b, <1>d DEF RevertStatus
<1>24. CASE Crash \/ Restart
  BY <1>24 DEF Crash, Restart
<1>25. CASE \E v \in firing : AutoRevert(v) \/ AutoRevertReturns(v)
  BY <1>25 DEF AutoRevert, AutoRevertReturns
<1>26. CASE UNCHANGED vars
  BY <1>26 DEF vars
<1> QED
  BY <1>1, <1>2, <1>3, <1>4, <1>5, <1>6, <1>7, <1>8, <1>9, <1>10, <1>11,
     <1>12, <1>13, <1>14, <1>15, <1>16, <1>17, <1>18, <1>19, <1>20, <1>21,
     <1>22, <1>23, <1>24, <1>25, <1>26 DEF Next, Apply, Confirm, Revert

\* A table that was once part of an applied configuration stays known.
LEMMA KnownGrows ==
    ASSUME IInv, [Next]_vars
    PROVE  Known \subseteq Known'
<1>1. StateOK
  BY DEF IInv
<1>2. /\ DOMAIN versions \subseteq DOMAIN versions'
      /\ \A v \in DOMAIN versions : versions'[v].config = versions[v].config
  <2>1. CASE ApplyRecord
    BY <1>1, <2>1, RecordAdds
  <2>2. CASE StatusWrite
    <3>1. /\ vid \in DOMAIN versions
          /\ \/ UNCHANGED versions
             \/ \E s \in Status : SetStatus(vid, s)
      BY <2>2 DEF StatusWrite, IInv, VersionInv, ApplyFailStatus,
         ConfirmStatus, RevertStatus, Goto, Status
    <3> QED
      BY <1>1, <3>1, StatusChanges
  <2> QED
    BY <2>1, <2>2, VersionsStay
<1> QED
  BY <1>2 DEF Known

\* What an apply is about to load is known to its version.
LEMMA RecordKnown ==
    ASSUME StateOK, ApplyRecord
    PROVE  Owned(cand) \subseteq Known'
<1>1. /\ DOMAIN versions' = 1 .. Len(versions')
      /\ Len(versions') = Len(versions) + 1
      /\ versions'[Len(versions')].config = cand
  BY RecordAdds
<1>0. Len(versions) \in Nat
  BY DEF StateOK
<1>2. Len(versions') \in DOMAIN versions'
  BY <1>0, <1>1
<1> QED
  BY <1>1, <1>2, OwnedType DEF Known

\* Between crashes and failing statements, everything a script may name has
\* been part of an applied configuration.
LEMMA KnownStep ==
    ASSUME IInv, LedgerInv, KnownInv, [Next]_vars, ~Fail("db"), ~Fail("crash")
    PROVE  KnownInv'
<1>0. StateOK
  BY DEF IInv
<1>a. Known \subseteq Known'
  BY KnownGrows
<1> USE <1>a DEF KnownInv, Pending, NoRow, NoTables, Listing, Goto, Return,
        store, locals, process
<1>1. CASE Edit
  BY <1>1 DEF Edit, EditTable, RenameTable
<1>2. CASE ApplyBegin
  BY <1>2 DEF ApplyBegin
<1>3. CASE ApplySnapshot
  BY <1>3 DEF ApplySnapshot
<1>4. CASE ApplyAbandon
  BY <1>4 DEF ApplyAbandon
<1>5. CASE ApplyRecord
  <2>1. Owned(cand) \subseteq Known'
    BY <1>5, <1>0, RecordAdds, RecordKnown
  <2>2. DOMAIN snaps \subseteq Known'
    BY <1>5, <2>1 DEF ApplyRecord
  <2> QED
    BY <1>5, <2>2 DEF ApplyRecord
<1>6. CASE ApplyArm
  BY <1>6 DEF ApplyArm
<1>7. CASE ApplyArmFails \/ ApplyLoad
  BY <1>7 DEF ApplyArmFails, ApplyLoad
<1>8. CASE ApplyLoadFails
  BY <1>8 DEF ApplyLoadFails
<1>9. CASE ApplyFailClear
  BY <1>9 DEF ApplyFailClear
<1>10. CASE ApplyFailStatus
  BY <1>10 DEF ApplyFailStatus
<1>11. CASE ConfirmBegin \/ RollbackBegin
  BY <1>11 DEF ConfirmBegin, RollbackBegin
<1>12. CASE Recover \/ RecoverReturns
  BY <1>12 DEF Recover, RecoverReturns
<1>13. CASE ConfirmClear
  BY <1>13 DEF ConfirmClear
<1>14. CASE ConfirmStatus
  BY <1>14 DEF ConfirmStatus
<1>15. CASE ConfirmFails
  BY <1>15 DEF ConfirmFails
<1>16. CASE ConfirmLedger
  <2>1. /\ inMem = {Owned(versions[Len(versions)].config)}
        /\ Len(versions) \in DOMAIN versions
    BY <1>16 DEF ConfirmLedger, LedgerInv
  <2>2. inMem # {}
    BY <2>1
  <2>3. ledger' = UNION inMem
    BY <1>16, <2>2 DEF ConfirmLedger
  <2>4. ledger' = Owned(versions[Len(versions)].config)
    BY <2>1, <2>3
  <2>5. ledger' \subseteq Known
    BY <2>1, <2>4, OwnedType DEF Known
  <2> QED
    BY <1>16, <2>5 DEF ConfirmLedger
<1>17. CASE ConfirmBaseline
  BY <1>17 DEF ConfirmBaseline
<1>18. CASE TimerFires \/ RevertLoad
  BY <1>18 DEF TimerFires, RevertLoad
<1>19. CASE RevertLoadFails
  BY <1>19 DEF RevertLoadFails
<1>20. CASE RevertClear
  BY <1>20 DEF RevertClear
<1>21. CASE RevertClearFails
  BY <1>21 DEF RevertClearFails
<1>22. CASE RevertStatus
  BY <1>22 DEF RevertStatus
<1>23. CASE Crash \/ Restart
  BY <1>23 DEF Crash, Restart
<1>24. CASE \E v \in firing : AutoRevert(v) \/ AutoRevertReturns(v)
  BY <1>24 DEF AutoRevert, AutoRevertReturns
<1>25. CASE UNCHANGED vars
  BY <1>25 DEF vars
<1> QED
  BY <1>1, <1>2, <1>3, <1>4, <1>5, <1>6, <1>7, <1>8, <1>9, <1>10, <1>11,
     <1>12, <1>13, <1>14, <1>15, <1>16, <1>17, <1>18, <1>19, <1>20, <1>21,
     <1>22, <1>23, <1>24, <1>25 DEF Next, Apply, Confirm, Revert

\* The kernel is only written by the two scripts.
LEMMA KernelWrites ==
    ASSUME [Next]_vars, kernel' # kernel
    PROVE  \/ /\ pc = "apply_load"
              /\ kernel' = Loaded(kernel, cand, ledger \ Owned(cand))
           \/ /\ pc = "revert_load"
              /\ kernel' = Restored(kernel, row.prev)
BY DEF Next, Apply, Confirm, Revert, Edit, EditTable, RenameTable,
       AutoRevert, AutoRevertReturns, ApplyBegin, ApplySnapshot,
       ApplyAbandon, ApplyRecord, ApplyArm, ApplyArmFails, ApplyLoad,
       ApplyLoadFails, ApplyFailClear, ApplyFailStatus, ConfirmBegin,
       ConfirmClear, ConfirmStatus, ConfirmFails, ConfirmLedger,
       ConfirmBaseline, RollbackBegin, TimerFires, Recover,
       RecoverReturns, RevertLoad, RevertLoadFails, RevertClear,
       RevertClearFails, RevertStatus, Crash, Restart, store, vars, Goto

RestInv == /\ BudgetInv
           /\ LatestInv
           /\ Intact => SettledInv /\ LedgerInv /\ KnownInv

\* RestInv holds at first.
LEMMA RestInit == Init => RestInv
<1> SUFFICES ASSUME Init PROVE RestInv
  OBVIOUS
<1>1. BudgetInv
  <2>1. \A kind \in FaultKinds : Faults[kind] \in Nat
    BY FaultsAssumption
  <2> QED
    BY <2>1 DEF BudgetInv, Init
<1>2. LatestInv /\ SettledInv /\ LedgerInv /\ KnownInv
  BY DEF Init, LatestInv, SettledInv, LedgerInv, LedgerOfLast, NoneConfirmed,
     KnownInv, Pending, NoRow
<1> QED
  BY <1>1, <1>2 DEF RestInv

\* Every step keeps RestInv.
LEMMA RestStep ==
    ASSUME IInv, RestInv, [Next]_vars
    PROVE  RestInv'
<1>1. StateOK /\ BudgetInv /\ LatestInv
  BY DEF IInv, RestInv
<1>2. /\ BudgetInv'
      /\ Intact' => Intact /\ ~Fail("db") /\ ~Fail("crash")
  BY <1>1, FaultSteps, FaultFrame
<1>3. LatestInv'
  BY <1>1, LatestStep
<1>4. ASSUME Intact'
      PROVE  SettledInv' /\ LedgerInv' /\ KnownInv'
  <2>1. ~Fail("db") /\ ~Fail("crash") /\ SettledInv /\ LedgerInv /\ KnownInv
    BY <1>2, <1>4 DEF RestInv
  <2> QED
    BY <1>1, <2>1, SettledStep, LedgerStep, KnownStep
<1> QED
  BY <1>2, <1>3, <1>4 DEF RestInv

\* RestInv holds always.
LEMMA RestHolds == Spec => [](IInv /\ RestInv)
<1>1. Init => IInv /\ RestInv
  BY IInvInit, RestInit
<1>2. IInv /\ RestInv /\ [Next]_vars => (IInv /\ RestInv)'
  BY IInvStep, RestStep
<1> QED
  BY <1>1, <1>2, PTL DEF Spec

\* With no handler in progress, no crash and no failed statement so far, the
\* version of the pending row is the only one marked "pending".
THEOREM AllSettled == Spec => []StatusSettled
<1>1. IInv /\ RestInv => StatusSettled
  BY DEF RestInv, SettledInv, StatusSettled
<1> QED
  BY <1>1, RestHolds, PTL

\* The newest version with one of the given statuses is the one above all
\* others that have one.
LEMMA NewestIs ==
    ASSUME StateOK, NEW S, NEW v \in DOMAIN versions, versions[v].status \in S,
           \A w \in DOMAIN versions : versions[w].status \in S => w <= v
    PROVE  Newest(S) = v /\ v # 0
<1> DEFINE found == {w \in DOMAIN versions : versions[w].status \in S}
<1>1. \A w \in DOMAIN versions : w \in Nat /\ w # 0
  BY DEF StateOK
<1>2. v \in found /\ \A w \in found : w <= v
  OBVIOUS
<1>3. \A u \in found : (\A w \in found : w <= u) => u = v
  BY <1>1, <1>2
<1>4. (CHOOSE u \in found : \A w \in found : w <= u) = v
  BY <1>2, <1>3
<1> QED
  BY <1>1, <1>2, <1>4 DEF Newest

\* IsLastConfirmed and NoneConfirmed say what LastConfirmed is.
LEMMA LastConfirmedIs ==
    ASSUME StateOK
    PROVE  /\ NoneConfirmed => LastConfirmed = 0
           /\ \A v \in DOMAIN versions :
                 IsLastConfirmed(v) => LastConfirmed = v /\ v # 0
<1>1. NoneConfirmed => LastConfirmed = 0
  BY DEF NoneConfirmed, LastConfirmed, Newest
<1>2. ASSUME NEW v \in DOMAIN versions, IsLastConfirmed(v)
      PROVE  LastConfirmed = v /\ v # 0
  BY <1>2, NewestIs DEF IsLastConfirmed, LastConfirmed
<1> QED
  BY <1>1, <1>2

\* With no handler in progress and nothing pending, no crash and no failed
\* statement so far, the ledger lists the tables of the last confirmed version.
THEOREM LedgerRight == Spec => []LedgerIsConfirmed
<1>1. IInv /\ RestInv => LedgerIsConfirmed
  <2> SUFFICES ASSUME IInv, RestInv, pc = "idle", Intact
               PROVE  ledger = IF LastConfirmed = 0 THEN {}
                               ELSE Owned(versions[LastConfirmed].config)
    BY DEF LedgerIsConfirmed
  <2>1. StateOK /\ LedgerOfLast
    BY DEF IInv, RestInv, LedgerInv
  <2> QED
    BY <2>1, LastConfirmedIs DEF LedgerOfLast
<1> QED
  BY <1>1, RestHolds, PTL

\* Without a crash or a failed statement before it, no step changes a table of
\* the kernel that no applied configuration contains.
THEOREM ForeignUntouched == Spec => NeverTouchesForeign
<1>1. IInv /\ RestInv /\ [Next]_vars =>
         [\A t \in Tables :
             Intact /\ kernel'[t] # kernel[t] =>
                \E v \in DOMAIN versions : t \in Owned(versions[v].config)]_vars
  <2> SUFFICES ASSUME IInv, RestInv, [Next]_vars, Intact, NEW t \in Tables,
                      kernel'[t] # kernel[t]
               PROVE  t \in Known
    BY DEF Known
  <2>1. /\ ledger \subseteq Known
        /\ Pending => DOMAIN row.prev \subseteq Known
        /\ kernel \in Configs
    BY DEF RestInv, KnownInv, IInv, StateOK
  <2>2. pc = "apply_load" => Owned(cand) \subseteq Known
    <3>1. pc = "apply_load" =>
             vid \in DOMAIN versions /\ versions[vid].config = cand
      BY DEF IInv, VersionInv, RestInv, LatestInv
    <3> QED
      BY <3>1 DEF Known, Owned
  <2>3. pc = "revert_load" => Pending
    BY DEF IInv, RowInv
  <2>4. \/ /\ pc = "apply_load"
           /\ kernel' = Loaded(kernel, cand, ledger \ Owned(cand))
        \/ /\ pc = "revert_load"
           /\ kernel' = Restored(kernel, row.prev)
    BY KernelWrites
  <2>5. CASE /\ pc = "apply_load"
             /\ kernel' = Loaded(kernel, cand, ledger \ Owned(cand))
    BY <2>1, <2>2, <2>5 DEF Loaded
  <2>6. CASE pc = "revert_load" /\ kernel' = Restored(kernel, row.prev)
    BY <2>1, <2>3, <2>6 DEF Restored
  <2> QED
    BY <2>4, <2>5, <2>6
<1> QED
  BY <1>1, RestHolds, PTL DEF Spec, NeverTouchesForeign

\* While nft and the database work, a load never fails and whoever gives up
\* applyMu with an apply pending has left somebody to revert it.
TimedInv ==
    Working =>
       /\ pc \notin {"fail_clear", "fail_status"}
       /\ pc = "idle" /\ Pending =>
             timer = row.version \/ row.version \in firing

\* Every step keeps TimedInv.
LEMMA TimedStep ==
    ASSUME IInv, BudgetInv, TimedInv, [Next]_vars
    PROVE  TimedInv'
<1> SUFFICES ASSUME Working' PROVE TimedInv'
  BY DEF TimedInv
<1>0. StateOK
  BY DEF IInv
<1>a. Working /\ ~Fail("nft") /\ ~Fail("kill") /\ ~Fail("db")
  BY <1>0, FaultSteps, FaultFrame
<1>b. /\ pc \notin {"fail_clear", "fail_status"}
      /\ pc = "idle" /\ row.version # 0 =>
            timer = row.version \/ row.version \in firing
  BY <1>a DEF TimedInv, Pending
<1>c. /\ pc \in {"apply_snapshot", "apply_record", "apply_arm"}
            => row.version = 0
      /\ pc \in {"confirm_baseline", "revert_status"} => row.version = 0
      /\ pc = "apply_load" => row.version = vid
  BY DEF IInv, RowInv, Pending
<1> SUFFICES /\ pc' \notin {"fail_clear", "fail_status"}
             /\ pc' = "idle" /\ row'.version # 0 =>
                   timer' = row'.version \/ row'.version \in firing'
  BY DEF TimedInv, Pending
<1> USE <1>a, <1>b, <1>c DEF Pending, NoRow, Goto, Return, store, locals, process
<1>1. CASE Edit
  BY <1>1 DEF Edit, EditTable, RenameTable
<1>2. CASE ApplyBegin \/ ApplySnapshot
  BY <1>2 DEF ApplyBegin, ApplySnapshot
<1>3. CASE ApplyAbandon \/ ApplyRecord
  BY <1>3 DEF ApplyAbandon, ApplyRecord
<1>4. CASE ApplyArm \/ ApplyArmFails
  BY <1>4 DEF ApplyArm, ApplyArmFails
<1>5. CASE ApplyLoad
  BY <1>5 DEF ApplyLoad
<1>6. CASE ApplyLoadFails
  BY <1>6 DEF ApplyLoadFails
<1>7. CASE ApplyFailClear \/ ApplyFailStatus
  BY <1>7 DEF ApplyFailClear, ApplyFailStatus
<1>8. CASE ConfirmBegin \/ RollbackBegin
  BY <1>8 DEF ConfirmBegin, RollbackBegin
<1>9. CASE Recover \/ RecoverReturns
  BY <1>9 DEF Recover, RecoverReturns
<1>10. CASE ConfirmClear \/ ConfirmStatus
  BY <1>10 DEF ConfirmClear, ConfirmStatus
<1>11. CASE ConfirmFails \/ ConfirmLedger
  BY <1>11 DEF ConfirmFails, ConfirmLedger
<1>12. CASE ConfirmBaseline
  BY <1>12 DEF ConfirmBaseline
<1>13. CASE TimerFires
  BY <1>13 DEF TimerFires
<1>14. CASE RevertLoad \/ RevertLoadFails
  BY <1>14 DEF RevertLoad, RevertLoadFails
<1>15. CASE RevertClear \/ RevertClearFails
  BY <1>15 DEF RevertClear, RevertClearFails
<1>16. CASE RevertStatus
  BY <1>16 DEF RevertStatus
<1>17. CASE Crash \/ Restart
  BY <1>17 DEF Crash, Restart
<1>18. CASE \E v \in firing : AutoRevert(v) \/ AutoRevertReturns(v)
  BY <1>18 DEF AutoRevert, AutoRevertReturns
<1>19. CASE UNCHANGED vars
  BY <1>19 DEF vars
<1> QED
  BY <1>1, <1>2, <1>3, <1>4, <1>5, <1>6, <1>7, <1>8, <1>9, <1>10, <1>11,
     <1>12, <1>13, <1>14, <1>15, <1>16, <1>17, <1>18, <1>19 DEF Next, Apply,
     Confirm, Revert

\* TimedInv holds always.
LEMMA TimedHolds == Spec => [](IInv /\ BudgetInv /\ TimedInv)
<1>1. Init => IInv /\ BudgetInv /\ TimedInv
  BY IInvInit, RestInit DEF Init, RestInv, TimedInv, Pending, NoRow
<1>2. IInv /\ BudgetInv /\ TimedInv /\ [Next]_vars
         => (IInv /\ BudgetInv /\ TimedInv)'
  <2> SUFFICES ASSUME IInv, BudgetInv, TimedInv, [Next]_vars
               PROVE  IInv' /\ BudgetInv' /\ TimedInv'
    OBVIOUS
  <2>1. StateOK
    BY DEF IInv
  <2>2. BudgetInv'
    BY <2>1, FaultSteps, FaultFrame
  <2> QED
    BY <2>2, IInvStep, TimedStep
<1> QED
  BY <1>1, <1>2, PTL DEF Spec

\* A pending apply that nobody works on has an armed timer or an autoRevert
\* that waits, as long as neither nft nor the database has failed; the process
\* may have crashed at any point.
THEOREM WindowCloses == Spec => []PendingHasTimer
<1>1. TimedInv => PendingHasTimer
  BY DEF TimedInv, PendingHasTimer
<1> QED
  BY <1>1, TimedHolds, PTL

-----------------------------------------------------------------------------
(* What the kernel runs                                                    *)

\* What the kernel runs of configuration c, and what it would run if the armed
\* apply were undone.
Runs(c)    == \A t \in Owned(c) : kernel[t] = c[t]
InForce(c) == \A t \in Owned(c) : Restored(kernel, row.prev)[t] = c[t]

\* The pending apply runs from its load to its revert.
RunsInv ==
    /\ Pending /\ pc \notin {"apply_load", "fail_clear", "revert_clear"} =>
          Runs(versions[Len(versions)].config)
    /\ pc = "confirm_status" => Runs(versions[Len(versions)].config)

\* The last confirmed one is what a revert comes back to, but for the statement
\* in which a confirm has given up the row and not yet said so.
InForceInv ==
    pc # "confirm_status" =>
       \A v \in DOMAIN versions :
          IsLastConfirmed(v) => InForce(versions[v].config)

\* Only a confirm changes the ruleset in force.
LEMMA GoodStays ==
    ASSUME SInv, [Next]_vars, ~Fail("kill"), ~ConfirmClear
    PROVE  Restored(kernel', row'.prev) = Restored(kernel, row.prev)
<1>1. [Safe!Next]_(Safe!vars)
  BY SafeStep
<1>2. ~Safe!Keep
  <2> SUFFICES ASSUME Safe!Keep PROVE FALSE
    OBVIOUS
  <2>1. pc = "confirm_clear" /\ ~Pending'
    BY DEF Safe!Keep
  <2>2. Pending
    BY <2>1 DEF SInv, IInv, RowInv
  <2>3. row' = row
    BY <2>1 DEF Next, Apply, Confirm, Revert, Edit, EditTable, RenameTable,
       AutoRevert, AutoRevertReturns, ApplyBegin, ApplySnapshot,
       ApplyAbandon, ApplyRecord, ApplyArm, ApplyArmFails, ApplyLoad,
       ApplyLoadFails, ApplyFailClear, ApplyFailStatus, ConfirmBegin,
       ConfirmStatus, ConfirmFails, ConfirmLedger, ConfirmBaseline,
       RollbackBegin, TimerFires, Recover, RecoverReturns, RevertLoad,
       RevertLoadFails, RevertClear, RevertClearFails, RevertStatus, Crash,
       Restart, store, vars, Goto
  <2> QED
    BY <2>1, <2>2, <2>3 DEF Pending
<1> QED
  BY <1>1, <1>2 DEF Safe!Next, Safe!Arm, Safe!Load, Safe!Ask, Safe!Forget,
     Safe!StandDown, Safe!vars

\* No step but the confirm's makes another version the last confirmed one.
LEMMA LastConfirmedStays ==
    ASSUME IInv, [Next]_vars, ~ConfirmStatus, NEW v \in DOMAIN versions',
           IsLastConfirmed(v)'
    PROVE  /\ v \in DOMAIN versions
           /\ IsLastConfirmed(v)
           /\ versions'[v].config = versions[v].config
<1>1. StateOK
  BY DEF IInv
<1>2. CASE ApplyRecord
  BY <1>1, <1>2, RecordAdds DEF IsLastConfirmed
<1>3. CASE ApplyFailStatus \/ RevertStatus
  <2>1. /\ vid \in DOMAIN versions /\ versions[vid].status # "confirmed"
        /\ \/ UNCHANGED versions
           \/ \E s \in Status \ {"confirmed"} : SetStatus(vid, s)
    BY <1>3 DEF IInv, VersionInv, ApplyFailStatus, RevertStatus, Status
  <2>2. CASE UNCHANGED versions
    BY <2>2 DEF IsLastConfirmed
  <2>3. ASSUME NEW s \in Status \ {"confirmed"}, SetStatus(vid, s)
        PROVE  /\ v \in DOMAIN versions
               /\ IsLastConfirmed(v)
               /\ versions'[v].config = versions[v].config
    BY <1>1, <2>1, <2>3, StatusChanges DEF IsLastConfirmed
  <2> QED
    BY <2>1, <2>2, <2>3
<1>4. CASE ~ApplyRecord /\ ~StatusWrite
  BY <1>4, VersionsStay DEF IsLastConfirmed
<1> QED
  BY <1>2, <1>3, <1>4 DEF StatusWrite

\* Some version is the last confirmed one from the first confirm on.
LEMMA LastExistsStep ==
    ASSUME IInv, LatestInv, LastExists, [Next]_vars
    PROVE  LastExists'
<1>0. StateOK
  BY DEF IInv
<1>1. CASE ConfirmStatus
  <2>1. /\ vid \in DOMAIN versions /\ vid = Len(versions)
        /\ SetStatus(vid, "confirmed")
    BY <1>1 DEF IInv, VersionInv, LatestInv, ConfirmStatus, Goto
  <2>2. /\ DOMAIN versions' = DOMAIN versions
        /\ versions'[vid].status = "confirmed"
    BY <1>0, <2>1, StatusChanges DEF Status
  <2>3. \A w \in DOMAIN versions : w <= vid
    BY <1>0, <2>1 DEF StateOK
  <2>4. vid \in DOMAIN versions'
        /\ \A w \in DOMAIN versions' : versions'[w].status = "confirmed" => w <= vid
    BY <2>1, <2>2, <2>3
  <2> QED
    BY <2>2, <2>4 DEF LastExists, IsLastConfirmed
<1>2. CASE ApplyRecord
  <2>1. /\ DOMAIN versions \subseteq DOMAIN versions'
        /\ \A v \in DOMAIN versions' :
              v \in DOMAIN versions \/ v = Len(versions')
        /\ \A v \in DOMAIN versions : versions'[v] = versions[v]
        /\ versions'[Len(versions')].status # "confirmed"
    BY <1>0, <1>2, RecordAdds
  <2> QED
    BY <2>1 DEF LastExists, IsLastConfirmed, NoneConfirmed
<1>3. CASE ApplyFailStatus \/ RevertStatus
  <2>1. /\ vid \in DOMAIN versions /\ versions[vid].status # "confirmed"
        /\ \/ UNCHANGED versions
           \/ \E s \in Status \ {"confirmed"} : SetStatus(vid, s)
    BY <1>3 DEF IInv, VersionInv, ApplyFailStatus, RevertStatus, Status
  <2>2. CASE UNCHANGED versions
    BY <2>2 DEF LastExists, IsLastConfirmed, NoneConfirmed
  <2>3. ASSUME NEW s \in Status \ {"confirmed"}, SetStatus(vid, s)
        PROVE  LastExists'
    BY <1>0, <2>1, <2>3, StatusChanges
       DEF LastExists, IsLastConfirmed, NoneConfirmed
  <2> QED
    BY <2>1, <2>2, <2>3
<1>4. CASE ~ApplyRecord /\ ~StatusWrite
  BY <1>4, VersionsStay DEF LastExists, IsLastConfirmed, NoneConfirmed
<1> QED
  BY <1>1, <1>2, <1>3, <1>4 DEF StatusWrite

\* Every step without a failure but a refusal of nft keeps RunsInv.
LEMMA RunsStep ==
    ASSUME SInv, LatestInv, SettledInv, RunsInv, [Next]_vars, ~Fail("db"),
           ~Fail("crash"), ~Fail("kill")
    PROVE  RunsInv'
<1>a. /\ pc \in {"apply_snapshot", "apply_record", "apply_arm"}
            => row.version = 0
      /\ pc \in {"confirm_ledger", "confirm_baseline", "revert_status"}
            => row.version = 0
  BY DEF SInv, IInv, RowInv, Pending
<1>b. pc = "fail_status" => row.version = 0
  BY DEF SettledInv, Pending
<1>c. /\ pc \in {"confirm_clear", "revert_load"} => row.version # 0
      /\ pc \notin {"down", "boot"}
      /\ pc = "confirm_status" => row.version = 0
  BY DEF SInv, IInv, RowInv, SettledInv, Pending
<1>d. pc = "apply_load" => vid = Len(versions) /\ versions[vid].config = cand
  BY DEF LatestInv
<1>f. UNCHANGED <<kernel, versions>> =>
         (Runs(versions[Len(versions)].config)
             <=> Runs(versions[Len(versions)].config)')
  BY DEF Runs
<1> USE <1>a, <1>b, <1>c, <1>f DEF RunsInv, Pending, NoRow, Goto, Return,
        store, locals, process
<1>1. CASE Edit
  BY <1>1 DEF Edit, EditTable, RenameTable
<1>2. CASE ApplyBegin \/ ApplySnapshot
  BY <1>2 DEF ApplyBegin, ApplySnapshot
<1>3. CASE ApplyAbandon
  BY <1>3 DEF ApplyAbandon
<1>4. CASE ApplyRecord
  BY <1>4 DEF ApplyRecord
<1>5. CASE ApplyArm
  BY <1>5 DEF ApplyArm
<1>6. CASE ApplyArmFails
  BY <1>6 DEF ApplyArmFails
<1>7. CASE ApplyLoad
  <2>1. /\ vid = Len(versions) /\ versions[vid].config = cand
        /\ kernel' = Loaded(kernel, cand, ledger \ Owned(cand))
        /\ versions' = versions
    BY <1>7, <1>d DEF ApplyLoad
  <2>2. \A t \in Owned(cand) :
           Loaded(kernel, cand, ledger \ Owned(cand))[t] = cand[t]
    BY DEF Loaded, Owned
  <2>3. Runs(versions[Len(versions)].config)'
    BY <2>1, <2>2 DEF Runs
  <2> QED
    BY <2>3 DEF RunsInv
<1>8. CASE ApplyLoadFails
  BY <1>8 DEF ApplyLoadFails
<1>9. CASE ApplyFailClear
  BY <1>9 DEF ApplyFailClear
<1>10. CASE ApplyFailStatus
  BY <1>10 DEF ApplyFailStatus
<1>11. CASE ConfirmBegin \/ RollbackBegin
  BY <1>11 DEF ConfirmBegin, RollbackBegin
<1>12. CASE Recover \/ RecoverReturns
  BY <1>12 DEF Recover, RecoverReturns
<1>13. CASE ConfirmClear
  BY <1>13 DEF ConfirmClear
<1>14. CASE ConfirmStatus
  BY <1>14 DEF ConfirmStatus
<1>15. CASE ConfirmFails \/ ConfirmLedger
  BY <1>15 DEF ConfirmFails, ConfirmLedger
<1>16. CASE ConfirmBaseline
  BY <1>16 DEF ConfirmBaseline
<1>17. CASE TimerFires \/ RevertLoad
  BY <1>17 DEF TimerFires, RevertLoad
<1>18. CASE RevertLoadFails
  BY <1>18 DEF RevertLoadFails
<1>19. CASE RevertClear
  BY <1>19 DEF RevertClear
<1>20. CASE RevertClearFails
  BY <1>20 DEF RevertClearFails
<1>21. CASE RevertStatus
  BY <1>21 DEF RevertStatus
<1>22. CASE Crash \/ Restart
  BY <1>22 DEF Crash, Restart
<1>23. CASE \E v \in firing : AutoRevert(v) \/ AutoRevertReturns(v)
  BY <1>23 DEF AutoRevert, AutoRevertReturns
<1>24. CASE UNCHANGED vars
  BY <1>24 DEF vars
<1> QED
  BY <1>1, <1>2, <1>3, <1>4, <1>5, <1>6, <1>7, <1>8, <1>9, <1>10, <1>11,
     <1>12, <1>13, <1>14, <1>15, <1>16, <1>17, <1>18, <1>19, <1>20, <1>21,
     <1>22, <1>23, <1>24 DEF Next, Apply, Confirm, Revert

\* Every step without a failure but a refusal of nft keeps InForceInv.
LEMMA InForceStep ==
    ASSUME SInv, LatestInv, RunsInv, InForceInv, [Next]_vars, ~Fail("db"),
           ~Fail("crash"), ~Fail("kill")
    PROVE  InForceInv'
<1> SUFFICES ASSUME pc' # "confirm_status", NEW v \in DOMAIN versions',
                    IsLastConfirmed(v)'
             PROVE  InForce(versions[v].config)'
  BY DEF InForceInv
<1>0. IInv /\ StateOK
  BY DEF SInv, IInv
<1>1. CASE ConfirmStatus
  <2>1. /\ vid \in DOMAIN versions /\ vid = Len(versions)
        /\ pc = "confirm_status" /\ kernel' = kernel /\ row' = row
        /\ SetStatus(vid, "confirmed")
    BY <1>0, <1>1 DEF VersionInv, LatestInv, ConfirmStatus, Goto, IInv
  <2>2. /\ DOMAIN versions' = DOMAIN versions
        /\ \A w \in DOMAIN versions : versions'[w].config = versions[w].config
        /\ versions'[vid].status = "confirmed"
    BY <1>0, <2>1, StatusChanges DEF Status
  <2>3. v = vid
    <3>1. vid <= v
      BY <2>1, <2>2 DEF IsLastConfirmed
    <3>2. v \in 1 .. Len(versions) /\ Len(versions) \in Nat
      BY <1>0, <2>2 DEF StateOK
    <3> QED
      BY <2>1, <3>1, <3>2
  <2>4. Runs(versions[vid].config)
    BY <2>1 DEF RunsInv
  <2>5. Restored(kernel, row.prev) = kernel
    <3>1. row = NoRow
      BY <1>0, <2>1 DEF IInv, RowInv
    <3> QED
      BY <1>0, <3>1, RestoreNothing DEF NoRow, StateOK
  <2>6. versions'[v].config = versions[vid].config
    BY <2>1, <2>2, <2>3
  <2>7. Restored(kernel', row'.prev) = kernel
    BY <2>1, <2>5
  <2> QED
    BY <2>4, <2>6, <2>7 DEF InForce, Runs
<1>2. CASE ~ConfirmStatus
  <2>1. pc # "confirm_status" /\ ~ConfirmClear
    BY <1>2 DEF Next, Apply, Confirm, Revert, Edit, EditTable, RenameTable,
       AutoRevert, AutoRevertReturns, ApplyBegin, ApplySnapshot,
       ApplyAbandon, ApplyRecord, ApplyArm, ApplyArmFails, ApplyLoad,
       ApplyLoadFails, ApplyFailClear, ApplyFailStatus, ConfirmBegin,
       ConfirmClear, ConfirmFails, ConfirmLedger, ConfirmBaseline,
       RollbackBegin, TimerFires, Recover, RecoverReturns, RevertLoad,
       RevertLoadFails, RevertClear, RevertClearFails, RevertStatus, Crash,
       Restart, store, vars, process, Goto
  <2>2. /\ v \in DOMAIN versions /\ IsLastConfirmed(v)
        /\ versions'[v].config = versions[v].config
    BY <1>0, <1>2, LastConfirmedStays
  <2>3. InForce(versions[v].config)
    BY <2>1, <2>2 DEF InForceInv
  <2>4. Restored(kernel', row'.prev) = Restored(kernel, row.prev)
    BY <2>1, GoodStays
  <2> QED
    BY <2>2, <2>3, <2>4 DEF InForce
<1> QED
  BY <1>1, <1>2

LoadedInv == Intact => RunsInv /\ InForceInv

\* Together they hold always, if nft is never killed after its commit.
LEMMA LoadedHolds ==
    Faults["kill"] = 0 /\ Spec => [](SInv /\ NoKill /\ RestInv /\ LoadedInv)
<1>1. Faults["kill"] = 0 /\ Init => SInv /\ NoKill /\ RestInv /\ LoadedInv
  <2> SUFFICES ASSUME Faults["kill"] = 0, Init
               PROVE  SInv /\ NoKill /\ RestInv /\ LoadedInv
    OBVIOUS
  <2>1. SInv /\ NoKill
    BY IInvInit DEF Init, SInv, SnapshotInv, NoKill
  <2>2. RunsInv /\ InForceInv
    BY DEF Init, RunsInv, InForceInv, Pending, NoRow
  <2> QED
    BY <2>1, <2>2, RestInit DEF LoadedInv
<1>2. SInv /\ NoKill /\ RestInv /\ LoadedInv /\ [Next]_vars
         => (SInv /\ NoKill /\ RestInv /\ LoadedInv)'
  <2> SUFFICES ASSUME SInv, NoKill, RestInv, LoadedInv, [Next]_vars
               PROVE  SInv' /\ NoKill' /\ RestInv' /\ LoadedInv'
    OBVIOUS
  <2>1. IInv /\ StateOK /\ BudgetInv
    BY DEF SInv, IInv, RestInv
  <2>2. Intact' => Intact /\ ~Fail("db") /\ ~Fail("crash")
    BY <2>1, FaultSteps, FaultFrame
  <2>a. NoKill' /\ ~Fail("kill")
    BY <2>1, NoKillStep
  <2>3. Intact' => RunsInv' /\ InForceInv'
    BY <2>2, <2>a, RunsStep, InForceStep DEF RestInv, LoadedInv
  <2> QED
    BY <2>1, <2>3, <2>a, SInvStep, RestStep DEF LoadedInv
<1> QED
  BY <1>1, <1>2, PTL DEF Spec

\* With nothing pending and no handler at work, LatestAppliedConfig answers with
\* the version confirmed last, if there is one.
LEMMA LatestIsConfirmed ==
    ASSUME StateOK, SettledInv, LastExists, ~Pending, pc = "idle",
           LatestApplied # 0
    PROVE  LatestApplied \in DOMAIN versions /\ IsLastConfirmed(LatestApplied)
<1>1. \A v \in DOMAIN versions :
         versions[v].status \in {"pending", "confirmed"}
            <=> versions[v].status = "confirmed"
  <2>1. \A v \in DOMAIN versions : v # 0
    BY DEF StateOK
  <2> QED
    BY <2>1 DEF Pending, SettledInv
<1>2. ~NoneConfirmed
  BY <1>1 DEF NoneConfirmed, LatestApplied, Newest
<1>3. PICK v \in DOMAIN versions : IsLastConfirmed(v)
  BY <1>2 DEF LastExists
<1>4. LatestApplied = v
  BY <1>1, <1>3, NewestIs DEF LatestApplied, IsLastConfirmed
<1> QED
  BY <1>3, <1>4

\* What LatestAppliedConfig answers with runs.
LEMMA LatestFound ==
    ASSUME IInv, LatestInv, SettledInv, LastExists, RunsInv, InForceInv,
           pc = "idle", LatestApplied # 0
    PROVE  Runs(versions[LatestApplied].config)
<1>1. /\ StateOK
      /\ Pending => row.version = Len(versions)
      /\ ~Pending => row = NoRow
  BY DEF IInv, RowInv, LatestInv
<1>2. Pending => row.version \in DOMAIN versions
  BY <1>1 DEF IInv, RowInv, StateOK, Pending
<1>3. CASE Pending
  <2>1. \A w \in DOMAIN versions : w <= row.version
    BY <1>1, <1>3 DEF StateOK
  <2>2. versions[row.version].status \in {"pending", "confirmed"}
    BY <1>2, <1>3 DEF SettledInv
  <2>3. LatestApplied = row.version
    BY <1>1, <1>2, <1>3, <2>1, <2>2, NewestIs DEF LatestApplied
  <2> QED
    BY <1>1, <1>3, <2>3 DEF RunsInv
<1>4. CASE ~Pending
  <2>1. LatestApplied \in DOMAIN versions /\ IsLastConfirmed(LatestApplied)
    BY <1>1, <1>4, LatestIsConfirmed
  <2>2. Restored(kernel, row.prev) = kernel
    BY <1>1, <1>4, RestoreNothing DEF NoRow, StateOK
  <2>3. InForce(versions[LatestApplied].config)
    BY <2>1 DEF InForceInv
  <2> QED
    BY <2>2, <2>3 DEF InForce, Runs
<1> QED
  BY <1>3, <1>4

\* With no handler in progress, no crash and no failed statement so far, the
\* kernel runs every table of the version LatestAppliedConfig answers with, as
\* long as an nft run that reports an error has changed nothing.
THEOREM LatestRuns == Faults["kill"] = 0 => (Spec => []LatestAppliedLoaded)
<1>1. SInv /\ RestInv /\ LoadedInv => LatestAppliedLoaded
  <2> SUFFICES ASSUME SInv, RestInv, LoadedInv, pc = "idle", Intact,
                      LatestApplied # 0
               PROVE  Runs(versions[LatestApplied].config)
    BY DEF LatestAppliedLoaded, Runs
  <2>1. /\ IInv /\ LatestInv /\ SettledInv /\ LedgerOfLast
        /\ RunsInv /\ InForceInv
    BY DEF SInv, RestInv, LedgerInv, LoadedInv
  <2>2. LastExists
    BY <2>1 DEF LedgerOfLast, LastExists
  <2> QED
    BY <2>1, <2>2, LatestFound
<1> QED
  BY <1>1, LoadedHolds, PTL
=============================================================================
