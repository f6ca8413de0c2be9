----------------------------- MODULE BansProofs -----------------------------
(***************************************************************************)
(* What is proved of Bans, for every set of tables, contents and sources,  *)
(* every ban time, every bound and every budget of failures.  The row and  *)
(* the order of the handlers' statements come from ApplyPipelineProofs.    *)
(***************************************************************************)
EXTENDS Bans, ApplyPipelineProofs

\* Where something is kept or listed: what was read for an apply is there from
\* the read to the load, a listing as long as the apply can be reverted.
KeepInv ==
    /\ kept # {} => pc \in {"apply_record", "apply_arm", "apply_load"}
    /\ pc \in {"apply_arm", "apply_load"} => kept # {}
    /\ pc = "idle" /\ ~Pending => shot = NoBans
    /\ faults["nft"] <= Faults["nft"]

\* Whatever waits to be put into the sets, be it read by the apply in progress
\* or listed for its revert, bans no lifted source.
LiftInv ==
    /\ lifted \cap Banned(bans) = {}
    /\ \A f \in kept : lifted \cap Banned(f) = {}
    /\ lifted \cap Banned(shot) = {}

\* A steady ban is in force, in what was read for the sets the candidate
\* declares, and in the listing of every table that is listed.
SteadyInv ==
    /\ steady \subseteq Banned(bans)
    /\ faults["nft"] = Faults["nft"] =>
          \A f \in kept : \A p \in steady :
              cand[p[1]] \in Guards => p \in Banned(f)
    /\ pc \in {"apply_record", "apply_arm"} =>
          \A p \in steady : p[1] \in DOMAIN snaps => p \in Banned(shot)
    /\ Pending =>
          \A p \in steady : p[1] \in DOMAIN row.prev => p \in Banned(shot)

SetsInv ==
    /\ bans \in [Tables -> Elements]
    /\ kept \in {{}} \cup {{f} : f \in [Tables -> Elements]}
    /\ shot \in [Tables -> Elements]
    /\ starts \in 0..MaxBans
    /\ lifted \subseteq Tables \X Sources

\* Elements only where the table declares the set, in the kernel and in
\* whatever waits to be put there.
GuardInv ==
    /\ \A p \in Banned(bans) : kernel[p[1]] \in Guards
    /\ \A f \in kept : \A p \in Banned(f) : cand[p[1]] \in Guards
    /\ pc \in {"apply_record", "apply_arm"} =>
          \A p \in Banned(shot) :
              p[1] \in DOMAIN snaps /\ snaps[p[1]] \in Guards
    /\ Pending =>
          \A p \in Banned(shot) :
              p[1] \in DOMAIN row.prev /\ row.prev[p[1]] \in Guards

BanInv == IInv /\ SetsInv /\ KeepInv /\ LiftInv /\ SteadyInv /\ GuardInv

-----------------------------------------------------------------------------
(* Operators                                                               *)

LEMMA NoneBanned == Banned(NoBans) = {}
BY DEF Banned, NoBans, NoElements

\* Adding an element again neither bans anybody anew nor forgets anybody.
LEMMA ReaddedKeeps == \A left : Readded(left) = 0 <=> left = 0
BY BanTimeAssumption DEF Readded, Forever

LEMMA WholeSeconds ==
    ASSUME NEW left \in Nat
    PROVE  left \div 2 \in Nat /\ 2 * (left \div 2) <= left
OBVIOUS

LEMMA ReaddedType ==
    ASSUME NEW left \in 0..Forever
    PROVE  Readded(left) \in 0..Forever
BY WholeSeconds, BanTimeAssumption DEF Readded, Forever

LEMMA LessLeft ==
    ASSUME NEW left \in 0..Forever, left # 0
    PROVE  left - 1 \in 0..Forever
BY BanTimeAssumption DEF Forever

LEMMA NewBan == {0, BanTime} \subseteq 0..Forever
BY BanTimeAssumption DEF Forever

LEMMA NoBansType == NoElements \in Elements /\ NoBans \in [Tables -> Elements]
BY BanTimeAssumption DEF NoBans, NoElements, Elements, Forever

LEMMA PreservedType ==
    ASSUME bans \in [Tables -> Elements]
    PROVE  Preserved \in [Tables -> Elements]
<1>1. ASSUME NEW t \in Tables
      PROVE  [s \in Sources |-> Readded(bans[t][s])] \in Elements
  BY ReaddedType DEF Elements
<1> QED
  BY <1>1, NoBansType DEF Preserved

LEMMA PreservedBanned ==
    /\ Banned(Preserved) \subseteq Banned(bans)
    /\ \A p \in Banned(bans) :
          cand[p[1]] \in Guards => p \in Banned(Preserved)
    /\ \A p \in Banned(Preserved) : cand[p[1]] \in Guards
BY ReaddedKeeps DEF Banned, Preserved, NoElements

LEMMA LoadedBanned ==
    ASSUME kept # {}
    PROVE  \E f \in kept :
              /\ Banned(LoadedBans) \subseteq Banned(f) \cup Banned(bans)
              /\ \A p \in Tables \X Sources :
                    p \in Banned(LoadedBans)
                       <=> p \in IF p[1] \in Owned(cand) \cup ledger
                                 THEN Banned(f) ELSE Banned(bans)
<1>1. PICK f \in kept : (CHOOSE g \in kept : TRUE) = f
  OBVIOUS
<1> QED
  BY <1>1 DEF Banned, LoadedBans

LEMMA RestoredBanned ==
    /\ Banned(RestoredBans) \subseteq Banned(shot) \cup Banned(bans)
    /\ \A p \in Tables \X Sources :
          p \in Banned(RestoredBans)
             <=> p \in IF p[1] \in DOMAIN row.prev THEN Banned(shot)
                                                   ELSE Banned(bans)
BY DEF Banned, RestoredBans

\* The budget of nft failures only ever shrinks.
LEMMA FailShrinks ==
    ASSUME faults \in [FaultKinds -> Nat], NEW kind \in FaultKinds, Fail(kind)
    PROVE  /\ faults'["nft"] \in Nat
           /\ faults'["nft"] <= faults["nft"]
           /\ kind # "nft" => faults'["nft"] = faults["nft"]
           /\ kind = "nft" => faults'["nft"] < faults["nft"]
BY DEF Fail, FaultKinds

-----------------------------------------------------------------------------
(* The steps of the pipeline                                               *)

RestAction == \/ ApplyRest \/ Confirm \/ RevertRest \/ AutoReverts
              \/ Edit \/ Crash \/ Restart

\* Every step but the read of the live sets is a step of ApplyPipeline.
LEMMA PipelineStep ==
    ASSUME [BanNext]_allVars
    PROVE  [Next]_vars \/ ReadBans
<1>1. CASE Handlers
  BY <1>1 DEF Handlers, SnapshotStep, RecordStep, LoadStep, RevertStep, Rest,
     ApplyRest, RevertRest, AutoReverts, Next, Apply, Confirm, Revert
<1>2. CASE Rest(Edit) \/ Rest(Crash) \/ Rest(Restart)
  BY <1>2 DEF Rest, Next
<1>3. CASE HalfSecond
  BY <1>3 DEF HalfSecond
<1>4. CASE \E t \in Tables, s \in Sources : Ban(t, s) \/ Unban(t, s)
  BY <1>4 DEF Ban, Unban
<1>5. CASE UNCHANGED allVars
  BY <1>5 DEF allVars
<1> QED
  BY <1>1, <1>2, <1>3, <1>4, <1>5 DEF BanNext

\* The inductive invariant of the pipeline holds next to the bans.
LEMMA PipelineInv ==
    ASSUME IInv, [BanNext]_allVars
    PROVE  IInv'
<1>1. CASE [Next]_vars
  BY <1>1, IInvStep
<1>2. CASE ReadBans
  <2>1. faults' \in [FaultKinds -> Nat]
    BY <1>2, FailType DEF ReadBans, IInv, StateOK, FaultKinds
  <2>2. UNCHANGED <<store, kernel, process>>
    BY <1>2 DEF ReadBans
  <2> QED
    BY <2>1, <2>2 DEF store, process, IInv, StateOK, RowInv, VersionInv,
       TimerInv, Pending, NoRow
<1> QED
  BY <1>1, <1>2, PipelineStep

\* What the steps that leave the sets alone do to the row and to the locals of
\* an apply.
LEMMA RestFrame ==
    ASSUME IInv, RestAction
    PROVE  /\ pc' \in {"apply_record", "apply_arm", "apply_load"} =>
                 /\ cand' = cand
                 /\ pc \in {"apply_record", "apply_arm", "apply_load"}
                 /\ pc' # "apply_record" => pc # "apply_record"
           /\ pc' \in {"apply_record", "apply_arm"} =>
                 snaps' = snaps /\ pc \in {"apply_record", "apply_arm"}
           /\ Pending' => \/ row' = row
                          \/ row'.prev = snaps /\ pc = "apply_arm"
           /\ kernel' = kernel
<1> USE DEF Goto, Return, store, locals, process, Pending, NoRow
<1>1. CASE ApplyRest
  BY <1>1 DEF ApplyRest, ApplyBegin, ApplyAbandon, ApplyArm, ApplyArmFails,
     ApplyFailClear, ApplyFailStatus
<1>2. CASE Confirm
  BY <1>2 DEF Confirm, ConfirmBegin, ConfirmClear, ConfirmStatus, ConfirmFails,
     ConfirmLedger, ConfirmBaseline
<1>3. CASE RevertRest
  BY <1>3 DEF RevertRest, RollbackBegin, TimerFires, Recover, RecoverReturns,
     RevertClear, RevertClearFails, RevertStatus
<1>4. CASE AutoReverts
  BY <1>4 DEF AutoReverts, AutoRevert, AutoRevertReturns
<1>5. CASE Edit
  BY <1>5 DEF Edit, EditTable, RenameTable
<1>6. CASE Crash
  BY <1>6 DEF Crash
<1>7. CASE Restart
  BY <1>7 DEF Restart
<1> QED
  BY <1>1, <1>2, <1>3, <1>4, <1>5, <1>6, <1>7 DEF RestAction

\* The read of the live sets fails like any other nft run.
LEMMA BanFaults ==
    ASSUME [BanNext]_allVars
    PROVE  UNCHANGED faults \/ \E kind \in FaultKinds : Fail(kind)
<1>1. ReadBans => UNCHANGED faults \/ Fail("nft")
  BY DEF ReadBans
<1>2. "nft" \in FaultKinds
  BY DEF FaultKinds
<1> QED
  BY <1>1, <1>2, PipelineStep, FaultSteps

\* No step gives back an nft failure.
LEMMA BudgetStep ==
    ASSUME IInv, [BanNext]_allVars
    PROVE  faults'["nft"] \in Nat /\ faults'["nft"] <= faults["nft"]
<1>0. faults["nft"] \in Nat /\ faults \in [FaultKinds -> Nat]
  BY DEF IInv, StateOK, FaultKinds
<1> QED
  BY <1>0, BanFaults, FailShrinks

\* A script changes the sets exactly when it changes the tables: the handlers
\* cannot tell, but nft commits both or neither.
LEMMA LoadEffect ==
    ASSUME IInv, LoadStep
    PROVE  \/ UNCHANGED <<bans, kernel>>
           \/ /\ bans' = LoadedBans
              /\ kernel' = Loaded(kernel, cand, ledger \ Owned(cand))
<1>1. faults \in [FaultKinds -> Nat] /\ faults["nft"] \in Nat
  BY DEF IInv, StateOK, FaultKinds
<1>2. CASE ApplyLoad
  BY <1>2 DEF LoadStep, ApplyLoad, Committed
<1>3. CASE ApplyLoadFails
  <2>1. CASE Fail("nft") /\ UNCHANGED kernel
    BY <1>1, <2>1, FailShrinks DEF LoadStep, Committed, FaultKinds
  <2>2. CASE /\ Fail("kill")
             /\ kernel' = Loaded(kernel, cand, ledger \ Owned(cand))
    BY <1>1, <2>2, FailShrinks DEF LoadStep, Committed, FaultKinds
  <2> QED
    BY <1>3, <2>1, <2>2 DEF ApplyLoadFails
<1> QED
  BY <1>2, <1>3 DEF LoadStep

LEMMA RevertEffect ==
    ASSUME IInv, RevertStep
    PROVE  \/ UNCHANGED <<bans, kernel>>
           \/ bans' = RestoredBans /\ kernel' = Restored(kernel, row.prev)
<1>1. faults \in [FaultKinds -> Nat] /\ faults["nft"] \in Nat
  BY DEF IInv, StateOK, FaultKinds
<1>2. CASE RevertLoad
  BY <1>2 DEF RevertStep, RevertLoad, Committed
<1>3. CASE RevertLoadFails
  <2>1. CASE Fail("nft") /\ UNCHANGED kernel
    BY <1>1, <2>1, FailShrinks DEF RevertStep, Committed, FaultKinds
  <2>2. CASE Fail("kill") /\ kernel' = Restored(kernel, row.prev)
    BY <1>1, <2>2, FailShrinks DEF RevertStep, Committed, FaultKinds
  <2> QED
    BY <1>3, <2>1, <2>2 DEF RevertLoadFails
<1> QED
  BY <1>2, <1>3 DEF RevertStep

-----------------------------------------------------------------------------
(* The invariant                                                           *)

LEMMA BanInvInit == BanInit => BanInv
<1> SUFFICES ASSUME BanInit PROVE BanInv
  OBVIOUS
<1>1. IInv
  BY IInvInit DEF BanInit
<1>2. pc = "idle" /\ ~Pending
  BY DEF BanInit, Init, Pending, NoRow
<1>3. faults["nft"] <= Faults["nft"]
  BY FaultsAssumption DEF BanInit, Init, FaultKinds
<1> QED
  BY <1>1, <1>2, <1>3, NoneBanned, NoBansType, MaxBansAssumption
     DEF BanInit, BanInv, SetsInv, KeepInv, LiftInv, SteadyInv, GuardInv

\* The steps of BanNext, with those that leave the sets alone taken together.
LEMMA BanSteps ==
    ASSUME BanNext
    PROVE  \/ SnapshotStep \/ ReadBans \/ RecordStep \/ LoadStep \/ RevertStep
           \/ RestAction /\ Rest(TRUE)
           \/ HalfSecond
           \/ \E t \in Tables, s \in Sources : Ban(t, s)
           \/ \E t \in Tables, s \in Sources : Unban(t, s)
BY DEF BanNext, Handlers, Rest, RestAction

LEMMA KeepStep ==
    ASSUME BanInv, [BanNext]_allVars
    PROVE  KeepInv'
<1> USE DEF BanInv, KeepInv
<1>1. IInv /\ RowInv
  BY DEF IInv
<1>2. (faults["nft"] <= Faults["nft"])'
  <2>1. Faults["nft"] \in Nat /\ faults["nft"] \in Nat
    BY <1>1, FaultsAssumption DEF IInv, StateOK, FaultKinds
  <2> QED
    BY <2>1, BudgetStep
<1> SUFFICES /\ kept' # {} => pc' \in {"apply_record", "apply_arm", "apply_load"}
             /\ pc' \in {"apply_arm", "apply_load"} => kept' # {}
             /\ pc' = "idle" /\ ~Pending' => shot' = NoBans
  BY <1>2
<1> USE DEF Goto, Return, store, locals, process, vars, banVars, RowInv,
        HandlerKeeps, Listed, Pending
<1>3. CASE SnapshotStep
  BY <1>1, <1>3 DEF SnapshotStep, ApplySnapshot
<1>4. CASE ReadBans
  BY <1>4 DEF ReadBans
<1>5. CASE RecordStep
  BY <1>5 DEF RecordStep, ApplyRecord
<1>6. CASE LoadStep
  BY <1>1, <1>6 DEF LoadStep, ApplyLoad, ApplyLoadFails
<1>7. CASE RevertStep
  BY <1>1, <1>7 DEF RevertStep, RevertLoad, RevertLoadFails
<1>8. CASE RestAction /\ Rest(TRUE)
  BY <1>1, <1>8, RestFrame DEF Rest
<1>9. CASE HalfSecond
  BY <1>9 DEF HalfSecond
<1>10. CASE \E t \in Tables, s \in Sources : Ban(t, s) \/ Unban(t, s)
  BY <1>10 DEF Ban, Unban
<1>11. CASE UNCHANGED allVars
  BY <1>11 DEF allVars
<1> QED
  BY <1>3, <1>4, <1>5, <1>6, <1>7, <1>8, <1>9, <1>10, <1>11, BanSteps

LEMMA LiftStep ==
    ASSUME BanInv, [BanNext]_allVars
    PROVE  LiftInv'
<1> USE DEF BanInv, LiftInv
<1>1. CASE SnapshotStep
  <2>1. Banned(shot') \subseteq Banned(bans)
    BY <1>1 DEF SnapshotStep, Banned, NoElements
  <2> QED
    BY <1>1, <2>1 DEF SnapshotStep, Banned
<1>2. CASE ReadBans
  BY <1>2, PreservedBanned, NoneBanned DEF ReadBans, Banned
<1>3. CASE RecordStep
  BY <1>3 DEF RecordStep, banVars, Banned
<1>4. CASE LoadStep
  <2>1. kept # {}
    BY <1>4 DEF LoadStep, ApplyLoad, ApplyLoadFails, Goto, KeepInv
  <2>2. lifted \cap Banned(LoadedBans) = {}
    BY <2>1, LoadedBanned
  <2>3. kept' = {}
    BY <1>4 DEF LoadStep, ApplyLoad, ApplyLoadFails, Goto, Return, HandlerKeeps
  <2> QED
    BY <1>4, <2>2, <2>3 DEF LoadStep, Banned
<1>5. CASE RevertStep
  BY <1>5, RestoredBanned DEF RevertStep, Banned
<1>6. CASE RestAction /\ Rest(TRUE)
  BY <1>6, NoneBanned DEF Rest, HandlerKeeps, Banned
<1>7. CASE HalfSecond
  <2>1. Banned(bans') \subseteq Banned(bans)
    BY <1>7 DEF HalfSecond, Banned
  <2> QED
    BY <1>7, <2>1 DEF HalfSecond, Banned
<1>8. ASSUME NEW t \in Tables, NEW s \in Sources, Ban(t, s)
      PROVE  LiftInv'
  <2>1. Banned(bans') \subseteq Banned(bans) \cup {<<t, s>>}
    BY <1>8 DEF Ban, Banned
  <2> QED
    BY <1>8, <2>1 DEF Ban, Banned
<1>9. ASSUME NEW t \in Tables, NEW s \in Sources, Unban(t, s)
      PROVE  LiftInv'
  <2>1. Banned(bans') \subseteq Banned(bans) \ {<<t, s>>}
    BY <1>9 DEF Unban, Banned, SetsInv, Elements
  <2>2. CASE pc = "idle" /\ ~Pending
    BY <1>9, <2>1, <2>2, NoneBanned DEF Unban, KeepInv, Banned
  <2>3. CASE ~(pc = "idle" /\ ~Pending)
    BY <1>9, <2>1, <2>3 DEF Unban, Banned
  <2> QED
    BY <2>2, <2>3
<1>10. CASE UNCHANGED allVars
  BY <1>10 DEF allVars, banVars, Banned
<1> QED
  BY <1>1, <1>2, <1>3, <1>4, <1>5, <1>6, <1>7, <1>8, <1>9, <1>10, BanSteps

LEMMA SetsStep ==
    ASSUME BanInv, [BanNext]_allVars
    PROVE  SetsInv'
<1> USE NoBansType DEF BanInv, SetsInv
<1>1. CASE SnapshotStep
  BY <1>1 DEF SnapshotStep
<1>2. CASE ReadBans
  BY <1>2, PreservedType DEF ReadBans
<1>3. CASE RecordStep
  BY <1>3 DEF RecordStep, banVars
<1>4. CASE LoadStep
  <2>1. kept # {}
    BY <1>4 DEF LoadStep, ApplyLoad, ApplyLoadFails, Goto, KeepInv
  <2>2. LoadedBans \in [Tables -> Elements]
    BY <2>1 DEF LoadedBans
  <2> QED
    BY <1>4, <2>2 DEF LoadStep, HandlerKeeps
<1>5. CASE RevertStep
  BY <1>5 DEF RevertStep, RestoredBans
<1>6. CASE RestAction /\ Rest(TRUE)
  BY <1>6 DEF Rest, HandlerKeeps
<1>7. CASE HalfSecond
  <2>1. ASSUME NEW t \in Tables
        PROVE  [s \in Sources |-> IF bans[t][s] \in {0, Forever}
                                  THEN bans[t][s]
                                  ELSE bans[t][s] - 1] \in Elements
    BY LessLeft DEF Elements
  <2>2. bans' \in [Tables -> Elements]
    BY <1>7, <2>1 DEF HalfSecond
  <2> QED
    BY <1>7, <2>2 DEF HalfSecond
<1>8. ASSUME NEW t \in Tables, NEW s \in Sources, Ban(t, s) \/ Unban(t, s)
      PROVE  SetsInv'
  <2>1. /\ bans \in [Tables -> Elements]
        /\ starts \in 0..MaxBans
        /\ lifted \subseteq Tables \X Sources
    OBVIOUS
  <2>2. UNCHANGED <<kept, shot>>
    BY <1>8 DEF Ban, Unban
  <2>3. lifted' \subseteq Tables \X Sources
    BY <1>8 DEF Ban, Unban
  <2> HIDE DEF BanInv, SetsInv
  <2>4. starts' \in 0..MaxBans
    BY <1>8, <2>1, MaxBansAssumption DEF Ban, Unban
  <2>5. \E left \in {0, BanTime} : bans' = [bans EXCEPT ![t][s] = left]
    BY <1>8 DEF Ban, Unban
  <2>6. bans' \in [Tables -> Elements]
    BY <2>1, <2>5, NewBan DEF Elements
  <2> QED
    BY <2>2, <2>3, <2>4, <2>6 DEF BanInv, SetsInv
<1>9. CASE UNCHANGED allVars
  BY <1>9 DEF allVars, banVars
<1> QED
  BY <1>1, <1>2, <1>3, <1>4, <1>5, <1>6, <1>7, <1>8, <1>9, BanSteps

LEMMA SteadyStep ==
    ASSUME BanInv, [BanNext]_allVars
    PROVE  SteadyInv'
<1> USE DEF BanInv, SteadyInv
<1>0. /\ faults["nft"] \in Nat /\ Faults["nft"] \in Nat
      /\ faults'["nft"] \in Nat
      /\ faults'["nft"] <= faults["nft"] /\ faults["nft"] <= Faults["nft"]
  BY BudgetStep, FaultsAssumption DEF IInv, StateOK, FaultKinds, KeepInv
<1>1. CASE SnapshotStep
  <2>1. ~Pending' /\ kept' = {}
    BY <1>1 DEF SnapshotStep, ApplySnapshot, Goto, KeepInv, IInv, RowInv,
       Pending, store
  <2>2. \A p \in Banned(bans) : p[1] \in DOMAIN snaps' => p \in Banned(shot')
    BY <1>1 DEF SnapshotStep, Banned
  <2> QED
    BY <1>1, <2>1, <2>2 DEF SnapshotStep, Banned
<1>2. CASE ReadBans
  <2>1. CASE kept' = {Preserved}
    BY <1>2, <2>1, PreservedBanned
    DEF ReadBans, store, process, locals, Banned, Pending
  <2>2. CASE Fail("nft")
    <3>1. faults'["nft"] < faults["nft"]
      BY <2>2, FailShrinks DEF IInv, StateOK, FaultKinds
    <3> QED
      BY <1>0, <1>2, <3>1
      DEF ReadBans, store, process, locals, Banned, Pending
  <2> QED
    BY <1>2, <2>1, <2>2 DEF ReadBans
<1>3. CASE RecordStep
  <2>1. faults'["nft"] = Faults["nft"] => faults["nft"] = Faults["nft"]
    BY <1>0
  <2> QED
    BY <1>3, <2>1
    DEF RecordStep, ApplyRecord, Goto, banVars, Banned, Pending
<1>4. CASE LoadStep
  <2>1. kept' = {} /\ pc' \notin {"apply_record", "apply_arm"}
    BY <1>4 DEF LoadStep, ApplyLoad, ApplyLoadFails, Goto, Return, HandlerKeeps
  <2>2. UNCHANGED <<row, shot>>
    BY <1>4 DEF LoadStep, ApplyLoad, ApplyLoadFails, store
  <2> QED
    BY <1>4, <2>1, <2>2 DEF LoadStep, StillSteady, Banned, Pending
<1>5. CASE RevertStep
  <2>1. kept' = {} /\ pc' \notin {"apply_record", "apply_arm"}
    BY <1>5 DEF RevertStep, RevertLoad, RevertLoadFails, Goto, Return, KeepInv
  <2>2. UNCHANGED <<row, shot>>
    BY <1>5 DEF RevertStep, RevertLoad, RevertLoadFails, store
  <2> QED
    BY <1>5, <2>1, <2>2 DEF RevertStep, StillSteady, Banned, Pending
<1>6. CASE RestAction /\ Rest(TRUE)
  <2>1. UNCHANGED <<bans, steady>>
    BY <1>6 DEF Rest
  <2>2. \A f \in kept' : f \in kept /\ cand' = cand
    BY <1>6, RestFrame DEF Rest, HandlerKeeps
  <2>3. faults'["nft"] = Faults["nft"] => faults["nft"] = Faults["nft"]
    BY <1>0
  <2>4. pc' \in {"apply_record", "apply_arm"} \/ Pending' => shot' = shot
    BY <1>6 DEF Rest, Listed
  <2>5. /\ pc' \in {"apply_record", "apply_arm"} =>
              pc \in {"apply_record", "apply_arm"} /\ snaps' = snaps
        /\ Pending' => \/ row' = row /\ Pending
                       \/ row'.prev = snaps /\ pc = "apply_arm"
    BY <1>6, RestFrame DEF Pending
  <2> QED
    BY <2>1, <2>2, <2>3, <2>4, <2>5 DEF Banned
<1>7. CASE HalfSecond \/ \E t \in Tables, s \in Sources : Unban(t, s)
  BY <1>7 DEF HalfSecond, Unban, StillSteady, vars, store, process, locals,
     Banned, Pending
<1>8. ASSUME NEW t \in Tables, NEW s \in Sources, Ban(t, s)
      PROVE  SteadyInv'
  <2>1. Banned(bans) \subseteq Banned(bans')
    BY <1>8, BanTimeAssumption DEF Ban, Banned, SetsInv, Elements
  <2> QED
    BY <1>8, <2>1 DEF Ban, vars, store, process, locals, Banned, Pending
<1>9. CASE UNCHANGED allVars
  BY <1>9 DEF allVars, banVars, vars, store, process, locals, Banned, Pending
<1> QED
  BY <1>1, <1>2, <1>3, <1>4, <1>5, <1>6, <1>7, <1>8, <1>9, BanSteps

LEMMA GuardStep ==
    ASSUME BanInv, [BanNext]_allVars
    PROVE  GuardInv'
<1> USE DEF BanInv, GuardInv
<1>1. CASE SnapshotStep
  <2>1. ~Pending' /\ kept' = {} /\ UNCHANGED <<bans, kernel>>
    BY <1>1 DEF SnapshotStep, ApplySnapshot, Goto, KeepInv, IInv, RowInv,
       Pending, store
  <2>2. ASSUME NEW p \in Banned(shot')
        PROVE  p[1] \in DOMAIN snaps' /\ p \in Banned(bans)
    BY <1>1 DEF SnapshotStep, Banned, NoElements
  <2>3. ASSUME NEW t \in DOMAIN snaps'
        PROVE  snaps'[t] = kernel[t]
    BY <1>1, <2>3 DEF SnapshotStep, ApplySnapshot, Listing
  <2> QED
    BY <2>1, <2>2, <2>3 DEF Banned
<1>2. CASE ReadBans
  <2>1. \A f \in kept' : \A p \in Banned(f) : cand[p[1]] \in Guards
    BY <1>2, PreservedBanned, NoneBanned DEF ReadBans
  <2> QED
    BY <1>2, <2>1 DEF ReadBans, store, process, locals, Banned, Pending
<1>3. CASE RecordStep
  BY <1>3 DEF RecordStep, ApplyRecord, Goto, banVars, Banned, Pending
<1>4. CASE LoadStep
  <2>1. kept # {} /\ pc = "apply_load" /\ Pending
    BY <1>4 DEF LoadStep, ApplyLoad, ApplyLoadFails, Goto, KeepInv, IInv,
       RowInv
  <2>2. kept' = {} /\ pc' \notin {"apply_record", "apply_arm"}
    BY <1>4 DEF LoadStep, ApplyLoad, ApplyLoadFails, Goto, Return, HandlerKeeps
  <2>3. UNCHANGED <<row, shot>>
    BY <1>4 DEF LoadStep, ApplyLoad, ApplyLoadFails, store
  <2>4. ASSUME NEW p \in Banned(bans')
        PROVE  kernel'[p[1]] \in Guards
    <3>1. CASE UNCHANGED <<bans, kernel>>
      BY <2>4, <3>1 DEF Banned
    <3>2. CASE /\ bans' = LoadedBans
               /\ kernel' = Loaded(kernel, cand, ledger \ Owned(cand))
      <4>1. PICK f \in kept :
               p \in IF p[1] \in Owned(cand) \cup ledger
                     THEN Banned(f) ELSE Banned(bans)
        BY <2>1, <2>4, <3>2, LoadedBanned DEF Banned
      <4> QED
        BY <3>2, <4>1, GuardsAssumption, AbsentAssumption
        DEF Loaded, Owned, Banned
    <3> QED
      BY <1>4, <3>1, <3>2, LoadEffect
  <2> QED
    BY <2>1, <2>2, <2>3, <2>4 DEF Banned, Pending
<1>5. CASE RevertStep
  <2>1. kept = {} /\ pc = "revert_load" /\ Pending
    BY <1>5 DEF RevertStep, RevertLoad, RevertLoadFails, Goto, KeepInv, IInv,
       RowInv
  <2>2. kept' = {} /\ pc' \notin {"apply_record", "apply_arm"}
    BY <1>5, <2>1 DEF RevertStep, RevertLoad, RevertLoadFails, Goto, Return
  <2>3. UNCHANGED <<row, shot>>
    BY <1>5 DEF RevertStep, RevertLoad, RevertLoadFails, store
  <2>4. ASSUME NEW p \in Banned(bans')
        PROVE  kernel'[p[1]] \in Guards
    <3>1. CASE UNCHANGED <<bans, kernel>>
      BY <2>4, <3>1 DEF Banned
    <3>2. CASE bans' = RestoredBans /\ kernel' = Restored(kernel, row.prev)
      BY <2>1, <2>4, <3>2, RestoredBanned DEF Restored, Banned
    <3> QED
      BY <1>5, <3>1, <3>2, RevertEffect
  <2> QED
    BY <2>1, <2>2, <2>3, <2>4 DEF Banned, Pending
<1>6. CASE RestAction /\ Rest(TRUE)
  <2>1. UNCHANGED <<bans, kernel>>
    BY <1>6, RestFrame DEF Rest
  <2>2. \A f \in kept' : f \in kept /\ cand' = cand
    BY <1>6, RestFrame DEF Rest, HandlerKeeps
  <2>3. pc' \in {"apply_record", "apply_arm"} \/ Pending' => shot' = shot
    BY <1>6 DEF Rest, Listed
  <2>4. /\ pc' \in {"apply_record", "apply_arm"} =>
              pc \in {"apply_record", "apply_arm"} /\ snaps' = snaps
        /\ Pending' => \/ row' = row /\ Pending
                       \/ row'.prev = snaps /\ pc = "apply_arm"
    BY <1>6, RestFrame DEF Pending
  <2> QED
    BY <2>1, <2>2, <2>3, <2>4 DEF Banned
<1>7. CASE HalfSecond \/ \E t \in Tables, s \in Sources : Unban(t, s)
  <2>1. Banned(bans') \subseteq Banned(bans)
    BY <1>7 DEF HalfSecond, Unban, Banned, SetsInv, Elements
  <2> QED
    BY <1>7, <2>1 DEF HalfSecond, Unban, vars, store, process, locals, Banned,
       Pending
<1>8. ASSUME NEW t \in Tables, NEW s \in Sources, Ban(t, s)
      PROVE  GuardInv'
  <2>1. Banned(bans') \subseteq Banned(bans) \cup {<<t, s>>}
    BY <1>8 DEF Ban, Banned, SetsInv, Elements
  <2> QED
    BY <1>8, <2>1 DEF Ban, vars, store, process, locals, Banned, Pending
<1>9. CASE UNCHANGED allVars
  BY <1>9 DEF allVars, banVars, vars, store, process, locals, Banned, Pending
<1> QED
  BY <1>1, <1>2, <1>3, <1>4, <1>5, <1>6, <1>7, <1>8, <1>9, BanSteps

LEMMA BanInvHolds == BanSpec => []BanInv
<1>1. BanInv /\ [BanNext]_allVars => BanInv'
  BY PipelineInv, SetsStep, KeepStep, LiftStep, SteadyStep, GuardStep
  DEF BanInv
<1> QED
  BY <1>1, BanInvInit, PTL DEF BanSpec

-----------------------------------------------------------------------------
(* Theorems                                                                *)

\* The elements live in the sets of tables that declare them, whatever an
\* apply adds again and a revert restores.
THEOREM BanTypeCorrect == BanSpec => []BanTypeOK
<1>1. BanInv => BanTypeOK
  BY DEF BanInv, SetsInv, GuardInv, LiftInv, SteadyInv, BanTypeOK, Banned
<1> QED
  BY <1>1, BanInvHolds, PTL

\* A ban lifted while no apply is in progress or armed is not brought back by
\* a script: neither by what an apply reads before `nft -c` nor by the listings
\* its revert or a recovery loads.
THEOREM LiftedFinal == BanSpec => []LiftedStays
<1>1. BanInv => LiftedStays
  BY DEF BanInv, LiftInv, LiftedStays
<1> QED
  BY <1>1, BanInvHolds, PTL

\* A ban in force since the snapshot survives the load of an apply and of its
\* revert in every table that declares the set afterwards, unless nft failed.
THEOREM SurviveLoads == BanSpec => BansSurvive
<1> DEFINE Survives ==
              \A p \in steady :
                 /\ LoadStep \/ RevertStep
                 /\ kernel'[p[1]] \in Guards
                 /\ faults["nft"] = Faults["nft"]
                 => p \in Banned(bans')
<1>1. BanInv /\ [BanNext]_allVars => [Survives]_allVars
  <2> SUFFICES ASSUME BanInv, NEW p \in steady, LoadStep \/ RevertStep,
                      kernel'[p[1]] \in Guards, faults["nft"] = Faults["nft"]
               PROVE  p \in Banned(bans')
    OBVIOUS
  <2>1. p \in Banned(bans) /\ p \in Tables \X Sources
    BY DEF BanInv, SteadyInv, Banned
  <2>2. CASE UNCHANGED bans
    BY <2>1, <2>2 DEF Banned
  <2>3. CASE LoadStep /\ bans' # bans
    <3>1. /\ bans' = LoadedBans /\ kept # {}
          /\ kernel' = Loaded(kernel, cand, ledger \ Owned(cand))
      BY <2>3, LoadEffect
      DEF LoadStep, ApplyLoad, ApplyLoadFails, Goto, BanInv, KeepInv
    <3>2. PICK f \in kept :
             p \in Banned(LoadedBans)
                <=> p \in IF p[1] \in Owned(cand) \cup ledger
                          THEN Banned(f) ELSE Banned(bans)
      BY <2>1, <3>1, LoadedBanned
    <3>3. p[1] \in Owned(cand) \cup ledger => cand[p[1]] \in Guards
      BY <2>1, <3>1, GuardsAssumption, AbsentAssumption DEF Loaded, Owned
    <3>4. p \in Banned(LoadedBans)
      BY <2>1, <3>2, <3>3 DEF BanInv, SteadyInv
    <3> QED
      BY <3>1, <3>4 DEF Banned
  <2>4. CASE RevertStep /\ bans' # bans
    <3>1. bans' = RestoredBans /\ Pending
      BY <2>4, RevertEffect
      DEF RevertStep, RevertLoad, RevertLoadFails, Goto, BanInv, IInv, RowInv
    <3>2. p \in Banned(RestoredBans)
      BY <2>1, <3>1, RestoredBanned DEF BanInv, SteadyInv
    <3> QED
      BY <3>1, <3>2 DEF Banned
  <2> QED
    BY <2>2, <2>3, <2>4
<1> QED
  BY <1>1, BanInvHolds, PTL DEF BanSpec, BansSurvive

\* With bans, too, a pending apply that nobody works on has a timer or an
\* autoRevert that waits, as long as neither nft nor the database has failed.
THEOREM WindowClosesWithBans == BanSpec => []PendingHasTimer
<1>1. BanInit => IInv /\ BudgetInv /\ TimedInv
  BY IInvInit, RestInit DEF BanInit, Init, RestInv, TimedInv, Pending, NoRow
<1>2. IInv /\ BudgetInv /\ TimedInv /\ [BanNext]_allVars
         => (IInv /\ BudgetInv /\ TimedInv)'
  <2> SUFFICES ASSUME IInv, BudgetInv, TimedInv, [BanNext]_allVars
               PROVE  IInv' /\ BudgetInv' /\ TimedInv'
    OBVIOUS
  <2>1. StateOK
    BY DEF IInv
  <2>2. BudgetInv' /\ (Working' => Working)
    BY <2>1, BanFaults, FaultFrame
  <2>3. TimedInv'
    <3>1. CASE [Next]_vars
      BY <3>1, TimedStep
    <3>2. CASE ReadBans
      BY <2>2, <3>2 DEF ReadBans, TimedInv, Pending, store, process
    <3> QED
      BY <3>1, <3>2, PipelineStep
  <2> QED
    BY <2>2, <2>3, PipelineInv
<1>3. TimedInv => PendingHasTimer
  BY DEF TimedInv, PendingHasTimer
<1> QED
  BY <1>1, <1>2, <1>3, PTL DEF BanSpec
=============================================================================
