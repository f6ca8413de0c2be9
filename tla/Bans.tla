-------------------------------- MODULE Bans --------------------------------
(***************************************************************************)
(* Auto-bans next to the apply pipeline.  A ban rule makes the kernel put  *)
(* a source into a timeout set of its table, where it stays for the ban    *)
(* time unless the operator lifts the ban (internal/web/bans.go).  The     *)
(* elements are kernel state, no part of the model: an apply replaces the  *)
(* table, so it reads them first and adds them again in the same script    *)
(* (internal/nft/sets.go), while a revert brings back the listing taken    *)
(* before the apply.  Bans start, end and are lifted without applyMu.      *)
(*                                                                         *)
(* Time is counted in half seconds, because what is left of a ban is read  *)
(* in whole seconds.                                                       *)
(***************************************************************************)
EXTENDS ApplyPipeline

CONSTANTS
    Sources,   \* addresses that may be banned
    Guards,    \* the contents that declare the ban set
    BanTime,   \* how long a ban lasts, in half seconds
    MaxBans    \* bound on the bans that start in a behaviour

ASSUME GuardsAssumption == Guards \subseteq Contents
ASSUME BanTimeAssumption == BanTime \in Nat \ {0}
ASSUME MaxBansAssumption == MaxBans \in Nat

VARIABLES
    bans,     \* per table and source the time left, 0 when not banned
    kept,     \* what the apply in progress read, {} before it has
    shot,     \* the elements in the listings of snaps, and then of row.prev
    starts,   \* how many bans are still to start
    steady,   \* history: the bans in force ever since the latest snapshot
    lifted    \* history: the bans lifted while no apply was under way

banVars == <<bans, kept, shot, starts, steady, lifted>>
allVars == <<vars, banVars>>

\* An element without a timeout.
Forever == BanTime + 1
Elements == [Sources -> 0..Forever]
NoElements == [s \in Sources |-> 0]
NoBans == [t \in Tables |-> NoElements]

\* The banned pairs of a table and a source.
Banned(b) == {p \in Tables \X Sources : b[p[1]][p[2]] # 0}

BanInit ==
    /\ Init
    /\ bans = NoBans
    /\ kept = {}
    /\ shot = NoBans
    /\ starts = MaxBans
    /\ steady = {}
    /\ lifted = {}

-----------------------------------------------------------------------------
(* What a script leaves in the sets                                        *)

\* The element added again for one with the given time left: its timeout is the
\* whole seconds left, and it has none when that is zero (banElement).
Readded(left) ==
    LET whole == 2 * (left \div 2)
    IN  IF left = 0 THEN 0
        ELSE IF left = Forever \/ whole = 0 THEN Forever
        ELSE whole

\* (mutant) Keeps the sets of the tables that were owned before.
PreservedOwned ==
    [t \in Tables |-> IF t \in ledger /\ cand[t] \in Guards
                      THEN [s \in Sources |-> Readded(bans[t][s])]
                      ELSE NoElements]

\* PreservedBanElements: the sets the candidate still declares.
Preserved ==
    [t \in Tables |-> IF cand[t] \in Guards
                      THEN [s \in Sources |-> Readded(bans[t][s])]
                      ELSE NoElements]

\* (mutant) Forgets that a table may be removed.
LoadedBansOfModel ==
    LET again == CHOOSE f \in kept : TRUE
    IN  [t \in Tables |-> IF t \in Owned(cand) THEN again[t] ELSE bans[t]]

\* The sets after the apply script, and after the revert script.
LoadedBans ==
    LET again == CHOOSE f \in kept : TRUE
    IN  [t \in Tables |-> IF t \in Owned(cand) \cup ledger THEN again[t]
                                                           ELSE bans[t]]

RestoredBans ==
    [t \in Tables |-> IF t \in DOMAIN row.prev THEN shot[t] ELSE bans[t]]

\* A script that was reported to fail committed if nft was killed afterwards.
Committed == faults'["nft"] = faults["nft"]

-----------------------------------------------------------------------------
(* The pipeline                                                            *)

\* (mutant) Keeps what was read for the next apply.
HandlerKeepsOn(at) == kept

\* What was read is a local of handleApply.
HandlerKeeps(at) == IF at \in {"apply_record", "apply_arm", "apply_load"}
                    THEN kept ELSE {}

\* The listings live in snaps until they are persisted in the row.
Listed == Pending' \/ pc' \in {"apply_record", "apply_arm"}

\* The bans that are still in force, after a step that starts none.
StillSteady == steady' = steady \cap Banned(bans')

SnapshotStep ==
    /\ ApplySnapshot
    /\ shot' = [t \in Tables |-> IF t \in DOMAIN snaps' THEN bans[t]
                                                        ELSE NoElements]
    /\ steady' = Banned(bans)
    /\ UNCHANGED <<bans, kept, starts, lifted>>

\* The read of the live sets comes after the snapshot and before `nft -c`.
\* When it fails the apply goes on without the bans.
ReadBans ==
    /\ pc = "apply_record"
    /\ kept = {}
    /\ \/ kept' = {Preserved} /\ UNCHANGED faults
       \/ kept' = {NoBans} /\ Fail("nft")
    /\ UNCHANGED <<store, kernel, process, bans, shot, starts, steady, lifted>>

RecordStep ==
    /\ kept # {}
    /\ ApplyRecord
    /\ UNCHANGED banVars

LoadStep ==
    /\ ApplyLoad \/ ApplyLoadFails
    /\ bans' = IF Committed THEN LoadedBans ELSE bans
    /\ kept' = HandlerKeeps(pc')
    /\ StillSteady
    /\ UNCHANGED <<shot, starts, lifted>>

RevertStep ==
    /\ RevertLoad \/ RevertLoadFails
    /\ bans' = IF Committed THEN RestoredBans ELSE bans
    /\ StillSteady
    /\ UNCHANGED <<kept, shot, starts, lifted>>

\* The other statements of the handlers leave the live sets alone.
ApplyRest == \/ ApplyBegin \/ ApplyAbandon \/ ApplyArm \/ ApplyArmFails
             \/ ApplyFailClear \/ ApplyFailStatus
RevertRest == \/ RollbackBegin \/ TimerFires \/ Recover \/ RecoverReturns
              \/ RevertClear \/ RevertClearFails \/ RevertStatus
AutoReverts == \E v \in firing : AutoRevert(v) \/ AutoRevertReturns(v)

Rest(A) ==
    /\ A
    /\ kept' = HandlerKeeps(pc')
    /\ shot' = IF Listed THEN shot ELSE NoBans
    /\ UNCHANGED <<bans, starts, steady, lifted>>

-----------------------------------------------------------------------------
(* The bans                                                                *)

\* A ban rule fires for a source that is not in the set.
Ban(t, s) ==
    /\ starts > 0
    /\ kernel[t] \in Guards
    /\ bans[t][s] = 0
    /\ bans' = [bans EXCEPT ![t][s] = BanTime]
    /\ starts' = starts - 1
    /\ lifted' = lifted \ {<<t, s>>}
    /\ UNCHANGED <<vars, kept, shot, steady>>

\* Half a second passes; what runs out leaves the set.
HalfSecond ==
    /\ \E p \in Banned(bans) : bans[p[1]][p[2]] # Forever
    /\ bans' = [t \in Tables |-> [s \in Sources |->
                   IF bans[t][s] \in {0, Forever} THEN bans[t][s]
                                                  ELSE bans[t][s] - 1]]
    /\ StillSteady
    /\ UNCHANGED <<vars, kept, shot, starts, lifted>>

\* handleHardenUnban: one nft run, whatever else is in progress.
Unban(t, s) ==
    /\ serving
    /\ bans[t][s] # 0
    /\ bans' = [bans EXCEPT ![t][s] = 0]
    /\ StillSteady
    /\ lifted' = IF pc = "idle" /\ ~Pending THEN lifted \cup {<<t, s>>}
                                            ELSE lifted
    /\ UNCHANGED <<vars, kept, shot, starts>>

Handlers == \/ SnapshotStep \/ ReadBans \/ RecordStep \/ LoadStep \/ RevertStep
            \/ Rest(ApplyRest) \/ Rest(Confirm) \/ Rest(RevertRest)
            \/ Rest(AutoReverts)

BanNext ==
    \/ Handlers
    \/ Rest(Edit) \/ Rest(Crash) \/ Rest(Restart)
    \/ HalfSecond
    \/ \E t \in Tables, s \in Sources : Ban(t, s) \/ Unban(t, s)

BanSpec == BanInit /\ [][BanNext]_allVars

\* The fairness of ApplyPipeline; time passes.
BanFairSpec ==
    /\ BanSpec
    /\ WF_allVars(pc \notin {"idle", "down"} /\ Handlers)
    /\ WF_allVars(Rest(TimerFires))
    /\ WF_allVars(Rest(Restart))
    /\ WF_allVars(HalfSecond)
    /\ \A v \in 1..MaxVersions :
          SF_allVars(Rest(AutoRevert(v) \/ AutoRevertReturns(v)))

-----------------------------------------------------------------------------
(* Properties                                                              *)

BanTypeOK ==
    /\ bans \in [Tables -> Elements]
    /\ kept \in {{}} \cup {{f} : f \in [Tables -> Elements]}
    /\ shot \in [Tables -> Elements]
    /\ starts \in 0..MaxBans
    /\ steady \subseteq Tables \X Sources
    /\ lifted \subseteq Tables \X Sources
    /\ \A p \in Banned(bans) : kernel[p[1]] \in Guards

\* "An apply preserves active bans instead of resetting them"
\* (CHANGELOG.md:64), and so does its revert: a ban in force from the snapshot
\* on stays in force when a script replaces its table by one that declares the
\* set, as long as the sets could be read.
BansSurvive ==
    [][\A p \in steady :
          /\ LoadStep \/ RevertStep
          /\ kernel'[p[1]] \in Guards
          /\ faults["nft"] = Faults["nft"]
          => p \in Banned(bans')]_allVars

\* Scripts add elements from what was read before.  A ban that the operator
\* lifts while no apply is in progress or armed does not come back with the
\* next apply, its revert or a recovery: only a rule of the kernel bans the
\* source again.
LiftedStays == lifted \cap Banned(bans) = {}

\* Every ban runs out: an apply adds each one again "carrying its remaining
\* expiry in seconds" (nft/sets.go:88-89), and "the set clears itself as bans
\* expire" (README.md:133).
NoEndlessBan == \A p \in Banned(bans) : bans[p[1]][p[2]] # Forever
=============================================================================
