--------------------------- MODULE ApplyPipeline ---------------------------
(***************************************************************************)
(* The apply pipeline of internal/web/apply.go with the rows it keeps in   *)
(* SQLite (internal/store/configversions.go) and the scripts it hands to   *)
(* nft (internal/render/apply.go).                                         *)
(*                                                                         *)
(* Every handler holds applyMu from its first to its last statement, so at *)
(* most one handler is in progress: pc is where the holder of applyMu is,  *)
(* and "idle" when nobody holds it.  Between two statements of a handler   *)
(* the rest of the system runs: editors change the object model (they do   *)
(* not take applyMu), the confirm timer expires, the process dies.  Each   *)
(* SQL statement commits on its own and `nft -f` commits a whole script    *)
(* or nothing.                                                             *)
(*                                                                         *)
(* A table's text is a member of Contents.  Statement order, early returns *)
(* and error paths are kept; audit rows, log lines and pages are not.      *)
(***************************************************************************)
EXTENDS Naturals, Sequences, FiniteSets

CONSTANTS
    Tables,       \* the table references (family, name) of the instance
    Contents,     \* what a table may contain, as rendered or as listed by nft
    Absent,       \* the table does not exist
    MaxVersions,  \* bound on the applies of a behaviour
    Faults        \* how often each kind of failure may happen in a behaviour

FaultKinds == {"crash",   \* the process dies
               "nft",     \* an nft run fails and changes nothing
               "kill",    \* nft is killed at its timeout after it committed
               "db"}      \* an SQL statement fails

ASSUME AbsentAssumption == Absent \notin Contents
ASSUME MaxVersionsAssumption == MaxVersions \in Nat
ASSUME FaultsAssumption == Faults \in [FaultKinds -> Nat]

VARIABLES
    model,     \* the object model in the database, as it renders
    versions,  \* table config_versions; the id of a row is its index
    row,       \* table pending_apply, at most one row
    ledger,    \* table applied_state: the owned tables of the last confirm
    baseline,  \* the drift fingerprint setting, {} until one is recorded
    kernel,    \* the live ruleset
    pc,        \* where the holder of applyMu is
    serving,   \* FALSE from the start of the process until recovery is over
    cand,      \* the model this apply read (handleApply's m)
    snaps,     \* the snapshot this apply took (handleApply's snaps)
    vid,       \* the version the handler works on
    inMem,     \* s.pendingAppliedTables: {} for nil, {S} for the set S
    timer,     \* s.pendingTimer: the version it would revert, 0 when stopped
    firing,    \* versions whose autoRevert has started and waits for applyMu
    faults     \* how many failures of each kind are still to come

store   == <<model, versions, row, ledger, baseline>>
locals  == <<cand, snaps, vid>>
process == <<pc, serving, cand, snaps, vid, inMem, timer, firing>>
vars    == <<model, versions, row, ledger, baseline, kernel, pc, serving,
             cand, snaps, vid, inMem, timer, firing, faults>>

Cell      == Contents \cup {Absent}
Configs   == [Tables -> Cell]
Snapshots == UNION {[S -> Cell] : S \in SUBSET Tables}
Status    == {"pending", "confirmed", "reverted", "failed"}

\* A recorded apply: the rendered config, the backup document of the model
\* ({} when there is none) and what became of it.
Version == [config : Configs,
            snap   : {{}} \cup {{c} : c \in Configs},
            status : Status]

\* The tables a configuration contains (modelTableRefs).
Owned(c) == {t \in Tables : c[t] # Absent}

\* (mutant) Deletes every table the configuration does not contain.
LoadedFlushing(k, c, removed) ==
    [t \in Tables |-> IF t \in Owned(c) THEN c[t] ELSE Absent]

\* What the kernel runs after the apply script: each table of c is replaced,
\* each removed one is deleted, the others are never named.
Loaded(k, c, removed) ==
    [t \in Tables |-> IF t \in Owned(c) THEN c[t]
                      ELSE IF t \in removed THEN Absent ELSE k[t]]

\* What the kernel runs after the revert script of snapshot s.
Restored(k, s) == [t \in Tables |-> IF t \in DOMAIN s THEN s[t] ELSE k[t]]

\* The listing of the tables in S, one by one (snapshotTables).
Listing(k, S) == [t \in S |-> k[t]]

NoTables == [t \in {} |-> Absent]
AllAbsent == [t \in Tables |-> Absent]

\* pending_apply holds no row.
NoRow == [version |-> 0, prev |-> NoTables]
Pending == row.version # 0

-----------------------------------------------------------------------------
Init ==
    /\ model = AllAbsent
    /\ versions = <<>>
    /\ row = NoRow
    /\ ledger = {}
    /\ baseline = {}
    /\ kernel \in Configs
    /\ pc = "idle"
    /\ serving = TRUE
    /\ cand = AllAbsent /\ snaps = NoTables /\ vid = 0
    /\ inMem = {}
    /\ timer = 0
    /\ firing = {}
    /\ faults = Faults

\* A failure of the given kind happens in this step.
Fail(kind) ==
    /\ faults[kind] > 0
    /\ faults' = [faults EXCEPT ![kind] = @ - 1]

\* The handler that runs gets from one statement to the next.
Goto(from, to) ==
    /\ pc = from
    /\ pc' = to
    /\ UNCHANGED serving

\* The handler returns: applyMu is released and its locals die.  The return of
\* RecoverPendingApply is what lets the server start serving.
Return ==
    /\ pc' = "idle"
    /\ serving' = TRUE
    /\ cand' = AllAbsent /\ snaps' = NoTables /\ vid' = 0

SetStatus(v, s) == versions' = [versions EXCEPT ![v].status = s]

-----------------------------------------------------------------------------
(* The editors: a page, an import or a preset changes one table of the     *)
(* model.  None of them takes applyMu.                                     *)

EditTable(t, c) ==
    /\ serving
    /\ c # model[t]
    /\ model' = [model EXCEPT ![t] = c]
    /\ UNCHANGED <<versions, row, ledger, baseline, kernel, process, faults>>

\* A table row is renamed: the reference changes, its chains stay.
RenameTable(t, u) ==
    /\ serving
    /\ t \in Owned(model) /\ u \notin Owned(model)
    /\ model' = [model EXCEPT ![t] = Absent, ![u] = model[t]]
    /\ UNCHANGED <<versions, row, ledger, baseline, kernel, process, faults>>

-----------------------------------------------------------------------------
(* handleApply                                                             *)

\* (mutant) Does not look for a pending apply first.
ApplyBeginUnchecked ==
    /\ Len(versions) < MaxVersions
    /\ Goto("idle", "apply_snapshot")
    /\ cand' = model
    /\ UNCHANGED <<store, kernel, snaps, vid, inMem, timer, firing, faults>>

\* No apply is pending: read the model.
ApplyBegin ==
    /\ ~Pending
    /\ Len(versions) < MaxVersions
    /\ Goto("idle", "apply_snapshot")
    /\ cand' = model
    /\ UNCHANGED <<store, kernel, snaps, vid, inMem, timer, firing, faults>>

\* (mutant) Lists the tables of the candidate only, not the removed ones.
ApplySnapshotCurrent ==
    /\ Goto("apply_snapshot", "apply_record")
    /\ snaps' = Listing(kernel, Owned(cand))
    /\ UNCHANGED <<store, kernel, cand, vid, inMem, timer, firing, faults>>

\* List every table the script will replace or remove.
ApplySnapshot ==
    /\ Goto("apply_snapshot", "apply_record")
    /\ snaps' = Listing(kernel, Owned(cand) \cup ledger)
    /\ UNCHANGED <<store, kernel, cand, vid, inMem, timer, firing, faults>>

\* A listing fails, `nft -c` rejects the script or the version cannot be
\* inserted: nothing was recorded.
ApplyAbandon ==
    /\ pc \in {"apply_snapshot", "apply_record"}
    /\ Return
    /\ UNCHANGED <<store, kernel, inMem, timer, firing, faults>>

\* `nft -c` passed: read the model once more for the backup document, then
\* insert the version.  A failing backup only leaves the document empty.
ApplyRecord ==
    /\ Goto("apply_record", "apply_arm")
    /\ vid' = Len(versions) + 1
    /\ \E doc \in {{model}, {}} :
          /\ versions' = Append(versions, [config |-> cand, snap |-> doc,
                                           status |-> "pending"])
          /\ IF doc = {} THEN Fail("db") ELSE UNCHANGED faults
    /\ UNCHANGED <<model, row, ledger, baseline, kernel, cand, snaps, inMem,
                   timer, firing>>

\* Persist the snapshot before the kernel is touched.  The table has room for
\* one row: the insert fails when there is one.
ApplyArm ==
    /\ Goto("apply_arm", "apply_load")
    /\ ~Pending
    /\ row' = [version |-> vid, prev |-> snaps]
    /\ UNCHANGED <<model, versions, ledger, baseline, kernel, locals, inMem,
                   timer, firing, faults>>

ApplyArmFails ==
    /\ pc = "apply_arm"
    /\ \/ Pending /\ UNCHANGED faults
       \/ Fail("db")
    /\ Return
    /\ UNCHANGED <<store, kernel, inMem, timer, firing>>

\* (mutant) Forgets to arm the timer.
ApplyLoadUnarmed ==
    /\ pc = "apply_load"
    /\ kernel' = Loaded(kernel, cand, ledger \ Owned(cand))
    /\ inMem' = {Owned(cand)}
    /\ Return
    /\ UNCHANGED <<store, timer, firing, faults>>

\* The script commits; the timer is armed and the owned set remembered.
ApplyLoad ==
    /\ pc = "apply_load"
    /\ kernel' = Loaded(kernel, cand, ledger \ Owned(cand))
    /\ timer' = vid
    /\ inMem' = {Owned(cand)}
    /\ Return
    /\ UNCHANGED <<store, firing, faults>>

\* nft reports an error: the script was rejected, or nft was killed at its
\* timeout after the commit.  The handler cannot tell which.
ApplyLoadFails ==
    /\ Goto("apply_load", "fail_clear")
    /\ \/ Fail("nft") /\ UNCHANGED kernel
       \/ Fail("kill") /\ kernel' = Loaded(kernel, cand, ledger \ Owned(cand))
    /\ UNCHANGED <<store, locals, inMem, timer, firing>>

\* Both clean-up statements ignore their errors.
ApplyFailClear ==
    /\ Goto("fail_clear", "fail_status")
    /\ \/ row' = NoRow /\ UNCHANGED faults
       \/ UNCHANGED row /\ Fail("db")
    /\ UNCHANGED <<model, versions, ledger, baseline, kernel, locals, inMem,
                   timer, firing>>

\* (mutant) Leaves the version of a rejected script as it was.
ApplyFailStatusSkipped ==
    /\ pc = "fail_status"
    /\ Return
    /\ UNCHANGED <<store, kernel, inMem, timer, firing, faults>>

ApplyFailStatus ==
    /\ pc = "fail_status"
    /\ \/ SetStatus(vid, "failed") /\ UNCHANGED faults
       \/ UNCHANGED versions /\ Fail("db")
    /\ Return
    /\ UNCHANGED <<model, row, ledger, baseline, kernel, inMem, timer, firing>>

-----------------------------------------------------------------------------
(* handleApplyConfirm                                                      *)

\* stopPendingTimer does not stop an autoRevert that already waits.
ConfirmBegin ==
    /\ Pending
    /\ Goto("idle", "confirm_clear")
    /\ vid' = row.version
    /\ timer' = 0
    /\ UNCHANGED <<store, kernel, cand, snaps, inMem, firing, faults>>

\* (mutant) Goes on without deleting the row.
ConfirmClearSkipped ==
    /\ Goto("confirm_clear", "confirm_status")
    /\ UNCHANGED <<store, kernel, locals, inMem, timer, firing, faults>>

ConfirmClear ==
    /\ Goto("confirm_clear", "confirm_status")
    /\ row' = NoRow
    /\ UNCHANGED <<model, versions, ledger, baseline, kernel, locals, inMem,
                   timer, firing, faults>>

ConfirmStatus ==
    /\ Goto("confirm_status", "confirm_ledger")
    /\ SetStatus(vid, "confirmed")
    /\ UNCHANGED <<model, row, ledger, baseline, kernel, locals, inMem, timer,
                   firing, faults>>

\* Either statement failing ends the handler.
ConfirmFails ==
    /\ pc \in {"confirm_clear", "confirm_status"}
    /\ Fail("db")
    /\ Return
    /\ UNCHANGED <<store, kernel, inMem, timer, firing>>

\* (mutant) Records the tables of the model as it is now.
ConfirmLedgerLive ==
    /\ Goto("confirm_ledger", "confirm_baseline")
    /\ ledger' = Owned(model)
    /\ UNCHANGED <<model, versions, row, baseline, kernel, locals, inMem,
                   timer, firing, faults>>

\* The ledger becomes the set captured at apply time, or the tables of the
\* live model when there is none.  A failed write is ignored; a failed model
\* read leaves an empty set to be written.
ConfirmLedger ==
    /\ Goto("confirm_ledger", "confirm_baseline")
    /\ \/ /\ ledger' = IF inMem = {} THEN Owned(model) ELSE UNION inMem
          /\ UNCHANGED faults
       \/ UNCHANGED ledger /\ Fail("db")
       \/ inMem = {} /\ ledger' = {} /\ Fail("db")
    /\ UNCHANGED <<model, versions, row, baseline, kernel, locals, inMem,
                   timer, firing>>

\* recordAppliedFingerprint skips an empty ledger and gives up on an error.
ConfirmBaseline ==
    /\ pc = "confirm_baseline"
    /\ \/ /\ baseline' = IF ledger = {} THEN baseline
                         ELSE {Listing(kernel, ledger)}
          /\ UNCHANGED faults
       \/ UNCHANGED baseline /\ (Fail("nft") \/ Fail("db"))
    /\ inMem' = {}
    /\ Return
    /\ UNCHANGED <<model, versions, row, ledger, kernel, timer, firing>>

-----------------------------------------------------------------------------
(* handleApplyRollback, autoRevert, RecoverPendingApply and revert         *)

RollbackBegin ==
    /\ Pending
    /\ Goto("idle", "revert_load")
    /\ vid' = row.version
    /\ timer' = 0
    /\ UNCHANGED <<store, kernel, cand, snaps, inMem, firing, faults>>

\* (mutant) The window elapses and nothing is started.
TimerFiresUnheard ==
    /\ timer # 0
    /\ timer' = 0
    /\ UNCHANGED <<store, kernel, pc, serving, locals, inMem, firing, faults>>

\* The confirm window elapses: autoRevert starts and waits for applyMu.
TimerFires ==
    /\ timer # 0
    /\ firing' = firing \cup {timer}
    /\ timer' = 0
    /\ UNCHANGED <<store, kernel, pc, serving, locals, inMem, faults>>

\* (mutant) Reverts whatever apply is pending.
AutoRevertAny(v) ==
    /\ v \in firing
    /\ firing' = firing \ {v}
    /\ Pending
    /\ Goto("idle", "revert_load")
    /\ vid' = row.version
    /\ UNCHANGED <<store, kernel, cand, snaps, inMem, timer, faults>>

\* autoRevert got applyMu: it only acts on the apply it was armed for.
AutoRevert(v) ==
    /\ v \in firing
    /\ firing' = firing \ {v}
    /\ Pending /\ row.version = v
    /\ Goto("idle", "revert_load")
    /\ vid' = v
    /\ UNCHANGED <<store, kernel, cand, snaps, inMem, timer, faults>>

\* The apply was confirmed, rolled back or superseded, or the row cannot be
\* read: autoRevert returns and will not run again.
AutoRevertReturns(v) ==
    /\ pc = "idle"
    /\ v \in firing
    /\ firing' = firing \ {v}
    /\ \/ row.version # v /\ UNCHANGED faults
       \/ Fail("db")
    /\ UNCHANGED <<store, kernel, pc, serving, locals, inMem, timer>>

\* Startup, before the server listens: revert what an earlier process left.
Recover ==
    /\ Pending
    /\ Goto("boot", "revert_load")
    /\ vid' = row.version
    /\ UNCHANGED <<store, kernel, cand, snaps, inMem, timer, firing, faults>>

RecoverReturns ==
    /\ pc = "boot"
    /\ \/ ~Pending /\ UNCHANGED faults
       \/ Fail("db")
    /\ Return
    /\ UNCHANGED <<store, kernel, inMem, timer, firing>>

RevertLoad ==
    /\ Goto("revert_load", "revert_clear")
    /\ kernel' = Restored(kernel, row.prev)
    /\ UNCHANGED <<store, locals, inMem, timer, firing, faults>>

\* On failure the row is kept and the caller only logs it.
RevertLoadFails ==
    /\ pc = "revert_load"
    /\ \/ Fail("nft") /\ UNCHANGED kernel
       \/ Fail("kill") /\ kernel' = Restored(kernel, row.prev)
    /\ Return
    /\ UNCHANGED <<store, inMem, timer, firing>>

RevertClear ==
    /\ Goto("revert_clear", "revert_status")
    /\ row' = NoRow
    /\ inMem' = {}
    /\ UNCHANGED <<model, versions, ledger, baseline, kernel, locals, timer,
                   firing, faults>>

RevertClearFails ==
    /\ pc = "revert_clear"
    /\ Fail("db")
    /\ Return
    /\ UNCHANGED <<store, kernel, inMem, timer, firing>>

\* (mutant) Writes a status nobody knows.
RevertStatusUnknown ==
    /\ pc = "revert_status"
    /\ versions' = [versions EXCEPT ![vid].status = "rolled back"]
    /\ Return
    /\ UNCHANGED <<model, row, ledger, baseline, kernel, inMem, timer, firing,
                   faults>>

\* (mutant) Leaves the version of a reverted apply as it was.
RevertStatusSkipped ==
    /\ pc = "revert_status"
    /\ Return
    /\ UNCHANGED <<store, kernel, inMem, timer, firing, faults>>

RevertStatus ==
    /\ pc = "revert_status"
    /\ \/ SetStatus(vid, "reverted") /\ UNCHANGED faults
       \/ UNCHANGED versions /\ Fail("db")
    /\ Return
    /\ UNCHANGED <<model, row, ledger, baseline, kernel, inMem, timer, firing>>

-----------------------------------------------------------------------------
(* The process                                                             *)

\* Memory is lost: the handler in progress, the timer, the captured set.
Crash ==
    /\ pc # "down"
    /\ Fail("crash")
    /\ pc' = "down"
    /\ serving' = FALSE
    /\ cand' = AllAbsent /\ snaps' = NoTables /\ vid' = 0
    /\ inMem' = {}
    /\ timer' = 0
    /\ firing' = {}
    /\ UNCHANGED <<store, kernel>>

\* systemd starts the service again (Restart=on-failure).
Restart ==
    /\ Goto("down", "boot")
    /\ UNCHANGED <<store, kernel, locals, inMem, timer, firing, faults>>

Apply    == \/ ApplyBegin \/ ApplySnapshot \/ ApplyAbandon \/ ApplyRecord
            \/ ApplyArm \/ ApplyArmFails \/ ApplyLoad \/ ApplyLoadFails
            \/ ApplyFailClear \/ ApplyFailStatus
Confirm  == \/ ConfirmBegin \/ ConfirmClear \/ ConfirmStatus \/ ConfirmFails
            \/ ConfirmLedger \/ ConfirmBaseline
Revert   == \/ RollbackBegin \/ TimerFires \/ Recover \/ RecoverReturns
            \/ RevertLoad \/ RevertLoadFails \/ RevertClear
            \/ RevertClearFails \/ RevertStatus
            \/ \E v \in firing : AutoRevert(v) \/ AutoRevertReturns(v)

Edit     == \/ \E t \in Tables, c \in Cell : EditTable(t, c)
            \/ \E t, u \in Tables : RenameTable(t, u)

Next ==
    \/ Edit
    \/ Apply
    \/ Confirm
    \/ Revert
    \/ Crash
    \/ Restart

Spec == Init /\ [][Next]_vars

-----------------------------------------------------------------------------
(* Fairness: a handler that holds applyMu runs on, an armed timer expires, *)
(* systemd restarts the service.  A waiting autoRevert competes with the   *)
(* requests for applyMu; Go's mutex hands itself to a waiter that starves, *)
(* hence strong fairness.  Operators and editors owe nothing.              *)

Handler == pc \notin {"idle", "down"} /\ (Apply \/ Confirm \/ Revert)

FairSpec ==
    /\ Spec
    /\ WF_vars(Handler)
    /\ WF_vars(TimerFires)
    /\ WF_vars(Restart)
    /\ \A v \in 1..MaxVersions : SF_vars(AutoRevert(v) \/ AutoRevertReturns(v))

-----------------------------------------------------------------------------
(* Properties                                                              *)

\* What the variables hold, wherever the holder of applyMu is.
StateOK ==
    /\ model \in Configs
    /\ versions \in Seq(Version)
    /\ row \in [version : Nat, prev : Snapshots]
    /\ ledger \in SUBSET Tables
    /\ baseline \in {{}} \cup {{f} : f \in Snapshots}
    /\ kernel \in Configs
    /\ serving \in BOOLEAN
    /\ cand \in Configs
    /\ snaps \in Snapshots
    /\ vid \in Nat
    /\ inMem \in {{}} \cup {{S} : S \in SUBSET Tables}
    /\ timer \in Nat
    /\ firing \in SUBSET Nat
    /\ faults \in [FaultKinds -> Nat]

\* What the variables hold, and the statements the holder may be at.
TypeOK ==
    /\ StateOK
    /\ pc \in {"idle", "apply_snapshot", "apply_record", "apply_arm",
               "apply_load", "fail_clear", "fail_status", "confirm_clear",
               "confirm_status", "confirm_ledger", "confirm_baseline",
               "revert_load", "revert_clear", "revert_status", "down", "boot"}

\* The newest version with one of the given statuses, 0 for none.
Newest(statuses) ==
    LET found == {v \in DOMAIN versions : versions[v].status \in statuses}
    IN  IF found = {} THEN 0 ELSE CHOOSE v \in found : \A w \in found : w <= v

\* The version LatestAppliedConfig answers with.
LatestApplied == Newest({"pending", "confirmed"})

LastConfirmed == Newest({"confirmed"})

\* The promise of SafeApply: the ruleset in force is the kernel with the
\* persisted snapshot put back over it.  No failed statement, failed nft run
\* or crash at any point of a handler leaves the kernel on a configuration the
\* operator has not confirmed without a snapshot that undoes exactly what that
\* apply touched; nor does an edit of the model or a confirm that is cut short.
Safe == INSTANCE SafeApply WITH
            Rulesets <- Configs,
            good     <- Restored(kernel, row.prev),
            armed    <- Pending,
            asked    <- pc = "confirm_clear"

ImplementsSafeApply == Safe!Spec

\* SetPendingApply never meets an earlier row, which would make it refuse and
\* leave the version it was to arm "pending" for ever: "the applyMu
\* serialization should make that impossible" (configversions.go:158-160).
ArmNeverRefused == pc = "apply_arm" => ~Pending

\* A confirmed version stays confirmed: neither a timer that fired before the
\* confirm and got applyMu after it, nor the recovery after a crash in the
\* middle of the confirm, reverts it.
ConfirmedStays ==
    [][\A v \in DOMAIN versions :
          versions[v].status = "confirmed" =>
              versions'[v].status = "confirmed"]_vars

\* A revert never runs inside an open confirm window: a stale autoRevert of an
\* earlier apply leaves the timer, and the kernel, of a later one alone.
RevertOnlyAfterWindow ==
    pc \in {"revert_load", "revert_clear", "revert_status"} => timer = 0

\* No crash and no failed SQL statement so far; nft may have failed.  Each of
\* the next four can be broken by a crash between two statements of a handler.
Intact == \A kind \in {"crash", "db"} : faults[kind] = Faults[kind]

\* When no handler runs, the version of the pending row is the only one marked
\* "pending": every other apply is settled as confirmed, reverted or failed.
StatusSettled ==
    pc = "idle" /\ Intact =>
        \A v \in DOMAIN versions :
            versions[v].status = "pending" <=> row.version = v

\* LatestAppliedConfig answers with what the kernel runs: a revert or a failed
\* apply falls back to the version before it (configversions.go:100-103).
LatestAppliedLoaded ==
    pc = "idle" /\ Intact /\ LatestApplied # 0 =>
        LET c == versions[LatestApplied].config
        IN  \A t \in Owned(c) : kernel[t] = c[t]

\* The ledger lists the tables of the configuration confirmed last, whatever
\* was edited during its confirm window (configversions.go:200-202).
LedgerIsConfirmed ==
    pc = "idle" /\ Intact /\ ~Pending =>
        ledger = IF LastConfirmed = 0 THEN {}
                 ELSE Owned(versions[LastConfirmed].config)

\* A table no applied configuration ever contained is never changed: the
\* scripts name owned tables only (render/apply.go:18-20).
NeverTouchesForeign ==
    [][\A t \in Tables :
          Intact /\ kernel'[t] # kernel[t] =>
              \E v \in DOMAIN versions : t \in Owned(versions[v].config)]_vars

\* No nft run and no SQL statement has failed; the process may have crashed.
Working == \A kind \in FaultKinds \ {"crash"} : faults[kind] = Faults[kind]

\* While nobody works on it, a pending apply has a timer that will revert it or
\* an autoRevert that waits for applyMu, as long as nft and the database work.
PendingHasTimer ==
    pc = "idle" /\ Pending /\ Working =>
        timer = row.version \/ row.version \in firing

\* "If you don't confirm within the window, the previous ruleset is restored"
\* (README.md:90-92): a pending apply is confirmed or reverted in the end, also
\* across restarts, unless an nft run or a statement fails.
ResolvedWhileWorking == Pending ~> ~Pending \/ ~Working
=============================================================================
