----------------------------- MODULE DriftWatch -----------------------------
(***************************************************************************)
(* Drift detection: the part of the alert poller (internal/web/poller.go)  *)
(* that compares the live tables with the fingerprint recorded when        *)
(* nftably last wrote them (internal/web/drift.go), next to the apply      *)
(* pipeline, the list pushes, and an operator who changes the kernel with  *)
(* nft directly.  The poller takes no lock: between its reads everything   *)
(* else may happen.  A fingerprint is the listing it is the hash of.       *)
(***************************************************************************)
EXTENDS ListSync

CONSTANT MaxForeign   \* bound on the changes made outside nftably
ASSUME MaxForeignAssumption == MaxForeign \in Nat

VARIABLES
    poll,       \* where the poller is, and what it has read in this tick
    sampled,    \* st.drifted: the verdict of the tick before
    flag,       \* s.drifted: what the pages show
    lower,      \* a fingerprint was saved, and setDrifted(false) is still to come
    foreign,    \* how many changes outside nftably are still to come
    tampered,   \* history: the tables somebody else changed since the last
                \* confirm
    calm,       \* history: in this tick nftably left alone what the poller reads
    missed      \* history: nftably changed the kernel, and the fingerprint it
                \* should have recorded then was not recorded

driftVars  == <<poll, sampled, flag, lower, foreign, tampered, calm, missed>>
watchVars  == <<allVars, driftVars>>

\* base: the recorded fingerprint; refs: the ledger; live: the tables listed.
NoPoll == [at |-> "wait", base |-> {}, refs |-> {}, live |-> NoTables]

DriftInit ==
    /\ SyncInit
    /\ poll = NoPoll
    /\ sampled = FALSE
    /\ flag = FALSE
    /\ lower = FALSE
    /\ foreign = MaxForeign
    /\ tampered = {}
    /\ calm = TRUE
    /\ missed = FALSE

-----------------------------------------------------------------------------
(* The rest of the system, as the poller and the history variables see it. *)

\* nftably has recorded what it made of the kernel: no apply is armed, no
\* confirm or push is between its change and the fingerprint of it.
OnRecord == /\ ~Pending
            /\ pc \notin {"push", "push_record", "confirm_status",
                          "confirm_ledger", "confirm_baseline"}

\* recordAppliedFingerprint runs in this step; it saves a fingerprint.
AtRecord  == pc \in {"confirm_baseline", "push_record"} /\ pc' = "idle"
Recording == AtRecord /\ ledger # {} /\ faults' = faults

\* nft is killed after its commit, or a confirm fails once the row is gone: the
\* kernel is not what was recorded, and nobody records it again.
CutShort == \/ pc \in {"apply_load", "push"} /\ Fail("kill")
            \/ pc = "confirm_status" /\ pc' = "idle"

\* A saved fingerprint is followed by setDrifted(false), with applyMu still held;
\* a confirm takes what the kernel runs for nftably's own from then on.
SystemStep ==
    /\ SyncNext /\ ~SyncCrash
    /\ lower => UNCHANGED pc
    /\ lower' = (lower \/ Recording)
    /\ tampered' = IF Recording /\ pc = "confirm_baseline" THEN {}
                                                           ELSE tampered
    /\ calm' = (calm /\ ~AtRecord /\ UNCHANGED <<kernel, ledger>>)
    /\ missed' = IF AtRecord THEN ~Recording ELSE missed \/ CutShort
    /\ UNCHANGED <<poll, sampled, flag, foreign>>

\* setDrifted(false), and the handler returns.
LowerFlag ==
    /\ lower
    /\ lower' = FALSE
    /\ flag' = FALSE
    /\ UNCHANGED <<allVars, poll, sampled, foreign, tampered, calm, missed>>

\* The poller and the flag start afresh with the process.
DriftCrash ==
    /\ SyncCrash
    /\ poll' = NoPoll /\ sampled' = FALSE /\ flag' = FALSE /\ lower' = FALSE
    /\ calm' = FALSE
    /\ missed' = (missed \/ pc \notin {"idle", "boot"})
    /\ UNCHANGED <<foreign, tampered>>

\* Somebody changes a table with nft.
ForeignEdit ==
    /\ foreign > 0
    /\ foreign' = foreign - 1
    /\ \E t \in Tables, c \in Cell :
          /\ c # kernel[t]
          /\ kernel' = [kernel EXCEPT ![t] = c]
          /\ tampered' = tampered \cup {t}
    /\ UNCHANGED <<store, process, faults, syncVars, poll, sampled, flag, lower,
                   calm, missed>>

-----------------------------------------------------------------------------
(* checkDrift, one tick                                                    *)

PollRead == UNCHANGED <<allVars, lower, foreign, tampered, missed>>

\* (mutant) Loses its place.
PollBaselineLost ==
    /\ serving
    /\ poll.at = "wait" /\ baseline # {}
    /\ poll' = [NoPoll EXCEPT !.at = "baseline", !.base = baseline]
    /\ calm' = OnRecord
    /\ UNCHANGED <<sampled, flag>> /\ PollRead

\* The tick: read the recorded fingerprint.  There is none before the first
\* confirm, and then there is nothing to compare.
PollBaseline ==
    /\ serving
    /\ poll.at = "wait" /\ baseline # {}
    /\ poll' = [NoPoll EXCEPT !.at = "ledger", !.base = baseline]
    /\ calm' = OnRecord
    /\ UNCHANGED <<sampled, flag>> /\ PollRead

\* Read the ledger; an empty one ends the tick.
PollLedger ==
    /\ poll.at = "ledger"
    /\ poll' = IF ledger = {} THEN NoPoll
               ELSE [poll EXCEPT !.at = "list", !.refs = ledger]
    /\ UNCHANGED <<sampled, flag, calm>> /\ PollRead

\* List the owned tables one after the other.
PollTable(t) ==
    /\ poll.at = "list"
    /\ t \in poll.refs \ DOMAIN poll.live
    /\ poll' = [poll EXCEPT !.live =
                   [u \in DOMAIN @ \cup {t} |-> IF u = t THEN kernel[t]
                                                         ELSE @[u]]]
    /\ UNCHANGED <<sampled, flag, calm>> /\ PollRead

\* A listing fails: the tick ends without a verdict.
PollFails ==
    /\ poll.at = "list"
    /\ Fail("nft")
    /\ poll' = NoPoll
    /\ UNCHANGED <<store, kernel, process, syncVars, sampled, flag, lower,
                   foreign, tampered, calm, missed>>

Verdict == poll.base # {poll.live}

\* Every table is listed: the verdict.
Judged == poll.at = "list" /\ DOMAIN poll.live = poll.refs

\* An alert is sent when the verdict turns.
Alarm == Judged /\ Verdict /\ ~sampled /\ sampled'

\* (mutant) Only raises the flag, never lowers it.
PollVerdictSticky ==
    /\ Judged
    /\ flag' = (flag \/ Verdict)
    /\ sampled' = Verdict
    /\ poll' = NoPoll
    /\ UNCHANGED calm /\ PollRead

PollVerdict ==
    /\ Judged
    /\ flag' = Verdict
    /\ sampled' = Verdict
    /\ poll' = NoPoll
    /\ UNCHANGED calm /\ PollRead

Poll == PollBaseline \/ PollLedger \/ PollVerdict \/ PollFails
        \/ \E t \in Tables : PollTable(t)

DriftNext == SystemStep \/ LowerFlag \/ DriftCrash \/ ForeignEdit \/ Poll

DriftSpec == DriftInit /\ [][DriftNext]_watchVars

\* The ticker keeps ticking, and a tick runs on.  Nothing is owed by anyone
\* else: the property below only speaks of the poller.
DriftFairSpec == DriftSpec /\ WF_watchVars(Poll)

-----------------------------------------------------------------------------
(* Properties                                                              *)

DriftTypeOK ==
    /\ SyncTypeOK
    /\ poll \in [at   : {"wait", "ledger", "list"},
                 base : {{}} \cup {{f} : f \in Snapshots},
                 refs : SUBSET Tables,
                 live : Snapshots]
    /\ DOMAIN poll.live \subseteq poll.refs
    /\ {sampled, flag, lower, calm, missed} \subseteq BOOLEAN
    /\ foreign \in 0..MaxForeign
    /\ tampered \subseteq Tables

\* The live tables differ from what was recorded.
Drifting ==
    baseline # {} /\ ledger # {} /\ {Listing(kernel, ledger)} # baseline

\* An alert means that somebody else changed an owned table, in every tick that
\* found nftably's changes on record and met no further one: its own
\* applies, reverts, confirms and pushes leave the fingerprint equal to the
\* kernel (drift.go:13-16), unless they are cut short before they can record it.
\* In other ticks nothing keeps the poller from comparing two moments.
AlarmHasCause ==
    [][Alarm /\ calm /\ ~missed => \E t \in ledger : t \in tampered]_watchVars

\* As long as nothing fails and nobody else changes the kernel, what
\* LatestAppliedConfig answers is what the kernel runs, the elements pushed past
\* the pipeline included: the push re-points it to "the new render", of the
\* model read again under the lock (listsync.go:42-50).
AppliedIsLoaded ==
    foreign = MaxForeign /\ faults = Faults => LatestAppliedLoaded

\* When things come to rest, what the pages say about drift becomes true, and
\* stays so.
FlagConverges == /\ <>[](Drifting /\ serving) => <>[]flag
                 /\ <>[](~Drifting /\ baseline # {} /\ ledger # {} /\ serving)
                       => <>[]~flag
=============================================================================
