------------------------------ MODULE ListSync ------------------------------
(***************************************************************************)
(* Automated changes to a named list (internal/web/listsync.go): the block *)
(* API (internal/web/api.go) and the refresh of a sourced list             *)
(* (internal/web/listsource.go) change the list in the database and then   *)
(* push the difference into the live sets, past the apply pipeline.        *)
(*                                                                         *)
(* One list is modelled, and every table of the object model refers to it: *)
(* the content of a table is the set of its elements, and a configuration  *)
(* is known from the list and the tables that exist.  Only the push takes  *)
(* applyMu; a call reads the model and writes the list before it gets it.  *)
(***************************************************************************)
EXTENDS ApplyPipeline, SequencesExt

CONSTANTS
    Cidrs,     \* the entries a list may have, none overlapping another
    Callers,   \* requests to the API, or refreshes, in progress at a time
    Overlap    \* FALSE: the model is left alone while a call is in progress

ASSUME TablesAreFinite == IsFiniteSet(Tables)
ASSUME ContentsAreElements == Contents = SUBSET Cidrs
ASSUME OverlapAssumption == Overlap \in BOOLEAN

VARIABLES
    list,    \* the rows of list_entries
    calls,   \* per caller where it is, and its locals
    job      \* the locals of the push that holds applyMu

syncVars == <<list, calls, job>>
allVars  == <<vars, syncVars>>

\* No call: nothing was read (prior), nothing is to be added or deleted.
NoCall == [at |-> "idle", prior |-> AllAbsent, add |-> {}, del |-> {}]
NoJob  == [todo |-> <<>>, pushed |-> FALSE, ok |-> TRUE]

\* Who holds applyMu for a push, if anyone.
Pusher == CHOOSE a \in Callers : calls[a].at \in {"pushing", "recording"}

SyncInit ==
    /\ Init
    /\ list \in SUBSET Cidrs
    /\ calls = [a \in Callers |-> NoCall]
    /\ job = NoJob

\* (mutant) Writes the list only: the tables keep what they rendered.
SetListOnly(l) ==
    /\ list' = l
    /\ UNCHANGED model

\* The list becomes l, and every table that refers to it renders it.
SetList(l) ==
    /\ list' = l
    /\ model' = [t \in Tables |-> IF t \in Owned(model) THEN l ELSE Absent]

\* Nobody but the caller a works on the model or the list.
Alone(S) == Overlap \/ \A b \in Callers \ S : calls[b].at = "idle"

-----------------------------------------------------------------------------
(* The operator: tables that refer to the list come and go, entries are    *)
(* edited by hand (no push).                                               *)

EditModel ==
    /\ Alone({})
    /\ \E t \in Tables, c \in {list, Absent} : EditTable(t, c)
    /\ UNCHANGED syncVars

\* handleListEntryAdd, handleListEntryDelete and handleQuickBlock.
EditList ==
    /\ serving
    /\ Alone({})
    /\ \E x \in Cidrs : SetList((list \ {x}) \cup ({x} \ list))
    /\ UNCHANGED <<versions, row, ledger, baseline, kernel, process, faults,
                   calls, job>>

-----------------------------------------------------------------------------
(* The calls                                                               *)

Step(a, from, call) ==
    /\ calls[a].at = from
    /\ calls' = [calls EXCEPT ![a] = call]

Keep == UNCHANGED <<vars, list, job>>

\* handleAPIBlock and handleAPIUnblock capture the model first.  Unblock has
\* found the entry in the list by then.
BlockStart(a, x) ==
    /\ serving
    /\ Alone({a})
    /\ Step(a, "idle", [NoCall EXCEPT !.at = "add", !.prior = model,
                                      !.add = {x}])
    /\ Keep

UnblockStart(a, x) ==
    /\ serving
    /\ Alone({a})
    /\ x \in list
    /\ Step(a, "idle", [NoCall EXCEPT !.at = "delete", !.prior = model,
                                      !.del = {x}])
    /\ Keep

\* AddListEntry refuses what is there, DeleteListEntry what is not: the call
\* ends.  Else the list changes and the call goes on to push.  (An entry that
\* somebody else deleted and added again has a new id: it is not there.)
WriteEntry(a) ==
    LET c == calls[a] IN
    /\ \/ c.at = "add" /\ list \cap c.add = {}
       \/ c.at = "delete" /\ c.del \subseteq list
    /\ Step(a, c.at, [c EXCEPT !.at = "push"])
    /\ SetList((list \ c.del) \cup c.add)
    /\ UNCHANGED <<versions, row, ledger, baseline, kernel, process, faults,
                   job>>

WriteEntryRefused(a) ==
    LET c == calls[a] IN
    /\ \/ c.at = "add" /\ list \cap c.add # {}
       \/ c.at = "delete" /\ (Overlap \/ ~(c.del \subseteq list))
    /\ Step(a, c.at, NoCall)
    /\ Keep

\* refreshList: capture the model, read the entries, replace them all with what
\* the source has, read them again for the difference.
RefreshStart(a) ==
    /\ serving
    /\ Alone({a})
    /\ Step(a, "idle", [NoCall EXCEPT !.at = "before", !.prior = model])
    /\ Keep

RefreshBefore(a) ==
    /\ Step(a, "before", [calls[a] EXCEPT !.at = "replace", !.del = list])
    /\ Keep

RefreshReplace(a) ==
    /\ Step(a, "replace", [calls[a] EXCEPT !.at = "after"])
    /\ \E feed \in SUBSET Cidrs : SetList(feed)
    /\ UNCHANGED <<versions, row, ledger, baseline, kernel, process, faults,
                   job>>

RefreshAfter(a) ==
    LET before == calls[a].del IN
    /\ Step(a, "after", [calls[a] EXCEPT !.at = "push",
                                         !.add = list \ before,
                                         !.del = before \ list])
    /\ Keep

\* The error of the first read is ignored, as if the list had had no entry.
\* When the replace or the second read fails the refresh ends without a push.
RefreshFails(a) ==
    /\ \/ Step(a, "before", [calls[a] EXCEPT !.at = "replace"])
       \/ \E from \in {"replace", "after"} : Step(a, from, NoCall)
    /\ Fail("db")
    /\ UNCHANGED <<store, kernel, process, list, job>>

-----------------------------------------------------------------------------
(* pushSetElements                                                         *)

\* The model was what is applied when the call began, and no apply is armed.
InSync(a) ==
    /\ LatestApplied # 0
    /\ versions[LatestApplied].config = calls[a].prior
    /\ ~Pending

\* The nft runs of a push: per table, in some order, the deletions and then the
\* additions, skipping what is empty.
Operations(a, order) ==
    LET n         == Len(order)
        all(kind) == [i \in 1..n |-> <<kind, order[i]>>]
        both      == [i \in 1..(2 * n) |->
                         <<IF i % 2 = 1 THEN "del" ELSE "add",
                           order[(i + 1) \div 2]>>]
    IN  IF calls[a].del = {} THEN all("add")
        ELSE IF calls[a].add = {} THEN all("del")
        ELSE both

\* (mutant) Pushes although an apply is armed.
PushBeginInWindow(a) ==
    /\ Goto("idle", "push")
    /\ calls[a].add \cup calls[a].del # {}
    /\ LatestApplied # 0
    /\ versions[LatestApplied].config = calls[a].prior
    /\ Step(a, "push", [calls[a] EXCEPT !.at = "pushing"])
    /\ cand' = model
    /\ \E order \in SetToSeqs(Owned(model)) :
          job' = [NoJob EXCEPT !.todo = Operations(a, order)]
    /\ UNCHANGED <<store, kernel, snaps, vid, inMem, timer, firing, faults,
                   list>>

\* (mutant) Re-points the applied config to the model as it was before the call.
PushBeginStale(a) ==
    /\ Goto("idle", "push")
    /\ calls[a].add \cup calls[a].del # {}
    /\ InSync(a)
    /\ Step(a, "push", [calls[a] EXCEPT !.at = "pushing"])
    /\ cand' = calls[a].prior
    /\ \E order \in SetToSeqs(Owned(model)) :
          job' = [NoJob EXCEPT !.todo = Operations(a, order)]
    /\ UNCHANGED <<store, kernel, snaps, vid, inMem, timer, firing, faults,
                   list>>

\* applyMu is taken, the checks pass, the model is read again.
PushBegin(a) ==
    /\ Goto("idle", "push")
    /\ calls[a].add \cup calls[a].del # {}
    /\ InSync(a)
    /\ Step(a, "push", [calls[a] EXCEPT !.at = "pushing"])
    /\ cand' = model
    /\ \E order \in SetToSeqs(Owned(model)) :
          job' = [NoJob EXCEPT !.todo = Operations(a, order)]
    /\ UNCHANGED <<store, kernel, snaps, vid, inMem, timer, firing, faults,
                   list>>

\* Nothing to push (no lock is needed to see that), or a check fails: the
\* change is left to the next apply.
PushSkips(a) ==
    /\ \/ calls[a].add \cup calls[a].del = {} /\ UNCHANGED faults
       \/ pc = "idle" /\ ~InSync(a) /\ UNCHANGED faults
       \/ pc = "idle" /\ Fail("db")
    /\ Step(a, "push", NoCall)
    /\ UNCHANGED <<store, kernel, pc, serving, locals, inMem, timer, firing,
                   list, job>>

\* One nft run.  It is refused when the table is not loaded or an element to
\* delete is not there.
PushElements ==
    LET op   == Head(job.todo)
        t    == op[2]
        els  == calls[Pusher][op[1]]
        can  == /\ kernel[t] # Absent
                /\ op[1] = "del" => els \subseteq kernel[t]
        done == [kernel EXCEPT ![t] = IF op[1] = "add" THEN @ \cup els
                                                       ELSE @ \ els]
        Note(ok) == job' = [todo   |-> Tail(job.todo),
                            pushed |-> job.pushed \/ ok,
                            ok     |-> job.ok /\ ok]
    IN  /\ pc = "push" /\ job.todo # <<>>
        /\ \/ can /\ kernel' = done /\ Note(TRUE) /\ UNCHANGED faults
           \/ ~can /\ UNCHANGED <<kernel, faults>> /\ Note(FALSE)
           \/ Fail("nft") /\ UNCHANGED kernel /\ Note(FALSE)
           \/ can /\ Fail("kill") /\ kernel' = done /\ Note(FALSE)
        /\ UNCHANGED <<store, process, list, calls>>

\* No nft run succeeded: the push returns.
PushNothing ==
    /\ pc = "push" /\ job.todo = <<>> /\ ~job.pushed
    /\ Return
    /\ calls' = [calls EXCEPT ![Pusher] = NoCall]
    /\ job' = NoJob
    /\ UNCHANGED <<store, kernel, inMem, timer, firing, faults, list>>

\* All went well: the config of the version LatestAppliedConfig answers with
\* becomes the model that was read under the lock.
PushRepoint ==
    /\ job.todo = <<>> /\ job.pushed
    /\ Goto("push", "push_record")
    /\ \/ /\ job.ok
          /\ versions' = [versions EXCEPT ![LatestApplied].config = cand]
          /\ UNCHANGED faults
       \/ ~job.ok /\ UNCHANGED <<versions, faults>>
       \/ job.ok /\ UNCHANGED versions /\ Fail("db")
    /\ calls' = [calls EXCEPT ![Pusher].at = "recording"]
    /\ UNCHANGED <<model, row, ledger, baseline, kernel, locals, inMem, timer,
                   firing, list, job>>

\* (mutant) Returns without recording the fingerprint of what was pushed.
PushRecordSkipped ==
    /\ pc = "push_record"
    /\ Return
    /\ calls' = [calls EXCEPT ![Pusher] = NoCall]
    /\ job' = NoJob
    /\ UNCHANGED <<store, kernel, inMem, timer, firing, faults, list>>

\* The deferred recordAppliedFingerprint, and the return.
PushRecord ==
    /\ pc = "push_record"
    /\ \/ /\ baseline' = IF ledger = {} THEN baseline
                         ELSE {Listing(kernel, ledger)}
          /\ UNCHANGED faults
       \/ UNCHANGED baseline /\ (Fail("nft") \/ Fail("db"))
    /\ Return
    /\ calls' = [calls EXCEPT ![Pusher] = NoCall]
    /\ job' = NoJob
    /\ UNCHANGED <<model, versions, row, ledger, kernel, inMem, timer, firing,
                   list>>

-----------------------------------------------------------------------------
\* The requests in progress die with the process.
SyncCrash ==
    /\ Crash
    /\ calls' = [a \in Callers |-> NoCall]
    /\ job' = NoJob
    /\ UNCHANGED list

Call(a) ==
    \/ \E x \in Cidrs : BlockStart(a, x) \/ UnblockStart(a, x)
    \/ WriteEntry(a) \/ WriteEntryRefused(a)
    \/ RefreshStart(a) \/ RefreshBefore(a) \/ RefreshReplace(a)
    \/ RefreshAfter(a) \/ RefreshFails(a)
    \/ PushBegin(a) \/ PushSkips(a)

Push == PushElements \/ PushNothing \/ PushRepoint \/ PushRecord

SyncNext ==
    \/ (Apply \/ Confirm \/ Revert \/ Restart) /\ UNCHANGED syncVars
    \/ SyncCrash
    \/ EditModel
    \/ EditList
    \/ \E a \in Callers : Call(a)
    \/ Push

SyncSpec == SyncInit /\ [][SyncNext]_allVars

-----------------------------------------------------------------------------
(* Properties                                                              *)

SyncTypeOK ==
    /\ list \in SUBSET Cidrs
    /\ \A t \in Owned(model) : model[t] = list
    /\ calls \in [Callers ->
            [at    : {"idle", "add", "delete", "before", "replace", "after",
                      "push", "pushing", "recording"},
             prior : Configs, add : SUBSET Cidrs, del : SUBSET Cidrs]]
    /\ job \in [todo : Seq({"add", "del"} \X Tables),
                pushed : BOOLEAN, ok : BOOLEAN]

\* The one step of the pipeline in a window that runs a script.
Loading == pc \in {"apply_load", "revert_load"}

\* A push "never touches the kernel mid apply-window" (listsync.go:31): while an
\* apply is armed the kernel changes by its own script or its revert's only, and
\* neither the fingerprint nor the config of a version, which a push re-points,
\* changes at all; whenever a block or a refresh read the model, wrote the list
\* and asked for the lock, and whatever fails or restarts on the way.
WindowUndisturbed ==
    [][Pending /\ ~Loading =>
          /\ UNCHANGED <<kernel, baseline>>
          /\ \A v \in DOMAIN versions :
                versions'[v].config = versions[v].config]_allVars

\* The Changes page shows no difference only when the kernel runs the model: a
\* push that did not reach every set leaves its change to be seen as pending,
\* "for a normal apply to reconcile" (listsync.go:84-86).
QuietMeansLoaded ==
    /\ pc = "idle"
    /\ LatestApplied # 0
    /\ model = versions[LatestApplied].config
    /\ \A a \in Callers : calls[a].at = "idle"
    => \A t \in Owned(model) : kernel[t] = model[t]
=============================================================================
