# nftably: TLA+ models, model checking and proofs

nftably is a web front end for nftables. Its object model of the firewall (tables, chains, rules, flowtables, named lists) lives in SQLite. An *apply* renders the model, loads it into the kernel with `nft -f`, and puts back what ran before unless the operator confirms within a minute. Around that pipeline, an API and a refresher push list elements into live sets, ban rules fill sets in the kernel, a poller watches for changes nobody made through nftably and sends alerts, one-click tools write rules, and a simulator predicts what a packet would meet.

This directory holds the TLA+ modules, the TLC configurations that check them on small instances, and TLAPS proofs for every instance. `PROJECT.json` lists the components, the runs with what each shows, a mutant of the code for every property, the source lines behind every definition, the findings, the hazards and the theorems.

1. [Inventory](#1-inventory): the system's parts, their state, and what makes them correct
2. [Modules](#2-modules): how state and actions correspond to the code
3. [Runs](#3-runs): what is checked, with which bounds
4. [Fairness](#4-fairness)
5. [Proofs](#5-proofs)
6. [Findings and known limits](#6-findings-and-known-limits)
7. [Assumptions, and what is not modelled](#7-assumptions-and-what-is-not-modelled)
8. [Plan](#8-plan)

## 1. Inventory

Paths are relative to `src/internal/` unless they start with `cmd/` or `deploy/`.

| Component | State it keeps | Operations | Correct when |
|---|---|---|---|
| Apply pipeline (`web/apply.go`, `render/apply.go`, `store/configversions.go`) | SQLite `config_versions`, `pending_apply` (at most one row), `applied_state` (the ledger of owned tables); in memory `applyMu`, `pendingTimer`, `pendingAppliedTables`; the kernel's tables | apply, confirm, rollback, auto-revert at the timer, recovery at start-up | an unconfirmed ruleset never runs without a persisted way back; only a confirm gives it up; versions, ledger and kernel agree at rest; foreign tables are left alone |
| List sync (`web/listsync.go`, `web/api.go`, `web/listsource.go`) | `ip_lists`, `list_entries`; the elements of live sets; the config of the last applied version | block, unblock, refresh: write the list, then push the difference past the pipeline | never inside a confirm window; what is stored as applied is what the kernel runs |
| Drift detection (`web/drift.go`, `render/canonical.go`, `web/poller.go`) | the recorded fingerprint; the flag the pages show; the poller's last verdict | record after a confirm or push; compare every minute | no alarm for nftably's own changes, and none missed for ever |
| Bans (`web/bans.go`, `nft/sets.go`) | timeout sets in the kernel only | a rule bans; the ban runs out; the operator lifts it; an apply reads the sets and adds their elements again | applies and reverts neither forget bans nor bring back lifted ones nor make them endless |
| Object model (`store/model.go`, `web/firewall.go`) | `nft_tables`, `nft_chains`, `nft_rules` with a position each | create, delete, move up and down, drag, move to another chain | positions stay distinct in each scope, nothing is orphaned, rules stay in their table |
| Simulator (`simulate/`) | none: a pure walk over the candidate rules | simulate one packet | what it does not flag as uncertain is what netfilter does; it ends |
| Address lists (`store/lists.go`, `web/lists.go`, `web/api.go`) | `ip_lists`, `list_entries`; rules refer to lists by name | create, edit, delete a list; add, block, delete an entry | nft takes what is rendered: no overlapping entries, no reference to a list that is gone |
| Refresher (`web/listsource.go`) | the outcome of the last refresh of each list; the lists left in a round | fetch and replace, on request and every 12 hours | a list holds one answer of its source, never a mix; one failing feed stops no other |
| Alerts (`web/poller.go`, `web/alerts.go`, `notify/`, `store/alerts.go`) | what was seen in the last sample; a queue of 256; a time stamp per kind and subject; `alert_destinations` | sample, queue, send with a cooldown; save and delete a destination | the last word received is true, a ban is announced once, nobody blocks the worker |
| Rule tools (`web/presets.go`, `web/posture.go`, `web/advisor.go`, `web/lists.go`, `web/blockcountry.go`) | base chains, rules and lists of the object model | apply a preset, a fix, an auto-ban, the IDS rule, Allow, Block, Block country | the rules do what the button says, and leave alone what it does not mention |
| Rule checks (`web/posture.go`, `render/lint.go`, `web/lockout.go`, `advisor/analyze.go`) | none: predicates on the rules | posture checks, lint, lock-out warnings, findings | what a page says is true of the kernel |
| Backup and restore (`web/backup.go`, `web/changes.go`) | all tables of the object model | reset, then insert row by row, without a transaction | a refused document leaves the old model |
| Process (`cmd/nftably/server.go`, `deploy/nftably.service`) | | start: open the database, recover a pending apply, start refresher, poller and backup scheduler, serve | recovery is over before a request is served |
| Login, sessions, access list (`web/auth.go`, `store/sessions.go`, `store/access.go`) | sessions, users, failed attempts | log in, log out, change password | |
| Renderer, catalogue, diff, parsers (`render/`, `nftcat/`, `nft/parse.go`) | none | text in, text out | |
| Views (connections, metrics, logs), learn mode, GeoIP | files and what the kernel reports | computed per request | |

How they interact:

- *Calls under `applyMu`.* Apply, confirm, rollback, auto-revert, recovery and a list push hold it from their first to their last statement. Editors, list writes, bans, lifting a ban, the poller and a restore do not take it, so they fall between any two statements of those that do.
- *Shared state.* The database (every statement commits alone), the kernel's ruleset (every `nft -f` commits as a whole), and the fields of `Server` that a crash erases.
- *Callbacks.* The confirm timer starts `autoRevert` in a goroutine that then waits for `applyMu`; by the time it gets it, its apply may have been confirmed, rolled back or followed by another.
- *Goroutines.* The poller, the refresher and the one worker of the notification queue run next to the requests; the poller hands alerts to the worker through a bounded channel, and the worker reads the destinations anew for each.
- *The kernel on its own.* Ban rules add elements, and timeouts remove them, whatever nftably does.

What is hard: a crash between two statements of a handler; one statement of several failing; `nft` killed at its timeout after the kernel has committed; a timer that fires while a confirm runs; state read before the lock is taken and used after; two pages of different age; a tick of the poller across an apply; a row read before a fetch of two minutes and written after it; rules put before and behind rules that somebody else wrote. The hazards in `PROJECT.json` name the line where each of them bites and the properties that would notice.

## 2. Modules

```
SafeApply <--- ApplyPipeline <--- ListSync <--- DriftWatch <--- ListSyncProofs
                 ^     ^                                              |
                 |     +--- Bans <--- BansProofs                      |
                 |                       |                            |
       ApplyPipelineProofs <-------------+----------------------------+

  ObjectModel <--- ObjectModelProofs     AddressLists <--- AddressListsProofs
  Simulator   <--- SimulatorProofs       Alerts       <--- AlertsProofs
  Rulebook    <--- RulebookProofs
```

(An arrow points from a module that extends or instantiates to the one it uses. Each `MC` module extends one of these and defines constants for TLC.)

**`ApplyPipeline`.** One action per statement of a handler that changes state. `pc` is where the holder of `applyMu` is, `"idle"` when nobody holds it. `versions`, `row`, `ledger` and `baseline` are the SQLite tables and the fingerprint setting; `cand`, `snaps` and `vid` the locals of the handler; `inMem`, `timer` and `firing` the memory of the process (captured tables, armed timer, `autoRevert`s that wait). A configuration maps each table to its content or to `Absent`; what the scripts do to the kernel is `Loaded` and `Restored`, what a snapshot holds is `Listing`. Failures are steps of their own, drawn from a budget per kind: the process dies, an nft run fails, nft is killed after it committed, an SQL statement fails. A statement that ignores its error goes on, one that does not returns, as in the code.

**`SafeApply`.** The promise, in six actions: the kernel leaves the ruleset in force only while a way back is armed. `ApplyPipeline` implements it under the mapping "the ruleset in force is the kernel with the persisted snapshot put back over it", so the promise needs no history variable: it says that the row in the database is, at every moment a crash may choose, enough.

**`ListSync`.** Adds the rows of one list, and per caller the statement its request is at with what it has read (`prior`, `add`, `del`). Requests run in parallel; only the push takes `applyMu`. A refresh whose first read fails goes on as if the list had been empty, as `listEntryDelta` sees it then; one whose replace or second read fails ends without a push (`RefreshFails`). The push is one step per nft run, in any order of the tables, each of which may be refused, fail or be killed.

**`DriftWatch`.** Adds the poller: it reads the fingerprint, then the ledger, then each table, a step each, with everything of `ListSync` in between, and an operator who changes tables with `nft`. A handler that has saved a fingerprint lowers the flag in a later step (`lower`, `LowerFlag`), with the lock still held; its listing and its save are one step, since nobody but a foreigner changes the kernel while it holds the lock. `tampered`, `calm` and `missed` are history variables for stating what an alarm may mean: what somebody else has changed, whether the tick began with nftably's changes on record (`OnRecord`: no apply armed, no confirm or push between its change and its record) and met no further one, and whether nftably itself left a change unrecorded, because the fingerprint could not be taken or because it was cut short before (`CutShort`: nft killed after its commit, or a confirm that fails once the row is gone).

**`Bans`.** Adds the elements of one timeout set per table, with the time left in half seconds (the code reads whole seconds). Steps that load a script also change the elements: an apply adds again what it read (`kept`), a revert what the listing holds (`shot`). `steady` and `lifted` are history variables.

**`ObjectModel`.** A row is a scope and a position. One action per transaction; a move between chains is checked in one step and carried out in another. A drag comes with the page it was made on: any sequence of ids the scope may once have had.

**`Simulator`.** The recursion of `walk` as a stack of frames, next to netfilter's evaluation of the same rules for a packet that fits the description. Conditions are three-valued in the walk and two-valued in the kernel; conditions the simulator does not know may hold or not. The walk ends with the first base chain's verdict; netfilter goes on to every base chain on the hook in the order of priorities, any order among equals, and lets in what all of them accept (`Enter`, `KDecided`). A condition has the values nft compares with (`values`) and those the matcher finds in its text (`read`); where the code answers unknown for a token it cannot parse the condition is `open`. `Described` is what the walk ignores without a flag (section 6): raw lines, verdict maps, rate limits on a rule that decides, values it does not read (`Legible`), and base chains of one family when the packet has no address. `MCSimulator` asserts it of its instance and `CertainAnswers` assumes it.

**`Alerts`.** The poller samples nft, the dynamic sets and the reachable services, a step each, with what happens in the world in between. `Notify` puts what is new into the bounded queue. The worker takes one alert at a time, drops it within the cooldown, and serves the destinations in turn: a post is one step (the client has a time limit), an email is a step per exchange, so that the step without a deadline shows. A restart empties the queue, the samples and the cooldowns. What a poller finds wrong with nft is one of three: fine, unreadable, missing. `told`, `missed`, `overflow` and `news` are history variables for what a destination may believe.

**`AddressLists`.** A row per list, its entries as prefixes (first address and size, masked: `Masked`), and the names rules refer to. A request is a sequence of statements with what it has read (`procs`), and so is the loop over the lists that are due (`todo`, read once per round). A refresh reads the row, fetches, replaces the entries and stamps the row; the fetch and the replace may fail (`RefreshFails`). `Sorted` and `Deduped` are `dedupePrefixes`: a sort is a permutation in order, the running cover a recursive function over the places, and the result is compared with the widest prefixes of the answer. `hand`, `raced` and `loose` record what the store does not guard against, so that the properties can name it; section 6 lists them.

**`Rulebook`.** Base chains of rules, each a set of conditions and an action. A preset is what `buildBGPPreset` and its siblings leave, table by table; one that breaks off (`PresetBreaksOff`) has deleted only some of the old tables (`ResetBreaksOff`), or has no table and perhaps not all of its lists (`ListsBreakOff`), or leaves the tables before whole and the one it was at `Unfinished` (`BuildBreaksOff`): chains first, then rules, up to the chain and the rule of a pair in `BreakPoints`. Which lists are there by then follows the code: blacklist after the others, the list of the application between the base rules and its own (`ListsAt`). The seeding of mgmt may fail unnoticed. The tools put rules at either end of the chain the code picks. `Passes` is netfilter's evaluation over all base chains of a hook; next to it are the predicates of the pages (`Passing`, `LintWarns`, `LockoutWarns`, `Finding`), each with the shortcuts of the code: the text search that finds 22 in 2222, all input chains seen as one, rules that are switched off, an interface that is left open when the host shows none (`TraceIifs`). `Promised` and `Routed` are read off the points on the presets' cards, which is what the properties compare netfilter with.

## 3. Runs

| Run | Module | Question |
|---|---|---|
| `apply_faults` | `MCApplyPipeline` | Does the pipeline keep its promise with failures anywhere? |
| `bans` | `MCBans` | Do bans survive, and lifted bans stay lifted, across applies and reverts? Is every apply resolved while nft works? |
| `push_window` | `MCDriftWatch` | Can a push disturb a confirm window, re-point the applied config to something else than what runs, or pass for drift, with any failure? |
| `drift_watch` | `MCDriftWatch` | Do two applies with their confirms and reverts pass for drift, and does the banner converge? |
| `objects` | `MCObjectModel` | Do two operators keep rows in a strict order? |
| `simulate` | `MCSimulator` | Is every unflagged answer right? |
| `alerts` | `MCAlerts` | Does everybody end up with the last word, and can a destination stop the others? |
| `lists` | `MCAddressLists` | Can overlapping requests, refreshes and restarts leave lists nft refuses, or half a feed? |
| `rulebook` | `MCRulebook` | Do presets and tools do what their cards say, in any order, and are the pages right about it? |
| `ban_endless`, `sync_race`, `lockout_unseen` | | One promise each that the code breaks, see section 6 |

The properties, by what would break them:

- `ImplementsSafeApply`: any path, through any failure, on which the kernel runs something unconfirmed that the persisted snapshot does not undo exactly. The mutant that snapshots the candidate's tables only is caught because a removed table would be lost.
- `ConfirmedStays`, `RevertOnlyAfterWindow`: a timer that fired before a confirm (or before the next apply) and gets the lock after it.
- `StatusSettled`, `LatestAppliedLoaded`, `LedgerIsConfirmed`, `NeverTouchesForeign`: two applies in flight at once, and disagreement of versions, ledger and kernel at rest. They hold as long as no crash and no SQL failure has happened (`Intact`); nft may fail. What a crash can do to each is in section 6.
- `PendingHasTimer`, `ResolvedWhileWorking`: an apply nobody will revert.
- `WindowUndisturbed`: while an apply is armed, any change of the kernel but the one load of its script and the one of its revert, and any change of the fingerprint or of the config of a version. A push that gets the lock inside the window would change the kernel, or re-point a config.
- `AppliedIsLoaded`: a push that re-points the applied config to something the kernel does not run.
- `AlarmHasCause`, `FlagConverges`: a confirm, a revert or a push that leaves fingerprint and kernel different, seen by a tick that begins after it; and a banner that lies for ever. The mutant that reverts to a snapshot without the removed tables is found by the tick after the second apply's revert, which compares with the first one's fingerprint.
- `BansSurvive`, `LiftedStays`: what is read before `nft -c` and added after it.
- `OrderIsTotal`, `OrderIsKept`, `RulesStayInTable`: positions that collide, moves that do more than they say, a move whose check is stale.
- `CertainIsRight`, `WalkEnds`: an answer shown as certain that netfilter, with all base chains on the hook, contradicts for one of the packets described; circular jumps. Only what a base chain behind an accept turns away is left out, which `simulate.go:82-85` documents.
- `LastWordIsCurrent`: an alert lost on a path nobody thought of, or two that change places. `BanAlertsAreNews`: a failed reading taken for an empty one, after which every ban is announced again. `WorkerMovesOn`: a step of a delivery without a time limit.
- `SetsLoad`: a deletion that misses a reference, a check that sees only half of the overlaps, a cover that forgets an enclosing prefix, two refreshes that mix. `EveryListTried`: a round that ends with the first failure.
- `PresetKeepsPromise`: a rule a later one shadows, a policy or a chain that is missing, a tool whose rule lands on the wrong side of an accept. `ToolsKeepAccess`: a fix that shuts somebody out. `DetectorsSeeAll`: a detector behind an accept. `BlockedIsDropped`: a drop behind the replies. `PassIsTrue`, `WarningsAreRight`: a predicate on the rules that netfilter contradicts: a check that passes, a lock-out warning of the lint or the simulator, a finding that is certain of a drop, or certain of an accept while there is one input chain. The lint's warnings about forward and output are not judged.

Bounds, all of them constants of the `.cfg` files:

- `MaxVersions` (applies in a behaviour): 2 for the pipeline, since what can go wrong between applies takes an earlier and a later one: a stale timer, a removed table, a version to fall back to. Two tables, one content: a table is present or not; symmetry in the tables.
- `Faults`: one crash, one failing nft run and one failing SQL statement in `apply_faults`, so that a failure meets the clean-up after another. An nft killed after its commit breaks the promise (section 6) and is left out there; `push_window` includes it. `bans` takes a crash and a failing nft run.
- `push_window`: one table, one entry, one caller, one apply, and one failure of each kind, a killed nft among them. One caller is enough to meet an apply, and `sync_race` needs no more. `Overlap = FALSE`: nobody edits while a call is in progress, which is the case in which `AppliedIsLoaded` holds; `sync_race` has `Overlap = TRUE`, and that edits do not matter to `WindowUndisturbed` is proved. `DriftTypeOK` includes the type invariant of `ListSync`. 2.5 million states.
- `drift_watch`: one table, two applies, one foreign edit, no pushes and no failures. Two applies are the fewest of which one meets a fingerprint: its window, its confirm and its revert are what could pass for drift. Pushes and failures are in `push_window`, and all together in the theorem `AlarmCause`. 1.4 million states.
- `bans`: one table, one source, a ban of three half seconds (one whole second and a rest), one ban, two applies.
- `objects`: two tables, two chains, three rules, two requests; positions from -1 to 3, which leaves room for an insert at either end and for gaps. Three rules are the fewest for which a move past two rows differs from one past its neighbour. Symmetry in ids: no action compares them.
- `simulate`: an input chain of two rules, a chain of two that may jump on, go on or jump to itself, a third chain, a second base chain before it, beside it or of type nat; eleven kinds of rules, one of them with a rate limit on a rule that decides nothing and one with an address list whose second token cannot be parsed; described and half-described packets; jumps followed two deep instead of sixteen, so that the limit is reached.
- `alerts`: two sources, one service and one destination, which is a Slack hook or an email at first and may be edited into another; a queue of two, so that it overflows; one individual alert per batch, so that there are summaries; a scan every other tick; a cooldown of two ticks; three turns of the world, which is down, up and down again; one event among restart, edit, unreadable store and alert of another handler. 769,000 states.
- `lists`: two lists, two requests at a time, two requests in all, one failing refresh, one restart. Two requests are the fewest that race, and the loop is a third party to them. Eight addresses: a feed nested three deep with the default route and something not listable, and two entries by hand, one inside the other. 386,000 states.
- `rulebook`: three clicks, of which one may be a preset that breaks off while it deletes, while it makes its lists, after its first chain (`<<0, 1>>`), in the middle of its input rules (`<<1, 6>>`) or after its base rules (`<<1, 12>>`), where the list of the application may be there or not. The pages trace on a real interface or on none. Three are a preset and a tool on either side of it, or two tools whose rules meet. Three addresses (management, a v6 peer, an outsider whose country may be blocked) and packets that meet every rule of every preset from either side. 131,000 states. `lockout_unseen` starts from a filled mgmt list and an empty blacklist, with two clicks.

Deadlock is checked wherever the system never stops. It may stop in `Simulator` (an answer was given), in `Rulebook` (the operator has clicked enough) and in `AddressLists` (the same, and the loop rests while no list is due).

## 4. Fairness

- A handler that holds `applyMu` runs on: it is straight-line code, and every nft run has a timeout (`nft/client.go:26`).
- An armed timer expires (`time.AfterFunc`), and systemd starts a service that died (`Restart=on-failure`).
- An `autoRevert` that waits for `applyMu` gets it: strong fairness, since requests compete for the lock; a Go mutex in starvation mode hands itself to the longest waiter.
- The poller's ticker keeps ticking, and a tick runs on.
- The worker of the queue runs on, and whatever it waits for with a time limit comes to an end: answers of a post, and the steps of an email under a deadline. No fairness for a wait without one, which is why `WorkerMovesOn` excludes the greeting of a mail server (section 6).
- The refresher's ticker ticks, statements return, and a fetch ends by its limit of two minutes (`EveryListTried`).
- Time passes (`Bans`), and a function call runs on (`Simulator`).
- Nothing is assumed of operators, editors, API callers, feeds or people with a shell.

## 5. Proofs

Every theorem is for all values of the constants: any number of tables, contents, entries, callers, ids, and any budget of failures.

**`ApplyPipelineProofs`.** `TypeCorrect`, `RevertWindow`, `ArmAccepted`, `ConfirmedFinal` from the inductive invariant `IInv == TypeOK /\ RowInv /\ VersionInv /\ TimerInv`:

- `RowInv` says at which statements `pending_apply` has a row, and that it is the row of the version the handler works on. It is needed because a handler deletes the row it found many statements ago.
- `VersionInv` says that a version a handler may still revert, and the version of the row, is not confirmed. Without it, `revert_status` could overwrite "confirmed".
- `TimerInv` says that the armed timer belongs to the row and is not also waiting in `firing`, and that a version about to be armed never was before. That is why a stale `autoRevert` cannot match a later row.

`Refinement` adds `SnapshotInv` (what the listing covers between the snapshot and the load, and that the kernel equals the restored one after a revert) and assumes `Faults["kill"] = 0`. The assumption is necessary: see the killed nft in section 6.

What holds at rest rests on `RestInv` on top of `IInv`. Its parts relate three records kept by different statements, so none is inductive alone:

- `LatestInv` (always): the pending version, and whatever version a handler works on, is the newest. Only then is "the last one" of the SQL queries the one meant.
- `SettledInv`, `LedgerInv`, `KnownInv` (while `Intact`): which versions are marked pending at each statement, that memory holds the tables of the pending version and the ledger those of the last confirmed one but for the statement in which it lags, and that ledger, snapshots and rows name tables of applied configurations only. They give `AllSettled`, `LedgerRight` and `ForeignUntouched`. `Intact` is part of the properties, and section 6 says what goes wrong without it.
- `TimedInv` gives `WindowCloses` without `Intact`: the process may crash anywhere, only nft and the database must work.
- `RunsInv` and `InForceInv` give `LatestRuns`: the pending version runs from its load to its revert, and the last confirmed one is what the kernel with the snapshot put back runs. `InForceInv` is carried by the refinement: in every step but a confirm, `SafeApply` says that the ruleset in force stays, and so does the last confirmed version. Hence the assumption `Faults["kill"] = 0` here too, and it is necessary for the same reason.

**`ListSyncProofs`.** `WindowSafe` proves `WindowUndisturbed` from the pipeline's `IInv` and `WindowInv`, whose part for this is that a push only runs without a row: a row is written only with the lock held, a push asks for none under the same lock, and what it writes afterwards (kernel, config, fingerprint) it writes before it gives the lock away. Hence no step but the load of the script and that of the revert touches the kernel while a row is there, whatever the calls have read before.

`SyncTypeCorrect` is from `SyncInv == IInv /\ SyncTypeOK /\ PusherInv`: the pipeline's invariant survives the steps of calls and pushes, and a push is one call's from the moment it takes the lock. `QuietIsLoaded` proves what the run `sync_race` refutes, under the hypothesis that nobody edits while a call is in progress (`Overlap = FALSE`) and until the first failure: the overlap is all there is to that race. Its invariant `SyncedInv` says what a call knows of the model it began with (`CallInv`: the difference it computed leads from there to the model as it is), what the tables hold between two nft runs of a push (`PushInv`), and puts the pipeline's invariants off while the push is at work (`RunningInv`).

Of `DriftWatch`, in the same module: `DriftTypeCorrect`; `AppliedLoaded`, which is `SyncedInv` until the first failure or foreign change, with `Overlap = FALSE`; and `AlarmCause`, for every budget of failures and with any overlap, from `CauseInv`:

- `UntamperedInv`: but for what somebody else has changed, the snapshot is what the kernel runs before the script and after its revert.
- `BaselineInv`: unless a statement that records is still due, the fingerprint is of the ledger's tables as they are in the ruleset in force, that is, with the pending snapshot put back. The kernel itself differs from it inside a window, which is why the property asks for a tick that begins outside of one.
- `PollInv`: in a tick that began on record and met no change of nftably's, everything the poller has read is still so.

The proof found the property false as first stated. The run has no killed nft and no SQL failures; with them, a change of nftably's own that is cut short before its record is reported as foreign at the next tick. `missed` notes it (`CutShort`), and the known limits in section 6 name the two paths.

**`BansProofs`.** `BanTypeCorrect`, `LiftedFinal` and `SurviveLoads` from `BanInv`, on top of `IInv` of the pipeline (`PipelineInv`: every step of `Bans` but the read of the sets is a step of the pipeline). `KeepInv` says where something read or listed is held; `LiftInv` that none of it bans a lifted source; `SteadyInv` that a ban in force since the snapshot is in everything that may be loaded; `GuardInv` that all of it is of tables that declare the set. `LoadEffect` and `RevertEffect` carry the argument that sets and tables change together or not at all. `WindowClosesWithBans` is `WindowCloses` for the pipeline with its extra step.

**`ObjectModelProofs`.** `PositionsDiffer`, `MovesKeepTable` and `NoOrphans` from `IInv == TypeOK /\ OrderIsTotal /\ MovesStay`. A drag gives each row its rank in the order "on the page first, by place; then the rest by old position", which is a strict total order on a finite set, so ranks differ. `MovesStay` says that a checked move still stays within a table if rule and target still exist, because ids are used once and chains never change table. `OthersKeepOrder` needs to know of every request which row it moves: pairs of rows whose order differs before and after all contain that row (`TurnsOnly`). For a move by one place this is because no row stands between the two that swap (`NeighbourTurns`), which uses that positions are distinct.

**`AddressListsProofs`.** `ListsTyped`, `RefsAlwaysResolve` and `NeverAMix` from `IInv == RowsInv /\ ProcsInv /\ RefsInv /\ EntriesInv`; `EntriesDisjoint` and, of all of it together, `ListsLoad`.

- `ProcsInv` says what a request holds at each of its statements: what it fetches has a source, what it replaces entries with is an answer, what it adds is one prefix.
- `RefsInv` adds `DyingInv` to `RefsResolve`: a list about to be deleted without another look has a name no rule refers to, or one in `loose`. It is needed because `DeleteList` looks for references under a name it read before, and some statements before it deletes.
- `EntriesInv` speaks of deleted lists too, since a refresh that comes late fills them.
- `OverlapInv` says that what an add has checked is still true when it inserts, or the list is `raced`.

`NeverAMix` needs nothing of `dedupePrefixes`. The others rest on what it does with any answer, in any order and with any duplicates: `AnswersWidest` (what is kept is exactly the widest listable prefixes) and `AnswersDisjoint`. The only assumption is what masking gives (`PrefixAssumption`): a prefix begins at a multiple of its size, and a size divides every larger one.

- `SortExists`: a permutation in order exists. It counts for every prefix those that come before it, equal ones by their index; this is injective from a finite set to as many places, hence onto.
- `CoverExists`: the recursion has a solution, since one for the first k prefixes gives one for k + 1; the first k without one is a least number. In this way the induction takes no operator as a parameter.
- `CoverHolds` is the invariant of the loop (`CoverInv`): the cover is the last prefix kept, all prefixes so far lie within a kept one, and a kept one ends before the next. Its step is `NotInside`, where the order counts: a prefix that begins in the cover and is wider would have come before it.
- `Nested` is "masked prefixes never partially overlap" of the comment (`store/lists.go:502`), from `Multiples`.

**`AlertsProofs`.** Of any number of sources, services and destinations:

- `AlertsTypeCorrect`, with the bound on the queue in it, from `AlertsInv`.
- `BansAnnouncedOnce` from `NewsInv`: what the last successful reading did not hold was free since it was last announced. A failed reading therefore must leave `seenBans` alone, and the first reading after a start must announce nothing.
- `LastWord` from `LastInv` (the last alert about nft in the queue is what the poller found last) and `WordInv` (with none in the queue, the one being delivered says it, and each destination already passed has heard it or is noted to have missed it). A destination that is edited counts as having missed something, since the worker goes on with the rows it has read.

`FiltersAreKinds` is what the form offers (`web/alerts.go:111`).

**`SimulatorProofs`.** `SimTypeCorrect` and `CertainAnswers`, for any rules, chains, sets and packets; the hypothesis `Described` is the list of what the walk does not look at, and is necessary. The verdict compared is that of all base chains on the hook: `RightInv` also says that netfilter, on its way through the base chains, is in the one the walk began at, or has it still to come, or the walk's answer is accept. So it lets nothing in that the walk turns away, and what turns away a packet that the walk lets in is another base chain, the exception in `CertainIsRight`.

- The walk and netfilter do not run in step: one answers before the other starts, and netfilter looks at one packet of the many that were described. What relates them is the *way* the walk has come, a set of spots (a rule and a stack of return addresses). `Walked(X)` says that netfilter, at any spot of X but the last, goes on within X whatever packet of the description it looks at, and that it gives no verdict but the walk's. `RightInv` says that such a set exists as long as nothing was flagged, and that netfilter is on it.
- `WalkStep` shows that the set with the spot just left added is the way after each step of the walk; `KernelRight` that netfilter never leaves it. No induction over the length of either run is needed.
- `ConditionRight` is the argument about conditions: an answer "yes" or "no" of `matchOne` is what every packet of the description gives, negation and missing fields included. `RuleSkips` and `RuleApplies` lift it to rules; there one condition that fails decides, whatever is not known of the others, as in the loop of the code.
- `Mirrors` relates the frames of the recursion, gotos included, with netfilter's stack, which holds jumps only; that a return pops every goto down to the last jump is `UpEffect` and `MirrorPop`.
- The first deciding statement of a rule and the first base chain are least elements. That they exist for any length is an induction; `Smallest` gets it from `WFMin` of `WellFoundedInduction` and the well-foundedness of `<` on the naturals, which take no operator as a parameter.

**`RulebookProofs`.** `TypesHold`, `DetectorsHold`, `BlockHolds`, `PassHolds`, `PromiseHolds`, `WarningsHold` and `AccessKept`: the seven properties of `rulebook`, for any addresses, lists, packets, ban forms, allowed ports and number of clicks, and any points where presets break off. They rest on `IInvHolds`, the invariant `IInv` in five parts:

- `StateTyped`, and that no list has the name of an auto-ban's set.
- `InputClean`, even after edits by hand: nothing in an input chain hands packets to user space, and nothing accepts before a detector. Recipes go on top, fixes and allowed ports behind, and hand edits add no rules.
- `SavedListed`: what the Block button reported is on the list.
- `ToolMade`, until somebody edits by hand: there is one input chain, all its rules are `Known`, the block lists are looked at before anything but loopback is accepted (`BlocksAbove`), and both drop rules are there for a list that was used to block. Without `Known`, "is there already" (`HasDrop`) would say nothing: it finds any rule that drops and names the list, wherever it stands and whatever else it asks.
- `PresetMade`: the input chain of a preset still has all its accepts and those of allowed ports, drops what is invalid before it accepts anything but loopback (`InvalidAbove`), and loopback before that (`LoopbackFirst`); the forward chain is that of the preset, with the IDS rule in front at most.

Then a packet is followed through the chain: `Deciding`, `NothingDrops`, `NothingAccepts` and `Decided` reduce `Passes` to what is first among the rules that fire, which exists by `Smallest`. `MoreRulesAccept` is the argument of `AccessKept`, for rules of any kind: rules that are added behind are only asked when nothing decided before, and those in front drop only what the property exempts. `TracedIs` says what a certain answer of the page's trace is: the verdict of the first rule that fires, on the first chain of the hook. Hence `WarningsHold` needs nothing of the rules; for a certain accept it needs that the first chain of the hook is the only one, and a traced packet without an interface stands for those from any but loopback (`Meant`).

The assumptions are on packets (`PacketsAssumption`: loopback comes from nobody's address, ports are not called like the markers of the model) and on names (`FormsAssumption`, section 7).

Only model-checked:

- All liveness (`ResolvedWhileWorking`, `FlagConverges`, `WorkerMovesOn`, `EveryListTried`, `WalkEnds`), which needs ENABLED.
- The failures the violation runs show: those are counterexamples on an instance. Of the three, `QuietMeansLoaded` is proved under the hypothesis that excludes it.

## 6. Findings and known limits

Each finding is a run that TLC refutes; `PROJECT.json` quotes the text the code contradicts.

- `ban_endless`: a ban in its last second is added again without a timeout.
- `sync_race`: what another request changes between a call's reading of the model and its push is stored as applied without being loaded.
- `lockout_unseen`: the simulated lock-out warning passes over uncertain answers (`web/lockout.go:43`), and on a preset's rules the answer for a connection that falls through to the policy is uncertain, because the ICMP accepts stand before the accepts of `@mgmt`. An operator who is neither on the filled mgmt list nor blacklisted is shut out unwarned; one who is blacklisted is warned, since that drop comes first.

What also goes wrong, and why it is not a run: these follow from the same steps, and the properties above carry the condition that excludes them.

Apply, list pushes and drift:

- *A revert is tried once* (`web/apply.go:244`). If its nft run fails, the unconfirmed ruleset stays until somebody acts or the service restarts. `ResolvedWhileWorking` asks that nft works.
- *A killed nft* (`nft/client.go:111`, `web/apply.go:150`). One that the client's own timeout kills after the kernel committed is taken for a rejection; the row, the only way back, is deleted. Hence no `kill` in `apply_faults`.
- *A tick of the poller inside the confirm window of a second apply* (`web/drift.go:86`) reports nftably's own change as "changed outside nftably": it does not ask whether an apply is pending, and the fingerprint is that of the last confirm or push.
- *A push or a confirm between two reads of a tick* (`web/drift.go:82`) is compared with the fingerprint from before it, and reported too. `AlarmHasCause` is about ticks that begin with everything on record and meet no further change; these two are the only others.
- *A refresh whose read of the old entries fails* (`web/listsource.go:104`, the error is ignored) pushes every entry as new and deletes none: entries that left the list stay in the kernel, and the applied config says they are gone. `AppliedIsLoaded` holds until a failure.
- *A change cut short before its record* is reported as foreign until the next record: an nft run that is killed after its commit, of a push as of an apply, and a confirm whose SQL fails once the row is gone (`web/apply.go:181`). `AlarmHasCause` leaves out such a history (`missed`).
- *A crash between two statements.* After the version is inserted and before it is armed (`web/apply.go:135`), or in a revert after the row is deleted and before the status is written (`:288`), `LatestAppliedConfig` answers with a config that is not loaded. In a confirm after the row is deleted (`:181`), the ledger stays that of the confirm before.
- *A failed start-up revert, then a confirm.* The new process has not captured the tables of the apply; the ledger is taken from the model as it is by then (`:194`), and a later apply may delete a table that was never nftably's.
- *Two reads of the model in one apply* (`:130`): an edit in between makes the stored document differ from the stored config.
- *A push that reached some tables only*, undone in the model: the Changes page shows nothing, the kernel keeps the element (`web/listsync.go:83`).
- *A push records the fingerprint of whatever the tables hold* (`web/listsync.go:80`): a foreign change made since the last tick is never reported.

Bans and the simulator:

- *Bans.* A ban that starts between the read and the load, or inside a window that ends in a revert, is lost; one lifted there returns. A revert prolongs bans by the length of the window. An element added again has the time that was left as its new timeout. Sets are matched by name only: if the type of a ban set is changed while bans are active, `nft -c` refuses the script.
- *Simulator.* Rate limits, verdict maps and raw lines are not flagged (`simulate/match.go:61`). A port by name, an interface wildcard (`wg*`) and a protocol by number are a certain "no" (`simulate/match.go:248-284`), where `simulate.go:7-10` promises an open answer and addresses get one; `Legible` leaves them out. Only the first base chain decides; a packet without addresses visits `ip` and `ip6` tables without a flag; a chain with n jumps to itself is walked n^16 times.

Alerts:

- *A mail server that accepts the connection and sends no greeting* holds the worker for as long as it likes (`notify/email.go:109`): the deadlines are set after it. `WorkerMovesOn` excludes it.
- *Telegram, ntfy and Gotify* are validated as email (`store/alerts.go:140`): their URL is lost, and they demand SMTP fields that they do not use.
- *The last word may be missing* after a restart during an outage (nothing says that nft is back), after down, up and down within the cooldown, and for a filter that names only the recovery.

Address lists:

- *Two adds at once* both pass the check (`store/lists.go:405`), and nft refuses the overlapping elements. `SetsLoad` leaves out lists that were `raced`.
- *Names.* Renaming a list that rules refer to is not refused, unlike deleting it (`store/lists.go:203`); the look-up before a deletion and the deletion are two statements. `SetsLoad` leaves out `loose` names.
- *A refresh that started before* overwrites a list that got another source or became a manual one meanwhile (`web/listsource.go:80`); a list with a new source keeps its old entries and its old date until the next refresh. Inserting into a list that was deleted leaves entries without a list.
- *A feed of addresses none of which can be listed* empties the list and counts as a success: what is checked for emptiness is not yet sifted (`web/listsource.go:246`). The note that a feed was cut off compares what is left after the sifting, and says nothing of the limit of 32 MB.

Rule tools:

- *Fixes come last.* The drop of invalid or spoofed packets stands behind the accepts of management and of allowed ports (`web/posture.go`), which still take them. Fixes can be applied twice.
- *Answers that are too sure.* "Already blocked" is said although no rule drops the list; a country whose look-up failed is reported as blocked on the second try, with an empty list; a ban of any service counts as a ban of SSH; an accept of 2222 counts as one of 22; a country of one's own is not refused.
- *A finding* is traced through the first input chain; with a second one made by hand, "reachable" may be false.
- *The lint cries wolf* over an accept made with a comparison (`tcp dport <= 1024`), which it does not take for one of SSH (`render/lint.go:178`). No tool makes such a rule, and `Rulebook` has none.
- *The lint is silent* when an accept of loopback or of ICMP is all that names no port. The posture page calls SSH open on a home router, where the interface limits it.
- *IDS.* The queue rule, once switched on, accepts all transit when nobody listens; the page says that packets then go on through the chain.
- *A preset* wipes the rules of a blocked country, and keeps its list.

## 7. Assumptions, and what is not modelled

- One SQL statement, or one transaction, commits as a whole and durably, or fails and changes nothing. In `ObjectModel` a failed transaction is a stutter.
- `nft -f` commits a script as a whole. A reboot of the host, which empties the kernel, is not modelled.
- `loadModel` reads several tables without a transaction; the models read in one step. (Hazard at `web/model.go:14`.)
- The content of a table is a value. That rendering is deterministic, that the canonical form of a listing is equal exactly when the table is, and that a listing can be loaded again is taken from `render/`; their code is text processing.
- Outside `Bans`, contents do not include elements that come and go by themselves; within it, all ban sets have the same name and type.
- `UpdateTable`, which no page calls, is modelled as `RenameTable` because the pipeline's removal of tables must also survive it.
- `ListSync` knows one list, to which every table refers, and entries that do not overlap.
- `ObjectModel` leaves out what rows say, so lost updates of a rule's flag are out of its sight.
- In `Alerts` a post is one step that ends, since the HTTP client has a time limit; the order of the members of a map, which Go leaves open, is any.
- In `AddressLists` what a source answers is drawn from a small set, as a whole; notes and the order of the lists are left out, and the push that follows a change is in `ListSync`.
- `FormsAssumption` of `Rulebook`: no address list has the name of an auto-ban's set, such as `ssh_abusers`. Nothing in the code refuses that name; nft would then find one set declared twice, and refuse the ruleset.
- In `Rulebook` a request is one step, but for a preset that breaks off: two operators who click tools at once are not modelled. Sets of ports and addresses are values; counters, limits and logs decide nothing and are left out, but for the limit of an auto-ban, which is "an abuser".
- In `Simulator`, addresses, ports and sets are reduced to membership; the outgoing interface, the source port and the destination address are matched as their counterparts are; tables of the families bridge and netdev, which the simulator counts among those that see the packet (`simulate/simulate.go:188`), are not modelled; the text of the trace is left out.

Not modelled at all, with reasons: backup, restore and version restore (next in the plan); login, sessions and access list (prefix tests and counters that share nothing with the rest); renderer, catalogue, diff and parsers (text); connections, metrics and logs (no state); learn mode (writes rules as Allow does); GeoIP downloads (a file is replaced); pages (presentation); command line tools (one shot). What rows of the object model say (edits and toggles of a rule) is seen as the content of a table by `ApplyPipeline` and as rules by `Rulebook`, but not statement by statement.

## 8. Plan

Done, in the order of importance to the promise of the program: `ApplyPipeline` with `SafeApply`; `ListSync`; `DriftWatch`; `Bans`; `ObjectModel`; `Simulator`; `Alerts`; `Rulebook`; `AddressLists`; proofs of all of them. Every safety property of a passing run is a theorem.

Next, in this order:

1. `ConfigRestore` (backup restore and version restore): a restore as a sequence of statements over the rows of `ObjectModel`, with crashes, failing statements, UNIQUE violations and applies in between. Abstract specification: the model is replaced at once or not at all. Expected: holds for documents that violate nothing and no failure.
2. A reader of `ObjectModel` that takes one step per table (`loadModel`), and what a torn model does to the pipeline; edits and toggles of a rule, where one of two clicks is lost (`web/firewall.go:729`) and a save whose move fails keeps the new content in the old chain (`:675`).
