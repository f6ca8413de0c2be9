------------------------------- MODULE Alerts -------------------------------
(***************************************************************************)
(* Operational alerts: the poller that notices that nft went away, that    *)
(* the kernel banned a source or that a service became reachable           *)
(* (internal/web/poller.go), the queue and the one worker that delivers    *)
(* what it notices (internal/notify), and the destinations the operator    *)
(* edits meanwhile (internal/store/alerts.go, internal/web/alerts.go).     *)
(* The poller's drift check is DriftWatch.                                 *)
(*                                                                         *)
(* Time is counted in ticks of the poller.  A cooldown that ends between   *)
(* two ticks may or may not have ended when the worker looks.              *)
(***************************************************************************)
EXTENDS Naturals, Sequences, FiniteSets, SequencesExt

CONSTANTS
    Sources,        \* addresses the kernel may ban
    Services,       \* services that may become reachable from outside
    Dests,          \* names of alert destinations
    FormTypes,      \* the destination types the operator chooses from
    Filters,        \* the event filters the operator chooses from
    MaxPerBatch,    \* individual alerts per poll (5 in the code)
    MaxQueue,       \* capacity of the queue (256 in the code)
    ExposureEvery,  \* the scan runs once in so many ticks (5 in the code)
    Cooldown,       \* in ticks (two minutes, two ticks, in the code)
    Nobody,         \* the empty subject
    AlertFaults     \* bounds: "event" on restarts, edits, handler alerts and
                    \* failing reads of the store together, "world" on what happens to nft, to bans
                    \* and to services

ASSUME AlertBounds ==
    /\ {MaxPerBatch, MaxQueue, ExposureEvery} \subseteq Nat \ {0}
    /\ Cooldown \in Nat
    /\ AlertFaults \in [{"event", "world"} -> Nat]

VARIABLES
    nft,        \* what the poller would find: "ok", "unreadable", "missing"
    banned,     \* the members of the dynamic sets
    exposed,    \* the services the scan would report as reachable
    poll,       \* alertPollState, and where the poller is in its tick
    queue,      \* Dispatcher.queue
    work,       \* what the worker is delivering, and to whom it has not yet
    sent,       \* Dispatcher.last, as ticks left of each cooldown
    dests,      \* the alert_destinations table
    budget,     \* what AlertFaults still allows
    told,       \* history: what each destination last heard of nft
    missed,     \* history: the last queued alert about nft did not get there
    overflow,   \* history: the last alert about nft did not fit in the queue
    news        \* history: sources seen free of a ban since they were last
                \* announced, or since the process started

worldVars  == <<nft, banned, exposed>>
senderVars == <<queue, work, sent>>
histVars   == <<told, missed, overflow, news>>
alertVars  == <<worldVars, poll, senderVars, dests, budget, histVars>>

-----------------------------------------------------------------------------
(* Destinations                                                            *)

WebhookTypes == {"webhook", "slack", "discord"}
UrlTypes     == WebhookTypes \cup {"telegram", "ntfy", "gotify"}
AlertTypes   == UrlTypes \cup {"email"}
NoDest       == [type |-> "none"]

\* What Validate makes of a form: whether the URL and the SMTP fields that
\* came with it were filled in.  Everything known that is not a webhook kind
\* is taken for email.  NoDest when the form is sent back.
Validate(type, url, smtp, enabled, events) ==
    LET row == [type |-> type, url |-> FALSE, smtp |-> FALSE,
                enabled |-> enabled, events |-> events]
    IN  CASE type \in WebhookTypes /\ url    -> [row EXCEPT !.url = TRUE]
          [] type \in AlertTypes \ WebhookTypes /\ smtp ->
                [row EXCEPT !.smtp = TRUE]
          [] OTHER -> NoDest

\* An empty filter wants everything.
Wants(d, kind) == d.events = {} \/ kind \in d.events

\* (mutant) Every kind is subscribed to on its own.
FilterKindOwn(kind) == kind

\* A recovery follows its outage's subscription.
FilterKind(kind) == IF kind = "nft.up" THEN "nft.down" ELSE kind

Enabled == {d \in Dests : dests[d] # NoDest /\ dests[d].enabled}

-----------------------------------------------------------------------------
(* The queue                                                               *)

Kinds     == {"nft.down", "nft.up", "ban.new", "exposure.new",
              "apply.reverted"}
Throttled == Kinds \ {"apply.reverted"}
NftKinds  == {"nft.down", "nft.up"}
Subjects  == Sources \cup Services \cup {Nobody}
Alert     == [kind : Kinds, subject : Subjects]
Key(n)    == <<n.kind, n.subject>>
About(kind, subject) == [kind |-> kind, subject |-> subject]

\* The form offers the kinds that exist; a host has so many addresses and
\* services.
ASSUME FiltersAreKinds == Filters \subseteq SUBSET Kinds
ASSUME SubjectsAreFinite == IsFiniteSet(Sources) /\ IsFiniteSet(Services)

\* Notify, called for each alert in turn: what does not fit is dropped.
Room            == MaxQueue - Len(queue)
Fitting(alerts) == Min({Room, Len(alerts)})

\* (mutant) A queue without a bound.
QueuedAll(alerts) == queue \o alerts
Queued(alerts)  == queue \o SubSeq(alerts, 1, Fitting(alerts))
Dropped(alerts) == SubSeq(alerts, Fitting(alerts) + 1, Len(alerts))

HasNft(ns) == \E i \in DOMAIN ns : ns[i].kind \in NftKinds

Notify(alerts) ==
    /\ queue' = Queued(alerts)
    /\ overflow' = \/ HasNft(Dropped(alerts))
                   \/ overflow /\ ~HasNft(alerts)

\* An alert that will not arrive at some destinations, for the history.
Lose(n, ds) == missed' = [d \in Dests |-> \/ missed[d]
                                          \/ d \in ds /\ n.kind \in NftKinds]

\* cappedBatch, for the members in some order (the code ranges over a map):
\* some of them, and one summary for the others.
Batch(kind, order) ==
    LET some == SubSeq(order, 1, Min({MaxPerBatch, Len(order)}))
    IN  [i \in DOMAIN some |-> About(kind, some[i])]
        \o IF Len(order) > MaxPerBatch THEN <<About(kind, Nobody)>> ELSE <<>>

-----------------------------------------------------------------------------
(* The poller                                                              *)

NewPoll == [at |-> "wait", tick |-> 0, nftUp |-> TRUE,
            seenBans |-> {}, firstBans |-> TRUE,
            seenExpo |-> {}, firstExpo |-> TRUE]

AlertsInit ==
    /\ nft = "ok" /\ banned = {} /\ exposed = {}
    /\ poll = NewPoll
    /\ queue = <<>> /\ work = NoDest
    /\ sent = [k \in Throttled \X Subjects |-> 0]
    /\ dests \in [Dests -> {[type |-> "slack", url |-> TRUE, smtp |-> FALSE,
                             enabled |-> TRUE, events |-> {}],
                            [type |-> "email", url |-> FALSE, smtp |-> TRUE,
                             enabled |-> TRUE, events |-> {"nft.down"}]}]
    /\ budget = AlertFaults
    /\ told = [d \in Dests |-> "nft.up"]
    /\ missed = [d \in Dests |-> FALSE]
    /\ overflow = FALSE
    /\ news = Sources \ banned

\* tick counts up; only 1 and the multiples of ExposureEvery are special.
NextTick(t) == IF t = 2 * ExposureEvery THEN ExposureEvery + 1 ELSE t + 1
ScanDue     == poll.tick = 1 \/ poll.tick % ExposureEvery = 0

\* The tick: is nft there, and does it list the ruleset?  Reported when that
\* turned; a tick that finds it gone ends there.
PollNft ==
    LET up    == nft = "ok"
        turns == CASE poll.nftUp /\ ~up -> <<About("nft.down", Nobody)>>
                   [] ~poll.nftUp /\ up -> <<About("nft.up", Nobody)>>
                   [] OTHER             -> <<>>
    IN  /\ poll.at = "wait"
        /\ poll' = [poll EXCEPT !.tick = NextTick(@), !.nftUp = up,
                                !.at = IF up THEN "bans" ELSE "wait"]
        /\ Notify(turns)
        /\ sent' = [k \in DOMAIN sent |-> IF sent[k] = 0 THEN 0
                                          ELSE sent[k] - 1]
        /\ UNCHANGED <<worldVars, work, dests, budget, told, missed, news>>

\* The step after checkNewBans: the scan when it is due.
AfterBans == IF ScanDue THEN "exposures" ELSE "wait"

\* checkNewBans: the members this reading has and the last one had not, none
\* in the first reading.  Without an answer from nft the tick goes on.
PollBans ==
    LET fresh == IF poll.firstBans THEN {} ELSE banned \ poll.seenBans
    IN  /\ poll.at = "bans"
        /\ nft = "ok"
        /\ \E order \in SetToSeqs(fresh) : Notify(Batch("ban.new", order))
        /\ poll' = [poll EXCEPT !.at = AfterBans, !.seenBans = banned,
                                !.firstBans = FALSE]
        /\ news' = news \ fresh
        /\ UNCHANGED <<worldVars, work, sent, dests, budget, told, missed>>

\* (mutant) A reading that fails counts as one without members.
PollBansFailForgets ==
    /\ poll.at = "bans"
    /\ nft # "ok"
    /\ poll' = [poll EXCEPT !.at = AfterBans, !.seenBans = {}]
    /\ UNCHANGED <<worldVars, senderVars, dests, budget, histVars>>

PollBansFail ==
    /\ poll.at = "bans"
    /\ nft # "ok"
    /\ poll' = [poll EXCEPT !.at = AfterBans]
    /\ UNCHANGED <<worldVars, senderVars, dests, budget, histVars>>

\* checkNewExposures, in the same way; it does not ask nft.
PollExposures ==
    LET fresh == IF poll.firstExpo THEN {} ELSE exposed \ poll.seenExpo
    IN  /\ poll.at = "exposures"
        /\ \E order \in SetToSeqs(fresh) :
              Notify(Batch("exposure.new", order))
        /\ poll' = [poll EXCEPT !.at = "wait", !.seenExpo = exposed,
                                !.firstExpo = FALSE]
        /\ UNCHANGED <<worldVars, work, sent, dests, budget, told, missed, news>>

\* The model cannot be read: what was seen stays as it was.
PollExposuresFail ==
    /\ poll.at = "exposures"
    /\ poll' = [poll EXCEPT !.at = "wait"]
    /\ UNCHANGED <<worldVars, senderVars, dests, budget, histVars>>

\* A handler that alerts on its own: an apply was reverted.
HandlerAlert ==
    /\ budget["event"] > 0
    /\ budget' = [budget EXCEPT !["event"] = @ - 1]
    /\ Notify(<<About("apply.reverted", Nobody)>>)
    /\ UNCHANGED <<worldVars, poll, work, sent, dests, told, missed, news>>

-----------------------------------------------------------------------------
(* The worker: deliverLoop                                                 *)

Busy == work # NoDest

\* recentlySent; in the last tick of a cooldown the answer is open.
Recent(n, answer) ==
    IF n.kind \in Throttled /\ sent[Key(n)] > 0
    THEN sent[Key(n)] = 1 \/ answer
    ELSE ~answer

\* The next alert was sent a moment ago: it is let go.
WorkSkip ==
    /\ ~Busy /\ queue # <<>>
    /\ Recent(Head(queue), TRUE)
    /\ queue' = Tail(queue)
    /\ Lose(Head(queue), Dests)
    /\ UNCHANGED <<worldVars, poll, work, sent, dests, budget, told, overflow,
                   news>>

\* The destinations cannot be read: the next alert is let go.
WorkLoadFails ==
    /\ ~Busy /\ queue # <<>>
    /\ Recent(Head(queue), FALSE)
    /\ budget["event"] > 0
    /\ budget' = [budget EXCEPT !["event"] = @ - 1]
    /\ queue' = Tail(queue)
    /\ Lose(Head(queue), Dests)
    /\ UNCHANGED <<worldVars, poll, work, sent, dests, told, overflow, news>>

\* The next alert goes to the enabled destinations that want it, as their rows
\* are now.
WorkTake ==
    LET n == Head(queue)
    IN  /\ ~Busy /\ queue # <<>>
        /\ Recent(n, FALSE)
        /\ queue' = Tail(queue)
        /\ work' = [alert |-> n, rows |-> dests, ok |-> FALSE,
                    todo  |-> {d \in Enabled : Wants(dests[d],
                                                     FilterKind(n.kind))},
                    step  |-> "next", hung |-> FALSE]
        /\ UNCHANGED <<worldVars, poll, sent, dests, budget, histVars>>

\* The destination whose turn it is (they are sorted by name).
Turn == CHOOSE d \in work.todo : TRUE

\* One delivery is over: whether deliver returned an error, and whether the
\* message got there nevertheless.
Delivered(ok, got) ==
    /\ work' = [work EXCEPT !.todo = @ \ {Turn}, !.ok = @ \/ ok,
                            !.step = "next", !.hung = FALSE]
    /\ IF got /\ work.alert.kind \in NftKinds
       THEN /\ told' = [told EXCEPT ![Turn] = work.alert.kind]
            /\ missed' = [missed EXCEPT ![Turn] = FALSE]
       ELSE /\ told' = told
            /\ IF got THEN missed' = missed ELSE Lose(work.alert, {Turn})

Sending == UNCHANGED <<worldVars, poll, queue, sent, dests, budget, overflow,
                       news>>

\* postJSON, postNtfy: one request with a time limit.  The answer may be lost.
WorkPost ==
    /\ Busy /\ work.todo # {} /\ work.step = "next"
    /\ work.rows[Turn].type \in UrlTypes
    /\ \/ work.rows[Turn].url /\ Delivered(TRUE, TRUE)
       \/ work.rows[Turn].url /\ Delivered(FALSE, TRUE)
       \/ Delivered(FALSE, FALSE)
    /\ Sending

\* sendSMTP: dial, read the greeting (smtp.NewClient), the conversation up to
\* the end of the data, quit.  A deadline is set before each step of the
\* conversation; there is none yet when the greeting is read.
MailSteps == {"dial", "greeting", "talk", "quit"}
AfterStep == [dial |-> "greeting", greeting |-> "talk", talk |-> "quit"]

\* (mutant) The conversation runs without a deadline.
TimedNoTalk == {"dial", "quit"}
Timed == {"dial", "talk", "quit"}

WorkMail ==
    /\ Busy /\ work.todo # {} /\ work.step = "next"
    /\ work.rows[Turn].type = "email"
    /\ work' = [work EXCEPT !.step = "dial"]
    /\ UNCHANGED <<told, missed>> /\ Sending

MailAnswered ==
    /\ Busy /\ ~work.hung
    /\ work.step \in DOMAIN AfterStep
    /\ work' = [work EXCEPT !.step = AfterStep[@]]
    /\ UNCHANGED <<told, missed>> /\ Sending

\* The message was accepted before the server was told to quit; an error then
\* still counts as a failed delivery.
MailQuit ==
    /\ Busy /\ ~work.hung
    /\ work.step = "quit"
    /\ \E ok \in BOOLEAN : Delivered(ok, TRUE)
    /\ Sending

\* The server refuses, or the deadline of the step passes.
MailRefused ==
    /\ Busy /\ ~work.hung
    /\ work.step \in DOMAIN AfterStep
    /\ Delivered(FALSE, FALSE)
    /\ Sending

\* The server keeps the connection and says nothing, in a step nobody times.
\* The worker is free again when the server closes the connection, if ever.
MailHangs ==
    /\ Busy /\ ~work.hung
    /\ work.step \in MailSteps \ Timed
    /\ work' = [work EXCEPT !.hung = TRUE]
    /\ UNCHANGED <<told, missed>> /\ Sending

MailCloses ==
    /\ Busy /\ work.hung
    /\ Delivered(FALSE, FALSE)
    /\ Sending

\* Everybody was served: the cooldown opens once somebody got the alert.
WorkDone ==
    /\ Busy /\ work.todo = {}
    /\ sent' = IF work.ok /\ work.alert.kind \in Throttled
               THEN [sent EXCEPT ![Key(work.alert)] = Cooldown + 1] ELSE sent
    /\ work' = NoDest
    /\ UNCHANGED <<worldVars, poll, queue, dests, budget, histVars>>

Worker == WorkSkip \/ WorkTake \/ WorkPost \/ WorkMail \/ MailAnswered
          \/ MailQuit \/ MailRefused \/ WorkDone

-----------------------------------------------------------------------------
(* The operator, the kernel, the process                                   *)

\* handleAlertSave and handleAlertDelete.  What a destination heard before is
\* not held against the new row.
Edited(d) ==
    /\ budget["event"] > 0
    /\ budget' = [budget EXCEPT !["event"] = @ - 1]
    /\ missed' = [missed EXCEPT ![d] = TRUE]
    /\ UNCHANGED <<worldVars, poll, senderVars, told, overflow, news>>

SaveDest(d) ==
    /\ \E type \in FormTypes, url, smtp, enabled \in BOOLEAN,
          events \in Filters :
          LET row == Validate(type, url, smtp, enabled, events)
          IN  row # NoDest /\ dests' = [dests EXCEPT ![d] = row]
    /\ Edited(d)

DeleteDest(d) ==
    /\ dests[d] # NoDest
    /\ dests' = [dests EXCEPT ![d] = NoDest]
    /\ Edited(d)

World ==
    /\ budget["world"] > 0
    /\ budget' = [budget EXCEPT !["world"] = @ - 1]
    /\ \/ /\ nft' \in {"ok", "unreadable", "missing"} \ {nft}
          /\ UNCHANGED <<banned, exposed, news>>
       \/ \E s \in Sources \ banned :
             /\ banned' = banned \cup {s}
             /\ UNCHANGED <<nft, exposed, news>>
       \/ \E s \in banned :
             /\ banned' = banned \ {s}
             /\ news' = news \cup {s}
             /\ UNCHANGED <<nft, exposed>>
       \/ \E v \in Services :
             /\ exposed' = IF v \in exposed THEN exposed \ {v}
                                            ELSE exposed \cup {v}
             /\ UNCHANGED <<nft, banned, news>>
    /\ UNCHANGED <<poll, senderVars, dests, told, missed, overflow>>

\* Only the destinations outlive the process.
Restart ==
    /\ budget["event"] > 0
    /\ budget' = [budget EXCEPT !["event"] = @ - 1]
    /\ poll' = NewPoll
    /\ queue' = <<>> /\ work' = NoDest
    /\ sent' = [k \in DOMAIN sent |-> 0]
    /\ missed' = [d \in Dests |-> TRUE]
    /\ overflow' = FALSE
    /\ news' = Sources \ banned
    /\ UNCHANGED <<worldVars, dests, told>>

Poller == PollNft \/ PollBans \/ PollBansFail \/ PollExposures \/ PollExposuresFail

AlertsNext ==
    \/ Poller \/ HandlerAlert \/ Worker \/ WorkLoadFails \/ MailHangs \/ MailCloses
    \/ World \/ Restart
    \/ \E d \in Dests : SaveDest(d) \/ DeleteDest(d)

AlertsSpec == AlertsInit /\ [][AlertsNext]_alertVars

\* The worker's goroutine runs on, and what it waits for with a time limit
\* comes to an end.  Nobody owes it the end of a wait without one.
AlertsFairSpec == AlertsSpec /\ WF_alertVars(Worker)

-----------------------------------------------------------------------------
(* Properties                                                              *)

Row == [type : AlertTypes, url : BOOLEAN, smtp : BOOLEAN, enabled : BOOLEAN,
        events : SUBSET Kinds]

\* The state is what the code can hold; the queue does not outgrow its buffer.
AlertsTypeOK ==
    /\ nft \in {"ok", "unreadable", "missing"}
    /\ banned \subseteq Sources /\ exposed \subseteq Services
    /\ poll \in [at : {"wait", "bans", "exposures"},
                 tick : 0..(2 * ExposureEvery), nftUp : BOOLEAN,
                 seenBans : SUBSET Sources, firstBans : BOOLEAN,
                 seenExpo : SUBSET Services, firstExpo : BOOLEAN]
    /\ queue \in Seq(Alert) /\ Len(queue) <= MaxQueue
    /\ \A d \in Dests : dests[d] \in Row \cup {NoDest}
    /\ Busy => /\ work.alert \in Alert /\ work.todo \subseteq Dests
               /\ \A d \in work.todo : work.rows[d] \in Row
               /\ work.step \in MailSteps \cup {"next"}
    /\ \A k \in DOMAIN sent : sent[k] \in 0..(Cooldown + 1)

\* An alert about nft is still on its way to the destination.
OnItsWay(d) ==
    \/ \E i \in DOMAIN queue : queue[i].kind \in NftKinds
    \/ Busy /\ d \in work.todo /\ work.alert.kind \in NftKinds

\* "Subscribing to nft down also gets you nft up" (notify.go:220-221), in
\* order: once nothing is on its way, a destination that wants outages was
\* told last what the poller found last, unless that alert was lost on a path
\* the code knows: a full queue, the cooldown, a failed delivery, a restart.
LastWordIsCurrent ==
    \A d \in Enabled :
        Wants(dests[d], "nft.down") /\ ~missed[d] /\ ~overflow /\ ~OnItsWay(d)
            => told[d] = IF poll.nftUp THEN "nft.up" ELSE "nft.down"

\* A ban is announced once: an alert about a source means that the source was
\* free since it was announced before, and since the process started,
\* whatever readings failed in between (poller.go:127-128).
BanAlertsAreNews ==
    [][\A i \in DOMAIN queue' \ DOMAIN queue :
          Len(queue') > Len(queue) /\ queue'[i].kind = "ban.new"
              => queue'[i].subject \in news \cup {Nobody}]_alertVars

\* "One stuck email would freeze every other alert" (email.go:44): the worker
\* gets through every alert, but for a mail server that never sends its
\* greeting.
WorkerMovesOn == Busy ~> (~Busy \/ (work.hung /\ work.step = "greeting"))
=============================================================================
