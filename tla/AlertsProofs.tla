----------------------------- MODULE AlertsProofs -----------------------------
(***************************************************************************)
(* What is proved of Alerts, for every set of sources, services and        *)
(* destinations, and every capacity, cooldown and batch size.              *)
(***************************************************************************)
EXTENDS Alerts, FiniteSetTheorems, SequenceTheorems, TLAPS

-----------------------------------------------------------------------------
(* What Notify does to the queue                                           *)

LEMMA MinOfTwo ==
    ASSUME NEW a \in Nat, NEW b \in Nat
    PROVE  /\ Min({a, b}) \in Nat
           /\ Min({a, b}) <= a /\ Min({a, b}) <= b
           /\ Min({a, b}) \in {a, b}
<1> DEFINE OK(x) == x \in {a, b} /\ \A y \in {a, b} : x =< y
<1>1. \E x \in {a, b} : \A y \in {a, b} : x =< y
  <2>1. CASE a <= b
    BY <2>1
  <2>2. CASE b <= a
    BY <2>2
  <2> QED
    BY <2>1, <2>2
<1>2. Min({a, b}) \in {a, b} /\ \A y \in {a, b} : Min({a, b}) =< y
  BY <1>1 DEF Min
<1> QED
  BY <1>2

\* Where the members of two sequences are once they are one.
LEMMA ConcatPlaces ==
    ASSUME NEW S, NEW s \in Seq(S), NEW t \in Seq(S)
    PROVE  /\ s \o t \in Seq(S)
           /\ Len(s \o t) = Len(s) + Len(t)
           /\ \A i \in 1..Len(s) : (s \o t)[i] = s[i]
           /\ \A i \in (Len(s) + 1)..(Len(s) + Len(t)) :
                 (s \o t)[i] = t[i - Len(s)]
<1>1. /\ s \o t \in Seq(S) /\ Len(s \o t) = Len(s) + Len(t)
      /\ \A i \in 1..(Len(s) + Len(t)) :
            (s \o t)[i] = IF i <= Len(s) THEN s[i] ELSE t[i - Len(s)]
  BY ConcatProperties
<1>2. Len(s) \in Nat /\ Len(t) \in Nat
  OBVIOUS
<1>3. /\ \A i \in 1..Len(s) : i \in 1..(Len(s) + Len(t)) /\ i <= Len(s)
      /\ \A i \in (Len(s) + 1)..(Len(s) + Len(t)) :
            i \in 1..(Len(s) + Len(t)) /\ ~(i <= Len(s))
  BY <1>2
<1> QED
  BY <1>1, <1>3

\* The queue keeps what it held and takes the first of the new alerts, as many
\* as fit; overflow notes whether the last alert about nft was one of them.
LEMMA NotifyEffect ==
    ASSUME queue \in Seq(Alert), Len(queue) <= MaxQueue,
           NEW alerts \in Seq(Alert), Notify(alerts)
    PROVE  /\ queue' \in Seq(Alert)
           /\ Len(queue') <= MaxQueue /\ Len(queue) <= Len(queue')
           /\ Len(queue') - Len(queue) <= Len(alerts)
           /\ \A i \in 1..Len(queue) : queue'[i] = queue[i]
           /\ \A i \in (Len(queue) + 1)..Len(queue') :
                 /\ i - Len(queue) \in 1..Len(alerts)
                 /\ queue'[i] = alerts[i - Len(queue)]
           /\ overflow' = (\/ HasNft(Dropped(alerts))
                           \/ overflow /\ ~HasNft(alerts))
           /\ \A i \in DOMAIN Dropped(alerts) :
                 \E j \in 1..Len(alerts) : Dropped(alerts)[i] = alerts[j]
           /\ Len(queue') = Len(queue) + Len(alerts) \/ Len(queue') = MaxQueue
           /\ Len(Dropped(alerts)) = Len(queue) + Len(alerts) - Len(queue')
           /\ DOMAIN Dropped(alerts) = 1..Len(Dropped(alerts))
<1> DEFINE n == Fitting(alerts)
           s == SubSeq(alerts, 1, n)
<1>1. MaxQueue \in Nat /\ Len(queue) \in Nat /\ Len(alerts) \in Nat
  BY AlertBounds
<1>2. Room \in Nat /\ Room = MaxQueue - Len(queue)
  BY <1>1 DEF Room
<1>3. /\ n \in Nat /\ n <= Room /\ n <= Len(alerts)
      /\ n = Len(alerts) \/ n = Room
  BY <1>1, <1>2, MinOfTwo DEF Fitting
<1> HIDE DEF n
<1>4. s \in Seq(Alert) /\ Len(s) = n /\ \A i \in 1..n : s[i] = alerts[i]
  BY <1>1, <1>3
<1>5. queue' = queue \o s
  BY DEF Notify, Queued, n
<1> HIDE DEF s
<1>6. /\ queue' \in Seq(Alert) /\ Len(queue') = Len(queue) + n
      /\ \A i \in 1..Len(queue) : queue'[i] = queue[i]
      /\ \A i \in (Len(queue) + 1)..(Len(queue) + n) :
            queue'[i] = s[i - Len(queue)]
  <2>1. Len(s) = n /\ queue \in Seq(Alert) /\ s \in Seq(Alert)
    BY <1>4
  <2>2. /\ queue \o s \in Seq(Alert)
        /\ Len(queue \o s) = Len(queue) + Len(s)
        /\ \A i \in 1..Len(queue) : (queue \o s)[i] = queue[i]
        /\ \A i \in (Len(queue) + 1)..(Len(queue) + Len(s)) :
              (queue \o s)[i] = s[i - Len(queue)]
    BY <2>1, ConcatPlaces
  <2> QED BY <2>1, <2>2, <1>5
<1>7. \A i \in (Len(queue) + 1)..(Len(queue) + n) :
         i - Len(queue) \in 1..n
  BY <1>1, <1>3
<1>8. Dropped(alerts) = SubSeq(alerts, n + 1, Len(alerts))
  BY DEF Dropped, n
<1>9. /\ Len(Dropped(alerts)) = Len(alerts) - n
      /\ DOMAIN Dropped(alerts) = 1..Len(Dropped(alerts))
      /\ \A i \in DOMAIN Dropped(alerts) :
            /\ i + n \in 1..Len(alerts)
            /\ Dropped(alerts)[i] = alerts[i + n]
  BY <1>1, <1>3, <1>8
<1>10. overflow' = (\/ HasNft(Dropped(alerts))
                    \/ overflow /\ ~HasNft(alerts))
  BY DEF Notify
<1>11. \A i \in DOMAIN Dropped(alerts) :
          \E j \in 1..Len(alerts) : Dropped(alerts)[i] = alerts[j]
  BY <1>9
<1>12. /\ Len(queue') <= MaxQueue /\ Len(queue) <= Len(queue')
       /\ Len(queue') - Len(queue) <= Len(alerts)
       /\ Len(queue') = Len(queue) + Len(alerts) \/ Len(queue') = MaxQueue
       /\ Len(Dropped(alerts)) = Len(queue) + Len(alerts) - Len(queue')
  <2>1. Len(queue') = Len(queue) + n
    BY <1>6
  <2>2. Len(Dropped(alerts)) = Len(alerts) - n
    BY <1>9
  <2>3. /\ Len(queue') <= MaxQueue /\ Len(queue) <= Len(queue')
        /\ Len(queue') - Len(queue) <= Len(alerts)
        /\ Len(queue') = Len(queue) + Len(alerts) \/ Len(queue') = MaxQueue
    BY <1>1, <1>2, <1>3, <2>1
  <2> QED
    BY <1>1, <1>3, <2>1, <2>2, <2>3
<1>13. ASSUME NEW i \in (Len(queue) + 1)..Len(queue')
       PROVE  /\ i - Len(queue) \in 1..Len(alerts)
              /\ queue'[i] = alerts[i - Len(queue)]
  <2>1. i \in (Len(queue) + 1)..(Len(queue) + n)
    BY <1>6
  <2>2. i - Len(queue) \in 1..n
    BY <1>7, <2>1
  <2>3. queue'[i] = s[i - Len(queue)] /\ s[i - Len(queue)] = alerts[i - Len(queue)]
    BY <1>4, <1>6, <2>1, <2>2
  <2>4. i - Len(queue) \in 1..Len(alerts)
    BY <1>1, <1>3, <2>2
  <2> QED
    BY <2>3, <2>4
<1> QED
  BY <1>6, <1>9, <1>10, <1>11, <1>12, <1>13

\* A batch holds alerts of one kind, about the members and about nobody.
LEMMA BatchAlerts ==
    ASSUME NEW kind \in Kinds, NEW S \in SUBSET (Sources \cup Services),
           NEW order \in SetToSeqs(S)
    PROVE  /\ Batch(kind, order) \in Seq(Alert)
           /\ \A i \in DOMAIN Batch(kind, order) :
                 /\ Batch(kind, order)[i].kind = kind
                 /\ Batch(kind, order)[i].subject \in S \cup {Nobody}
<1> DEFINE Ours == {About(kind, x) : x \in S \cup {Nobody}}
           m    == Min({MaxPerBatch, Len(order)})
           some == SubSeq(order, 1, m)
           one  == [i \in DOMAIN some |-> About(kind, some[i])]
           rest == IF Len(order) > MaxPerBatch THEN <<About(kind, Nobody)>>
                                               ELSE <<>>
<1>1. order \in Seq(S)
  <2>1. IsFiniteSet(S)
    BY SubjectsAreFinite, FS_Union, FS_Subset
  <2>2. Cardinality(S) \in Nat
    BY <2>1, FS_CardinalityType
  <2>3. order \in [1..Cardinality(S) -> S]
    BY DEF SetToSeqs
  <2> QED
    BY <2>2, <2>3
<1>2. Len(order) \in Nat /\ MaxPerBatch \in Nat
  BY <1>1, AlertBounds
<1>3. m \in Nat /\ m <= Len(order)
  BY <1>2, MinOfTwo
<1> HIDE DEF m
<1>4. some \in Seq(S)
  BY <1>1, <1>2, <1>3
<1> HIDE DEF some
<1>5. one \in Seq(Ours)
  <2>1. DOMAIN some = 1..Len(some) /\ Len(some) \in Nat
    BY <1>4
  <2>2. \A i \in 1..Len(some) : some[i] \in S
    BY <1>4
  <2>3. one \in [1..Len(some) -> Ours]
    BY <2>1, <2>2
  <2> QED
    BY <2>1, <2>3
<1>6. rest \in Seq(Ours)
  <2>1. About(kind, Nobody) \in Ours
    OBVIOUS
  <2> HIDE DEF Ours
  <2> QED
    BY <2>1
<1>7. Batch(kind, order) = one \o rest
  BY DEF Batch, one, rest, some, m
<1>8. \A a \in Ours : a \in Alert /\ a.kind = kind /\ a.subject \in S \cup {Nobody}
  BY DEF About, Alert, Subjects
<1> HIDE DEF Ours, one, rest
<1>9. Batch(kind, order) \in Seq(Ours)
  BY <1>5, <1>6, <1>7
<1> QED
  BY <1>8, <1>9

-----------------------------------------------------------------------------
(* Types                                                                   *)

Rows  == Row \cup {NoDest}
Works == [alert : Alert, rows : [Dests -> Rows], ok : BOOLEAN,
          todo : SUBSET Dests, step : MailSteps \cup {"next"}, hung : BOOLEAN]
Polls == [at : {"wait", "bans", "exposures"},
          tick : 0..(2 * ExposureEvery), nftUp : BOOLEAN,
          seenBans : SUBSET Sources, firstBans : BOOLEAN,
          seenExpo : SUBSET Services, firstExpo : BOOLEAN]
Waits == [Throttled \X Subjects -> 0..(Cooldown + 1)]

WorldOK == /\ nft \in {"ok", "unreadable", "missing"}
           /\ banned \subseteq Sources /\ exposed \subseteq Services
           /\ news \subseteq Sources
QueueOK == queue \in Seq(Alert) /\ Len(queue) <= MaxQueue
WorkOK  == /\ work \in Works \cup {NoDest}
           /\ Busy => \A d \in work.todo : work.rows[d] # NoDest
HeardOK == /\ told \in [Dests -> NftKinds] /\ missed \in [Dests -> BOOLEAN]
           /\ overflow \in BOOLEAN

\* AlertsTypeOK with the domains of its functions, and the history variables.
AlertsInv == /\ WorldOK /\ QueueOK /\ WorkOK /\ HeardOK
             /\ poll \in Polls
             /\ dests \in [Dests -> Rows]
             /\ sent \in Waits

\* The constants are numbers.
LEMMA Numbers ==
    /\ ExposureEvery \in Nat /\ ExposureEvery > 0
    /\ MaxQueue \in Nat /\ MaxQueue > 0
    /\ Cooldown \in Nat
BY AlertBounds

\* An alert about a subject is one.
LEMMA AboutType ==
    ASSUME NEW kind \in Kinds, NEW x \in Subjects
    PROVE  /\ About(kind, x) \in Alert
           /\ About(kind, x).kind = kind /\ About(kind, x).subject = x
BY DEF About, Alert

\* The invariant holds at first.
LEMMA AlertsInvInit == AlertsInit => AlertsInv
<1> SUFFICES ASSUME AlertsInit PROVE AlertsInv
  OBVIOUS
<1>1. WorldOK
  BY DEF AlertsInit, WorldOK
<1>2. QueueOK
  BY Numbers DEF AlertsInit, QueueOK
<1>3. WorkOK
  BY DEF AlertsInit, WorkOK, Busy
<1>4. HeardOK
  BY DEF AlertsInit, HeardOK, NftKinds
<1>5. poll \in Polls
  BY Numbers DEF AlertsInit, Polls, NewPoll
<1>6. dests \in [Dests -> Rows]
  <2>1. [type |-> "slack", url |-> TRUE, smtp |-> FALSE, enabled |-> TRUE,
         events |-> {}] \in Rows
    BY DEF Rows, Row, AlertTypes, UrlTypes, WebhookTypes
  <2>2. [type |-> "email", url |-> FALSE, smtp |-> TRUE, enabled |-> TRUE,
         events |-> {"nft.down"}] \in Rows
    BY DEF Rows, Row, AlertTypes, Kinds
  <2> QED
    BY <2>1, <2>2 DEF AlertsInit
<1>7. sent \in Waits
  BY Numbers DEF AlertsInit, Waits
<1> QED
  BY <1>1, <1>2, <1>3, <1>4, <1>5, <1>6, <1>7 DEF AlertsInv

\* The count of ticks stays within its period.
LEMMA TickType ==
    ASSUME NEW t \in 0..(2 * ExposureEvery)
    PROVE  NextTick(t) \in 0..(2 * ExposureEvery)
BY Numbers DEF NextTick

\* The alert about nft that a tick raises, if it found a change.
Turns == CASE poll.nftUp /\ ~(nft = "ok") -> <<About("nft.down", Nobody)>>
           [] ~poll.nftUp /\ nft = "ok"   -> <<About("nft.up", Nobody)>>
           [] OTHER                       -> <<>>

\* The poll of nft notes what it finds, and tells exactly the turn it noted.
LEMMA PollNftMoves ==
    ASSUME AlertsInv, PollNft
    PROVE  /\ poll' \in Polls /\ poll'.nftUp = (nft = "ok")
           /\ UNCHANGED <<work, told, missed, dests>>
           /\ poll'.seenBans = poll.seenBans /\ poll'.firstBans = poll.firstBans
           /\ Turns \in Seq(Alert) /\ Notify(Turns)
           /\ \/ Turns = <<>> /\ poll'.nftUp = poll.nftUp
              \/ \E kind \in NftKinds : /\ Turns = <<About(kind, Nobody)>>
                                        /\ kind = IF poll'.nftUp THEN "nft.up"
                                                                 ELSE "nft.down"
           /\ sent' \in Waits
<1> DEFINE p == poll
           up == nft = "ok"
           d  == [p EXCEPT !.tick = NextTick(@), !.nftUp = up,
                           !.at = IF up THEN "bans" ELSE "wait"]
<1>1. p \in Polls /\ up \in BOOLEAN /\ NextTick(p.tick) \in 0..(2 * ExposureEvery)
  <2>1. p.tick \in 0..(2 * ExposureEvery)
    BY DEF AlertsInv, Polls
  <2> QED
    BY <2>1, TickType DEF AlertsInv
<1>2. poll' = d
  BY DEF PollNft
<1> HIDE DEF p, up
<1>3. /\ d \in Polls /\ d.nftUp = up /\ d.seenBans = p.seenBans
      /\ d.firstBans = p.firstBans
  BY <1>1 DEF Polls
<1> HIDE DEF d
<1>4. sent' \in Waits
  <2>1. sent' = [k \in DOMAIN sent |-> IF sent[k] = 0 THEN 0 ELSE sent[k] - 1]
    BY DEF PollNft
  <2>2. sent \in Waits
    BY DEF AlertsInv
  <2>3. \A k \in Throttled \X Subjects :
           (IF sent[k] = 0 THEN 0 ELSE sent[k] - 1) \in 0..(Cooldown + 1)
    BY <2>2, Numbers DEF Waits
  <2> QED
    BY <2>1, <2>2, <2>3 DEF Waits
<1>5. Notify(Turns) /\ UNCHANGED <<work, told, missed, dests>>
  BY DEF PollNft, Turns
<1>6. About("nft.up", Nobody) \in Alert /\ About("nft.down", Nobody) \in Alert
  BY AboutType DEF Kinds, Subjects
<1>7. Turns \in Seq(Alert)
  BY <1>6 DEF Turns
<1>8. \/ Turns = <<>> /\ up = p.nftUp
      \/ \E kind \in NftKinds : /\ Turns = <<About(kind, Nobody)>>
                                /\ kind = IF up THEN "nft.up" ELSE "nft.down"
  <2>1. p.nftUp \in BOOLEAN
    BY <1>1 DEF Polls
  <2>2. CASE p.nftUp /\ ~up
    BY <2>2 DEF Turns, p, up, NftKinds
  <2>3. CASE ~p.nftUp /\ up
    BY <2>3 DEF Turns, p, up, NftKinds
  <2>4. CASE p.nftUp = up
    BY <2>4 DEF Turns, p, up
  <2> QED
    BY <1>1, <2>1, <2>2, <2>3, <2>4
<1> QED
  BY <1>2, <1>3, <1>4, <1>5, <1>7, <1>8 DEF p, up

\* The steps after which the poller goes on, and what they have read.
LEMMA PollBansMoves ==
    ASSUME AlertsInv, PollBans
    PROVE  /\ poll' \in Polls /\ poll'.nftUp = poll.nftUp
           /\ poll'.seenBans = banned /\ ~poll'.firstBans
<1> DEFINE p == poll
           d  == [p EXCEPT !.at = AfterBans, !.seenBans = banned,
                           !.firstBans = FALSE]
<1>1. /\ p \in Polls /\ AfterBans \in {"exposures", "wait"}
      /\ banned \in SUBSET Sources
  BY DEF AlertsInv, WorldOK, AfterBans
<1>2. poll' = d
  BY DEF PollBans
<1> HIDE DEF p
<1>3. /\ d \in Polls /\ d.nftUp = p.nftUp /\ d.seenBans = banned
      /\ d.firstBans = FALSE
  BY <1>1 DEF Polls
<1> HIDE DEF d
<1> QED
  BY <1>2, <1>3 DEF p

\* A scan of the bans that fails forgets no ban it has seen.
LEMMA PollFailMoves ==
    ASSUME AlertsInv, PollBansFail \/ PollExposuresFail
    PROVE  /\ poll' \in Polls /\ poll'.nftUp = poll.nftUp
           /\ poll'.seenBans = poll.seenBans /\ poll'.firstBans = poll.firstBans
<1> DEFINE p == poll
           d(at) == [p EXCEPT !.at = at]
<1>1. p \in Polls /\ AfterBans \in {"exposures", "wait"}
  BY DEF AlertsInv, AfterBans
<1>2. \E at \in {"exposures", "wait"} : poll' = d(at)
  BY <1>1 DEF PollBansFail, PollExposuresFail
<1> HIDE DEF p
<1>3. \A at \in {"exposures", "wait"} :
          /\ d(at) \in Polls /\ d(at).nftUp = p.nftUp
          /\ d(at).seenBans = p.seenBans /\ d(at).firstBans = p.firstBans
  BY <1>1 DEF Polls
<1> HIDE DEF d
<1> QED
  BY <1>2, <1>3 DEF p

\* A scan of the services leaves what was seen of nft and of the bans alone.
LEMMA PollExposuresMoves ==
    ASSUME AlertsInv, PollExposures
    PROVE  /\ poll' \in Polls /\ poll'.nftUp = poll.nftUp
           /\ poll'.seenBans = poll.seenBans /\ poll'.firstBans = poll.firstBans
<1> DEFINE p == poll
           d  == [p EXCEPT !.at = "wait", !.seenExpo = exposed,
                           !.firstExpo = FALSE]
<1>1. p \in Polls /\ exposed \in SUBSET Services
  BY DEF AlertsInv, WorldOK
<1>2. poll' = d
  BY DEF PollExposures
<1> HIDE DEF p
<1>3. /\ d \in Polls /\ d.nftUp = p.nftUp /\ d.seenBans = p.seenBans
      /\ d.firstBans = p.firstBans
  BY <1>1 DEF Polls
<1> HIDE DEF d
<1> QED
  BY <1>2, <1>3 DEF p

-----------------------------------------------------------------------------
(* What the worker does                                                    *)

LEMMA LoseType ==
    ASSUME AlertsInv, NEW n, NEW D, Lose(n, D)
    PROVE  /\ missed' \in [Dests -> BOOLEAN]
           /\ \A d \in Dests : missed'[d] <=> \/ missed[d]
                                              \/ d \in D /\ n.kind \in NftKinds
<1>1. missed \in [Dests -> BOOLEAN]
  BY DEF AlertsInv, HeardOK
<1>2. \A d \in Dests : (missed[d] \/ (d \in D /\ n.kind \in NftKinds)) \in BOOLEAN
  BY <1>1
<1> QED
  BY <1>2 DEF Lose

\* A delivery moves the worker on by one destination, which has then heard the
\* alert or is noted to have missed it.
LEMMA DeliveredMoves ==
    ASSUME AlertsInv, Busy, NEW ok \in BOOLEAN, NEW got \in BOOLEAN,
           Delivered(ok, got)
    PROVE  /\ work' \in Works /\ work'.alert = work.alert
           /\ work'.todo = work.todo \ {Turn} /\ work'.rows = work.rows
           /\ told' \in [Dests -> NftKinds] /\ missed' \in [Dests -> BOOLEAN]
           /\ \A d \in Dests \ {Turn} : told'[d] = told[d] /\ missed'[d] = missed[d]
           /\ Turn \in Dests /\ work.alert.kind \in NftKinds =>
                 missed'[Turn] \/ told'[Turn] = work.alert.kind
           /\ work.alert.kind \notin NftKinds => told' = told /\ missed' = missed
<1> DEFINE w == work
           d == [w EXCEPT !.todo = @ \ {Turn}, !.ok = @ \/ ok, !.step = "next",
                          !.hung = FALSE]
<1>1. w \in Works
  BY DEF AlertsInv, WorkOK, Busy
<1>2. (w.ok \/ ok) \in BOOLEAN
  BY <1>1 DEF Works
<1>3. work' = d
  BY DEF Delivered
<1>4. told \in [Dests -> NftKinds] /\ missed \in [Dests -> BOOLEAN]
  BY DEF AlertsInv, HeardOK
<1>5. CASE ~got
  <2>1. told' = told /\ Lose(w.alert, {Turn})
    BY <1>5 DEF Delivered
  <2>2. /\ missed' \in [Dests -> BOOLEAN]
        /\ \A x \in Dests : missed'[x] <=> \/ missed[x]
                                           \/ x = Turn /\ w.alert.kind \in NftKinds
    BY <2>1, LoseType
  <2>3. w.alert.kind \notin NftKinds => missed' = missed
    BY <1>4, <2>1 DEF Lose
  <2>4. \A x \in Dests \ {Turn} : missed'[x] = missed[x]
    BY <1>4, <2>2
  <2> HIDE DEF w
  <2>5. /\ told' \in [Dests -> NftKinds] /\ missed' \in [Dests -> BOOLEAN]
        /\ \A x \in Dests \ {Turn} : told'[x] = told[x] /\ missed'[x] = missed[x]
        /\ Turn \in Dests /\ w.alert.kind \in NftKinds => missed'[Turn]
        /\ w.alert.kind \notin NftKinds => told' = told /\ missed' = missed
    BY <1>4, <2>1, <2>2, <2>3, <2>4
  <2>6. /\ d \in Works /\ d.alert = w.alert /\ d.todo = w.todo \ {Turn}
        /\ d.rows = w.rows
    BY <1>1, <1>2 DEF Works
  <2> HIDE DEF d
  <2> QED
    BY <1>3, <2>5, <2>6 DEF w
<1>6. CASE got
  <2>1. /\ told' \in [Dests -> NftKinds] /\ missed' \in [Dests -> BOOLEAN]
        /\ \A x \in Dests \ {Turn} : told'[x] = told[x] /\ missed'[x] = missed[x]
        /\ Turn \in Dests /\ w.alert.kind \in NftKinds => told'[Turn] = w.alert.kind
        /\ w.alert.kind \notin NftKinds => told' = told /\ missed' = missed
    BY <1>4, <1>6 DEF Delivered
  <2> HIDE DEF w
  <2>2. /\ d \in Works /\ d.alert = w.alert /\ d.todo = w.todo \ {Turn}
        /\ d.rows = w.rows
    BY <1>1, <1>2 DEF Works
  <2> HIDE DEF d
  <2> QED
    BY <1>3, <2>1, <2>2 DEF w
<1> QED
  BY <1>5, <1>6

\* The steps of a mail conversation that tell nobody anything.
MailStep == WorkMail \/ MailAnswered \/ MailHangs

\* A step of an email that does not end it changes the worker's place only.
LEMMA MailStepMoves ==
    ASSUME AlertsInv, MailStep
    PROVE  /\ work' \in Works /\ work'.alert = work.alert
           /\ work'.todo = work.todo /\ work'.rows = work.rows
           /\ UNCHANGED <<worldVars, poll, queue, sent, dests, budget, told,
                          missed, overflow, news>>
<1> DEFINE w == work
<1>1. w \in Works
  BY DEF AlertsInv, WorkOK, MailStep, WorkMail, MailAnswered, MailHangs, Busy
<1>2. UNCHANGED <<worldVars, poll, queue, sent, dests, budget, told, missed,
                  overflow, news>>
  BY DEF MailStep, WorkMail, MailAnswered, MailHangs, Sending
<1>3. ASSUME NEW s \in MailSteps \cup {"next"}, work' = [w EXCEPT !.step = s]
      PROVE  /\ work' \in Works /\ work'.alert = w.alert
             /\ work'.todo = w.todo /\ work'.rows = w.rows
  <2> HIDE DEF w
  <2> QED
    BY <1>1, <1>3 DEF Works
<1>4. CASE WorkMail
  BY <1>2, <1>3, <1>4 DEF WorkMail, MailSteps
<1>5. CASE MailAnswered
  <2>1. w.step \in DOMAIN AfterStep /\ work' = [w EXCEPT !.step = AfterStep[@]]
    BY <1>5 DEF MailAnswered
  <2>2. AfterStep[w.step] \in MailSteps
    BY <2>1 DEF AfterStep, MailSteps
  <2>3. work' = [w EXCEPT !.step = AfterStep[w.step]]
    BY <2>1
  <2> QED
    BY <1>2, <1>3, <2>2, <2>3
<1>6. CASE MailHangs
  <2>1. work' = [w EXCEPT !.hung = TRUE]
    BY <1>6 DEF MailHangs
  <2> HIDE DEF w
  <2>2. /\ work' \in Works /\ work'.alert = w.alert
        /\ work'.todo = w.todo /\ work'.rows = w.rows
    BY <1>1, <2>1 DEF Works
  <2> QED
    BY <1>2, <2>2 DEF w
<1> QED
  BY <1>4, <1>5, <1>6 DEF MailStep

\* The steps that end a delivery.
DeliveryStep == WorkPost \/ MailQuit \/ MailRefused \/ MailCloses

\* A step that ends a delivery is a delivery, whatever came of it.
LEMMA DeliveryMoves ==
    ASSUME AlertsInv, DeliveryStep
    PROVE  /\ Busy
           /\ \E ok, got \in BOOLEAN : Delivered(ok, got)
           /\ UNCHANGED <<worldVars, poll, queue, sent, dests, budget, overflow,
                          news>>
BY DEF DeliveryStep, WorkPost, MailQuit, MailRefused, MailCloses, Sending

\* The next alert leaves the queue.
LEMMA HeadLeaves ==
    ASSUME QueueOK, queue # <<>>, queue' = Tail(queue)
    PROVE  /\ queue' \in Seq(Alert) /\ Len(queue') = Len(queue) - 1
           /\ Len(queue') <= MaxQueue
           /\ Head(queue) = queue[1] /\ 1 \in DOMAIN queue
           /\ Head(queue) \in Alert
           /\ \A i \in DOMAIN queue' :
                 i + 1 \in DOMAIN queue /\ queue'[i] = queue[i + 1]
<1>1. queue \in Seq(Alert) /\ Len(queue) <= MaxQueue /\ MaxQueue \in Nat
  BY Numbers DEF QueueOK
<1>2. Len(queue) \in Nat /\ Len(queue) > 0
  BY <1>1
<1> QED
  BY <1>1, <1>2

\* The worker takes the head of the queue, and the destinations as they are now.
LEMMA WorkTakeMoves ==
    ASSUME AlertsInv, WorkTake
    PROVE  /\ work' \in Works /\ work'.alert = Head(queue)
           /\ work'.todo = {d \in Enabled : Wants(dests[d],
                                               FilterKind(Head(queue).kind))}
           /\ work'.rows = dests
           /\ \A d \in work'.todo : work'.rows[d] # NoDest
           /\ queue # <<>> /\ queue' = Tail(queue)
           /\ UNCHANGED <<worldVars, poll, sent, dests, budget, histVars>>
<1> DEFINE n == Head(queue)
           due == {d \in Enabled : Wants(dests[d], FilterKind(n.kind))}
           d == [alert |-> n, rows |-> dests, ok |-> FALSE, todo |-> due,
                 step |-> "next", hung |-> FALSE]
<1>1. work' = d /\ queue # <<>> /\ queue' = Tail(queue)
  BY DEF WorkTake
<1>2. n \in Alert
  BY <1>1, HeadLeaves DEF AlertsInv
<1>3. due \in SUBSET Dests /\ \A x \in due : dests[x] # NoDest
  BY DEF Enabled
<1>4. dests \in [Dests -> Rows]
  BY DEF AlertsInv
<1> HIDE DEF n, due
<1>5. d \in Works /\ d.alert = n /\ d.todo = due /\ d.rows = dests
  BY <1>2, <1>3, <1>4 DEF Works
<1> HIDE DEF d
<1>6. UNCHANGED <<worldVars, poll, sent, dests, budget, histVars>>
  BY DEF WorkTake
<1> QED
  BY <1>1, <1>3, <1>5, <1>6 DEF n, due

-----------------------------------------------------------------------------
(* What is raised in a step                                                *)

Fresh == IF poll.firstBans THEN {} ELSE banned \ poll.seenBans

\* A scan of the bans tells of bans it has not seen before, and of nothing else.
LEMMA PollBansTells ==
    ASSUME AlertsInv, PollBans
    PROVE  \E alerts \in Seq(Alert) :
              /\ Notify(alerts)
              /\ \A i \in DOMAIN alerts :
                    /\ alerts[i].kind = "ban.new"
                    /\ alerts[i].subject \in Fresh \cup {Nobody}
<1>1. Fresh \in SUBSET (Sources \cup Services)
  BY DEF AlertsInv, WorldOK, Fresh
<1>2. PICK order \in SetToSeqs(Fresh) : Notify(Batch("ban.new", order))
  BY DEF PollBans, Fresh
<1>3. "ban.new" \in Kinds
  BY DEF Kinds
<1> QED
  BY <1>1, <1>2, <1>3, BatchAlerts

\* What else is told is about neither nft nor bans.
LEMMA OthersTell ==
    ASSUME AlertsInv, PollExposures \/ HandlerAlert
    PROVE  \E alerts \in Seq(Alert) :
              /\ Notify(alerts)
              /\ \A i \in DOMAIN alerts :
                    alerts[i].kind \notin NftKinds \cup {"ban.new"}
<1>1. CASE PollExposures
  <2> DEFINE S == IF poll.firstExpo THEN {} ELSE exposed \ poll.seenExpo
  <2>1. S \in SUBSET (Sources \cup Services)
    BY DEF AlertsInv, WorldOK
  <2>2. PICK order \in SetToSeqs(S) : Notify(Batch("exposure.new", order))
    BY <1>1 DEF PollExposures
  <2>3. "exposure.new" \in Kinds \ (NftKinds \cup {"ban.new"})
    BY DEF Kinds, NftKinds
  <2> HIDE DEF S
  <2> QED
    BY <2>1, <2>2, <2>3, BatchAlerts
<1>2. CASE HandlerAlert
  <2> DEFINE one == <<About("apply.reverted", Nobody)>>
  <2>1. /\ About("apply.reverted", Nobody) \in Alert
        /\ About("apply.reverted", Nobody).kind \notin NftKinds \cup {"ban.new"}
    BY AboutType DEF Kinds, NftKinds, Subjects
  <2>2. one \in Seq(Alert) /\ DOMAIN one = {1}
        /\ one[1] = About("apply.reverted", Nobody)
    BY <2>1
  <2>3. Notify(one)
    BY <1>2 DEF HandlerAlert
  <2> HIDE DEF one
  <2> QED
    BY <2>1, <2>2, <2>3
<1> QED
  BY <1>1, <1>2

\* The steps of the operator, of the world and of the process.
LEMMA ValidateType ==
    ASSUME NEW type \in FormTypes, NEW url \in BOOLEAN, NEW smtp \in BOOLEAN,
           NEW enabled \in BOOLEAN, NEW events \in Filters
    PROVE  Validate(type, url, smtp, enabled, events) \in Rows
<1> DEFINE ws == [type |-> type, url |-> TRUE, smtp |-> FALSE,
                  enabled |-> enabled, events |-> events]
           ms == [type |-> type, url |-> FALSE, smtp |-> TRUE,
                  enabled |-> enabled, events |-> events]
<1>1. events \in SUBSET Kinds
  BY FiltersAreKinds
<1>2. CASE type \in WebhookTypes /\ url
  <2>1. ws \in Row
    BY <1>1, <1>2 DEF Row, AlertTypes, UrlTypes
  <2>2. Validate(type, url, smtp, enabled, events) = ws
    BY <1>2 DEF Validate
  <2> QED
    BY <2>1, <2>2 DEF Rows
<1>3. CASE type \in AlertTypes \ WebhookTypes /\ smtp
  <2>1. ms \in Row
    BY <1>1, <1>3 DEF Row
  <2>2. Validate(type, url, smtp, enabled, events) = ms
    BY <1>3 DEF Validate
  <2> QED
    BY <2>1, <2>2 DEF Rows
<1>4. CASE /\ ~(type \in WebhookTypes /\ url)
           /\ ~(type \in AlertTypes \ WebhookTypes /\ smtp)
  <2>1. Validate(type, url, smtp, enabled, events) = NoDest
    BY <1>4 DEF Validate
  <2> QED
    BY <2>1 DEF Rows
<1> QED
  BY <1>2, <1>3, <1>4

\* An edit is of one destination, which may have missed something since.
LEMMA EditMoves ==
    ASSUME AlertsInv, NEW d \in Dests, SaveDest(d) \/ DeleteDest(d)
    PROVE  /\ dests' \in [Dests -> Rows] /\ missed' \in [Dests -> BOOLEAN]
           /\ missed'[d]
           /\ \A x \in Dests \ {d} : dests'[x] = dests[x] /\ missed'[x] = missed[x]
           /\ UNCHANGED <<worldVars, poll, senderVars, told, overflow, news>>
<1>1. PICK row \in Rows : dests' = [dests EXCEPT ![d] = row]
  <2>1. CASE SaveDest(d)
    BY <2>1, ValidateType DEF SaveDest
  <2>2. CASE DeleteDest(d)
    BY <2>2 DEF DeleteDest, Rows
  <2> QED
    BY <2>1, <2>2
<1>2. /\ missed' = [missed EXCEPT ![d] = TRUE]
      /\ UNCHANGED <<worldVars, poll, senderVars, told, overflow, news>>
  BY DEF SaveDest, DeleteDest, Edited
<1>3. dests \in [Dests -> Rows] /\ missed \in [Dests -> BOOLEAN]
  BY DEF AlertsInv, HeardOK
<1> QED
  BY <1>1, <1>2, <1>3

\* The world goes its way; a ban that starts is news.
LEMMA WorldMoves ==
    ASSUME WorldOK, World
    PROVE  /\ WorldOK' /\ news \subseteq news'
           /\ UNCHANGED <<poll, senderVars, dests, told, missed, overflow>>
           /\ Sources \ banned \subseteq news => Sources \ banned' \subseteq news'
BY DEF WorldOK, World

\* Every step keeps the invariant.
LEMMA AlertsInvStep ==
    ASSUME AlertsInv, [AlertsNext]_alertVars
    PROVE  AlertsInv'
<1>0. ASSUME QueueOK', WorkOK', HeardOK', poll' \in Polls,
             UNCHANGED <<worldVars, dests>>, news' \subseteq Sources,
             sent' \in Waits
      PROVE  AlertsInv'
  BY <1>0 DEF AlertsInv, WorldOK, worldVars
<1>1. ASSUME NEW alerts \in Seq(Alert), Notify(alerts) PROVE QueueOK' /\ overflow' \in BOOLEAN
  <2>1. QueueOK'
    BY <1>1, NotifyEffect DEF AlertsInv, QueueOK
  <2>2. overflow' \in BOOLEAN
    <3>1. (\/ HasNft(Dropped(alerts))
           \/ overflow /\ ~HasNft(alerts)) \in BOOLEAN
      BY DEF HasNft, AlertsInv, HeardOK
    <3> QED
      BY <1>1, <3>1 DEF Notify
  <2> QED
    BY <2>1, <2>2
<1>2. UNCHANGED work => WorkOK'
  BY DEF AlertsInv, WorkOK, Busy
<1>3. UNCHANGED <<told, missed>> /\ overflow' \in BOOLEAN => HeardOK'
  BY DEF AlertsInv, HeardOK
<1>4. news' = news => news' \subseteq Sources
  BY DEF AlertsInv, WorldOK
<1>5. CASE PollNft
  <2>1. UNCHANGED <<worldVars, work, dests, told, missed, news>>
    BY <1>5 DEF PollNft
  <2> QED
    BY <1>0, <1>1, <1>2, <1>3, <1>4, <1>5, <2>1, PollNftMoves
<1>6. CASE PollBans
  <2>1. UNCHANGED <<worldVars, work, sent, dests, told, missed>>
    BY <1>6 DEF PollBans
  <2>2. news' \subseteq Sources
    BY <1>6 DEF PollBans, AlertsInv, WorldOK
  <2>3. QueueOK' /\ overflow' \in BOOLEAN
    BY <1>1, <1>6, PollBansTells
  <2>4. poll' \in Polls
    BY <1>6, PollBansMoves
  <2> QED
    BY <1>0, <1>2, <1>3, <2>1, <2>2, <2>3, <2>4 DEF AlertsInv
<1>7. CASE PollBansFail \/ PollExposuresFail
  <2>1. UNCHANGED <<worldVars, senderVars, dests, histVars>>
    BY <1>7 DEF PollBansFail, PollExposuresFail
  <2> QED
    BY <1>0, <1>2, <1>3, <1>4, <1>7, <2>1, PollFailMoves DEF senderVars,
       histVars, AlertsInv, QueueOK, HeardOK
<1>8. CASE PollExposures \/ HandlerAlert
  <2>1. UNCHANGED <<worldVars, work, sent, dests, told, missed, news>>
    BY <1>8 DEF PollExposures, HandlerAlert
  <2>2. QueueOK' /\ overflow' \in BOOLEAN
    BY <1>1, <1>8, OthersTell
  <2>3. poll' \in Polls
    BY <1>8, PollExposuresMoves DEF HandlerAlert, AlertsInv
  <2> QED
    BY <1>0, <1>2, <1>3, <1>4, <2>1, <2>2, <2>3 DEF AlertsInv
<1>9. CASE WorkSkip \/ WorkLoadFails
  <2>1. /\ queue # <<>> /\ queue' = Tail(queue)
        /\ Lose(Head(queue), Dests)
        /\ UNCHANGED <<worldVars, poll, work, sent, dests, told, overflow, news>>
    BY <1>9 DEF WorkSkip, WorkLoadFails
  <2>2. QueueOK'
    BY <2>1, HeadLeaves DEF AlertsInv, QueueOK
  <2>3. HeardOK'
    BY <2>1, LoseType DEF AlertsInv, HeardOK
  <2> QED
    BY <1>0, <1>2, <1>4, <2>1, <2>2, <2>3 DEF AlertsInv
<1>10. CASE WorkTake
  <2>1. QueueOK'
    BY <1>10, WorkTakeMoves, HeadLeaves DEF AlertsInv, QueueOK
  <2>2. WorkOK'
    BY <1>10, WorkTakeMoves DEF WorkOK
  <2>3. UNCHANGED <<worldVars, poll, sent, dests, told, missed, overflow, news>>
    BY <1>10, WorkTakeMoves DEF histVars
  <2> QED
    BY <1>0, <1>3, <1>4, <2>1, <2>2, <2>3 DEF AlertsInv, HeardOK
<1>11. CASE MailStep
  <2>1. WorkOK'
    <3>1. Busy
      BY <1>11 DEF MailStep, WorkMail, MailAnswered, MailHangs
    <3> QED
      BY <1>11, <3>1, MailStepMoves DEF AlertsInv, WorkOK
  <2>2. UNCHANGED <<worldVars, poll, queue, sent, dests, told, missed, overflow, news>>
    BY <1>11, MailStepMoves
  <2> QED
    BY <1>0, <1>3, <1>4, <2>1, <2>2 DEF AlertsInv, HeardOK, QueueOK
<1>12. CASE DeliveryStep
  <2>1. /\ Busy
        /\ UNCHANGED <<worldVars, poll, queue, sent, dests, overflow, news>>
    BY <1>12, DeliveryMoves
  <2>2. PICK ok, got \in BOOLEAN : Delivered(ok, got)
    BY <1>12, DeliveryMoves
  <2>3. /\ work' \in Works /\ work'.todo \subseteq work.todo
        /\ work'.rows = work.rows
        /\ told' \in [Dests -> NftKinds] /\ missed' \in [Dests -> BOOLEAN]
    BY <2>1, <2>2, DeliveredMoves
  <2>4. WorkOK'
    BY <2>1, <2>3 DEF AlertsInv, WorkOK
  <2>5. HeardOK'
    BY <2>1, <2>3 DEF AlertsInv, HeardOK
  <2> QED
    BY <1>0, <1>4, <2>1, <2>4, <2>5 DEF AlertsInv, QueueOK
<1>13. CASE WorkDone
  <2>1. work' = NoDest /\ UNCHANGED <<worldVars, poll, queue, dests, histVars>>
    BY <1>13 DEF WorkDone
  <2>2. sent' \in Waits
    <3>1. sent \in Waits
      BY DEF AlertsInv
    <3>2. Cooldown + 1 \in 0..(Cooldown + 1)
      BY Numbers
    <3>3. \/ sent' = sent
          \/ \E k : sent' = [sent EXCEPT ![k] = Cooldown + 1]
      BY <1>13 DEF WorkDone
    <3> QED
      BY <3>1, <3>2, <3>3 DEF Waits
  <2>3. WorkOK'
    BY <2>1 DEF WorkOK, Busy
  <2> QED
    BY <1>0, <1>3, <1>4, <2>1, <2>2, <2>3 DEF histVars, AlertsInv, QueueOK, HeardOK
<1>14. ASSUME NEW d \in Dests, SaveDest(d) \/ DeleteDest(d) PROVE AlertsInv'
  <2>1. /\ dests' \in [Dests -> Rows] /\ missed' \in [Dests -> BOOLEAN]
        /\ UNCHANGED <<worldVars, poll, senderVars, told, overflow, news>>
    BY <1>14, EditMoves
  <2>2. WorkOK' /\ QueueOK' /\ HeardOK' /\ sent' \in Waits
    BY <1>2, <2>1 DEF senderVars, AlertsInv, QueueOK, HeardOK
  <2> QED
    BY <2>1, <2>2 DEF AlertsInv, WorldOK, worldVars
<1>15. CASE World
  <2>1. WorldOK' /\ UNCHANGED <<poll, senderVars, dests, told, missed, overflow>>
    BY <1>15, WorldMoves DEF AlertsInv
  <2> QED
    BY <1>2, <2>1 DEF senderVars, AlertsInv, QueueOK, HeardOK
<1>16. CASE Restart
  <2>1. /\ queue' = <<>> /\ work' = NoDest /\ poll' = NewPoll
        /\ overflow' = FALSE /\ news' = Sources \ banned
        /\ missed' = [d \in Dests |-> TRUE] /\ told' = told
        /\ UNCHANGED <<worldVars, dests>>
    BY <1>16 DEF Restart
  <2>2. QueueOK'
    BY <2>1, Numbers DEF QueueOK
  <2>3. WorkOK'
    BY <2>1 DEF WorkOK, Busy
  <2>4. HeardOK'
    BY <2>1 DEF AlertsInv, HeardOK
  <2>5. poll' \in Polls
    BY <2>1, Numbers DEF Polls, NewPoll
  <2>6. sent' \in Waits
    BY <1>16, Numbers DEF Restart, AlertsInv, Waits
  <2> QED
    BY <1>0, <2>1, <2>2, <2>3, <2>4, <2>5, <2>6
<1>17. CASE UNCHANGED alertVars
  BY <1>2, <1>17 DEF alertVars, senderVars, histVars, worldVars, AlertsInv,
     QueueOK, HeardOK, WorldOK
<1> QED
  BY <1>5, <1>6, <1>7, <1>8, <1>9, <1>10, <1>11, <1>12, <1>13, <1>14, <1>15,
     <1>16, <1>17 DEF AlertsNext, Poller, Worker, MailStep, DeliveryStep

\* The state is what the code can hold, and the queue does not outgrow its
\* buffer, whatever is raised in a tick.
THEOREM AlertsTypeCorrect == AlertsSpec => []AlertsTypeOK
<1>1. AlertsInv => AlertsTypeOK
  <2> SUFFICES ASSUME AlertsInv PROVE AlertsTypeOK
    OBVIOUS
  <2>1. \A d \in Dests : dests[d] \in Row \cup {NoDest}
    BY DEF AlertsInv, Rows
  <2>2. Busy => /\ work.alert \in Alert /\ work.todo \subseteq Dests
                /\ \A d \in work.todo : work.rows[d] \in Row
                /\ work.step \in MailSteps \cup {"next"}
    <3> SUFFICES ASSUME Busy PROVE work \in Works /\ \A d \in work.todo : work.rows[d] \in Row
      BY DEF Works
    <3>1. work \in Works /\ \A d \in work.todo : work.rows[d] # NoDest
      BY DEF AlertsInv, WorkOK, Busy
    <3>2. \A d \in work.todo : work.rows[d] \in Rows
      BY <3>1 DEF Works
    <3> QED
      BY <3>1, <3>2 DEF Rows
  <2>3. \A k \in DOMAIN sent : sent[k] \in 0..(Cooldown + 1)
    BY DEF AlertsInv, Waits
  <2> QED
    BY <2>1, <2>2, <2>3 DEF AlertsInv, WorldOK, QueueOK, Polls, AlertsTypeOK
<1> QED
  BY <1>1, AlertsInvInit, AlertsInvStep, PTL DEF AlertsSpec

-----------------------------------------------------------------------------
(* A ban is announced once                                                 *)

\* What the last reading of the bans did not hold was free since it was last
\* announced, and so is what is not banned now.
NewsInv == /\ ~poll.firstBans => Sources \ poll.seenBans \subseteq news
           /\ Sources \ banned \subseteq news

\* Every step keeps NewsInv.
LEMMA NewsStep ==
    ASSUME AlertsInv, NewsInv, [AlertsNext]_alertVars
    PROVE  NewsInv'
<1> USE DEF NewsInv
<1>1. CASE /\ poll'.seenBans = poll.seenBans /\ poll'.firstBans = poll.firstBans
           /\ news \subseteq news'
           /\ Sources \ banned' \subseteq news'
  BY <1>1
<1>2. CASE PollBans
  <2>1. poll'.seenBans = banned /\ banned' = banned
    BY <1>2, PollBansMoves DEF PollBans, worldVars
  <2>2. news' = news \ Fresh /\ Fresh \subseteq banned
    BY <1>2 DEF PollBans, Fresh
  <2> QED
    BY <2>1, <2>2
<1>3. CASE PollNft \/ PollBansFail \/ PollExposures \/ PollExposuresFail
  <2>1. UNCHANGED <<banned, news>>
    BY <1>3 DEF PollNft, PollBansFail, PollExposures, PollExposuresFail, worldVars, histVars
  <2> QED
    BY <1>1, <1>3, <2>1, PollNftMoves, PollFailMoves, PollExposuresMoves
<1>4. CASE HandlerAlert \/ WorkSkip \/ WorkLoadFails \/ WorkTake \/ WorkDone
  BY <1>1, <1>4 DEF HandlerAlert, WorkSkip, WorkLoadFails, WorkTake, WorkDone,
     worldVars, histVars
<1>5. CASE MailStep \/ DeliveryStep
  BY <1>1, <1>5, MailStepMoves, DeliveryMoves DEF worldVars
<1>6. ASSUME NEW d \in Dests, SaveDest(d) \/ DeleteDest(d) PROVE NewsInv'
  BY <1>1, <1>6, EditMoves DEF worldVars
<1>7. CASE World
  BY <1>1, <1>7, WorldMoves DEF AlertsInv
<1>8. CASE Restart
  BY <1>8 DEF Restart, NewPoll, worldVars
<1>9. CASE UNCHANGED alertVars
  BY <1>1, <1>9 DEF alertVars, worldVars, histVars
<1> QED
  BY <1>2, <1>3, <1>4, <1>5, <1>6, <1>7, <1>8, <1>9 DEF AlertsNext, Poller,
     Worker, MailStep, DeliveryStep

\* Only Notify makes the queue longer.
BansAreNews ==
    \A i \in DOMAIN queue' \ DOMAIN queue :
       Len(queue') > Len(queue) /\ queue'[i].kind = "ban.new"
          => queue'[i].subject \in news \cup {Nobody}

\* What a step queues about bans is news.
LEMMA BansAreNewsStep ==
    ASSUME AlertsInv, NewsInv, [AlertsNext]_alertVars
    PROVE  BansAreNews
<1>0. AlertsInv' /\ QueueOK /\ Len(queue) \in Nat
  BY AlertsInvStep DEF AlertsInv, QueueOK
<1>1. ASSUME NEW alerts \in Seq(Alert), Notify(alerts),
             \A i \in DOMAIN alerts :
                alerts[i].kind = "ban.new"
                   => alerts[i].subject \in news \cup {Nobody}
      PROVE  BansAreNews
  <2> SUFFICES ASSUME NEW i \in DOMAIN queue' \ DOMAIN queue
               PROVE  \E j \in DOMAIN alerts : queue'[i] = alerts[j]
    BY <1>1 DEF BansAreNews
  <2>1. i \in (Len(queue) + 1)..Len(queue')
    BY <1>0 DEF AlertsInv, QueueOK
  <2>2. /\ i - Len(queue) \in 1..Len(alerts)
        /\ queue'[i] = alerts[i - Len(queue)]
    BY <1>0, <1>1, <2>1, NotifyEffect DEF QueueOK
  <2> QED
    BY <2>2
<1>2. CASE queue' = queue
  BY <1>2 DEF BansAreNews
<1>3. CASE queue # <<>> /\ queue' = Tail(queue)
  <2>1. Len(queue') = Len(queue) - 1
    BY <1>0, <1>3, HeadLeaves
  <2> QED
    BY <1>0, <2>1 DEF BansAreNews
<1>4. CASE PollNft
  <2>1. Turns \in Seq(Alert) /\ Notify(Turns)
    BY <1>4, PollNftMoves
  <2>2. \A i \in DOMAIN Turns : Turns[i].kind # "ban.new"
    <3>1. CASE Turns = <<>>
      BY <3>1
    <3>2. ASSUME NEW kind \in NftKinds, Turns = <<About(kind, Nobody)>>
          PROVE  \A i \in DOMAIN Turns : Turns[i].kind # "ban.new"
      BY <3>2 DEF About, NftKinds
    <3> QED
      BY <1>4, <3>1, <3>2, PollNftMoves
  <2> QED
    BY <1>1, <2>1, <2>2
<1>5. CASE PollBans
  <2>1. Fresh \subseteq news
    BY DEF NewsInv, Fresh, AlertsInv, WorldOK
  <2> QED
    BY <1>1, <1>5, <2>1, PollBansTells
<1>6. CASE PollExposures \/ HandlerAlert
  BY <1>1, <1>6, OthersTell
<1>7. CASE Restart
  <2>1. queue' = <<>>
    BY <1>7 DEF Restart
  <2> QED
    BY <2>1 DEF BansAreNews
<1>8. CASE WorkSkip \/ WorkLoadFails \/ WorkTake
  BY <1>3, <1>8 DEF WorkSkip, WorkLoadFails, WorkTake
<1>9. CASE PollBansFail \/ PollExposuresFail \/ WorkDone \/ World
  BY <1>2, <1>9 DEF PollBansFail, PollExposuresFail, WorkDone, World, senderVars
<1>10. CASE MailStep \/ DeliveryStep
  BY <1>2, <1>10, MailStepMoves, DeliveryMoves
<1>11. ASSUME NEW d \in Dests, SaveDest(d) \/ DeleteDest(d) PROVE BansAreNews
  BY <1>2, <1>11, EditMoves DEF senderVars
<1>12. CASE UNCHANGED alertVars
  BY <1>2, <1>12 DEF alertVars, senderVars
<1> QED
  BY <1>4, <1>5, <1>6, <1>7, <1>8, <1>9, <1>10, <1>11, <1>12 DEF AlertsNext,
     Poller, Worker, MailStep, DeliveryStep

\* A ban is announced once: a source an alert is about was seen free since it
\* was announced before, and since the process started, whatever readings
\* failed in between and however long the batch is.
THEOREM BansAnnouncedOnce == AlertsSpec => BanAlertsAreNews
<1>1. AlertsInit => AlertsInv /\ NewsInv
  <2>1. AlertsInit => NewsInv
    BY DEF AlertsInit, NewPoll, NewsInv
  <2> QED
    BY <2>1, AlertsInvInit
<1>2. AlertsInv /\ NewsInv /\ [AlertsNext]_alertVars =>
         AlertsInv' /\ NewsInv' /\ [BansAreNews]_alertVars
  BY AlertsInvStep, NewsStep, BansAreNewsStep
<1> QED
  BY <1>1, <1>2, PTL DEF AlertsSpec, BanAlertsAreNews, BansAreNews

-----------------------------------------------------------------------------
(* The last word is current                                                *)

\* What the poller found last.
Now == IF poll.nftUp THEN "nft.up" ELSE "nft.down"

\* The last alert about nft in the queue says it.
LastInv ==
    ~overflow =>
       \A i \in DOMAIN queue :
          /\ queue[i].kind \in NftKinds
          /\ \A j \in DOMAIN queue : j > i => queue[j].kind \notin NftKinds
          => queue[i].kind = Now

\* With none in the queue, the one that is being delivered says it, and whom it
\* has passed by has heard it or is noted to have missed it.
Telling == Busy /\ work.alert.kind \in NftKinds
Owed(d) == /\ d \in Enabled /\ Wants(dests[d], "nft.down") /\ ~missed[d]
           /\ ~(Telling /\ d \in work.todo)
WordInv ==
    ~overflow /\ ~HasNft(queue) =>
       /\ Telling => work.alert.kind = Now
       /\ \A d \in Dests : Owed(d) => told[d] = Now

\* A worker that has taken an alert is not idle.
LEMMA WorkIsBusy == NoDest \notin Works
<1>1. \A w \in Works : "alert" \in DOMAIN w
  BY DEF Works
<1>2. "alert" \notin DOMAIN NoDest
  BY DEF NoDest
<1> QED
  BY <1>1, <1>2

\* Queueing alerts that are not about nft keeps the last word.
LEMMA QuietNotify ==
    ASSUME AlertsInv, LastInv, WordInv, poll'.nftUp = poll.nftUp,
           UNCHANGED <<work, told, missed, dests>>,
           NEW alerts \in Seq(Alert), Notify(alerts),
           \A i \in DOMAIN alerts : alerts[i].kind \notin NftKinds
    PROVE  LastInv' /\ WordInv'
<1>0. /\ queue \in Seq(Alert) /\ Len(queue) <= MaxQueue
      /\ Len(queue) \in Nat /\ DOMAIN queue = 1..Len(queue)
  BY DEF AlertsInv, QueueOK
<1>1. /\ queue' \in Seq(Alert) /\ Len(queue') \in Nat
      /\ Len(queue) <= Len(queue') /\ DOMAIN queue' = 1..Len(queue')
      /\ \A i \in 1..Len(queue) : queue'[i] = queue[i]
      /\ \A i \in (Len(queue) + 1)..Len(queue') :
            queue'[i].kind \notin NftKinds
  <2>1. /\ queue' \in Seq(Alert) /\ Len(queue) <= Len(queue')
        /\ \A i \in 1..Len(queue) : queue'[i] = queue[i]
        /\ \A i \in (Len(queue) + 1)..Len(queue') :
              /\ i - Len(queue) \in 1..Len(alerts)
              /\ queue'[i] = alerts[i - Len(queue)]
    BY <1>0, NotifyEffect
  <2>2. Len(queue') \in Nat /\ DOMAIN queue' = 1..Len(queue')
    BY <2>1
  <2>3. DOMAIN alerts = 1..Len(alerts)
    OBVIOUS
  <2> QED
    BY <2>1, <2>2, <2>3
<1>2. overflow' = overflow
  <2>1. ~HasNft(alerts)
    BY DEF HasNft
  <2>2. ~HasNft(Dropped(alerts))
    <3>1. \A i \in DOMAIN Dropped(alerts) :
             \E j \in 1..Len(alerts) : Dropped(alerts)[i] = alerts[j]
      BY <1>0, NotifyEffect
    <3> QED
      BY <3>1 DEF HasNft
  <2> QED
    BY <2>1, <2>2 DEF Notify, AlertsInv, HeardOK
<1>3. LastInv'
  BY <1>0, <1>1, <1>2 DEF LastInv, Now
<1>4. HasNft(queue') <=> HasNft(queue)
  BY <1>0, <1>1 DEF HasNft
<1>5. WordInv'
  BY <1>2, <1>4 DEF WordInv, Telling, Owed, Busy, Enabled, Now
<1> QED
  BY <1>3, <1>5

\* Queueing the turn nft has just taken makes it the last word, or overflows.
LEMMA TurnNotify ==
    ASSUME AlertsInv, NEW kind \in NftKinds, kind = Now',
           Notify(<<About(kind, Nobody)>>)
    PROVE  LastInv' /\ WordInv'
<1> DEFINE alerts == <<About(kind, Nobody)>>
<1>0. /\ queue \in Seq(Alert) /\ Len(queue) <= MaxQueue /\ Len(queue) \in Nat
  BY DEF AlertsInv, QueueOK
<1>1. /\ alerts \in Seq(Alert) /\ Len(alerts) = 1 /\ alerts[1].kind = kind
  <2>1. About(kind, Nobody) \in Alert /\ About(kind, Nobody).kind = kind
    BY AboutType DEF NftKinds, Kinds, Subjects
  <2> QED
    BY <2>1
<1>a. Notify(alerts)
  OBVIOUS
<1> HIDE DEF alerts
<1>2. /\ queue' \in Seq(Alert)
      /\ \A i \in (Len(queue) + 1)..Len(queue') :
            /\ i - Len(queue) \in 1..Len(alerts)
            /\ queue'[i] = alerts[i - Len(queue)]
  BY <1>0, <1>1, <1>a, NotifyEffect
<1>b. /\ Len(queue) <= Len(queue') /\ Len(queue') - Len(queue) <= Len(alerts)
      /\ Len(Dropped(alerts)) = Len(queue) + Len(alerts) - Len(queue')
  BY <1>0, <1>1, <1>a, NotifyEffect
<1>c. /\ DOMAIN Dropped(alerts) = 1..Len(Dropped(alerts))
      /\ \A i \in DOMAIN Dropped(alerts) :
            \E j \in 1..Len(alerts) : Dropped(alerts)[i] = alerts[j]
  BY <1>0, <1>1, <1>a, NotifyEffect
<1>3. Len(queue') \in Nat /\ DOMAIN queue' = 1..Len(queue')
  BY <1>2
<1>4. CASE Len(queue') = Len(queue) + 1
  <2>1. Len(queue') \in DOMAIN queue' /\ queue'[Len(queue')] = alerts[1]
    BY <1>0, <1>1, <1>2, <1>3, <1>4
  <2>2. queue'[Len(queue')].kind = kind
    BY <1>1, <2>1
  <2>3. HasNft(queue')
    BY <2>1, <2>2 DEF HasNft
  <2>4. LastInv'
    BY <1>3, <2>1, <2>2 DEF LastInv
  <2> QED
    BY <2>3, <2>4 DEF WordInv
<1>5. CASE Len(queue') = Len(queue)
  <2>1. Len(Dropped(alerts)) = 1
    BY <1>0, <1>1, <1>3, <1>5, <1>b
  <2>2. 1 \in DOMAIN Dropped(alerts)
    BY <1>c, <2>1
  <2>3. HasNft(Dropped(alerts))
    <3>1. PICK j \in 1..Len(alerts) : Dropped(alerts)[1] = alerts[j]
      BY <1>c, <2>2
    <3>2. Dropped(alerts)[1] = alerts[1]
      BY <1>1, <3>1
    <3> QED
      BY <1>1, <2>2, <3>2 DEF HasNft
  <2>4. overflow'
    BY <1>a, <2>3 DEF Notify
  <2> QED
    BY <2>4 DEF LastInv, WordInv
<1>6. Len(queue') = Len(queue) + 1 \/ Len(queue') = Len(queue)
  <2>1. Len(queue) <= Len(queue') /\ Len(queue') - Len(queue) <= 1
    <3>1. Len(queue') - Len(queue) <= Len(alerts)
      BY <1>b
    <3> QED
      BY <1>1, <1>b, <3>1
  <2> DEFINE a == Len(queue)
             b == Len(queue')
  <2>2. a \in Nat /\ b \in Nat /\ a <= b /\ b - a <= 1
    BY <1>0, <1>3, <2>1
  <2> HIDE DEF a, b
  <2>3. b = a + 1 \/ b = a
    BY <2>2
  <2> QED
    BY <2>3 DEF a, b
<1> QED
  BY <1>4, <1>5, <1>6

\* Taking the head off the queue keeps the last word, unless it was the head.
LEMMA HeadGone ==
    ASSUME AlertsInv, LastInv, queue # <<>>, queue' = Tail(queue),
           UNCHANGED overflow, poll'.nftUp = poll.nftUp
    PROVE  /\ LastInv'
           /\ ~overflow /\ ~HasNft(queue') /\ Head(queue).kind \in NftKinds
                 => Head(queue).kind = Now
           /\ ~HasNft(queue') /\ Head(queue).kind \notin NftKinds
                 => ~HasNft(queue)
<1>0. /\ Len(queue) \in Nat /\ DOMAIN queue = 1..Len(queue)
      /\ Len(queue') = Len(queue) - 1 /\ DOMAIN queue' = 1..Len(queue')
      /\ Head(queue) = queue[1] /\ 1 \in DOMAIN queue
      /\ \A i \in DOMAIN queue' : queue'[i] = queue[i + 1]
  BY HeadLeaves DEF AlertsInv, QueueOK
<1>1. \A i \in DOMAIN queue' : i + 1 \in DOMAIN queue
  BY <1>0
<1>2. \A j \in DOMAIN queue \ {1} :
         j - 1 \in DOMAIN queue' /\ queue[j] = queue'[j - 1]
  BY <1>0
<1>3. LastInv'
  <2> SUFFICES ASSUME ~overflow, NEW i \in DOMAIN queue',
                      queue'[i].kind \in NftKinds,
                      \A j \in DOMAIN queue' :
                         j > i => queue'[j].kind \notin NftKinds
               PROVE  queue'[i].kind = Now
    BY DEF LastInv, Now
  <2>1. ASSUME NEW j \in DOMAIN queue, j > i + 1
        PROVE  queue[j].kind \notin NftKinds
    <3>1. i \in Nat /\ i >= 1 /\ j \in Nat
      BY <1>0
    <3>2. j # 1 /\ j - 1 > i
      BY <2>1, <3>1
    <3>3. j - 1 \in DOMAIN queue' /\ queue[j] = queue'[j - 1]
      BY <1>2, <3>2
    <3> QED
      BY <3>2, <3>3
  <2> QED
    BY <1>0, <1>1, <2>1 DEF LastInv
<1>4. ~HasNft(queue') => \A j \in DOMAIN queue \ {1} : queue[j].kind \notin NftKinds
  BY <1>2 DEF HasNft
<1>5. ~overflow /\ ~HasNft(queue') /\ Head(queue).kind \in NftKinds
         => Head(queue).kind = Now
  BY <1>0, <1>4 DEF LastInv
<1> QED
  BY <1>0, <1>3, <1>4, <1>5 DEF HasNft

\* Every step keeps the last word.
LEMMA WordStep ==
    ASSUME AlertsInv, LastInv, WordInv, [AlertsNext]_alertVars
    PROVE  LastInv' /\ WordInv'
<1>1. ASSUME UNCHANGED <<queue, overflow>>, poll'.nftUp = poll.nftUp,
             \/ HasNft(queue) \/ overflow
             \/ /\ Telling' => work'.alert.kind = Now
                /\ \A d \in Dests : Owed(d)' => told'[d] = Now
      PROVE  LastInv' /\ WordInv'
  BY <1>1 DEF LastInv, WordInv, Now
<1>2. ASSUME UNCHANGED <<queue, overflow, work, told, missed, dests>>,
             poll'.nftUp = poll.nftUp
      PROVE  LastInv' /\ WordInv'
  BY <1>2 DEF LastInv, WordInv, Now, Telling, Owed, Busy, Enabled
<1>3. CASE PollNft
  <2>1. CASE Turns = <<>> /\ poll'.nftUp = poll.nftUp
    <3>1. \A i \in DOMAIN Turns : Turns[i].kind \notin NftKinds
      BY <2>1
    <3> QED
      BY <1>3, <2>1, <3>1, PollNftMoves, QuietNotify
  <2>2. ASSUME NEW kind \in NftKinds, Turns = <<About(kind, Nobody)>>,
               kind = IF poll'.nftUp THEN "nft.up" ELSE "nft.down"
        PROVE  LastInv' /\ WordInv'
    <3>1. kind = Now' /\ Notify(<<About(kind, Nobody)>>)
      BY <1>3, <2>2, PollNftMoves DEF Now
    <3> QED
      BY <3>1, TurnNotify
  <2> QED
    BY <1>3, <2>1, <2>2, PollNftMoves
<1>4. CASE PollBans
  <2>1. UNCHANGED <<work, told, missed, dests>> /\ poll'.nftUp = poll.nftUp
    BY <1>4, PollBansMoves DEF PollBans
  <2>2. PICK alerts \in Seq(Alert) :
           /\ Notify(alerts)
           /\ \A i \in DOMAIN alerts : alerts[i].kind = "ban.new"
    BY <1>4, PollBansTells
  <2>3. \A i \in DOMAIN alerts : alerts[i].kind \notin NftKinds
    BY <2>2 DEF NftKinds
  <2> QED
    BY <2>1, <2>2, <2>3, QuietNotify
<1>5. CASE PollBansFail \/ PollExposuresFail
  BY <1>2, <1>5, PollFailMoves DEF PollBansFail, PollExposuresFail, senderVars, histVars
<1>6. CASE PollExposures \/ HandlerAlert
  <2>1. UNCHANGED <<work, told, missed, dests>> /\ poll'.nftUp = poll.nftUp
    BY <1>6, PollExposuresMoves DEF PollExposures, HandlerAlert
  <2>2. PICK alerts \in Seq(Alert) :
           /\ Notify(alerts)
           /\ \A i \in DOMAIN alerts :
                 alerts[i].kind \notin NftKinds \cup {"ban.new"}
    BY <1>6, OthersTell
  <2> QED
    BY <2>1, <2>2, QuietNotify
<1>7. CASE WorkSkip \/ WorkLoadFails
  <2>1. /\ ~Busy /\ queue # <<>> /\ queue' = Tail(queue)
        /\ Lose(Head(queue), Dests)
        /\ UNCHANGED <<poll, work, dests, told, overflow>>
    BY <1>7 DEF WorkSkip, WorkLoadFails
  <2>2. /\ LastInv'
        /\ ~HasNft(queue') /\ Head(queue).kind \notin NftKinds => ~HasNft(queue)
    BY <2>1, HeadGone
  <2>3. \A d \in Dests : missed'[d] <=> missed[d] \/ Head(queue).kind \in NftKinds
    BY <2>1, LoseType
  <2>4. ~Telling /\ ~Telling'
    BY <2>1 DEF Telling, Busy
  <2>5. \A d \in Dests : Owed(d)' => Owed(d) /\ Head(queue).kind \notin NftKinds
    BY <2>1, <2>3, <2>4 DEF Owed, Enabled
  <2>6. WordInv'
    BY <2>1, <2>2, <2>4, <2>5 DEF WordInv, Now
  <2> QED
    BY <2>2, <2>6
<1>8. CASE WorkTake
  <2>1. /\ ~Busy /\ queue # <<>> /\ queue' = Tail(queue)
        /\ UNCHANGED <<poll, dests, told, missed, overflow>>
        /\ work'.alert = Head(queue)
        /\ work'.todo = {d \in Enabled : Wants(dests[d],
                                            FilterKind(Head(queue).kind))}
    BY <1>8, WorkTakeMoves DEF WorkTake, histVars
  <2>2. /\ LastInv'
        /\ ~overflow /\ ~HasNft(queue') /\ Head(queue).kind \in NftKinds
              => Head(queue).kind = Now
        /\ ~HasNft(queue') /\ Head(queue).kind \notin NftKinds => ~HasNft(queue)
    BY <2>1, HeadGone
  <2>3. ~Telling
    BY <2>1 DEF Telling
  <2>4. CASE Head(queue).kind \in NftKinds
    <3>1. FilterKind(Head(queue).kind) = "nft.down"
      BY <2>4 DEF FilterKind, NftKinds
    <3>2. Busy'
      BY <1>8, WorkTakeMoves, WorkIsBusy DEF Busy
    <3>3. \A d \in Dests : ~Owed(d)'
      BY <2>1, <2>4, <3>1, <3>2 DEF Owed, Telling, Enabled
    <3> QED
      BY <2>1, <2>2, <2>4, <3>3 DEF WordInv, Now, Telling
  <2>5. CASE Head(queue).kind \notin NftKinds
    <3>1. ~Telling'
      BY <2>1, <2>5 DEF Telling
    <3>2. \A d \in Dests : Owed(d)' => Owed(d)
      BY <2>1, <2>3 DEF Owed, Enabled
    <3> QED
      BY <2>1, <2>2, <2>5, <3>1, <3>2 DEF WordInv, Now
  <2> QED
    BY <2>4, <2>5
<1>9. CASE MailStep
  <2>1. /\ UNCHANGED <<poll, queue, overflow, dests, told, missed>>
        /\ work'.alert = work.alert /\ work'.todo = work.todo
    BY <1>9, MailStepMoves
  <2>2. Busy
    BY <1>9 DEF MailStep, WorkMail, MailAnswered, MailHangs
  <2>3. Telling' => Telling
    BY <2>1, <2>2 DEF Telling
  <2>4. Busy'
    BY <1>9, MailStepMoves, WorkIsBusy DEF Busy
  <2>5. \A d \in Dests : Owed(d)' => Owed(d)
    BY <2>1, <2>2, <2>4 DEF Owed, Telling, Enabled
  <2> QED
    BY <1>1, <2>1, <2>3, <2>5 DEF WordInv
<1>10. CASE DeliveryStep
  <2>1. Busy /\ UNCHANGED <<poll, queue, dests, overflow>>
    BY <1>10, DeliveryMoves
  <2>2. PICK ok, got \in BOOLEAN : Delivered(ok, got)
    BY <1>10, DeliveryMoves
  <2>3. /\ work' \in Works /\ work'.alert = work.alert
        /\ work'.todo = work.todo \ {Turn}
        /\ \A d \in Dests \ {Turn} : told'[d] = told[d] /\ missed'[d] = missed[d]
        /\ Turn \in Dests /\ work.alert.kind \in NftKinds =>
              missed'[Turn] \/ told'[Turn] = work.alert.kind
        /\ work.alert.kind \notin NftKinds => told' = told /\ missed' = missed
    BY <2>1, <2>2, DeliveredMoves
  <2>4. Telling' => Telling
    BY <2>1, <2>3 DEF Telling
  <2>5. CASE work.alert.kind \in NftKinds
    <3>1. Telling /\ Telling'
      BY <2>1, <2>3, <2>5, WorkIsBusy DEF Telling, Busy
    <3>2. ASSUME ~overflow, ~HasNft(queue), NEW d \in Dests, Owed(d)'
          PROVE  told'[d] = Now
      <4>1. CASE d = Turn
        <5>1. ~missed'[d]
          BY <3>2 DEF Owed
        <5> QED
          BY <2>3, <2>5, <3>1, <3>2, <4>1, <5>1 DEF WordInv
      <4>2. CASE d # Turn
        <5>1. Owed(d)
          BY <2>1, <2>3, <3>1, <3>2, <4>2 DEF Owed, Enabled
        <5> QED
          BY <2>3, <3>2, <4>2, <5>1 DEF WordInv
      <4> QED
        BY <4>1, <4>2
    <3> QED
      BY <1>1, <2>1, <2>3, <3>1, <3>2 DEF WordInv
  <2>6. CASE work.alert.kind \notin NftKinds
    <3>1. ~Telling /\ ~Telling'
      BY <2>3, <2>6 DEF Telling
    <3>2. \A d \in Dests : Owed(d)' => Owed(d)
      BY <2>1, <2>3, <2>6, <3>1 DEF Owed, Enabled
    <3> QED
      BY <1>1, <2>1, <2>3, <2>6, <3>1, <3>2 DEF WordInv
  <2> QED
    BY <2>5, <2>6
<1>11. CASE WorkDone
  <2>1. /\ Busy /\ work.todo = {} /\ work' = NoDest
        /\ UNCHANGED <<poll, queue, dests, told, missed, overflow>>
    BY <1>11 DEF WorkDone, histVars
  <2>2. ~Telling'
    BY <2>1 DEF Telling, Busy
  <2>3. \A d \in Dests : Owed(d)' => Owed(d)
    BY <2>1, <2>2 DEF Owed, Enabled
  <2> QED
    BY <1>1, <2>1, <2>2, <2>3 DEF WordInv
<1>12. ASSUME NEW e \in Dests, SaveDest(e) \/ DeleteDest(e)
       PROVE  LastInv' /\ WordInv'
  <2>1. /\ missed'[e]
        /\ \A x \in Dests \ {e} : dests'[x] = dests[x] /\ missed'[x] = missed[x]
        /\ UNCHANGED <<poll, queue, work, told, overflow>>
    BY <1>12, EditMoves DEF senderVars
  <2>2. Telling' <=> Telling
    BY <2>1 DEF Telling, Busy
  <2>3. \A d \in Dests : Owed(d)' => Owed(d)
    BY <2>1, <2>2 DEF Owed, Enabled
  <2> QED
    BY <1>1, <2>1, <2>2, <2>3 DEF WordInv
<1>13. CASE World
  BY <1>2, <1>13 DEF World, senderVars
<1>14. CASE Restart
  <2>1. queue' = <<>> /\ work' = NoDest /\ missed' = [d \in Dests |-> TRUE]
    BY <1>14 DEF Restart
  <2> QED
    BY <2>1 DEF LastInv, WordInv, Telling, Busy, Owed
<1>15. CASE UNCHANGED alertVars
  BY <1>2, <1>15 DEF alertVars, senderVars, histVars
<1> QED
  BY <1>3, <1>4, <1>5, <1>6, <1>7, <1>8, <1>9, <1>10, <1>11, <1>12, <1>13,
     <1>14, <1>15 DEF AlertsNext, Poller, Worker, MailStep, DeliveryStep

\* Once nothing is on its way, a destination that wants outages was told last
\* what the poller found last, unless that alert was lost on a path the code
\* knows: in whatever order the outages, the deliveries and the edits of the
\* destinations come, and whatever the capacity of the queue.
THEOREM LastWord == AlertsSpec => []LastWordIsCurrent
<1>1. AlertsInit => AlertsInv /\ LastInv /\ WordInv
  <2> SUFFICES ASSUME AlertsInit PROVE LastInv /\ WordInv
    BY AlertsInvInit
  <2>1. /\ queue = <<>> /\ work = NoDest /\ Now = "nft.up"
        /\ told = [d \in Dests |-> "nft.up"]
    BY DEF AlertsInit, NewPoll, Now
  <2> QED
    BY <2>1 DEF LastInv, WordInv, Telling, Busy
<1>2. AlertsInv /\ LastInv /\ WordInv /\ [AlertsNext]_alertVars =>
         AlertsInv' /\ LastInv' /\ WordInv'
  BY AlertsInvStep, WordStep
<1>3. AlertsInv /\ LastInv /\ WordInv => LastWordIsCurrent
  <2> SUFFICES ASSUME WordInv, NEW d \in Enabled, Wants(dests[d], "nft.down"),
                      ~missed[d], ~overflow, ~OnItsWay(d)
               PROVE  told[d] = Now
    BY DEF LastWordIsCurrent, Now
  <2>1. ~HasNft(queue)
    BY DEF OnItsWay, HasNft
  <2>2. d \in Dests /\ Owed(d)
    BY DEF OnItsWay, Owed, Telling, Enabled
  <2> QED
    BY <2>1, <2>2 DEF WordInv
<1> QED
  BY <1>1, <1>2, <1>3, PTL DEF AlertsSpec
=============================================================================
