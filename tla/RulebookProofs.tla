--------------------------- MODULE RulebookProofs ---------------------------
(***************************************************************************)
(* What is proved of Rulebook, for every set of addresses, lists, packets, *)
(* forms and clicks.                                                       *)
(***************************************************************************)
EXTENDS Rulebook, SequenceTheorems, FiniteSetTheorems, WellFoundedInduction, TLAPS

-----------------------------------------------------------------------------
(* Sequences and numbers                                                   *)

\* A set of numbers that is not empty has a least member.
LEMMA Smallest ==
  ASSUME NEW S \in SUBSET Nat, S # {}
  PROVE  \E m \in S : \A k \in S : m <= k
<1> DEFINE R == {ss \in Nat \X Nat : ss[1] < ss[2]}
<1>1. IsWellFoundedOn(R, Nat)
  BY NatLessThanWellFounded DEF OpToRel
<1>2. \A k, m \in S : k < m => <<k, m>> \in R
  OBVIOUS
<1> HIDE DEF R
<1>3. PICK m \in S : \A k \in S : ~(<<k, m>> \in R)
  BY <1>1, WFMin
<1>4. \A k \in S : ~(k < m)
  BY <1>2, <1>3
<1>5. \A k \in S : m <= k
  BY <1>4
<1> QED BY <1>5

\* Least picks the least member.
LEMMA LeastIs ==
  ASSUME NEW S \in SUBSET Nat, S # {}
  PROVE  Least(S) \in S /\ \A k \in S : Least(S) <= k
BY Smallest DEF Least

\* The places of a concatenation, and what is at them.
LEMMA Joined ==
  ASSUME NEW T, NEW a \in Seq(T), NEW b \in Seq(T)
  PROVE  /\ a \o b \in Seq(T)
         /\ Len(a \o b) = Len(a) + Len(b)
         /\ Len(a) \in Nat /\ Len(b) \in Nat
         /\ DOMAIN a = 1..Len(a) /\ DOMAIN b = 1..Len(b)
         /\ DOMAIN (a \o b) = 1..(Len(a) + Len(b))
         /\ \A k \in 1..Len(a) : (a \o b)[k] = a[k]
         /\ \A k \in 1..Len(b) : (a \o b)[Len(a) + k] = b[k]
<1>1. /\ a \o b \in Seq(T) /\ Len(a \o b) = Len(a) + Len(b)
      /\ \A k \in 1..(Len(a) + Len(b)) :
            (a \o b)[k] = IF k <= Len(a) THEN a[k] ELSE b[k - Len(a)]
  BY ConcatProperties
<1>2. Len(a) \in Nat /\ Len(b) \in Nat
  BY LenProperties
<1>3. DOMAIN a = 1..Len(a) /\ DOMAIN b = 1..Len(b)
  BY LenProperties
<1>4. DOMAIN (a \o b) = 1..(Len(a) + Len(b))
  BY <1>1, LenProperties
<1>5. \A k \in 1..Len(a) : (a \o b)[k] = a[k]
  BY <1>1, <1>2
<1>6. \A k \in 1..Len(b) : (a \o b)[Len(a) + k] = b[k]
  <2> TAKE k \in 1..Len(b)
  <2>1. Len(a) + k \in 1..(Len(a) + Len(b))
    BY <1>2
  <2>2. ~(Len(a) + k <= Len(a)) /\ Len(a) + k - Len(a) = k
    BY <1>2
  <2> QED BY <1>1, <2>1, <2>2
<1> QED BY <1>1, <1>2, <1>3, <1>4, <1>5, <1>6

\* What is in a concatenation is in one of its parts.
LEMMA JoinedSet ==
  ASSUME NEW T, NEW a \in Seq(T), NEW b \in Seq(T)
  PROVE  /\ a \o b \in Seq(T)
         /\ ToSet(a \o b) = ToSet(a) \cup ToSet(b)
         /\ ToSet(a) \subseteq T
<1> DEFINE c == a \o b
<1>1. /\ c \in Seq(T)
      /\ Len(a) \in Nat /\ Len(b) \in Nat
      /\ DOMAIN a = 1..Len(a) /\ DOMAIN b = 1..Len(b)
      /\ DOMAIN c = 1..(Len(a) + Len(b))
      /\ \A k \in 1..Len(a) : c[k] = a[k]
      /\ \A k \in 1..Len(b) : c[Len(a) + k] = b[k]
  BY Joined
<1> HIDE DEF c
<1>2. \A k \in DOMAIN a : k \in DOMAIN c /\ c[k] = a[k]
  BY <1>1
<1>3. \A k \in DOMAIN b : Len(a) + k \in DOMAIN c /\ c[Len(a) + k] = b[k]
  BY <1>1
<1>4. \A k \in DOMAIN c : \/ k \in DOMAIN a /\ c[k] = a[k]
                          \/ \E j \in DOMAIN b : c[k] = b[j]
  <2> TAKE k \in DOMAIN c
  <2>1. CASE k <= Len(a)
    BY <1>1, <2>1
  <2>2. CASE ~(k <= Len(a))
    <3>1. k - Len(a) \in DOMAIN b /\ k = Len(a) + (k - Len(a))
      BY <1>1, <2>2
    <3> QED BY <1>3, <3>1
  <2> QED BY <2>1, <2>2
<1>5. ToSet(c) = ToSet(a) \cup ToSet(b)
  BY <1>2, <1>3, <1>4 DEF ToSet
<1>6. ToSet(a) \subseteq T
  BY DEF ToSet
<1> QED BY <1>1, <1>5, <1>6 DEF c

-----------------------------------------------------------------------------
(* Rules                                                                   *)

Hooks    == {"input", "forward", "output", "prerouting", "postrouting"}
Policies == {"accept", "drop", "none"}
Values   ==
    {"lo", "lan", "wan", "wg0", "new", "established", "invalid", "essential",
     "22", "53", "67", "68", "80", "137", "138", "139", "179", "443", "445", "1900",
     "3306", "3784", "3785", "4784", "5353", "5355", "5432", "51820", UiPort}
    \cup OwnLists \cup BanSets \cup {pp[2] : pp \in AllowPorts}
    \cup UNION {BanServices[service].ports : service \in DOMAIN BanServices}
Tests    == UNION {[F -> SUBSET Values] : F \in SUBSET Fields}
Rules    == [on : BOOLEAN, match : Tests, do : Actions]
Chains   == [hook : Hooks, policy : Policies, rules : Seq(Rules)]

\* A rule tests a field for values there are.
LEMMA OneTestTyped ==
  ASSUME NEW f \in Fields, NEW v, v \subseteq Values, NEW do \in Actions
  PROVE  Rule(Is(f, v), do) \in Rules
<1>1. Is(f, v) \in [{f} -> SUBSET Values]
  BY DEF Is
<1>2. Is(f, v) \in Tests
  BY <1>1 DEF Tests
<1> QED BY <1>2 DEF Rules, Rule

\* So is one with two tests.
LEMMA TwoTestsTyped ==
  ASSUME NEW f \in Fields, NEW v, v \subseteq Values, NEW g \in Fields,
         NEW w, w \subseteq Values, NEW do \in Actions
  PROVE  Rule(And(f, v, Is(g, w)), do) \in Rules
<1>1. And(f, v, Is(g, w)) \in [{f, g} -> SUBSET Values]
  BY DEF Is, And
<1>2. {f, g} \subseteq Fields
  OBVIOUS
<1>3. And(f, v, Is(g, w)) \in Tests
  BY <1>1, <1>2 DEF Tests
<1> QED BY <1>3 DEF Rules, Rule

\* A rule without a test fires on everything when it is on.
LEMMA NoTests ==
  ASSUME NEW do \in Actions
  PROVE  /\ Rule(NoMatch, do) \in Rules
         /\ Rule(NoMatch, do).on = TRUE /\ Rule(NoMatch, do).do = do
         /\ DOMAIN NoMatch = {} /\ Rule(NoMatch, do).match = NoMatch
<1>1. NoMatch \in [{} -> SUBSET Values] /\ DOMAIN NoMatch = {}
  BY DEF NoMatch
<1>2. NoMatch \in Tests
  BY <1>1 DEF Tests
<1>3. Rule(NoMatch, do) \in Rules
  BY <1>2 DEF Rules, Rule
<1> QED BY <1>1, <1>3 DEF Rule

\* A test besides nothing is that test.
LEMMA BesideNothing ==
  ASSUME NEW f, NEW v
  PROVE  And(f, v, NoMatch) = Is(f, v)
BY DEF Is, And, NoMatch

-----------------------------------------------------------------------------
(* Which rule decides                                                      *)

\* The rules of a chain that decide on a packet.
Hits(rules, p) == {i \in DOMAIN rules : rules[i].do \in Verdicts /\ Fires(rules[i], p)}

\* The first rule that decides: either none does and Decider is one past the
\* end, or it is one of them and none before it is.
LEMMA DeciderIs ==
  \A rules \in Seq(Rules) : \A p :
      /\ Decider(rules, p) \in 1..(Len(rules) + 1)
      /\ Decider(rules, p) \in DOMAIN rules <=> Decider(rules, p) # Len(rules) + 1
      /\ Decider(rules, p) \in DOMAIN rules => Decider(rules, p) \in Hits(rules, p)
      /\ \A j \in Hits(rules, p) : Decider(rules, p) <= j
<1> TAKE rules \in Seq(Rules)
<1> TAKE p
<1> DEFINE n == Len(rules)
           H == Hits(rules, p)
           D == Decider(rules, p)
<1>1. n \in Nat /\ DOMAIN rules = 1..n
  BY LenProperties
<1>2. H \in SUBSET (1..n)
  BY <1>1 DEF Hits
<1>3. \A i \in 1..n : (rules[i].do \in Verdicts /\ Fires(rules[i], p)) <=> i \in H
  BY <1>1 DEF Hits
<1> DEFINE C(i) == (i \in 1..n => i \in H) /\ \A j \in 1..(i - 1) : j \notin H
<1>4. D = CHOOSE i \in 1..(n + 1) : C(i)
  <2>1. \A i \in 1..(n + 1) :
          /\ i \in DOMAIN rules => rules[i].do \in Verdicts /\ Fires(rules[i], p)
          /\ \A j \in 1..(i - 1) : ~(rules[j].do \in Verdicts /\ Fires(rules[j], p))
          <=> C(i)
    <3> TAKE i \in 1..(n + 1)
    <3>1. \A j \in 1..(i - 1) : j \in 1..n
      BY <1>1
    <3> QED BY <1>1, <1>3, <3>1
  <2> HIDE DEF n, H
  <2> QED BY <2>1 DEF Decider, n
<1> HIDE DEF n, H, D
<1>5. \E i \in 1..(n + 1) : C(i)
  <2>1. CASE H = {}
    <3>1. n + 1 \in 1..(n + 1) /\ n + 1 \notin 1..n
      BY <1>1
    <3> QED BY <2>1, <3>1
  <2>2. CASE H # {}
    <3>1. H \in SUBSET Nat
      BY <1>1, <1>2
    <3>2. PICK m \in H : \A k \in H : m <= k
      BY <2>2, <3>1, Smallest
    <3>3. m \in 1..(n + 1) /\ m \in Nat
      BY <1>1, <1>2
    <3>4. \A j \in 1..(m - 1) : j \notin H
      BY <3>2, <3>3
    <3> QED BY <3>2, <3>3, <3>4
  <2> QED BY <2>1, <2>2
<1>6. D \in 1..(n + 1) /\ C(D)
  <2> HIDE DEF C
  <2> QED BY <1>4, <1>5
<1>7. D \in 1..n <=> D # n + 1
  BY <1>1, <1>6
<1>8. \A j \in H : D <= j
  <2> TAKE j \in H
  <2>1. j \in Nat /\ D \in Nat
    BY <1>1, <1>2, <1>6
  <2>2. ~(j \in 1..(D - 1))
    BY <1>6
  <2>3. 1 <= j
    BY <1>1, <1>2
  <2> QED BY <2>1, <2>2, <2>3
<1> QED BY <1>1, <1>6, <1>7, <1>8 DEF n, H, D

-----------------------------------------------------------------------------
(* The inductive invariant                                                 *)

Families == {"saddr4", "saddr6"}
Lo  == Rule(Is("iif", {"lo"}), "accept")
Est == Rule(Is("ct", {"established"}), "accept")
Inv == Rule(Is("ct", {"invalid"}), "drop")
Rpf == Rule(Is("rpf", {}), "drop")
DropOf(f, name)   == Rule(Is(f, {name}), "drop")
Allowing(pp)      == Rule(Is(pp[1], {pp[2]}), "accept")
Inspect           == [Rule(NoMatch, "queue") EXCEPT !.on = FALSE]

\* The rules of a chain in which only tools put rules: those that decide
\* nothing, those that drop, and those that accept.
Blocks   == {DropOf(f, n) : f \in Families, n \in {"blacklist", BlkList}}
BanDrops == {DropOf(f, n) : f \in Families, n \in BanSets}
FixLets  == {Lo, Est, Icmp("icmp6")}
PresetLets(preset) ==
    IF preset = "none" THEN {} ELSE {r \in ToSet(InputRules(preset)) : r.do = "accept"}
AllowedLets == {Allowing(pp) : pp \in story.allowed}
Known(r) ==
    \/ r.do \in {"count", "ban"}
    \/ r \in {Inv, Rpf} \cup Blocks \cup BanDrops
    \/ r \in FixLets \cup PresetLets(story.preset) \cup AllowedLets

\* Nothing but loopback is accepted before rule k.
Above(rules, k) == \A j \in 1..(k - 1) : rules[j].do = "accept" => rules[j] = Lo

\* No rule hands packets to user space, and no accept stands before a detector.
Clean(rules) ==
    /\ \A k \in DOMAIN rules : rules[k].do # "queue"
    /\ \A k \in DOMAIN rules : rules[k].do = "ban" =>
           \A j \in 1..(k - 1) : rules[j].do \in {"drop", "ban"}

\* The block lists are looked at before anything but loopback is accepted; so
\* is, in a preset, what conntrack calls invalid, and loopback before that.
BlocksAbove(rules) ==
    \A k \in DOMAIN rules : rules[k] \in Blocks => Above(rules, k)
InvalidAbove(rules) == \E k \in DOMAIN rules : rules[k] = Inv /\ Above(rules, k)
LoopbackFirst(rules) ==
    \E k \in DOMAIN rules : rules[k] = Lo /\ \A j \in 1..(k - 1) : rules[j] # Inv

Story == [preset : Presets \cup {"none"}, by : Clients, warned : BOOLEAN,
          edited : BOOLEAN, allowed : SUBSET AllowPorts, saved : SUBSET Hosts,
          already : SUBSET Hosts, country : BOOLEAN]

StateTyped ==
    /\ chains \in Seq(Chains)
    /\ \A n \in DOMAIN lists : lists[n] \subseteq Hosts /\ n \notin BanSets
    /\ clicks \in 0..MaxClicks /\ breaks \in 0..MaxBreaks
    /\ story \in Story

\* Whatever was done by hand.
InputClean == \A i \in OnHook("input") : Clean(chains[i].rules)

\* What the block button saved is on the list.
SavedListed == story.saved \subseteq Members("blacklist")

\* What is in the input chain while only tools put rules there.
ToolMade ==
    ~story.edited =>
        /\ \A i, j \in OnHook("input") : i = j
        /\ \A i \in OnHook("input") :
              /\ \A r \in ToSet(chains[i].rules) : Known(r)
              /\ BlocksAbove(chains[i].rules)
              /\ \A f \in Families :
                    /\ story.saved # {} =>
                          DropOf(f, "blacklist") \in ToSet(chains[i].rules)
                    /\ story.country <=> DropOf(f, BlkList) \in ToSet(chains[i].rules)

\* The chains of a preset with what the tools added.
PresetInput(c) ==
    /\ c.policy = "drop"
    /\ PresetLets(story.preset) \cup AllowedLets \subseteq ToSet(c.rules)
    /\ \A f \in Families : DropOf(f, "blacklist") \in ToSet(c.rules)
    /\ InvalidAbove(c.rules) /\ LoopbackFirst(c.rules)
PresetForward(c) ==
    /\ c.policy = IF story.preset = "bgp-router" THEN "accept" ELSE "drop"
    /\ \/ c.rules = ForwardRules(story.preset)
       \/ c.rules = <<Inspect>> \o ForwardRules(story.preset)
PresetMade ==
    story.preset # "none" /\ ~story.edited =>
        /\ ListsOf(story.preset) \subseteq DOMAIN lists
        /\ OnHook("input") # {}
        /\ \A i \in OnHook("input") : PresetInput(chains[i])
        /\ OnHook("forward") = {} <=> story.preset = "container-host"
        /\ \A i \in OnHook("forward") : PresetForward(chains[i])

IInv == StateTyped /\ InputClean /\ SavedListed /\ ToolMade /\ PresetMade

-----------------------------------------------------------------------------
(* Rules at either end                                                     *)

\* The names of rules say what they are.
LEMMA NamedRules ==
  /\ Lo \in Rules /\ Lo.do = "accept" /\ Lo.on = TRUE
  /\ DOMAIN Lo.match = {"iif"} /\ Lo.match["iif"] = {"lo"}
  /\ Est \in Rules /\ Est.do = "accept" /\ Est.on = TRUE
  /\ DOMAIN Est.match = {"ct"} /\ Est.match["ct"] = {"established"}
  /\ Inv \in Rules /\ Inv.do = "drop" /\ Inv.on = TRUE
  /\ DOMAIN Inv.match = {"ct"} /\ Inv.match["ct"] = {"invalid"}
  /\ Rpf \in Rules /\ Rpf.do = "drop" /\ Rpf.on = TRUE
  /\ DOMAIN Rpf.match = {"rpf"}
  /\ \A f \in {"icmp4", "icmp6"} :
        /\ Icmp(f) \in Rules /\ Icmp(f).do = "accept" /\ Icmp(f).on = TRUE
        /\ DOMAIN Icmp(f).match = {f} /\ Icmp(f).match[f] = {"essential"}
<1>1. {"iif", "ct", "rpf", "icmp4", "icmp6"} \subseteq Fields
  BY DEF Fields
<1>2. {"accept", "drop"} \subseteq Actions
  BY DEF Actions
<1>3. {"lo", "established", "invalid", "essential"} \subseteq Values
  BY DEF Values
<1>4. /\ Lo.do = "accept" /\ Lo.on = TRUE
      /\ DOMAIN Lo.match = {"iif"} /\ Lo.match["iif"] = {"lo"}
  BY DEF Rule, Is, Lo
<1>5. /\ Est.do = "accept" /\ Est.on = TRUE
      /\ DOMAIN Est.match = {"ct"} /\ Est.match["ct"] = {"established"}
  BY DEF Rule, Is, Est
<1>6. /\ Inv.do = "drop" /\ Inv.on = TRUE
      /\ DOMAIN Inv.match = {"ct"} /\ Inv.match["ct"] = {"invalid"}
  BY DEF Rule, Is, Inv
<1>7. Rpf.do = "drop" /\ Rpf.on = TRUE /\ DOMAIN Rpf.match = {"rpf"}
  BY DEF Rule, Is, Rpf
<1>8. ASSUME NEW f \in {"icmp4", "icmp6"}
      PROVE  /\ Icmp(f).do = "accept" /\ Icmp(f).on = TRUE
             /\ DOMAIN Icmp(f).match = {f} /\ Icmp(f).match[f] = {"essential"}
             /\ Icmp(f) \in Rules
  <2>1. Icmp(f) \in Rules
    BY <1>1, <1>2, <1>3, OneTestTyped DEF Icmp
  <2> QED BY <2>1 DEF Icmp, Rule, Is
<1>9. Lo \in Rules
  BY <1>1, <1>2, <1>3, OneTestTyped DEF Lo
<1>10. Est \in Rules
  BY <1>1, <1>2, <1>3, OneTestTyped DEF Est
<1>11. Inv \in Rules
  BY <1>1, <1>2, <1>3, OneTestTyped DEF Inv
<1>12. Rpf \in Rules
  BY <1>1, <1>2, <1>3, OneTestTyped DEF Rpf
<1> QED
  BY <1>4, <1>5, <1>6, <1>7, <1>8, <1>9, <1>10, <1>11, <1>12

\* A drop on one list.
LEMMA DropOfIs ==
  ASSUME NEW f, NEW n
  PROVE  /\ DropOf(f, n).do = "drop" /\ DropOf(f, n).on = TRUE
         /\ DOMAIN DropOf(f, n).match = {f} /\ DropOf(f, n).match[f] = {n}
         /\ f \in Families /\ n \in Values => DropOf(f, n) \in Rules
<1>1. ASSUME f \in Families, n \in Values PROVE DropOf(f, n) \in Rules
  <2>1. f \in Fields /\ "drop" \in Actions
    BY <1>1 DEF Families, Fields, Actions
  <2> QED BY <1>1, <2>1, OneTestTyped DEF DropOf
<1> QED BY <1>1 DEF DropOf, Rule, Is

\* A drop drops.
LEMMA DropsDrop ==
  ASSUME NEW f, NEW name
  PROVE  DropOf(f, name).do = "drop"
BY DropOfIs

\* What rules that drop or detect, put before the others, leave as it is.
LEMMA FrontRules ==
  ASSUME NEW rules \in Seq(Rules), NEW rs \in Seq(Rules),
         \A r \in ToSet(rs) : r.do \in {"drop", "ban"} /\ r # Inv
  PROVE  /\ rs \o rules \in Seq(Rules)
         /\ ToSet(rs \o rules) = ToSet(rs) \cup ToSet(rules)
         /\ Clean(rules) => Clean(rs \o rules)
         /\ BlocksAbove(rules) => BlocksAbove(rs \o rules)
         /\ InvalidAbove(rules) => InvalidAbove(rs \o rules)
         /\ LoopbackFirst(rules) => LoopbackFirst(rs \o rules)
<1> DEFINE new == rs \o rules
           n   == Len(rs)
<1>1. /\ new \in Seq(Rules)
      /\ n \in Nat /\ Len(rules) \in Nat
      /\ DOMAIN rs = 1..n /\ DOMAIN rules = 1..Len(rules)
      /\ DOMAIN new = 1..(n + Len(rules))
      /\ \A k \in 1..n : new[k] = rs[k]
      /\ \A k \in 1..Len(rules) : new[n + k] = rules[k]
  BY Joined
<1>2. ToSet(new) = ToSet(rs) \cup ToSet(rules)
  BY JoinedSet
<1>3. \A k \in 1..n : new[k].do \in {"drop", "ban"} /\ new[k] # Inv
  BY <1>1 DEF ToSet
<1> HIDE DEF new, n
<1>4. \A k \in DOMAIN new : k \in 1..n \/ \E l \in DOMAIN rules : k = n + l
  <2> TAKE k \in DOMAIN new
  <2>1. CASE k <= n
    BY <1>1, <2>1
  <2>2. CASE ~(k <= n)
    <3>1. k - n \in DOMAIN rules /\ k = n + (k - n)
      BY <1>1, <2>2
    <3> QED BY <3>1
  <2> QED BY <2>1, <2>2
<1>5. ASSUME NEW l \in DOMAIN rules, NEW j \in 1..(n + l - 1)
      PROVE  \/ new[j].do \in {"drop", "ban"} /\ new[j] # Inv
             \/ \E i \in 1..(l - 1) : new[j] = rules[i]
  <2>1. CASE j <= n
    BY <1>1, <1>3, <2>1
  <2>2. CASE ~(j <= n)
    <3>1. j - n \in 1..(l - 1) /\ j - n \in 1..Len(rules) /\ j = n + (j - n)
      BY <1>1, <2>2
    <3> QED BY <1>1, <3>1
  <2> QED BY <2>1, <2>2
<1>6. \A l \in DOMAIN rules : n + l \in DOMAIN new /\ new[n + l] = rules[l]
  BY <1>1
<1>7. ASSUME NEW l \in DOMAIN rules, Above(rules, l)
      PROVE  Above(new, n + l)
  <2> SUFFICES ASSUME NEW j \in 1..(n + l - 1), new[j].do = "accept"
               PROVE  new[j] = Lo
    BY <1>1 DEF Above
  <2>1. PICK i \in 1..(l - 1) : new[j] = rules[i]
    BY <1>5
  <2> QED BY <1>7, <2>1 DEF Above
<1>8. ASSUME NEW k \in 1..n PROVE \A j \in 1..(k - 1) : new[j].do \in {"drop", "ban"}
  BY <1>1, <1>3
<1>9. Clean(rules) => Clean(new)
  <2> SUFFICES ASSUME Clean(rules), NEW k \in DOMAIN new
               PROVE  /\ new[k].do # "queue"
                      /\ new[k].do = "ban" =>
                            \A j \in 1..(k - 1) : new[j].do \in {"drop", "ban"}
    BY DEF Clean
  <2>1. CASE k \in 1..n
    BY <1>3, <1>8, <2>1
  <2>2. ASSUME NEW l \in DOMAIN rules, k = n + l
        PROVE  /\ new[k].do # "queue"
               /\ new[k].do = "ban" =>
                     \A j \in 1..(k - 1) : new[j].do \in {"drop", "ban"}
    <3>1. new[k] = rules[l]
      BY <1>6, <2>2
    <3>2. \A j \in 1..(n + l - 1) : \/ new[j].do \in {"drop", "ban"}
                                    \/ \E i \in 1..(l - 1) : new[j] = rules[i]
      BY <1>5
    <3>3. \A j \in 1..(k - 1) : \/ new[j].do \in {"drop", "ban"}
                                \/ \E i \in 1..(l - 1) : new[j] = rules[i]
      BY <1>1, <2>2, <3>2
    <3> QED BY <3>1, <3>3 DEF Clean
  <2> QED BY <1>4, <2>1, <2>2
<1>10. BlocksAbove(rules) => BlocksAbove(new)
  <2> SUFFICES ASSUME BlocksAbove(rules), NEW k \in DOMAIN new, new[k] \in Blocks
               PROVE  Above(new, k)
    BY DEF BlocksAbove
  <2>1. CASE k \in 1..n
    <3>1. \A j \in 1..(k - 1) : new[j].do # "accept"
      BY <1>8, <2>1
    <3> QED BY <3>1 DEF Above
  <2>2. ASSUME NEW l \in DOMAIN rules, k = n + l PROVE Above(new, k)
    <3>1. new[k] = rules[l]
      BY <1>6, <2>2
    <3> QED BY <1>7, <2>2, <3>1 DEF BlocksAbove
  <2> QED BY <1>4, <2>1, <2>2
<1>11. InvalidAbove(rules) => InvalidAbove(new)
  BY <1>6, <1>7 DEF InvalidAbove
<1>12. LoopbackFirst(rules) => LoopbackFirst(new)
  <2> SUFFICES ASSUME NEW l \in DOMAIN rules, rules[l] = Lo,
                      \A j \in 1..(l - 1) : rules[j] # Inv
               PROVE  LoopbackFirst(new)
    BY DEF LoopbackFirst
  <2> DEFINE k == n + l
  <2>1. k \in DOMAIN new /\ new[k] = Lo
    BY <1>6
  <2>2. \A j \in 1..(k - 1) : \/ new[j] # Inv
                             \/ \E i \in 1..(l - 1) : new[j] = rules[i]
    <3>1. \A j \in 1..(n + l - 1) : \/ new[j] # Inv
                                    \/ \E i \in 1..(l - 1) : new[j] = rules[i]
      BY <1>5
    <3>2. k - 1 = n + l - 1
      BY <1>1
    <3> QED BY <3>1, <3>2
  <2> HIDE DEF k
  <2>3. \A j \in 1..(k - 1) : new[j] # Inv
    BY <2>2
  <2> QED BY <2>1, <2>3 DEF LoopbackFirst
<1> QED BY <1>1, <1>2, <1>9, <1>10, <1>11, <1>12 DEF new

\* A rule put behind the others shadows nothing.
LEMMA BackRules ==
  ASSUME NEW rules \in Seq(Rules), NEW r \in Rules,
         r.do \in {"accept", "drop"}, r \notin Blocks
  PROVE  /\ rules \o <<r>> \in Seq(Rules)
         /\ ToSet(rules \o <<r>>) = ToSet(rules) \cup {r}
         /\ Clean(rules) => Clean(rules \o <<r>>)
         /\ BlocksAbove(rules) => BlocksAbove(rules \o <<r>>)
         /\ InvalidAbove(rules) => InvalidAbove(rules \o <<r>>)
         /\ LoopbackFirst(rules) => LoopbackFirst(rules \o <<r>>)
<1> DEFINE new == rules \o <<r>>
           n   == Len(rules)
<1>1. <<r>> \in Seq(Rules) /\ Len(<<r>>) = 1 /\ <<r>>[1] = r /\ ToSet(<<r>>) = {r}
  BY DEF ToSet
<1>2. /\ new \in Seq(Rules) /\ n \in Nat
      /\ DOMAIN rules = 1..n /\ DOMAIN new = 1..(n + 1)
      /\ \A k \in 1..n : new[k] = rules[k]
      /\ new[n + 1] = r
  <2>1. 1 \in 1..Len(<<r>>)
    BY <1>1
  <2> QED BY <1>1, <2>1, Joined
<1>3. ToSet(new) = ToSet(rules) \cup {r}
  <2>1. \A one \in Seq(Rules) : ToSet(rules \o one) = ToSet(rules) \cup ToSet(one)
    BY JoinedSet
  <2>2. <<r>> \in Seq(Rules)
    BY <1>1
  <2>3. ToSet(new) = ToSet(rules) \cup ToSet(<<r>>)
    BY <2>1, <2>2
  <2> QED BY <1>1, <2>3
<1> HIDE DEF new, n
<1>4. \A k \in DOMAIN new : k \in DOMAIN rules \/ (new[k] = r /\ r.do \notin {"ban", "queue"})
  BY <1>2
<1>5. ASSUME NEW k \in DOMAIN rules
      PROVE  /\ k \in DOMAIN new /\ new[k] = rules[k]
             /\ \A j \in 1..(k - 1) : new[j] = rules[j]
  BY <1>2
<1>6. Clean(rules) => Clean(new)
  <2> SUFFICES ASSUME Clean(rules), NEW k \in DOMAIN new
               PROVE  /\ new[k].do # "queue"
                      /\ new[k].do = "ban" =>
                            \A j \in 1..(k - 1) : new[j].do \in {"drop", "ban"}
    BY DEF Clean
  <2>1. CASE k \in DOMAIN rules
    BY <1>5, <2>1 DEF Clean
  <2>2. CASE k \notin DOMAIN rules
    BY <1>4, <2>2
  <2> QED BY <2>1, <2>2
<1>7. BlocksAbove(rules) => BlocksAbove(new)
  <2> SUFFICES ASSUME BlocksAbove(rules), NEW k \in DOMAIN new, new[k] \in Blocks
               PROVE  Above(new, k)
    BY DEF BlocksAbove
  <2>1. k \in DOMAIN rules
    BY <1>4
  <2> QED BY <1>5, <2>1 DEF BlocksAbove, Above
<1>8. InvalidAbove(rules) => InvalidAbove(new)
  <2> SUFFICES ASSUME NEW k \in DOMAIN rules, rules[k] = Inv, Above(rules, k)
               PROVE  InvalidAbove(new)
    BY DEF InvalidAbove
  <2>1. Above(new, k)
    BY <1>5 DEF Above
  <2> QED BY <1>5, <2>1 DEF InvalidAbove
<1>9. LoopbackFirst(rules) => LoopbackFirst(new)
  <2> SUFFICES ASSUME NEW k \in DOMAIN rules, rules[k] = Lo,
                      \A j \in 1..(k - 1) : rules[j] # Inv
               PROVE  LoopbackFirst(new)
    BY DEF LoopbackFirst
  <2> QED BY <1>5 DEF LoopbackFirst
<1> QED BY <1>2, <1>3, <1>6, <1>7, <1>8, <1>9 DEF new

-----------------------------------------------------------------------------
(* What a packet meets                                                     *)

\* A rule that is on and tests one field fires when that field matches.
LEMMA FiresIs ==
  \A f, v, do, p : Fires(Rule(Is(f, v), do), p) <=> Matches(f, v, p)
BY DEF Fires, Rule, Is

\* A rule with two tests fires when both match.
LEMMA FiresAnd ==
  \A f, v, g, w, do, p :
      f # g => (Fires(Rule(And(f, v, Is(g, w)), do), p) <=>
                    Matches(f, v, p) /\ Matches(g, w, p))
<1> TAKE f, v, g, w, do, p
<1> DEFINE m == And(f, v, Is(g, w))
<1> SUFFICES ASSUME f # g
             PROVE  Fires(Rule(m, do), p) <=> Matches(f, v, p) /\ Matches(g, w, p)
  OBVIOUS
<1>1. DOMAIN m = {f, g} /\ m[f] = v /\ m[g] = w
  BY DEF And, Is
<1> HIDE DEF m
<1>2. Fires(Rule(m, do), p) <=> \A h \in DOMAIN m : Matches(h, m[h], p)
  BY DEF Fires, Rule
<1> QED BY <1>1, <1>2

\* A chain drops by a rule that fires and before which nothing else decides,
\* lets in by one, and follows its policy when none decides.
LEMMA Deciding ==
  \A c \in Chains : \A p :
      /\ \A k \in Hits(c.rules, p) :
            /\ /\ c.rules[k].do = "drop"
               /\ \A j \in 1..(k - 1) : j \in Hits(c.rules, p) => c.rules[j].do = "drop"
               => ~Accepts(c, p)
            /\ /\ c.rules[k].do # "drop"
               /\ \A j \in 1..(k - 1) : j \in Hits(c.rules, p) => c.rules[j].do # "drop"
               => Accepts(c, p)
      /\ Hits(c.rules, p) = {} => (Accepts(c, p) <=> c.policy # "drop")
<1> TAKE c \in Chains
<1> TAKE p
<1> DEFINE rules == c.rules
           n == Len(rules)
           H == Hits(rules, p)
           D == Decider(rules, p)
<1>1. rules \in Seq(Rules)
  BY DEF Chains
<1>2. n \in Nat /\ DOMAIN rules = 1..n
  BY <1>1, LenProperties
<1>3. H \in SUBSET (1..n)
  BY <1>2 DEF Hits
<1>4. /\ D \in 1..(n + 1)
      /\ D \in DOMAIN rules <=> D # n + 1
      /\ D \in DOMAIN rules => D \in H
      /\ \A j \in H : D <= j
  BY <1>1, DeciderIs
<1>5. Accepts(c, p) <=> IF D \in DOMAIN rules THEN rules[D].do # "drop" ELSE c.policy # "drop"
  BY DEF Accepts
<1> HIDE DEF rules, n, H, D
<1>6. ASSUME NEW k \in H PROVE D \in H /\ (D = k \/ D \in 1..(k - 1))
  <2>1. k \in 1..n /\ D <= k /\ D \in Nat /\ 1 <= D
    BY <1>2, <1>3, <1>4
  <2>2. D \in DOMAIN rules
    BY <1>2, <2>1
  <2> QED BY <1>2, <1>4, <2>1, <2>2
<1>7. ASSUME NEW k \in H, rules[k].do = "drop",
             \A j \in 1..(k - 1) : j \in H => rules[j].do = "drop"
      PROVE  ~Accepts(c, p)
  <2>1. rules[D].do = "drop" /\ D \in DOMAIN rules
    BY <1>2, <1>3, <1>6, <1>7
  <2> QED BY <1>5, <2>1
<1>8. ASSUME NEW k \in H, rules[k].do # "drop",
             \A j \in 1..(k - 1) : j \in H => rules[j].do # "drop"
      PROVE  Accepts(c, p)
  <2>1. rules[D].do # "drop" /\ D \in DOMAIN rules
    BY <1>2, <1>3, <1>6, <1>8
  <2> QED BY <1>5, <2>1
<1>9. H = {} => (Accepts(c, p) <=> c.policy # "drop")
  BY <1>4, <1>5
<1> QED BY <1>7, <1>8, <1>9 DEF rules, H

\* Where no rule that drops fires, a chain accepts by its policy or by a rule.
LEMMA NothingDrops ==
  ASSUME NEW c \in Chains, NEW p,
         \A r \in ToSet(c.rules) : Fires(r, p) => r.do # "drop"
  PROVE  Accepts(c, p) <=>
             \/ c.policy # "drop"
             \/ \E r \in ToSet(c.rules) : r.do \in {"accept", "queue"} /\ Fires(r, p)
<1> DEFINE H == Hits(c.rules, p)
<1>1. \A k \in H : k \in DOMAIN c.rules /\ c.rules[k].do \in Verdicts /\ Fires(c.rules[k], p)
  BY DEF Hits
<1>2. \A k \in H : c.rules[k] \in ToSet(c.rules) /\ c.rules[k].do # "drop"
  BY <1>1 DEF ToSet
<1>3. CASE H = {}
  <2>1. Accepts(c, p) <=> c.policy # "drop"
    BY <1>3, Deciding
  <2>2. ASSUME NEW k \in DOMAIN c.rules
        PROVE  ~(c.rules[k].do \in {"accept", "queue"} /\ Fires(c.rules[k], p))
    BY <1>3 DEF Hits, Verdicts
  <2> QED BY <2>1, <2>2 DEF ToSet
<1>4. CASE H # {}
  <2>1. PICK k \in H : TRUE
    BY <1>4
  <2>2. Accepts(c, p)
    BY <1>2, <2>1, Deciding
  <2>3. c.rules[k].do \in {"accept", "queue"} /\ Fires(c.rules[k], p)
    BY <1>1, <1>2 DEF Verdicts
  <2> QED BY <1>2, <2>2, <2>3
<1> QED BY <1>3, <1>4

\* Where no rule that accepts fires, a chain that drops by default drops.
LEMMA NothingAccepts ==
  ASSUME NEW c \in Chains, NEW p, c.policy = "drop",
         \A r \in ToSet(c.rules) : Fires(r, p) => r.do \notin {"accept", "queue"}
  PROVE  ~Accepts(c, p)
<1> DEFINE H == Hits(c.rules, p)
<1>1. \A k \in H : k \in DOMAIN c.rules /\ c.rules[k].do \in Verdicts /\ Fires(c.rules[k], p)
  BY DEF Hits
<1>2. \A k \in H : c.rules[k].do = "drop"
  BY <1>1 DEF ToSet, Verdicts
<1>3. CASE H = {}
  BY <1>3, Deciding
<1>4. CASE H # {}
  <2>1. PICK k \in H : TRUE
    BY <1>4
  <2> QED BY <1>2, <2>1, Deciding
<1> QED BY <1>3, <1>4

-----------------------------------------------------------------------------
(* Chains                                                                  *)

\* The chains have rules.
LEMMA RulesThere ==
  ASSUME IInv
  PROVE  \A i \in DOMAIN chains : chains[i] \in Chains /\ chains[i].rules \in Seq(Rules)
<1>1. \A i \in DOMAIN chains : chains[i] \in Chains
  BY ElementOfSeq, LenProperties DEF IInv, StateTyped
<1> QED BY <1>1 DEF Chains

\* The chain the code picks is one of those it picks from.
LEMMA Picked ==
  ASSUME chains \in Seq(Chains)
  PROVE  /\ \A h : OnHook(h) # {} => Least(OnHook(h)) \in OnHook(h)
         /\ OnHook("input") # {} =>
                FixChain \in OnHook("input") /\ PrimaryInput \in OnHook("input")
<1>1. DOMAIN chains \subseteq Nat
  BY LenProperties
<1>2. \A S \in SUBSET (DOMAIN chains) : S # {} => Least(S) \in S
  <2> TAKE S \in SUBSET (DOMAIN chains)
  <2>1. S \in SUBSET Nat
    BY <1>1
  <2> QED BY <2>1, LeastIs
<1>3. \A h : OnHook(h) \in SUBSET (DOMAIN chains)
  BY DEF OnHook
<1>4. Dropping("input") \subseteq OnHook("input")
  BY DEF Dropping
<1> QED BY <1>2, <1>3, <1>4 DEF FixChain, PrimaryInput

\* New rules for one chain change nothing else.
LEMMA EditedChain ==
  ASSUME chains \in Seq(Chains), NEW i \in DOMAIN chains, NEW new \in Seq(Rules),
         chains' = [chains EXCEPT ![i].rules = new]
  PROVE  /\ chains' \in Seq(Chains)
         /\ DOMAIN chains' = DOMAIN chains
         /\ \A h : OnHook(h)' = OnHook(h)
         /\ \A k \in DOMAIN chains :
               /\ chains'[k].policy = chains[k].policy
               /\ chains'[k].hook = chains[k].hook
               /\ chains'[k].rules = IF k = i THEN new ELSE chains[k].rules
         /\ \A k \in DOMAIN chains : k # i => chains'[k] = chains[k]
<1>1. \A k \in DOMAIN chains : chains[k] \in Chains
  BY ElementOfSeq, LenProperties
<1> DEFINE edited == [chains[i] EXCEPT !.rules = new]
<1>2. /\ edited.policy = chains[i].policy /\ edited.hook = chains[i].hook
      /\ edited.rules = new /\ edited \in Chains
  BY <1>1 DEF Chains
<1>3. chains' = [chains EXCEPT ![i] = edited]
  OBVIOUS
<1> HIDE DEF edited
<1>4. chains' \in Seq(Chains)
  BY <1>2, <1>3, ExceptSeq, LenProperties
<1>5. DOMAIN chains' = DOMAIN chains
  BY <1>3
<1>6. chains'[i] = edited /\ \A k \in DOMAIN chains : k # i => chains'[k] = chains[k]
  BY <1>3
<1>7. \A k \in DOMAIN chains :
               /\ chains'[k].policy = chains[k].policy
               /\ chains'[k].hook = chains[k].hook
               /\ chains'[k].rules = IF k = i THEN new ELSE chains[k].rules
  BY <1>2, <1>6
<1>8. \A h : OnHook(h)' = OnHook(h)
  BY <1>5, <1>7 DEF OnHook
<1> QED BY <1>4, <1>5, <1>6, <1>7, <1>8

\* What a tool may do to the rules of a chain: it adds rules S and keeps what
\* was put first there.
Grows(old, new, S) ==
    /\ new \in Seq(Rules)
    /\ ToSet(new) = ToSet(old) \cup S
    /\ Clean(old) => Clean(new)
    /\ BlocksAbove(old) => BlocksAbove(new)
    /\ InvalidAbove(old) => InvalidAbove(new)
    /\ LoopbackFirst(old) => LoopbackFirst(new)

\* A tool that adds rules to an input chain.
LEMMA InputGrows ==
  ASSUME IInv, NEW i \in OnHook("input"), NEW new, NEW S,
         Grows(chains[i].rules, new, S),
         chains' = [chains EXCEPT ![i].rules = new],
         story'.preset = story.preset, story'.edited = story.edited,
         story.allowed \subseteq story'.allowed, AllowedLets' \subseteq AllowedLets \cup S,
         DOMAIN lists \subseteq DOMAIN lists',
         ~story.edited =>
             /\ \A r \in S : Known(r)'
             /\ \A f \in Families :
                  /\ story'.saved # {} =>
                        DropOf(f, "blacklist") \in ToSet(chains[i].rules) \cup S
                  /\ story'.country <=>
                        DropOf(f, BlkList) \in ToSet(chains[i].rules) \cup S
  PROVE  chains' \in Seq(Chains) /\ InputClean' /\ ToolMade' /\ PresetMade'
<1> USE DEF IInv
<1>1. chains \in Seq(Chains) /\ i \in DOMAIN chains /\ new \in Seq(Rules)
  BY DEF StateTyped, OnHook, Grows
<1>2. /\ chains' \in Seq(Chains)
      /\ DOMAIN chains' = DOMAIN chains
      /\ \A h : OnHook(h)' = OnHook(h)
      /\ \A k \in DOMAIN chains :
            /\ chains'[k].policy = chains[k].policy
            /\ chains'[k].hook = chains[k].hook
            /\ chains'[k].rules = IF k = i THEN new ELSE chains[k].rules
      /\ \A k \in DOMAIN chains : k # i => chains'[k] = chains[k]
  BY <1>1, EditedChain
<1>3. \A h : OnHook(h) \subseteq DOMAIN chains
  BY DEF OnHook
<1>4. InputClean'
  BY <1>2, <1>3 DEF InputClean, Grows
<1>5. \A r : Known(r) => Known(r)'
  BY DEF Known, AllowedLets
<1>6. ToolMade'
  <2> SUFFICES ASSUME ~story'.edited
               PROVE  /\ \A j, k \in OnHook("input") : j = k
                      /\ \A j \in OnHook("input") :
                            /\ \A r \in ToSet(chains'[j].rules) : Known(r)'
                            /\ BlocksAbove(chains'[j].rules)
                            /\ \A f \in Families :
                                 /\ story'.saved # {} =>
                                      DropOf(f, "blacklist") \in ToSet(chains'[j].rules)
                                 /\ story'.country <=>
                                      DropOf(f, BlkList) \in ToSet(chains'[j].rules)
    BY <1>2 DEF ToolMade
  <2>1. /\ \A j, k \in OnHook("input") : j = k
        /\ \A j \in OnHook("input") : /\ \A r \in ToSet(chains[j].rules) : Known(r)
                                      /\ BlocksAbove(chains[j].rules)
    BY DEF ToolMade
  <2>2. \A j \in OnHook("input") : chains'[j].rules = new
    BY <1>2, <1>3, <2>1
  <2>3. \A r \in ToSet(new) : Known(r)'
    BY <1>5, <2>1 DEF Grows
  <2>4. BlocksAbove(new)
    BY <2>1 DEF Grows
  <2>5. ToSet(new) = ToSet(chains[i].rules) \cup S
    BY DEF Grows
  <2> QED BY <2>1, <2>2, <2>3, <2>4, <2>5
<1>7. PresetMade'
  <2> SUFFICES ASSUME story.preset # "none", ~story.edited
               PROVE  /\ ListsOf(story.preset) \subseteq DOMAIN lists'
                      /\ OnHook("input") # {}
                      /\ \A j \in OnHook("input") : PresetInput(chains[j])'
                      /\ OnHook("forward") = {} <=> story.preset = "container-host"
                      /\ \A j \in OnHook("forward") : PresetForward(chains[j])'
    BY <1>2 DEF PresetMade
  <2>1. /\ ListsOf(story.preset) \subseteq DOMAIN lists
        /\ \A j \in OnHook("input") : PresetInput(chains[j])
        /\ OnHook("forward") = {} <=> story.preset = "container-host"
        /\ \A j \in OnHook("forward") : PresetForward(chains[j])
    BY DEF PresetMade
  <2>2. \A j \in OnHook("input") : j = i
    BY DEF ToolMade
  <2>3. PresetInput(chains[i])'
    <3>1. PresetInput(chains[i])
      BY <2>1
    <3>2. chains'[i].policy = "drop" /\ chains'[i].rules = new
      BY <1>1, <1>2, <3>1 DEF PresetInput
    <3>3. ToSet(new) = ToSet(chains[i].rules) \cup S
      BY DEF Grows
    <3>4. PresetLets(story.preset) \cup AllowedLets' \subseteq ToSet(new)
      BY <3>1, <3>3 DEF PresetInput
    <3> QED BY <3>1, <3>2, <3>3, <3>4 DEF PresetInput, Grows
  <2>4. \A j \in OnHook("forward") : j # i
    BY DEF OnHook
  <2>5. \A j \in OnHook("forward") : PresetForward(chains[j])'
    BY <1>2, <1>3, <2>1, <2>4 DEF PresetForward
  <2> QED BY <2>1, <2>2, <2>3, <2>5
<1> QED BY <1>2, <1>4, <1>6, <1>7

-----------------------------------------------------------------------------
(* What the tools add                                                      *)

\* Rules that drop or detect go to the start.
LEMMA StartGrows ==
  ASSUME NEW rules \in Seq(Rules), NEW rs \in Seq(Rules),
         \A r \in ToSet(rs) : r.do \in {"drop", "ban"} /\ r # Inv
  PROVE  Grows(rules, rs \o rules, ToSet(rs))
<1>1. ToSet(rs \o rules) = ToSet(rules) \cup ToSet(rs)
  BY FrontRules
<1> QED BY <1>1, FrontRules DEF Grows

\* A rule that blocks no list goes to the end.
LEMMA EndGrows ==
  ASSUME NEW rules \in Seq(Rules), NEW r \in Rules,
         r.do \in {"accept", "drop"}, r \notin Blocks
  PROVE  Grows(rules, rules \o <<r>>, {r})
BY BackRules DEF Grows

\* Drops on one list and family are all different.
LEMMA DropsDiffer ==
  \A f, n, g, m : DropOf(f, n) = DropOf(g, m) => f = g /\ n = m
<1> TAKE f, n, g, m
<1> SUFFICES ASSUME DropOf(f, n) = DropOf(g, m) PROVE f = g /\ n = m
  OBVIOUS
<1>1. Is(f, {n}) = Is(g, {m})
  BY DEF DropOf, Rule
<1>2. {f} = {g}
  BY <1>1 DEF Is
<1>3. f = g
  BY <1>2
<1>4. {n} = {m}
  BY <1>1, <1>3 DEF Is
<1> QED BY <1>3, <1>4

\* Rules that accept block nothing, and neither do the fixes that drop.
LEMMA NoBlocks ==
  /\ \A r : r.do # "drop" => r \notin Blocks \cup BanDrops \cup {Inv, Rpf}
  /\ Inv \notin Blocks /\ Rpf \notin Blocks
<1>1. \A r \in Blocks \cup BanDrops : r.do = "drop" /\ DOMAIN r.match \subseteq {"saddr4", "saddr6"}
                                      /\ DOMAIN r.match # {}
  <2> SUFFICES ASSUME NEW f \in Families, NEW n
               PROVE  /\ DropOf(f, n).do = "drop"
                      /\ DOMAIN DropOf(f, n).match \subseteq {"saddr4", "saddr6"}
                      /\ DOMAIN DropOf(f, n).match # {}
    BY DEF Blocks, BanDrops
  <2>1. DropOf(f, n).do = "drop" /\ DOMAIN DropOf(f, n).match = {f}
    BY DropOfIs
  <2> QED BY <2>1 DEF Families
<1>2. \A r : r.do # "drop" => r \notin Blocks \cup BanDrops \cup {Inv, Rpf}
  BY <1>1, NamedRules
<1>3. "ct" \notin {"saddr4", "saddr6"} /\ "rpf" \notin {"saddr4", "saddr6"}
  OBVIOUS
<1> QED BY <1>1, <1>2, <1>3, NamedRules

\* The five fixes.
LEMMA FixesKnown ==
  ASSUME NEW id \in FixIds
  PROVE  /\ Fix(id) \in Rules /\ Fix(id).do \in {"accept", "drop"}
         /\ Fix(id) \notin Blocks
         /\ Fix(id) \in FixLets \cup {Inv, Rpf}
<1>1. Fix(id) \in FixLets \cup {Inv, Rpf}
  BY DEF FixIds, Fix, FixLets, Lo, Est, Inv, Rpf
<1>2. \A r \in FixLets : r \in Rules /\ r.do = "accept"
  BY NamedRules DEF FixLets
<1>3. \A r \in FixLets : r \notin Blocks
  BY <1>2, NoBlocks
<1> QED BY <1>1, <1>2, <1>3, NoBlocks, NamedRules

\* The rule the advisor adds.
LEMMA AllowingIs ==
  ASSUME NEW pp \in AllowPorts
  PROVE  /\ Allowing(pp) \in Rules /\ Allowing(pp).do = "accept"
         /\ Allowing(pp) \notin Blocks
         /\ Allowing(pp) = Rule(Is(pp[1], {pp[2]}), "accept")
<1>1. pp[1] \in Fields /\ {pp[2]} \subseteq Values /\ "accept" \in Actions
  BY FormsAssumption DEF Fields, Actions, Values
<1>2. Rule(Is(pp[1], {pp[2]}), "accept") \in Rules
  BY <1>1, OneTestTyped
<1>3. Allowing(pp).do = "accept"
  BY DEF Allowing, Rule
<1> QED BY <1>2, <1>3, NoBlocks DEF Allowing

\* The four rules of an auto-ban.
LEMMA BanRulesAre ==
  ASSUME NEW service \in {"ssh"} \cup DOMAIN BanServices, NEW proto \in {"tcp", "udp"},
         NEW ports \in SUBSET Values
  PROVE  /\ BanRules(service, proto, ports) \in Seq(Rules)
         /\ \A r \in ToSet(BanRules(service, proto, ports)) :
               r.do \in {"drop", "ban"} /\ r # Inv /\ (r.do = "ban" \/ r \in BanDrops)
<1> DEFINE A == Abusers(service)
           what == IF ports = {} THEN Is("ct", {"new"}) ELSE And(proto, ports, Is("ct", {"new"}))
           d4 == DropOf("saddr4", A)
           d6 == DropOf("saddr6", A)
           b == Rule(what, "ban")
<1>1. A \in BanSets /\ A \in Values
  BY DEF BanSets, Values
<1>2. b \in Rules
  <2>1. "ct" \in Fields /\ proto \in Fields /\ {"new"} \subseteq Values /\ "ban" \in Actions
    BY DEF Fields, Values, Actions
  <2>2. Rule(Is("ct", {"new"}), "ban") \in Rules
    BY <2>1, OneTestTyped
  <2>3. Rule(And(proto, ports, Is("ct", {"new"})), "ban") \in Rules
    BY <2>1, TwoTestsTyped
  <2> QED BY <2>2, <2>3
<1>3. b.do = "ban"
  BY DEF Rule
<1>4. d4 \in Rules /\ d6 \in Rules /\ d4 \in BanDrops /\ d6 \in BanDrops
  <2>1. \A f \in Families : DropOf(f, A) \in Rules
    BY <1>1, DropOfIs
  <2>2. "saddr4" \in Families /\ "saddr6" \in Families
    BY DEF Families
  <2> QED BY <1>1, <2>1, <2>2 DEF BanDrops
<1>5. d4.do = "drop" /\ d6.do = "drop" /\ d4 # Inv /\ d6 # Inv
  <2>1. DOMAIN d4.match = {"saddr4"} /\ DOMAIN d6.match = {"saddr6"} /\ d4.do = "drop" /\ d6.do = "drop"
    BY DropOfIs
  <2>2. DOMAIN Inv.match = {"ct"}
    BY NamedRules
  <2>3. {"saddr4"} # {"ct"} /\ {"saddr6"} # {"ct"}
    OBVIOUS
  <2> QED BY <2>1, <2>2, <2>3
<1>6. b # Inv
  BY <1>3, NamedRules
<1>7. DropFrom(A) = <<d4, d6>>
  BY BesideNothing DEF DropFrom, BothFamilies, DropOf
<1>8. BanRules(service, proto, ports) = DropFrom(A) \o <<b, b>>
  BY DEF BanRules
<1> HIDE DEF A, d4, d6, b
<1>9. <<d4, d6>> \in Seq(Rules) /\ <<b, b>> \in Seq(Rules)
  BY <1>2, <1>4
<1>10. ToSet(<<d4, d6>>) = {d4, d6} /\ ToSet(<<b, b>>) = {b}
  BY DEF ToSet
<1>11. \A x, y \in Seq(Rules) : x \o y \in Seq(Rules) /\ ToSet(x \o y) = ToSet(x) \cup ToSet(y)
  BY JoinedSet
<1>12. /\ BanRules(service, proto, ports) \in Seq(Rules)
       /\ ToSet(BanRules(service, proto, ports)) = {d4, d6, b}
  <2>1. BanRules(service, proto, ports) = <<d4, d6>> \o <<b, b>>
    BY <1>7, <1>8
  <2>2. \A x, y \in Seq(Rules) : ToSet(x) = {d4, d6} /\ ToSet(y) = {b} =>
            x \o y \in Seq(Rules) /\ ToSet(x \o y) = {d4, d6, b}
    BY <1>11
  <2> QED BY <1>9, <1>10, <2>1, <2>2
<1> QED BY <1>3, <1>4, <1>5, <1>6, <1>12

\* The drop rules of a block: those that are not there yet.
LEMMA MissingDropIs ==
  ASSUME IInv, NEW i \in OnHook("input"), NEW name \in {"blacklist", BlkList},
         NEW f \in Families
  PROVE  /\ MissingDrop(i, name, f) \in Seq(Rules)
         /\ ToSet(MissingDrop(i, name, f)) \subseteq {DropOf(f, name)}
         /\ ~story.edited =>
                DropOf(f, name) \in ToSet(chains[i].rules) \cup ToSet(MissingDrop(i, name, f))
<1> DEFINE d == DropOf(f, name)
<1>1. d \in Rules /\ DOMAIN d.match = {f} /\ d.match[f] = {name}
  BY DropOfIs DEF Values, OwnLists
<1>2. MissingDrop(i, name, f) = IF HasDrop(i, d) THEN <<>> ELSE <<d>>
  BY DEF MissingDrop, DropOf
<1>3. HasDrop(i, d) => \E q \in ToSet(chains[i].rules) : q.do = "drop" /\ HasValue(q, f, {name})
  BY <1>1 DEF HasDrop
<1>4. ASSUME ~story.edited, NEW q \in ToSet(chains[i].rules), q.do = "drop",
             HasValue(q, f, {name})
      PROVE  q = d
  <2>1. Known(q)
    BY <1>4 DEF IInv, ToolMade
  <2>2. f \in DOMAIN q.match /\ name \in q.match[f]
    BY <1>4 DEF HasValue, Has
  <2>3. q \notin FixLets \cup PresetLets(story.preset) \cup AllowedLets
    <3>1. \A r \in FixLets : r.do = "accept"
      BY NamedRules DEF FixLets
    <3>2. \A r \in PresetLets(story.preset) : r.do = "accept"
      BY DEF PresetLets
    <3>3. \A r \in AllowedLets : r.do = "accept"
      <4>1. \A pp \in story.allowed : pp \in AllowPorts
        BY DEF IInv, StateTyped, Story
      <4>2. \A pp \in AllowPorts : Allowing(pp).do = "accept"
        BY AllowingIs
      <4> QED BY <4>1, <4>2 DEF AllowedLets
    <3> QED BY <1>4, <3>1, <3>2, <3>3
  <2>4. q # Inv /\ q # Rpf
    <3>1. f # "ct" /\ f # "rpf"
      BY DEF Families
    <3> QED BY <2>2, <3>1, NamedRules
  <2>5. q \in Blocks \cup BanDrops
    BY <1>4, <2>1, <2>3, <2>4 DEF Known
  <2>6. PICK g \in Families, n \in {"blacklist", BlkList} \cup BanSets : q = DropOf(g, n)
    BY <2>5 DEF Blocks, BanDrops
  <2>7. DOMAIN q.match = {g} /\ q.match[g] = {n}
    BY <2>6, DropOfIs
  <2>8. f = g
    BY <2>2, <2>7
  <2>9. name = n
    BY <2>2, <2>7, <2>8
  <2> QED BY <2>6, <2>8, <2>9
<1> HIDE DEF d
<1>5. <<>> \in Seq(Rules) /\ <<d>> \in Seq(Rules) /\ ToSet(<<>>) = {} /\ ToSet(<<d>>) = {d}
  BY <1>1 DEF ToSet
<1>6. ~story.edited => d \in ToSet(chains[i].rules) \cup ToSet(MissingDrop(i, name, f))
  BY <1>2, <1>3, <1>4, <1>5
<1> QED BY <1>2, <1>5, <1>6 DEF d

\* The drop rules of a block go to the start.
LEMMA EnsureDropsGrows ==
  ASSUME IInv, NEW i \in OnHook("input"), NEW name \in {"blacklist", BlkList},
         EnsureDrops(i, name)
  PROVE  \E new, S :
            /\ Grows(chains[i].rules, new, S)
            /\ chains' = [chains EXCEPT ![i].rules = new]
            /\ S \subseteq {DropOf(f, name) : f \in Families}
            /\ ~story.edited =>
                  \A f \in Families : DropOf(f, name) \in ToSet(chains[i].rules) \cup S
<1> DEFINE m6 == MissingDrop(i, name, "saddr6")
           m4 == MissingDrop(i, name, "saddr4")
           rs == m6 \o m4
           old == chains[i].rules
<1>1. \A f \in Families :
        /\ MissingDrop(i, name, f) \in Seq(Rules)
        /\ ToSet(MissingDrop(i, name, f)) \subseteq {DropOf(f, name)}
        /\ ~story.edited => DropOf(f, name) \in ToSet(old) \cup ToSet(MissingDrop(i, name, f))
  BY MissingDropIs
<1>2. /\ m6 \in Seq(Rules) /\ m4 \in Seq(Rules)
      /\ ToSet(m6) \cup ToSet(m4) \subseteq {DropOf(f, name) : f \in Families}
      /\ ~story.edited =>
            \A f \in Families : DropOf(f, name) \in ToSet(old) \cup (ToSet(m6) \cup ToSet(m4))
  <2>1. Families = {"saddr4", "saddr6"}
    BY DEF Families
  <2> QED BY <1>1, <2>1
<1>3. chains' = [chains EXCEPT ![i].rules = rs \o old]
  BY DEF EnsureDrops, AtStart
<1> HIDE DEF m6, m4
<1>4. rs \in Seq(Rules) /\ ToSet(rs) = ToSet(m6) \cup ToSet(m4)
  BY <1>2, JoinedSet
<1>5. \A r \in ToSet(rs) : r.do \in {"drop", "ban"} /\ r # Inv
  <2>1. \A f \in Families : DropOf(f, name).do = "drop" /\ DropOf(f, name) \in Blocks
    <3>1. \A f \in Families : DropOf(f, name).do = "drop"
      BY DropOfIs
    <3> QED BY <3>1 DEF Blocks
  <2> QED BY <1>2, <1>4, <2>1, NoBlocks
<1>6. old \in Seq(Rules)
  BY RulesThere DEF OnHook
<1> HIDE DEF rs, old
<1>7. Grows(old, rs \o old, ToSet(rs))
  BY <1>4, <1>5, <1>6, StartGrows
<1> QED BY <1>2, <1>3, <1>4, <1>7 DEF old

\* What the invariant says of the chains, for a step that leaves them alone.
LEMMA SameChains ==
  ASSUME IInv, chains' = chains, story'.preset = story.preset,
         story'.edited = story.edited, story'.allowed = story.allowed,
         story'.saved = story.saved \/ OnHook("input") = {},
         story'.country = story.country,
         DOMAIN lists \subseteq DOMAIN lists'
  PROVE  InputClean' /\ ToolMade' /\ PresetMade'
<1> USE DEF IInv
<1>1. \A h : OnHook(h)' = OnHook(h)
  BY DEF OnHook
<1>2. InputClean'
  BY <1>1 DEF InputClean
<1>3. \A r : Known(r)' <=> Known(r)
  BY DEF Known, AllowedLets
<1>4. ToolMade'
  BY <1>1, <1>3 DEF ToolMade
<1>5. AllowedLets' = AllowedLets
  BY DEF AllowedLets
<1>6. PresetMade'
  <2>1. \A c : PresetInput(c)' <=> PresetInput(c)
    BY <1>5 DEF PresetInput
  <2>2. \A c : PresetForward(c)' <=> PresetForward(c)
    BY DEF PresetForward
  <2> QED BY <1>1, <2>1, <2>2 DEF PresetMade
<1> QED BY <1>2, <1>4, <1>6

-----------------------------------------------------------------------------
(* The tools keep the invariant                                            *)

\* A fix of the Posture page.
LEMMA HardenFixKeeps ==
  ASSUME IInv, NEW id \in FixIds, HardenFix(id) PROVE IInv'
<1> USE DEF HardenFix
<1> DEFINE i == FixChain
<1>1. i \in OnHook("input")
  BY Picked DEF IInv, StateTyped
<1> HIDE DEF i
<1>2. chains[i].rules \in Seq(Rules)
  BY <1>1, RulesThere DEF OnHook
<1>3. Grows(chains[i].rules, chains[i].rules \o <<Fix(id)>>, {Fix(id)})
  BY <1>2, FixesKnown, EndGrows
<1>4. chains' = [chains EXCEPT ![i].rules = chains[i].rules \o <<Fix(id)>>]
  BY DEF Appended, i
<1>5. Known(Fix(id))'
  BY FixesKnown DEF Known
<1>6. ~story.edited =>
        \A f \in Families :
           /\ story.saved # {} => DropOf(f, "blacklist") \in ToSet(chains[i].rules)
           /\ story.country <=> DropOf(f, BlkList) \in ToSet(chains[i].rules) \cup {Fix(id)}
  <2>1. \A f \in Families : DropOf(f, BlkList) \in Blocks
    BY DEF Blocks
  <2>2. \A f \in Families : DropOf(f, BlkList) # Fix(id)
    BY <2>1, FixesKnown
  <2> QED BY <1>1, <2>2 DEF IInv, ToolMade
<1>7. AllowedLets' = AllowedLets
  BY DEF AllowedLets
<1>8. chains' \in Seq(Chains) /\ InputClean' /\ ToolMade' /\ PresetMade'
  BY <1>1, <1>3, <1>4, <1>5, <1>6, <1>7, InputGrows
<1> QED BY <1>8, BoundsAssumption DEF IInv, StateTyped, SavedListed, Members, Click

\* A recipe of the Posture page.
LEMMA BanKeeps ==
  ASSUME IInv, NEW service \in {"ssh"} \cup DOMAIN BanServices,
         NEW proto \in {"tcp", "udp"}, NEW ports \in SUBSET Values,
         Click, OnHook("input") # {}, AtStart(FixChain, BanRules(service, proto, ports)),
         UNCHANGED <<lists, breaks, story>>
  PROVE  IInv'
<1> DEFINE i == FixChain
           rs == BanRules(service, proto, ports)
<1>1. i \in OnHook("input")
  BY Picked DEF IInv, StateTyped
<1>2. chains' = [chains EXCEPT ![i].rules = rs \o chains[i].rules]
  BY DEF AtStart
<1>3. rs \in Seq(Rules) /\ \A r \in ToSet(rs) :
               r.do \in {"drop", "ban"} /\ r # Inv /\ (r.do = "ban" \/ r \in BanDrops)
  BY BanRulesAre
<1> HIDE DEF i, rs
<1>4. chains[i].rules \in Seq(Rules)
  BY <1>1, RulesThere DEF OnHook
<1>5. Grows(chains[i].rules, rs \o chains[i].rules, ToSet(rs))
  BY <1>3, <1>4, StartGrows
<1>6. \A r \in ToSet(rs) : Known(r)'
  BY <1>3 DEF Known
<1>7. ~story.edited =>
        \A f \in Families :
           /\ story.saved # {} => DropOf(f, "blacklist") \in ToSet(chains[i].rules)
           /\ story.country <=> DropOf(f, BlkList) \in ToSet(chains[i].rules) \cup ToSet(rs)
  <2>1. \A f \in Families : DropOf(f, BlkList) \notin BanDrops
    <3>1. BlkList \notin BanSets
      BY FormsAssumption DEF OwnLists
    <3> QED BY <3>1, DropsDiffer DEF BanDrops
  <2>2. \A f \in Families : DropOf(f, BlkList).do = "drop"
    BY DropOfIs
  <2>3. \A f \in Families : DropOf(f, BlkList) \notin ToSet(rs)
    BY <1>3, <2>1, <2>2
  <2> QED BY <1>1, <2>3 DEF IInv, ToolMade
<1>8. AllowedLets' = AllowedLets
  BY DEF AllowedLets
<1>9. chains' \in Seq(Chains) /\ InputClean' /\ ToolMade' /\ PresetMade'
  BY <1>1, <1>2, <1>5, <1>6, <1>7, <1>8, InputGrows
<1> QED BY <1>9, BoundsAssumption DEF IInv, StateTyped, SavedListed, Members, Click

\* The SSH recipe, and a form of the auto-ban.
LEMMA HardenBansKeep ==
  ASSUME IInv, HardenSSHBan \/ \E service \in DOMAIN BanServices : HardenBan(service)
  PROVE  IInv'
<1>1. CASE HardenSSHBan
  <2>1. {"22"} \in SUBSET Values
    BY DEF Values
  <2> QED BY <1>1, <2>1, BanKeeps DEF HardenSSHBan
<1>2. ASSUME NEW service \in DOMAIN BanServices, HardenBan(service) PROVE IInv'
  <2>1. BanServices[service].ports \in SUBSET Values
    BY DEF Values
  <2>2. BanServices[service].proto \in {"tcp", "udp"}
    BY FormsAssumption
  <2> QED BY <1>2, <2>1, <2>2, BanKeeps DEF HardenBan
<1> QED BY <1>1, <1>2

\* The rule of the inspection, switched off.
LEMMA InspectIs ==
  /\ Inspect \in Rules /\ Inspect.on = FALSE /\ Inspect.do = "queue"
  /\ \A p : ~Fires(Inspect, p)
<1> DEFINE q == Rule(NoMatch, "queue")
<1>1. q \in Rules /\ q.do = "queue"
  BY NoTests DEF Actions
<1> HIDE DEF q
<1>2. /\ [q EXCEPT !.on = FALSE] \in Rules
      /\ [q EXCEPT !.on = FALSE].on = FALSE
      /\ [q EXCEPT !.on = FALSE].do = "queue"
  BY <1>1 DEF Rules
<1>3. Inspect = [q EXCEPT !.on = FALSE]
  BY DEF Inspect, q
<1> QED BY <1>2, <1>3 DEF Fires

\* The inspection of what is forwarded.
LEMMA HardenIDSKeeps ==
  ASSUME IInv, HardenIDS PROVE IInv'
<1> USE DEF IInv
<1> DEFINE i == Least(OnHook("forward"))
           old == chains[i].rules
           new == <<Inspect>> \o old
<1>1. i \in OnHook("forward")
  BY Picked DEF StateTyped, HardenIDS
<1>2. old \in Seq(Rules) /\ i \in DOMAIN chains
  BY <1>1, RulesThere DEF OnHook
<1>3. new \in Seq(Rules)
  <2>1. <<Inspect>> \in Seq(Rules)
    BY InspectIs
  <2> HIDE DEF old
  <2> QED BY <1>2, <2>1, ConcatProperties
<1>4. chains' = [chains EXCEPT ![i].rules = new]
  BY DEF HardenIDS, AtStart, Inspect
<1>5. \A r \in ToSet(old) : r.do # "queue"
  BY DEF HardenIDS
<1> HIDE DEF i, old, new
<1>6. /\ chains' \in Seq(Chains)
      /\ \A h : OnHook(h)' = OnHook(h)
      /\ \A k \in DOMAIN chains :
            /\ chains'[k].policy = chains[k].policy
            /\ chains'[k].rules = IF k = i THEN new ELSE chains[k].rules
      /\ \A k \in DOMAIN chains : k # i => chains'[k] = chains[k]
  <2>1. chains \in Seq(Chains)
    BY DEF StateTyped
  <2> QED BY <1>2, <1>3, <1>4, <2>1, EditedChain
<1>7. \A j \in OnHook("input") : chains'[j] = chains[j]
  BY <1>1, <1>6 DEF OnHook
<1>8. InputClean'
  BY <1>6, <1>7 DEF InputClean
<1>9. UNCHANGED <<lists, breaks, story>>
  BY DEF HardenIDS
<1>10. \A r : Known(r)' <=> Known(r)
  BY <1>9 DEF Known, AllowedLets
<1>11. ToolMade'
  BY <1>6, <1>7, <1>9, <1>10 DEF ToolMade
<1>12. PresetMade'
  <2> SUFFICES ASSUME story.preset # "none", ~story.edited
               PROVE  /\ ListsOf(story.preset) \subseteq DOMAIN lists
                      /\ OnHook("input") # {}
                      /\ \A j \in OnHook("input") : PresetInput(chains'[j])
                      /\ OnHook("forward") = {} <=> story.preset = "container-host"
                      /\ \A j \in OnHook("forward") : PresetForward(chains'[j])
    BY <1>6, <1>9 DEF PresetMade, PresetInput, PresetForward, AllowedLets
  <2>1. /\ ListsOf(story.preset) \subseteq DOMAIN lists
        /\ OnHook("input") # {}
        /\ \A j \in OnHook("input") : PresetInput(chains[j])
        /\ OnHook("forward") = {} <=> story.preset = "container-host"
        /\ \A j \in OnHook("forward") : PresetForward(chains[j])
    BY DEF PresetMade
  <2>2. PresetForward(chains'[i])
    <3>1. PresetForward(chains[i])
      BY <1>1, <2>1
    <3>2. chains'[i].policy = chains[i].policy /\ chains'[i].rules = new
      BY <1>2, <1>6
    <3>3. new = <<Inspect>> \o chains[i].rules
      BY DEF new, old
    <3>4. chains[i].rules # <<Inspect>> \o ForwardRules(story.preset)
      <4> SUFFICES ASSUME old = <<Inspect>> \o ForwardRules(story.preset) PROVE FALSE
        BY DEF old
      <4>1. 1 \in DOMAIN old /\ old[1] = Inspect
        BY <1>2
      <4>2. Inspect \in ToSet(old)
        BY <4>1 DEF ToSet
      <4> QED BY <1>5, <4>2, InspectIs
    <3> QED BY <3>1, <3>2, <3>3, <3>4 DEF PresetForward
  <2>3. \A j \in OnHook("forward") : PresetForward(chains'[j])
    BY <1>6, <2>1, <2>2 DEF OnHook
  <2> QED BY <1>7, <2>1, <2>3
<1> QED
  BY <1>6, <1>8, <1>9, <1>11, <1>12, BoundsAssumption
  DEF StateTyped, SavedListed, Members, Click, HardenIDS

\* The advisor allows a listener.
LEMMA AdvisorAllowKeeps ==
  ASSUME IInv, NEW pp \in AllowPorts, AdvisorAllow(pp[1], pp[2]) PROVE IInv'
<1> DEFINE i == PrimaryInput
           r == Allowing(pp)
<1>1. i \in OnHook("input")
  BY Picked DEF IInv, StateTyped, AdvisorAllow
<1>2. chains' = [chains EXCEPT ![i].rules = chains[i].rules \o <<r>>]
  BY AllowingIs DEF AdvisorAllow, Appended
<1>3. r \in Rules /\ r.do = "accept" /\ r \notin Blocks
  BY AllowingIs
<1>4. story' = [story EXCEPT !.allowed = story.allowed \cup {pp}]
  BY FormsAssumption DEF AdvisorAllow
<1>5. AllowedLets' = AllowedLets \cup {r}
  <2>1. story'.allowed = story.allowed \cup {pp}
    BY <1>4 DEF IInv, StateTyped, Story
  <2> QED BY <2>1 DEF AllowedLets
<1> HIDE DEF i, r
<1>6. chains[i].rules \in Seq(Rules)
  BY <1>1, RulesThere DEF OnHook
<1>7. Grows(chains[i].rules, chains[i].rules \o <<r>>, {r})
  BY <1>3, <1>6, EndGrows
<1>8. Known(r)'
  BY <1>5 DEF Known
<1>9. /\ story'.preset = story.preset /\ story'.edited = story.edited
      /\ story'.saved = story.saved /\ story'.country = story.country
      /\ story.allowed \subseteq story'.allowed /\ story' \in Story
  BY <1>4 DEF IInv, StateTyped, Story
<1>10. ~story.edited =>
        \A f \in Families :
           /\ story.saved # {} => DropOf(f, "blacklist") \in ToSet(chains[i].rules)
           /\ story.country <=> DropOf(f, BlkList) \in ToSet(chains[i].rules) \cup {r}
  <2>1. \A f \in Families : DropOf(f, BlkList) \in Blocks
    BY DEF Blocks
  <2>2. \A f \in Families : DropOf(f, BlkList) # r
    BY <1>3, <2>1
  <2> QED BY <1>1, <2>2 DEF IInv, ToolMade
<1>11. UNCHANGED <<lists, breaks>> /\ Click
  BY DEF AdvisorAllow
<1>12. chains' \in Seq(Chains) /\ InputClean' /\ ToolMade' /\ PresetMade'
  BY <1>1, <1>2, <1>5, <1>7, <1>8, <1>9, <1>10, <1>11, InputGrows
<1> QED
  BY <1>9, <1>11, <1>12, BoundsAssumption
  DEF IInv, StateTyped, SavedListed, Members, Click

\* A list that is made or changed by a block.
LEMMA ListWritten ==
  ASSUME IInv, NEW name \in {"blacklist", BlkList}, NEW members \in SUBSET Hosts,
         lists' = WithList(name, members)
  PROVE  /\ DOMAIN lists \subseteq DOMAIN lists'
         /\ \A n \in DOMAIN lists' : lists'[n] \subseteq Hosts /\ n \notin BanSets
         /\ Members(name)' = members
         /\ \A n : n # name => Members(n)' = Members(n)
<1>1. name \notin BanSets
  BY FormsAssumption DEF OwnLists
<1> QED BY <1>1 DEF WithList, Members, IInv, StateTyped

\* The Block button.
LEMMA QuickBlockKeeps ==
  ASSUME IInv, NEW host \in Hosts, QuickBlock(host) PROVE IInv'
<1>1. Click /\ UNCHANGED breaks
  BY DEF QuickBlock
<1>2. CASE host \in Members("blacklist")
  <2>1. /\ UNCHANGED <<chains, lists>>
        /\ story' = [story EXCEPT !.already = story.already \cup {host}]
    BY <1>2 DEF QuickBlock
  <2>2. /\ story' \in Story
        /\ story'.preset = story.preset /\ story'.edited = story.edited
        /\ story'.saved = story.saved /\ story'.country = story.country
        /\ story'.allowed = story.allowed
    BY <2>1 DEF IInv, StateTyped, Story
  <2>3. InputClean' /\ ToolMade' /\ PresetMade'
    BY <2>1, <2>2, SameChains
  <2> QED BY <1>1, <2>1, <2>2, <2>3, BoundsAssumption
          DEF IInv, StateTyped, SavedListed, Members, Click
<1>3. CASE host \notin Members("blacklist")
  <2>1. /\ lists' = WithList("blacklist", Members("blacklist") \cup {host})
        /\ story' = [story EXCEPT !.saved = story.saved \cup {host}]
    BY <1>3 DEF QuickBlock
  <2>2. /\ story' \in Story
        /\ story'.preset = story.preset /\ story'.edited = story.edited
        /\ story'.saved = story.saved \cup {host} /\ story'.country = story.country
        /\ story'.allowed = story.allowed
    BY <2>1 DEF IInv, StateTyped, Story
  <2>3. Members("blacklist") \cup {host} \in SUBSET Hosts
    BY DEF Members, IInv, StateTyped
  <2>4. /\ DOMAIN lists \subseteq DOMAIN lists'
        /\ \A n \in DOMAIN lists' : lists'[n] \subseteq Hosts /\ n \notin BanSets
        /\ Members("blacklist")' = Members("blacklist") \cup {host}
    BY <2>1, <2>3, ListWritten
  <2>5. SavedListed'
    BY <2>2, <2>4 DEF IInv, SavedListed
  <2>6. chains' \in Seq(Chains) /\ InputClean' /\ ToolMade' /\ PresetMade'
    <3>1. CASE OnHook("input") = {}
      <4>1. chains' = chains
        BY <1>3, <3>1 DEF QuickBlock
      <4>2. InputClean' /\ ToolMade' /\ PresetMade'
        BY <2>2, <2>4, <3>1, <4>1, SameChains
      <4> QED BY <4>1, <4>2 DEF IInv, StateTyped
    <3>2. CASE OnHook("input") # {}
      <4> DEFINE i == PrimaryInput
      <4>1. i \in OnHook("input")
        BY <3>2, Picked DEF IInv, StateTyped
      <4>2. EnsureDrops(i, "blacklist")
        BY <1>3, <3>2 DEF QuickBlock
      <4> HIDE DEF i
      <4>3. PICK new, S :
              /\ Grows(chains[i].rules, new, S)
              /\ chains' = [chains EXCEPT ![i].rules = new]
              /\ S \subseteq {DropOf(f, "blacklist") : f \in Families}
              /\ ~story.edited =>
                    \A f \in Families : DropOf(f, "blacklist") \in ToSet(chains[i].rules) \cup S
        BY <4>1, <4>2, EnsureDropsGrows
      <4>4. \A r \in S : Known(r)'
        BY <4>3 DEF Known, Blocks
      <4>5. ~story.edited => \A f \in Families :
                story.country <=> DropOf(f, BlkList) \in ToSet(chains[i].rules) \cup S
        <5>1. \A f, g : DropOf(f, BlkList) # DropOf(g, "blacklist")
          BY DropsDiffer DEF BlkList
        <5> QED BY <4>1, <4>3, <5>1 DEF IInv, ToolMade
      <4>6. AllowedLets' = AllowedLets
        BY <2>2 DEF AllowedLets
      <4> QED BY <2>2, <2>4, <4>1, <4>3, <4>4, <4>5, <4>6, InputGrows
    <3> QED BY <3>1, <3>2
  <2> QED BY <1>1, <2>2, <2>4, <2>5, <2>6, BoundsAssumption DEF IInv, StateTyped, Click
<1> QED BY <1>2, <1>3

\* The block of a country.
LEMMA BlockCountryKeeps ==
  ASSUME IInv, BlockCountry PROVE IInv'
<1> DEFINE i == PrimaryInput
           members == IF BlkList \in DOMAIN lists THEN lists[BlkList] ELSE Country
<1>1. /\ Click /\ UNCHANGED breaks /\ EnsureDrops(i, BlkList)
      /\ lists' = WithList(BlkList, members)
      /\ story' = [story EXCEPT !.country = TRUE]
  BY DEF BlockCountry
<1>2. i \in OnHook("input")
  BY Picked DEF IInv, StateTyped, BlockCountry
<1>3. members \in SUBSET Hosts
  BY FormsAssumption DEF IInv, StateTyped
<1> HIDE DEF i, members
<1>4. /\ story' \in Story
      /\ story'.preset = story.preset /\ story'.edited = story.edited
      /\ story'.saved = story.saved /\ story'.country = TRUE
      /\ story'.allowed = story.allowed
  BY <1>1 DEF IInv, StateTyped, Story
<1>5. /\ DOMAIN lists \subseteq DOMAIN lists'
      /\ \A n \in DOMAIN lists' : lists'[n] \subseteq Hosts /\ n \notin BanSets
      /\ Members("blacklist")' = Members("blacklist")
  <2>1. "blacklist" # BlkList
    BY DEF BlkList
  <2> QED BY <1>1, <1>3, <2>1, ListWritten
<1>6. SavedListed'
  BY <1>4, <1>5 DEF IInv, SavedListed
<1>7. PICK new, S :
        /\ Grows(chains[i].rules, new, S)
        /\ chains' = [chains EXCEPT ![i].rules = new]
        /\ S \subseteq {DropOf(f, BlkList) : f \in Families}
        /\ ~story.edited =>
              \A f \in Families : DropOf(f, BlkList) \in ToSet(chains[i].rules) \cup S
  BY <1>1, <1>2, EnsureDropsGrows
<1>8. \A r \in S : Known(r)'
  BY <1>7 DEF Known, Blocks
<1>9. ~story.edited => \A f \in Families :
          /\ story'.saved # {} => DropOf(f, "blacklist") \in ToSet(chains[i].rules) \cup S
          /\ story'.country <=> DropOf(f, BlkList) \in ToSet(chains[i].rules) \cup S
  BY <1>2, <1>4, <1>7 DEF IInv, ToolMade
<1>10. AllowedLets' = AllowedLets
  BY <1>4 DEF AllowedLets
<1>11. chains' \in Seq(Chains) /\ InputClean' /\ ToolMade' /\ PresetMade'
  BY <1>2, <1>4, <1>5, <1>7, <1>8, <1>9, <1>10, InputGrows
<1> QED BY <1>1, <1>4, <1>5, <1>6, <1>11, BoundsAssumption DEF IInv, StateTyped, Click

\* The lookup of a country fails.
LEMMA BlockCountryFailsKeeps ==
  ASSUME IInv, BlockCountryFails PROVE IInv'
<1>1. /\ Click /\ Break /\ UNCHANGED <<chains, story>>
      /\ lists' = WithList(BlkList, {})
  BY DEF BlockCountryFails
<1>2. /\ DOMAIN lists \subseteq DOMAIN lists'
      /\ \A n \in DOMAIN lists' : lists'[n] \subseteq Hosts /\ n \notin BanSets
      /\ Members("blacklist")' = Members("blacklist")
  <2>1. "blacklist" # BlkList
    BY DEF BlkList
  <2> QED BY <1>1, <2>1, ListWritten
<1>3. InputClean' /\ ToolMade' /\ PresetMade'
  BY <1>1, <1>2, SameChains
<1> QED BY <1>1, <1>2, <1>3, BoundsAssumption
        DEF IInv, StateTyped, SavedListed, Click, Break

\* After an edit by hand nothing is said of what the tools made.
LEMMA ByHand ==
  ASSUME story'.edited = TRUE PROVE ToolMade' /\ PresetMade'
BY DEF ToolMade, PresetMade

\* A rule is switched on or off.
LEMMA ToggleRuleKeeps ==
  ASSUME IInv, NEW i \in DOMAIN chains, NEW j \in DOMAIN chains[i].rules, ToggleRule(i, j)
  PROVE  IInv'
<1> USE DEF IInv
<1> DEFINE old == chains[i].rules
           r   == [old[j] EXCEPT !.on = ~old[j].on]
           new == [old EXCEPT ![j] = r]
<1>1. old \in Seq(Rules) /\ DOMAIN old = 1..Len(old)
  BY RulesThere, LenProperties
<1>2. old[j] \in Rules
  <2>1. j \in 1..Len(old)
    BY <1>1
  <2> HIDE DEF old
  <2> QED BY <1>1, <2>1, ElementOfSeq
<1>3. chains' = [chains EXCEPT ![i].rules = new]
  BY DEF ToggleRule
<1>4. story' = [story EXCEPT !.edited = TRUE] /\ UNCHANGED <<lists, breaks>> /\ Click
  BY DEF ToggleRule
<1> HIDE DEF old
<1>5. r \in Rules /\ r.do = old[j].do
  BY <1>2 DEF Rules
<1> HIDE DEF r
<1>6. new \in Seq(Rules) /\ DOMAIN new = DOMAIN old
      /\ \A k \in DOMAIN old : new[k] = IF k = j THEN r ELSE old[k]
  <2>1. j \in DOMAIN old
    BY DEF old
  <2> QED BY <1>1, <1>5, <2>1, ExceptSeq
<1> HIDE DEF new
<1>7. \A k \in DOMAIN old : new[k].do = old[k].do
  BY <1>5, <1>6
<1>8. Clean(old) => Clean(new)
  <2> SUFFICES ASSUME Clean(old), NEW k \in DOMAIN new
               PROVE  /\ new[k].do # "queue"
                      /\ new[k].do = "ban" =>
                            \A l \in 1..(k - 1) : new[l].do \in {"drop", "ban"}
    BY DEF Clean
  <2>1. \A l \in 1..(k - 1) : l \in DOMAIN old
    BY <1>1, <1>6
  <2> QED BY <1>6, <1>7, <2>1 DEF Clean
<1>9. /\ chains' \in Seq(Chains)
      /\ \A h : OnHook(h)' = OnHook(h)
      /\ \A k \in DOMAIN chains : chains'[k].rules = IF k = i THEN new ELSE chains[k].rules
  <2>1. chains \in Seq(Chains)
    BY DEF StateTyped
  <2> QED BY <1>3, <1>6, <2>1, EditedChain
<1>10. InputClean'
  BY <1>8, <1>9 DEF InputClean, OnHook, old
<1>11. /\ story' \in Story /\ story'.edited = TRUE /\ story'.saved = story.saved
  BY <1>4 DEF StateTyped, Story
<1>12. ToolMade' /\ PresetMade'
  BY <1>11, ByHand
<1> QED BY <1>4, <1>9, <1>10, <1>11, <1>12, BoundsAssumption
        DEF StateTyped, SavedListed, Members, Click

\* An input chain without rules is added.
LEMMA AddInputChainKeeps ==
  ASSUME IInv, NEW policy \in {"accept", "drop"}, AddInputChain(policy)
  PROVE  IInv'
<1> USE DEF IInv
<1> DEFINE c == [hook |-> "input", policy |-> policy, rules |-> <<>>]
<1>1. c \in Chains /\ c.rules = <<>>
  BY DEF Chains, Hooks, Policies
<1>2. /\ chains' = Append(chains, c) /\ story' = [story EXCEPT !.edited = TRUE]
      /\ UNCHANGED <<lists, breaks>> /\ Click
  BY DEF AddInputChain
<1> HIDE DEF c
<1>3. /\ chains' \in Seq(Chains)
      /\ \A k \in DOMAIN chains' : chains'[k] = c \/ (k \in DOMAIN chains /\ chains'[k] = chains[k])
  <2>1. chains \in Seq(Chains)
    BY DEF StateTyped
  <2>2. /\ Append(chains, c) \in Seq(Chains)
        /\ Len(Append(chains, c)) = Len(chains) + 1
        /\ \A k \in 1..Len(chains) : Append(chains, c)[k] = chains[k]
        /\ Append(chains, c)[Len(chains) + 1] = c
    BY <1>1, <2>1, AppendProperties
  <2>3. /\ DOMAIN chains = 1..Len(chains) /\ Len(chains) \in Nat
        /\ DOMAIN chains' = 1..(Len(chains) + 1)
    BY <1>2, <2>1, <2>2, LenProperties
  <2> QED BY <1>2, <2>2, <2>3
<1>4. InputClean'
  <2>1. Clean(c.rules)
    BY <1>1 DEF Clean
  <2> QED BY <1>3, <2>1 DEF InputClean, OnHook
<1>5. /\ story' \in Story /\ story'.edited = TRUE /\ story'.saved = story.saved
  BY <1>2 DEF StateTyped, Story
<1>6. ToolMade' /\ PresetMade'
  BY <1>5, ByHand
<1> QED BY <1>2, <1>3, <1>4, <1>5, <1>6, BoundsAssumption
        DEF StateTyped, SavedListed, Members, Click

-----------------------------------------------------------------------------
(* What a preset writes                                                    *)

\* An accept for the members of a list, of one family.
Letting(f, list, proto, ports) == Rule(And(f, {list}, Is(proto, ports)), "accept")
AcceptsOnly(rules) == rules \in Seq(Rules) /\ \A r \in ToSet(rules) : r.do = "accept"

\* Two of them, one after the other, are what From writes.
LEMMA FromIs ==
  ASSUME NEW list \in OwnLists, NEW proto \in {"tcp", "udp"}, NEW ports \in SUBSET Values
  PROVE  /\ AcceptsOnly(From(list, proto, ports))
         /\ ToSet(From(list, proto, ports)) = {Letting(f, list, proto, ports) : f \in Families}
<1> DEFINE r4 == Letting("saddr4", list, proto, ports)
           r6 == Letting("saddr6", list, proto, ports)
<1>1. {"saddr4", "saddr6", "tcp", "udp"} \subseteq Fields /\ "accept" \in Actions
      /\ {list} \subseteq Values
  BY DEF Fields, Actions, Values
<1>2. r4 \in Rules /\ r6 \in Rules
  BY <1>1, TwoTestsTyped DEF Letting
<1>3. r4.do = "accept" /\ r6.do = "accept"
  BY DEF Letting, Rule
<1>4. From(list, proto, ports) = <<r4, r6>>
  BY DEF From, BothFamilies, Letting
<1>5. {Letting(f, list, proto, ports) : f \in Families} = {r4, r6}
  BY DEF Families
<1> HIDE DEF r4, r6
<1>6. <<r4, r6>> \in Seq(Rules) /\ ToSet(<<r4, r6>>) = {r4, r6}
  BY <1>2 DEF ToSet
<1> QED BY <1>3, <1>4, <1>5, <1>6 DEF AcceptsOnly

\* An accept for the side of the local network.
LEMMA FromLanIs ==
  ASSUME NEW proto \in {"tcp", "udp"}, NEW ports \in SUBSET Values
  PROVE  FromLan(proto, ports) \in Rules /\ FromLan(proto, ports).do = "accept"
<1>1. {"iif", "tcp", "udp"} \subseteq Fields /\ "accept" \in Actions /\ {"lan"} \subseteq Values
  BY DEF Fields, Actions, Values
<1>2. FromLan(proto, ports) \in Rules
  BY <1>1, TwoTestsTyped DEF FromLan
<1> QED BY <1>2 DEF FromLan, Rule

\* Sequences that only accept, one behind the other.
LEMMA AcceptsJoined ==
  \A a, b : AcceptsOnly(a) /\ AcceptsOnly(b) =>
      AcceptsOnly(a \o b) /\ ToSet(a \o b) = ToSet(a) \cup ToSet(b)
<1> TAKE a, b
<1> SUFFICES ASSUME AcceptsOnly(a), AcceptsOnly(b)
             PROVE  AcceptsOnly(a \o b) /\ ToSet(a \o b) = ToSet(a) \cup ToSet(b)
  OBVIOUS
<1>1. a \in Seq(Rules) /\ b \in Seq(Rules)
  BY DEF AcceptsOnly
<1>2. a \o b \in Seq(Rules) /\ ToSet(a \o b) = ToSet(a) \cup ToSet(b)
  BY <1>1, JoinedSet
<1> QED BY <1>2 DEF AcceptsOnly

\* Who manages gets in by SSH and to nftably.
MgmtPorts == {"22", UiPort} \ {"none"}
MgmtLets == {Letting(f, "mgmt", "tcp", {port}) : f \in Families, port \in MgmtPorts}

\* The preset's rules for them accept only, and are these.
LEMMA MgmtAccessIs == AcceptsOnly(MgmtAccess) /\ ToSet(MgmtAccess) = MgmtLets
<1>1. "mgmt" \in OwnLists /\ {"22"} \in SUBSET Values /\ {UiPort} \in SUBSET Values
  BY DEF OwnLists, Values
<1> DEFINE s == From("mgmt", "tcp", {"22"})
           u == From("mgmt", "tcp", {UiPort})
<1>2. /\ AcceptsOnly(s) /\ ToSet(s) = {Letting(f, "mgmt", "tcp", {"22"}) : f \in Families}
      /\ AcceptsOnly(u) /\ ToSet(u) = {Letting(f, "mgmt", "tcp", {UiPort}) : f \in Families}
  BY <1>1, FromIs
<1>3. MgmtAccess = s \o (IF UiPort = "none" THEN <<>> ELSE u)
  BY DEF MgmtAccess
<1> HIDE DEF s, u
<1>4. AcceptsOnly(<<>>) /\ ToSet(<<>>) = {}
  BY DEF AcceptsOnly, ToSet
<1>5. CASE UiPort = "none"
  <2>1. AcceptsOnly(s \o <<>>) /\ ToSet(s \o <<>>) = ToSet(s) \cup {}
    BY <1>2, <1>4, AcceptsJoined
  <2>2. ToSet(s) = MgmtLets
    <3>1. MgmtPorts = {"22"}
      BY <1>5 DEF MgmtPorts
    <3>2. MgmtLets = {Letting(f, "mgmt", "tcp", {port}) : f \in Families, port \in {"22"}}
      BY <3>1 DEF MgmtLets
    <3>3. MgmtLets = {Letting(f, "mgmt", "tcp", {"22"}) : f \in Families}
      BY <3>2
    <3> QED BY <1>2, <3>3
  <2> QED BY <1>3, <1>5, <2>1, <2>2
<1>6. CASE UiPort # "none"
  <2>1. AcceptsOnly(s \o u) /\ ToSet(s \o u) = ToSet(s) \cup ToSet(u)
    BY <1>2, AcceptsJoined
  <2>2. ToSet(s) \cup ToSet(u) = MgmtLets
    <3>1. MgmtPorts = {"22", UiPort}
      BY <1>6 DEF MgmtPorts
    <3>2. MgmtLets = {Letting(f, "mgmt", "tcp", {port}) : f \in Families, port \in {"22", UiPort}}
      BY <3>1 DEF MgmtLets
    <3>3. MgmtLets = {Letting(f, "mgmt", "tcp", {"22"}) : f \in Families}
                     \cup {Letting(f, "mgmt", "tcp", {UiPort}) : f \in Families}
      BY <3>2
    <3> QED BY <1>2, <3>3
  <2> QED BY <1>3, <1>6, <2>1, <2>2
<1> QED BY <1>5, <1>6

\* What a preset lets in besides.
ServiceLets(preset) ==
    CASE preset = "bgp-router" ->
            {Letting(f, "peers", "tcp", {"179"}) : f \in Families}
            \cup {Letting(f, "peers", "udp", BfdPorts) : f \in Families}
      [] preset = "wireguard" ->
            {Rule(Is("udp", {"51820"}), "accept"), Rule(Is("iif", {"wg0"}), "accept")}
      [] preset = "home-router" ->
            {FromLan("tcp", {port}) : port \in {"53"} \cup MgmtPorts}
            \cup {FromLan("udp", {port}) : port \in {"67", "53"}}
      [] preset = "web-server" -> {Rule(Is("tcp", {"80", "443"}), "accept")}
      [] preset = "database-server" ->
            {Letting(f, "app", "tcp", {"5432", "3306"}) : f \in Families}
      [] OTHER -> {}

\* The rules of the services are these.
LEMMA ServiceRulesAre ==
  ASSUME NEW preset \in Presets
  PROVE  AcceptsOnly(ServiceRules(preset)) /\ ToSet(ServiceRules(preset)) = ServiceLets(preset)
<1>1. /\ {"179", "22", "67", "53", "80", "443", "5432", "3306", "51820", "wg0", UiPort}
            \cup BfdPorts \subseteq Values
      /\ {"peers", "app"} \subseteq OwnLists
  BY DEF Values, BfdPorts, OwnLists
<1>2. AcceptsOnly(<<>>) /\ ToSet(<<>>) = {}
  BY DEF AcceptsOnly, ToSet
<1>3. CASE preset = "bgp-router"
  <2> DEFINE t == From("peers", "tcp", {"179"})
             u == From("peers", "udp", BfdPorts)
  <2>1. AcceptsOnly(t) /\ ToSet(t) = {Letting(f, "peers", "tcp", {"179"}) : f \in Families}
    BY <1>1, FromIs
  <2>2. AcceptsOnly(u) /\ ToSet(u) = {Letting(f, "peers", "udp", BfdPorts) : f \in Families}
    BY <1>1, FromIs
  <2>3. ServiceRules(preset) = t \o u
    BY <1>3 DEF ServiceRules
  <2>4. ServiceLets(preset) = {Letting(f, "peers", "tcp", {"179"}) : f \in Families}
                              \cup {Letting(f, "peers", "udp", BfdPorts) : f \in Families}
    BY <1>3 DEF ServiceLets
  <2> HIDE DEF t, u
  <2> QED BY <2>1, <2>2, <2>3, <2>4, AcceptsJoined
<1>4. CASE preset = "wireguard"
  <2> DEFINE a == Rule(Is("udp", {"51820"}), "accept")
             b == Rule(Is("iif", {"wg0"}), "accept")
  <2>1. a \in Rules /\ b \in Rules
    <3>1. "udp" \in Fields /\ "iif" \in Fields /\ "accept" \in Actions
      BY DEF Fields, Actions
    <3> QED BY <1>1, <3>1, OneTestTyped
  <2>2. a.do = "accept" /\ b.do = "accept"
    BY DEF Rule
  <2>3. ServiceRules(preset) = <<a, b>> /\ ServiceLets(preset) = {a, b}
    BY <1>4 DEF ServiceRules, ServiceLets
  <2> HIDE DEF a, b
  <2>4. <<a, b>> \in Seq(Rules) /\ ToSet(<<a, b>>) = {a, b}
    BY <2>1 DEF ToSet
  <2> QED BY <2>2, <2>3, <2>4 DEF AcceptsOnly
<1>5. CASE preset = "home-router"
  <2> DEFINE a == FromLan("tcp", {"22"})
             b == FromLan("udp", {"67"})
             c == FromLan("udp", {"53"})
             d == FromLan("tcp", {"53"})
             e == FromLan("tcp", {UiPort})
  <2>1. \A r \in {a, b, c, d, e} : r \in Rules /\ r.do = "accept"
    BY <1>1, FromLanIs
  <2>2. ServiceRules(preset) = <<a, b, c, d>> \o (IF UiPort = "none" THEN <<>> ELSE <<e>>)
    BY <1>5 DEF ServiceRules
  <2>3. ServiceLets(preset) = {FromLan("tcp", {port}) : port \in {"53"} \cup MgmtPorts}
                              \cup {b, c}
    BY <1>5 DEF ServiceLets
  <2>4. {FromLan("tcp", {port}) : port \in {"53"} \cup MgmtPorts}
        = IF UiPort = "none" THEN {a, d} ELSE {a, d, e}
    <3>1. CASE UiPort = "none"
      <4>1. MgmtPorts = {"22"}
        BY <3>1 DEF MgmtPorts
      <4> QED BY <3>1, <4>1
    <3>2. CASE UiPort # "none"
      <4>1. MgmtPorts = {"22", UiPort}
        BY <3>2 DEF MgmtPorts
      <4> QED BY <3>2, <4>1
    <3> QED BY <3>1, <3>2
  <2> HIDE DEF a, b, c, d, e
  <2>5. AcceptsOnly(<<a, b, c, d>>) /\ ToSet(<<a, b, c, d>>) = {a, b, c, d}
    <3>1. <<a, b, c, d>> \in Seq(Rules) /\ ToSet(<<a, b, c, d>>) = {a, b, c, d}
      BY <2>1 DEF ToSet
    <3> QED BY <2>1, <3>1 DEF AcceptsOnly
  <2>6. AcceptsOnly(<<e>>) /\ ToSet(<<e>>) = {e}
    <3>1. <<e>> \in Seq(Rules) /\ ToSet(<<e>>) = {e}
      BY <2>1 DEF ToSet
    <3> QED BY <2>1, <3>1 DEF AcceptsOnly
  <2>7. CASE UiPort = "none"
    <3>1. AcceptsOnly(<<a, b, c, d>> \o <<>>)
          /\ ToSet(<<a, b, c, d>> \o <<>>) = {a, b, c, d} \cup {}
      BY <1>2, <2>5, AcceptsJoined
    <3> QED BY <2>2, <2>3, <2>4, <2>7, <3>1
  <2>8. CASE UiPort # "none"
    <3>1. AcceptsOnly(<<a, b, c, d>> \o <<e>>)
          /\ ToSet(<<a, b, c, d>> \o <<e>>) = {a, b, c, d} \cup {e}
      BY <2>5, <2>6, AcceptsJoined
    <3> QED BY <2>2, <2>3, <2>4, <2>8, <3>1
  <2> QED BY <2>7, <2>8
<1>6. CASE preset = "web-server"
  <2> DEFINE a == Rule(Is("tcp", {"80", "443"}), "accept")
  <2>1. a \in Rules
    <3>1. "tcp" \in Fields /\ "accept" \in Actions
      BY DEF Fields, Actions
    <3> QED BY <1>1, <3>1, OneTestTyped
  <2>2. a.do = "accept"
    BY DEF Rule
  <2>3. ServiceRules(preset) = <<a>> /\ ServiceLets(preset) = {a}
    BY <1>6 DEF ServiceRules, ServiceLets
  <2> HIDE DEF a
  <2>4. <<a>> \in Seq(Rules) /\ ToSet(<<a>>) = {a}
    BY <2>1 DEF ToSet
  <2> QED BY <2>2, <2>3, <2>4 DEF AcceptsOnly
<1>7. CASE preset = "database-server"
  <2> DEFINE t == From("app", "tcp", {"5432", "3306"})
  <2>1. AcceptsOnly(t) /\ ToSet(t) = {Letting(f, "app", "tcp", {"5432", "3306"}) : f \in Families}
    BY <1>1, FromIs
  <2>2. ServiceRules(preset) = t
    BY <1>7 DEF ServiceRules
  <2>3. ServiceLets(preset) = {Letting(f, "app", "tcp", {"5432", "3306"}) : f \in Families}
    BY <1>7 DEF ServiceLets
  <2> QED BY <2>1, <2>2, <2>3
<1>8. CASE preset \in {"secure-server", "container-host"}
  <2>1. ServiceRules(preset) = <<>>
    BY <1>8 DEF ServiceRules
  <2>2. ServiceLets(preset) = {}
    BY <1>8 DEF ServiceLets
  <2> QED BY <1>2, <2>1, <2>2
<1> QED BY <1>3, <1>4, <1>5, <1>6, <1>7, <1>8 DEF Presets

\* The input chain of a preset: loopback, what is invalid, the block list, and
\* then rules that only accept, and one that counts.
BaseLets == {Lo, Est, Icmp("icmp6"), Icmp("icmp4")}
Lets(preset) == BaseLets \cup MgmtLets \cup ServiceLets(preset)
Counting == Rule(Is("ct", {"new"}), "count")

\* The rules of a preset in their three parts.
LEMMA InputRulesAre ==
  ASSUME NEW preset \in Presets
  PROVE  \E head, tail \in Seq(Rules) :
            /\ InputRules(preset) = head \o tail
            /\ Len(head) = 4 /\ head[1] = Lo /\ head[2] = Inv
            /\ head[3] = DropOf("saddr4", "blacklist") /\ head[4] = DropOf("saddr6", "blacklist")
            /\ ToSet(tail) \cup {Lo} = Lets(preset) \cup {Counting}
            /\ \A r \in ToSet(tail) : r.do \in {"accept", "count"}
            /\ \A r \in Lets(preset) : r.do = "accept"
<1> DEFINE d4 == DropOf("saddr4", "blacklist")
           d6 == DropOf("saddr6", "blacklist")
           i6 == Icmp("icmp6")
           i4 == Icmp("icmp4")
           c  == Counting
           b1 == <<Lo, Inv>>
           b2 == <<d4, d6>>
           b3 == <<Est, i6, i4>>
           m  == MgmtAccess
           s  == ServiceRules(preset)
           e  == <<c>>
<1>1. /\ Lo \in Rules /\ Inv \in Rules /\ Est \in Rules /\ i6 \in Rules /\ i4 \in Rules
      /\ Est.do = "accept" /\ i6.do = "accept" /\ i4.do = "accept" /\ Lo.do = "accept"
  BY NamedRules
<1>2. d4 \in Rules /\ d6 \in Rules
  <2>1. "blacklist" \in Values
    BY DEF Values, OwnLists
  <2>2. \A f \in Families : DropOf(f, "blacklist") \in Rules
    BY <2>1, DropOfIs
  <2> QED BY <2>2 DEF Families
<1>3. c \in Rules /\ c.do = "count"
  <2>1. "ct" \in Fields /\ "count" \in Actions /\ {"new"} \subseteq Values
    BY DEF Fields, Actions, Values
  <2>2. c \in Rules
    BY <2>1, OneTestTyped DEF Counting
  <2> QED BY <2>2 DEF Counting, Rule
<1>4. DropFrom("blacklist") = b2
  BY BesideNothing DEF DropFrom, BothFamilies, DropOf
<1>5. BaseInput = (b1 \o b2) \o b3
  BY <1>4 DEF BaseInput, Lo, Inv, Est
<1>6. InputRules(preset) = ((((b1 \o b2) \o b3) \o m) \o s) \o e
  BY <1>5 DEF InputRules, DropLog, Counting
<1>7. AcceptsOnly(m) /\ ToSet(m) = MgmtLets /\ AcceptsOnly(s) /\ ToSet(s) = ServiceLets(preset)
  BY MgmtAccessIs, ServiceRulesAre
<1> HIDE DEF d4, d6, i6, i4, c, m, s
<1>8. AcceptsOnly(b3) /\ ToSet(b3) = {Est, i6, i4}
  <2>1. b3 \in Seq(Rules) /\ ToSet(b3) = {Est, i6, i4}
    BY <1>1 DEF ToSet
  <2> QED BY <1>1, <2>1 DEF AcceptsOnly
<1>9. b1 \in Seq(Rules) /\ b2 \in Seq(Rules) /\ e \in Seq(Rules) /\ ToSet(e) = {c}
  BY <1>1, <1>2, <1>3 DEF ToSet
<1> DEFINE head == b1 \o b2
<1>10. Len(head) = 4 /\ head[1] = Lo /\ head[2] = Inv /\ head[3] = d4 /\ head[4] = d6
  <2>1. Len(b1) = 2 /\ Len(b2) = 2 /\ b1[1] = Lo /\ b1[2] = Inv /\ b2[1] = d4 /\ b2[2] = d6
    OBVIOUS
  <2> HIDE DEF b1, b2
  <2>2. /\ Len(b1 \o b2) = Len(b1) + Len(b2)
        /\ \A k \in 1..Len(b1) : (b1 \o b2)[k] = b1[k]
        /\ \A k \in 1..Len(b2) : (b1 \o b2)[Len(b1) + k] = b2[k]
    BY <1>9, Joined
  <2>3. /\ \A k \in 1..2 : head[k] = b1[k]
        /\ \A k \in 1..2 : head[2 + k] = b2[k]
        /\ Len(head) = 4
    BY <2>1, <2>2
  <2> HIDE DEF head
  <2>4. head[1] = b1[1] /\ head[2] = b1[2] /\ head[2 + 1] = b2[1] /\ head[2 + 2] = b2[2]
    BY <2>3
  <2> QED BY <2>1, <2>3, <2>4
<1> HIDE DEF b1, b2, b3, e
<1>11. head \in Seq(Rules)
  BY <1>9, ConcatProperties
<1> HIDE DEF head
<1> DEFINE ms == b3 \o m
<1>12. AcceptsOnly(ms) /\ ToSet(ms) = {Est, i6, i4} \cup MgmtLets
  BY <1>7, <1>8, AcceptsJoined
<1> HIDE DEF ms
<1> DEFINE mss == ms \o s
<1>13. AcceptsOnly(mss) /\ ToSet(mss) = {Est, i6, i4} \cup MgmtLets \cup ServiceLets(preset)
  BY <1>7, <1>12, AcceptsJoined
<1> HIDE DEF mss
<1> DEFINE tail == mss \o e
<1>14. mss \in Seq(Rules) /\ ms \in Seq(Rules) /\ b3 \in Seq(Rules) /\ m \in Seq(Rules)
       /\ s \in Seq(Rules)
  BY <1>7, <1>8, <1>12, <1>13 DEF AcceptsOnly
<1>15. tail \in Seq(Rules) /\ ToSet(tail) = ToSet(mss) \cup {c}
  <2>1. tail \in Seq(Rules) /\ ToSet(tail) = ToSet(mss) \cup ToSet(e)
    BY <1>9, <1>14, JoinedSet
  <2> QED BY <1>9, <2>1
<1>16. InputRules(preset) = head \o tail
  <2>1. (head \o b3) \o m = head \o ms
    <3>1. b3 \in Seq(Rules) /\ m \in Seq(Rules)
      BY <1>14
    <3>2. (head \o b3) \o m = head \o (b3 \o m)
      BY <1>11, <3>1, ConcatAssociative
    <3> QED BY <3>2 DEF ms
  <2>2. (head \o ms) \o s = head \o mss
    <3>1. ms \in Seq(Rules) /\ s \in Seq(Rules)
      BY <1>14
    <3>2. (head \o ms) \o s = head \o (ms \o s)
      BY <1>11, <3>1, ConcatAssociative
    <3> QED BY <3>2 DEF mss
  <2>3. (head \o mss) \o e = head \o tail
    <3>1. e \in Seq(Rules)
      BY <1>9
    <3>2. mss \in Seq(Rules)
      BY <1>14
    <3>3. (head \o mss) \o e = head \o (mss \o e)
      BY <1>11, <3>1, <3>2, ConcatAssociative
    <3> QED BY <3>3
  <2>4. InputRules(preset) = (((head \o b3) \o m) \o s) \o e
    BY <1>6 DEF head
  <2> QED BY <2>1, <2>2, <2>3, <2>4
<1>17. \A r \in MgmtLets \cup ServiceLets(preset) \cup {Est, i6, i4} : r.do = "accept"
  BY <1>1, <1>7 DEF AcceptsOnly
<1>18. ToSet(tail) = {Est, i6, i4} \cup MgmtLets \cup ServiceLets(preset) \cup {c}
  BY <1>13, <1>15
<1>19. \A r \in ToSet(tail) : r.do \in {"accept", "count"}
  BY <1>3, <1>17, <1>18
<1>20. \A r \in Lets(preset) : r.do = "accept"
  BY <1>1, <1>17 DEF Lets, BaseLets, i6, i4
<1>21. ToSet(tail) \cup {Lo} = Lets(preset) \cup {Counting}
  BY <1>18 DEF Lets, BaseLets, i6, i4, c
<1> QED BY <1>10, <1>11, <1>15, <1>16, <1>19, <1>20, <1>21 DEF d4, d6

\* What the input chain of a preset is like when nothing was added yet.
LEMMA PresetInputIs ==
  ASSUME NEW preset \in Presets
  PROVE  /\ InputRules(preset) \in Seq(Rules)
         /\ ToSet(InputRules(preset)) =
                {Inv, DropOf("saddr4", "blacklist"), DropOf("saddr6", "blacklist"), Counting}
                \cup Lets(preset)
         /\ PresetLets(preset) = Lets(preset)
         /\ \A r \in ToSet(InputRules(preset)) : r.do \notin {"ban", "queue"}
         /\ BlocksAbove(InputRules(preset))
         /\ InvalidAbove(InputRules(preset))
         /\ LoopbackFirst(InputRules(preset))
<1> DEFINE all == InputRules(preset)
           d4  == DropOf("saddr4", "blacklist")
           d6  == DropOf("saddr6", "blacklist")
<1>1. PICK head, tail \in Seq(Rules) :
        /\ all = head \o tail
        /\ Len(head) = 4 /\ head[1] = Lo /\ head[2] = Inv /\ head[3] = d4 /\ head[4] = d6
        /\ ToSet(tail) \cup {Lo} = Lets(preset) \cup {Counting}
        /\ \A r \in ToSet(tail) : r.do \in {"accept", "count"}
        /\ \A r \in Lets(preset) : r.do = "accept"
  BY InputRulesAre
<1>2. /\ Lo.do = "accept" /\ Inv.do = "drop" /\ d4.do = "drop" /\ d6.do = "drop"
      /\ Counting.do = "count" /\ d4 # Inv /\ d6 # Inv
  <2>1. d4.do = "drop" /\ DOMAIN d4.match = {"saddr4"}
    BY DropOfIs
  <2>2. d6.do = "drop" /\ DOMAIN d6.match = {"saddr6"}
    BY DropOfIs
  <2>3. DOMAIN Inv.match = {"ct"} /\ Inv.do = "drop" /\ Lo.do = "accept"
    BY NamedRules
  <2>4. {"saddr4"} # {"ct"} /\ {"saddr6"} # {"ct"}
    OBVIOUS
  <2>5. Counting.do = "count"
    BY DEF Counting, Rule
  <2> QED BY <2>1, <2>2, <2>3, <2>4, <2>5
<1> HIDE DEF all, d4, d6
<1>3. DOMAIN head = 1..4 /\ ToSet(head) = {Lo, Inv, d4, d6}
  <2>1. DOMAIN head = 1..4
    BY <1>1, LenProperties
  <2>2. \A k \in 1..4 : k = 1 \/ k = 2 \/ k = 3 \/ k = 4
    OBVIOUS
  <2>3. \A k \in DOMAIN head : head[k] \in {Lo, Inv, d4, d6}
    BY <1>1, <2>1, <2>2
  <2>4. 1 \in 1..4 /\ 2 \in 1..4 /\ 3 \in 1..4 /\ 4 \in 1..4
    OBVIOUS
  <2> QED BY <1>1, <2>1, <2>3, <2>4 DEF ToSet
<1>4. all \in Seq(Rules) /\ ToSet(all) = ToSet(head) \cup ToSet(tail)
  BY <1>1, JoinedSet
<1>5. Lo \in Lets(preset)
  BY DEF Lets, BaseLets
<1>6. ToSet(all) = {Inv, d4, d6, Counting} \cup Lets(preset)
  BY <1>1, <1>3, <1>4, <1>5
<1>7. PresetLets(preset) = Lets(preset)
  <2>1. preset # "none"
    BY DEF Presets
  <2> QED BY <1>1, <1>2, <1>6, <2>1 DEF PresetLets, all
<1>8. \A r \in ToSet(all) : r.do \notin {"ban", "queue"}
  BY <1>1, <1>2, <1>6
<1>9. /\ DOMAIN all = 1..(4 + Len(tail)) /\ Len(tail) \in Nat
      /\ all[1] = Lo /\ all[2] = Inv /\ all[3] = d4 /\ all[4] = d6
      /\ \A k \in 1..Len(tail) : all[4 + k] \in ToSet(tail)
  <2>1. /\ Len(head) \in Nat /\ Len(tail) \in Nat
        /\ DOMAIN tail = 1..Len(tail)
        /\ DOMAIN all = 1..(Len(head) + Len(tail))
        /\ \A k \in 1..Len(head) : all[k] = head[k]
        /\ \A k \in 1..Len(tail) : all[Len(head) + k] = tail[k]
    <3>1. /\ Len(head) \in Nat /\ Len(tail) \in Nat
          /\ DOMAIN tail = 1..Len(tail)
          /\ DOMAIN (head \o tail) = 1..(Len(head) + Len(tail))
          /\ \A k \in 1..Len(head) : (head \o tail)[k] = head[k]
          /\ \A k \in 1..Len(tail) : (head \o tail)[Len(head) + k] = tail[k]
      BY Joined
    <3>2. all = head \o tail
      BY <1>1
    <3> QED BY ONLY <3>1, <3>2
  <2>2. \A k \in 1..Len(tail) : tail[k] \in ToSet(tail)
    BY <2>1 DEF ToSet
  <2>3. /\ DOMAIN all = 1..(4 + Len(tail)) /\ Len(tail) \in Nat
        /\ \A k \in 1..4 : all[k] = head[k]
        /\ \A k \in 1..Len(tail) : all[4 + k] \in ToSet(tail)
    BY <1>1, <2>1, <2>2
  <2>4. 1 \in 1..4 /\ 2 \in 1..4 /\ 3 \in 1..4 /\ 4 \in 1..4
    OBVIOUS
  <2> QED BY <1>1, <2>3, <2>4
<1>10. \A k \in DOMAIN all : k > 4 => all[k].do # "drop"
  <2> SUFFICES ASSUME NEW k \in DOMAIN all, k > 4 PROVE all[k].do # "drop"
    OBVIOUS
  <2>1. k - 4 \in 1..Len(tail) /\ 4 + (k - 4) = k
    BY <1>9
  <2> QED BY <1>1, <1>9, <2>1
<1>11. \A k \in 1..4 : Above(all, k)
  <2> TAKE k \in 1..4
  <2>1. \A j \in 1..(k - 1) : j = 1 \/ j = 2 \/ j = 3
    OBVIOUS
  <2> QED BY <1>2, <1>9, <2>1 DEF Above
<1>12. BlocksAbove(all)
  <2>1. \A r \in Blocks : r.do = "drop"
    <3>1. \A f, n : DropOf(f, n).do = "drop"
      BY DropOfIs
    <3> QED BY <3>1 DEF Blocks
  <2>2. \A k \in DOMAIN all : all[k] \in Blocks => k \in 1..4
    BY <1>9, <1>10, <2>1
  <2> QED BY <1>11, <2>2 DEF BlocksAbove
<1>13. InvalidAbove(all)
  <2>1. 2 \in DOMAIN all /\ 2 \in 1..4
    BY <1>9
  <2> QED BY <1>9, <1>11, <2>1 DEF InvalidAbove
<1>14. LoopbackFirst(all)
  <2>1. 1 \in DOMAIN all /\ \A j \in 1..(1 - 1) : FALSE
    BY <1>9
  <2> QED BY <1>9, <2>1 DEF LoopbackFirst
<1> QED BY <1>4, <1>6, <1>7, <1>8, <1>12, <1>13, <1>14 DEF all, d4, d6

-----------------------------------------------------------------------------
(* The tables of a preset                                                  *)

\* Rules that hand nothing to a detector or to user space, and chains of them.
PlainRules(rules) == rules \in Seq(Rules) /\ \A r \in ToSet(rules) : r.do \notin {"ban", "queue"}
Plain(table) == table \in Seq(Chains) /\ \A k \in DOMAIN table : PlainRules(table[k].rules)

\* The rules of the other chains of a preset.
LEMMA OtherRulesAre ==
  ASSUME NEW preset \in Presets
  PROVE  /\ PlainRules(ForwardRules(preset)) /\ PlainRules(OutputRules(preset))
         /\ PlainRules(<<Rule(Is("oif", {"wan"}), "masquerade")>>) /\ PlainRules(<<>>)
<1> DEFINE wf == Rule(Is("iif", {"wg0"}), "accept")
           wo == Rule(Is("oif", {"wg0"}), "accept")
           lw == Rule(And("iif", {"lan"}, Is("oif", {"wan"})), "accept")
           u == Rule(Is("udp", {"5353", "5355", "137", "138", "1900", "67", "68"}), "drop")
           t == Rule(Is("tcp", {"139", "445"}), "drop")
           q == Rule(Is("oif", {"wan"}), "masquerade")
<1>1. /\ {"iif", "oif", "udp", "tcp"} \subseteq Fields
      /\ {"accept", "drop", "masquerade"} \subseteq Actions
      /\ {"wg0", "lan", "wan", "5353", "5355", "137", "138", "1900", "67", "68", "139", "445"}
            \subseteq Values
  BY DEF Fields, Actions, Values
<1>2. {wf, wo, u, t, q} \subseteq Rules
  BY <1>1, OneTestTyped
<1>3. lw \in Rules
  BY <1>1, TwoTestsTyped
<1>4. Inv \in Rules /\ Est \in Rules
  BY NamedRules
<1>5. \A r \in {wf, wo, lw, u, t, q, Inv, Est} : r.do \notin {"ban", "queue"}
  BY DEF Rule, Inv, Est
<1>6. ForwardRules(preset) \in {<<Inv>>, <<Est, wf, wo>>, <<Inv, Est, lw>>, <<>>}
  BY DEF ForwardRules, Inv, Est
<1>7. OutputRules(preset) \in {<<>>, <<Inv, u, t>>}
  BY DEF OutputRules, Inv
<1> HIDE DEF wf, wo, lw, u, t, q
<1>8. PlainRules(<<>>) /\ PlainRules(<<q>>) /\ PlainRules(<<Inv>>)
  BY <1>2, <1>4, <1>5 DEF PlainRules, ToSet
<1>9. PlainRules(<<Est, wf, wo>>)
  BY <1>2, <1>4, <1>5 DEF PlainRules, ToSet
<1>10. PlainRules(<<Inv, Est, lw>>)
  BY <1>3, <1>4, <1>5 DEF PlainRules, ToSet
<1>11. PlainRules(<<Inv, u, t>>)
  BY <1>2, <1>4, <1>5 DEF PlainRules, ToSet
<1>12. PlainRules(ForwardRules(preset))
  BY <1>6, <1>8, <1>9, <1>10
<1>13. PlainRules(OutputRules(preset))
  BY <1>7, <1>8, <1>11
<1>14. PlainRules(<<Rule(Is("oif", {"wan"}), "masquerade")>>)
  BY <1>8 DEF q
<1> QED BY <1>8, <1>12, <1>13, <1>14

\* One chain, and chains behind others.
LEMMA PlainChains ==
  /\ Plain(<<>>)
  /\ \A hook \in Hooks, policy \in Policies : \A rules :
        PlainRules(rules) => Plain(<<Chain(hook, policy, rules)>>)
  /\ \A a, b : Plain(a) /\ Plain(b) => Plain(a \o b) /\ ToSet(a \o b) = ToSet(a) \cup ToSet(b)
<1>1. Plain(<<>>)
  BY DEF Plain
<1>2. ASSUME NEW hook \in Hooks, NEW policy \in Policies, NEW rules, PlainRules(rules)
      PROVE  Plain(<<Chain(hook, policy, rules)>>)
  <2> DEFINE c == Chain(hook, policy, rules)
  <2>1. c \in Chains /\ PlainRules(c.rules)
    BY <1>2 DEF Chain, Chains, PlainRules
  <2> HIDE DEF c
  <2>2. <<c>> \in Seq(Chains) /\ DOMAIN <<c>> = {1} /\ <<c>>[1] = c
    BY <2>1
  <2> QED BY <2>1, <2>2 DEF Plain, c
<1>3. ASSUME NEW a, NEW b, Plain(a), Plain(b)
      PROVE  Plain(a \o b) /\ ToSet(a \o b) = ToSet(a) \cup ToSet(b)
  <2>1. a \in Seq(Chains) /\ b \in Seq(Chains)
    BY <1>3 DEF Plain
  <2>2. a \o b \in Seq(Chains) /\ ToSet(a \o b) = ToSet(a) \cup ToSet(b)
    BY <2>1, JoinedSet
  <2>3. \A c \in ToSet(a) \cup ToSet(b) : PlainRules(c.rules)
    BY <1>3 DEF Plain, ToSet
  <2>4. \A k \in DOMAIN (a \o b) : (a \o b)[k] \in ToSet(a \o b)
    BY DEF ToSet
  <2> QED BY <2>2, <2>3, <2>4 DEF Plain
<1> QED BY <1>1, <1>2, <1>3

\* The chain of what is forwarded in a preset.
Forwarding(preset) ==
    Chain("forward", IF preset = "bgp-router" THEN "accept" ELSE "drop", ForwardRules(preset))

\* The chains of a preset: its input chain first, and none other on that hook.
LEMMA BuiltIs ==
  ASSUME NEW preset \in Presets
  PROVE  /\ Plain(FilterTable(preset)) /\ Plain(NatTable(preset)) /\ Plain(Built(preset))
         /\ 1 \in DOMAIN Built(preset)
         /\ Built(preset)[1] = Chain("input", "drop", InputRules(preset))
         /\ \A k \in DOMAIN Built(preset) :
               /\ Built(preset)[k].hook = "input" => k = 1
               /\ Built(preset)[k].hook = "forward" =>
                     Built(preset)[k] = Forwarding(preset) /\ preset # "container-host"
         /\ preset # "container-host" =>
               \E k \in DOMAIN Built(preset) : Built(preset)[k].hook = "forward"
<1> DEFINE in   == Chain("input", "drop", InputRules(preset))
           out  == Chain("output", "accept", OutputRules(preset))
           pre  == Chain("prerouting", "none", <<>>)
           post == Chain("postrouting", "none", <<Rule(Is("oif", {"wan"}), "masquerade")>>)
           fwd  == Forwarding(preset)
           F == ForwardChain(preset)
           N == NatTable(preset)
<1>1. PlainRules(InputRules(preset))
  BY PresetInputIs DEF PlainRules
<1>2. /\ "input" \in Hooks /\ "output" \in Hooks /\ "forward" \in Hooks
      /\ "prerouting" \in Hooks /\ "postrouting" \in Hooks
      /\ "drop" \in Policies /\ "accept" \in Policies /\ "none" \in Policies
  BY DEF Hooks, Policies
<1>3. Plain(<<in>>) /\ Plain(<<out>>) /\ Plain(<<pre>>) /\ Plain(<<post>>) /\ Plain(<<fwd>>)
  BY <1>1, <1>2, OtherRulesAre, PlainChains DEF Forwarding
<1>4. in.hook = "input" /\ out.hook = "output" /\ pre.hook = "prerouting"
      /\ post.hook = "postrouting" /\ fwd.hook = "forward"
  BY DEF Chain, Forwarding
<1>5. F = IF preset = "container-host" THEN <<>> ELSE <<fwd>>
  BY DEF ForwardChain, Forwarding
<1>6. N = IF preset # "home-router" THEN <<>> ELSE <<pre, post>>
  BY DEF NatTable
<1>7. FilterTable(preset) = (<<in>> \o F) \o <<out>> /\ Built(preset) = FilterTable(preset) \o N
  BY DEF FilterTable, Built
<1> HIDE DEF in, out, pre, post, fwd, F, N
<1>8. /\ ToSet(<<in>>) = {in} /\ ToSet(<<out>>) = {out} /\ ToSet(<<fwd>>) = {fwd}
      /\ ToSet(<<pre, post>>) = {pre, post} /\ ToSet(<<>>) = {}
  <2>1. \A x : ToSet(<<x>>) = {x}
    BY DEF ToSet
  <2>2. ToSet(<<pre, post>>) = {pre, post}
    BY DEF ToSet
  <2>3. ToSet(<<>>) = {}
    BY DEF ToSet
  <2> QED BY <2>1, <2>2, <2>3
<1>9. Plain(F) /\ ToSet(F) = IF preset = "container-host" THEN {} ELSE {fwd}
  BY <1>3, <1>5, <1>8, PlainChains
<1>10. Plain(N) /\ ToSet(N) \subseteq {pre, post}
  <2>1. Plain(<<pre, post>>)
    <3>1. \A x : Plain(<<x>>) => x \in Chains /\ PlainRules(x.rules)
      <4> TAKE x
      <4>1. <<x>> \in Seq(Chains) => x \in Chains
        OBVIOUS
      <4>2. 1 \in DOMAIN <<x>> /\ <<x>>[1] = x
        OBVIOUS
      <4> QED BY <4>1, <4>2 DEF Plain
    <3>2. pre \in Chains /\ post \in Chains /\ PlainRules(pre.rules) /\ PlainRules(post.rules)
      BY <1>3, <3>1
    <3>3. <<pre, post>> \in Seq(Chains)
      BY <3>2
    <3>4. \A k \in DOMAIN <<pre, post>> : <<pre, post>>[k] = pre \/ <<pre, post>>[k] = post
      OBVIOUS
    <3> QED BY <3>2, <3>3, <3>4 DEF Plain
  <2> QED BY <1>6, <1>8, <2>1, PlainChains
<1> DEFINE rest == F \o (<<out>> \o N)
<1>11. Plain(<<out>> \o N) /\ ToSet(<<out>> \o N) = {out} \cup ToSet(N)
  BY <1>3, <1>8, <1>10, PlainChains
<1>12. Plain(rest) /\ ToSet(rest) = ToSet(F) \cup {out} \cup ToSet(N)
  BY <1>9, <1>11, PlainChains
<1>13. Plain(<<in>> \o F) /\ Plain(FilterTable(preset))
  BY <1>3, <1>7, <1>9, PlainChains
<1>14. Built(preset) = <<in>> \o rest
  <2>1. <<in>> \in Seq(Chains) /\ <<out>> \in Seq(Chains) /\ F \in Seq(Chains) /\ N \in Seq(Chains)
        /\ <<out>> \o N \in Seq(Chains) /\ <<in>> \o F \in Seq(Chains)
    BY <1>3, <1>9, <1>10, <1>11, <1>13 DEF Plain
  <2>2. ((<<in>> \o F) \o <<out>>) \o N = (<<in>> \o F) \o (<<out>> \o N)
    BY <2>1, ConcatAssociative
  <2> DEFINE o == <<out>> \o N
  <2> HIDE DEF o
  <2>3. (<<in>> \o F) \o o = <<in>> \o (F \o o)
    BY <2>1, ConcatAssociative DEF o
  <2> QED BY <1>7, <2>2, <2>3 DEF o
<1> HIDE DEF rest
<1>15. Plain(Built(preset))
  BY <1>3, <1>12, <1>14, PlainChains
<1>16. /\ DOMAIN Built(preset) = 1..(1 + Len(rest)) /\ Len(rest) \in Nat
       /\ Built(preset)[1] = in
       /\ DOMAIN rest = 1..Len(rest)
       /\ \A k \in 1..Len(rest) : Built(preset)[1 + k] = rest[k]
  <2>1. <<in>> \in Seq(Chains) /\ rest \in Seq(Chains)
    BY <1>3, <1>12 DEF Plain
  <2>2. Len(<<in>>) = 1 /\ <<in>>[1] = in
    OBVIOUS
  <2> DEFINE one == <<in>>
  <2> HIDE DEF one
  <2>3. /\ Len(one) \in Nat /\ Len(rest) \in Nat
        /\ DOMAIN rest = 1..Len(rest)
        /\ DOMAIN (one \o rest) = 1..(Len(one) + Len(rest))
        /\ \A k \in 1..Len(one) : (one \o rest)[k] = one[k]
        /\ \A k \in 1..Len(rest) : (one \o rest)[Len(one) + k] = rest[k]
    BY <2>1, Joined DEF one
  <2>4. Len(one) = 1 /\ one[1] = in
    BY <2>2 DEF one
  <2>5. Built(preset) = one \o rest
    BY <1>14 DEF one
  <2> QED BY ONLY <2>3, <2>4, <2>5
<1>17. \A k \in DOMAIN Built(preset) : k = 1 \/ Built(preset)[k] \in ToSet(F) \cup {out} \cup ToSet(N)
  <2> TAKE k \in DOMAIN Built(preset)
  <2>1. CASE k # 1
    <3>1. k - 1 \in 1..Len(rest) /\ 1 + (k - 1) = k
      BY <1>16, <2>1
    <3>2. Built(preset)[k] = rest[k - 1]
      BY <1>16, <3>1
    <3>3. rest[k - 1] \in ToSet(rest)
      BY <1>16, <3>1 DEF ToSet
    <3> QED BY <1>12, <3>2, <3>3
  <2> QED BY <2>1
<1>18. \A k \in DOMAIN Built(preset) :
          /\ Built(preset)[k].hook = "input" => k = 1
          /\ Built(preset)[k].hook = "forward" =>
                Built(preset)[k] = fwd /\ preset # "container-host"
  BY <1>4, <1>9, <1>10, <1>16, <1>17
<1>19. preset # "container-host" =>
          \E k \in DOMAIN Built(preset) : Built(preset)[k].hook = "forward"
  <2> SUFFICES ASSUME preset # "container-host"
               PROVE  \E k \in DOMAIN Built(preset) : Built(preset)[k].hook = "forward"
    OBVIOUS
  <2>1. fwd \in ToSet(rest)
    BY <1>9, <1>12
  <2>2. PICK l \in DOMAIN rest : rest[l] = fwd
    BY <2>1 DEF ToSet
  <2>3. 1 + l \in DOMAIN Built(preset) /\ Built(preset)[1 + l] = fwd
    BY <1>16, <2>2
  <2> QED BY <1>4, <2>3
<1>20. 1 \in DOMAIN Built(preset)
  BY <1>16
<1> QED BY <1>10, <1>13, <1>15, <1>16, <1>18, <1>19, <1>20 DEF in, fwd, N

\* A table that was not finished has chains and rules like a finished one.
LEMMA UnfinishedIs ==
  ASSUME NEW table, Plain(table), NEW c \in Nat, NEW n \in Nat, Within(table, c, n)
  PROVE  Plain(Unfinished(table, c, n))
<1>1. table \in Seq(Chains) /\ \A k \in DOMAIN table : PlainRules(table[k].rules)
  BY DEF Plain
<1>2. DOMAIN table = 1..Len(table) /\ Len(table) \in Nat
  BY <1>1, LenProperties
<1>3. \A k \in DOMAIN table : table[k] \in Chains
  BY <1>1, <1>2, ElementOfSeq
<1>4. ASSUME NEW k \in DOMAIN table, NEW rules, PlainRules(rules)
      PROVE  /\ [table[k] EXCEPT !.rules = rules] \in Chains
             /\ [table[k] EXCEPT !.rules = rules].rules = rules
  <2> DEFINE x == table[k]
  <2>1. x \in Chains /\ rules \in Seq(Rules)
    BY <1>3, <1>4 DEF PlainRules
  <2> HIDE DEF x
  <2>2. [x EXCEPT !.rules = rules] \in Chains /\ [x EXCEPT !.rules = rules].rules = rules
    BY <2>1 DEF Chains
  <2> QED BY <2>2 DEF x
<1>5. CASE c = 0
  <2>1. n < Len(table)
    BY <1>2, <1>5 DEF Within
  <2>2. 1..n \subseteq DOMAIN table
    BY <1>2, <2>1
  <2> DEFINE u == [i \in 1..n |-> [table[i] EXCEPT !.rules = <<>>]]
  <2>3. \A i \in 1..n : u[i] \in Chains /\ u[i].rules = <<>>
    <3>1. PlainRules(<<>>)
      BY DEF PlainRules, ToSet
    <3> TAKE i \in 1..n
    <3>2. u[i] = [table[i] EXCEPT !.rules = <<>>]
      OBVIOUS
    <3> QED BY <1>4, <2>2, <3>1, <3>2
  <2>4. Unfinished(table, c, n) = u
    BY <1>5 DEF Unfinished
  <2>5. DOMAIN u = 1..n
    OBVIOUS
  <2>6. u \in Seq(Chains)
    <3>1. \A i \in 1..n : u[i] \in Chains
      BY <2>3
    <3> HIDE DEF u
    <3>2. u = [i \in 1..n |-> u[i]]
      BY DEF u
    <3>3. u \in [1..n -> Chains]
      BY <2>5, <3>1, <3>2
    <3> QED BY <3>3, SeqDef
  <2>7. PlainRules(<<>>)
    BY DEF PlainRules, ToSet
  <2> HIDE DEF u
  <2> QED BY <2>3, <2>4, <2>5, <2>6, <2>7 DEF Plain
<1>6. CASE c # 0
  <2>1. c \in DOMAIN table /\ n < Len(table[c].rules)
    BY <1>6 DEF Within
  <2> DEFINE cut(i) == IF i < c THEN table[i].rules
                       ELSE SubSeq(table[i].rules, 1, IF i = c THEN n ELSE 0)
  <2>2. ASSUME NEW i \in DOMAIN table PROVE PlainRules(cut(i))
    <3> DEFINE rules == table[i].rules
               m == IF i = c THEN n ELSE 0
    <3>1. PlainRules(rules)
      BY <1>1
    <3>2. rules \in Seq(Rules) /\ Len(rules) \in Nat /\ DOMAIN rules = 1..Len(rules)
      BY <3>1, LenProperties DEF PlainRules
    <3>3. m \in Nat /\ m <= Len(rules)
      BY <2>1, <3>2
    <3> HIDE DEF rules, m
    <3>4. \A k \in 1..m : k \in DOMAIN rules /\ rules[k] \in Rules
      <4>1. \A k \in 1..m : k \in 1..Len(rules)
        BY <3>2, <3>3
      <4> QED BY <3>2, <4>1, ElementOfSeq
    <3> DEFINE s == SubSeq(rules, 1, m)
    <3>5. /\ s \in Seq(Rules) /\ Len(s) = IF 1 <= m THEN m - 1 + 1 ELSE 0
          /\ \A k \in 1..(m - 1 + 1) : s[k] = rules[1 + k - 1]
      <4>1. 1 \in Int /\ m \in Int
        BY <3>3
      <4>2. \A k \in 1..m : rules[k] \in Rules
        BY <3>4
      <4> QED BY <4>1, <4>2, SubSeqProperties
    <3>6. \A k \in DOMAIN s : k \in 1..m /\ s[k] = rules[k]
      <4> HIDE DEF s
      <4>1. DOMAIN s = 1..Len(s)
        BY <3>5, LenProperties
      <4>2. Len(s) = m
        BY <3>3, <3>5
      <4>3. \A k \in 1..m : k \in 1..(m - 1 + 1) /\ 1 + k - 1 = k
        BY <3>3
      <4> QED BY <3>5, <4>1, <4>2, <4>3
    <3> HIDE DEF s
    <3>7. PlainRules(s)
      BY <3>1, <3>4, <3>5, <3>6 DEF PlainRules, ToSet
    <3>8. cut(i) = rules \/ cut(i) = s
      BY DEF rules, m, s
    <3> QED BY <3>1, <3>7, <3>8
  <2> DEFINE u == [i \in DOMAIN table |-> [table[i] EXCEPT !.rules = cut(i)]]
  <2>3. Unfinished(table, c, n) = u
    BY <1>6 DEF Unfinished
  <2> HIDE DEF cut
  <2>4. \A i \in DOMAIN table : u[i] \in Chains /\ u[i].rules = cut(i)
    <3> TAKE i \in DOMAIN table
    <3>1. u[i] = [table[i] EXCEPT !.rules = cut(i)]
      OBVIOUS
    <3> QED BY <1>4, <2>2, <3>1
  <2>5. DOMAIN u = DOMAIN table
    OBVIOUS
  <2>6. u \in Seq(Chains)
    <3>1. u = [i \in 1..Len(table) |-> u[i]]
      BY <1>2
    <3> HIDE DEF u
    <3>2. u \in [1..Len(table) -> Chains]
      BY <1>2, <2>4, <2>5, <3>1
    <3> QED BY <1>2, <3>2, SeqDef
  <2> HIDE DEF u
  <2> QED BY <2>2, <2>3, <2>4, <2>5, <2>6 DEF Plain
<1> QED BY <1>5, <1>6

\* A preset has lists the code names, all of them or some.
LEMMA NamesOwned ==
  ASSUME NEW preset \in Presets
  PROVE  /\ ListsOf(preset) \subseteq OwnLists
         /\ \A names \in EarlyLists(preset) : names \subseteq OwnLists
         /\ \A c, n : \A names \in ListsAt(preset, c, n) : names \subseteq OwnLists
<1>1. ListsOf(preset) \subseteq OwnLists
  BY DEF ListsOf, OwnLists
<1> QED BY <1>1 DEF EarlyLists, ListsAt

\* The lists that are made, or were there.
LEMMA EnsuredLists ==
  ASSUME IInv, NEW names, names \subseteq OwnLists, NEW client \in Clients,
         lists' = Ensured(names, client)
  PROVE  /\ \A n \in DOMAIN lists' : lists'[n] \subseteq Hosts /\ n \notin BanSets
         /\ names \subseteq DOMAIN lists'
         /\ Members("blacklist")' = Members("blacklist")
<1>2. \A n \in names : n \notin BanSets
  BY FormsAssumption
<1>3. \A n : Members(n) \subseteq Hosts
  BY DEF Members, IInv, StateTyped
<1>4. {client} \cap Hosts \subseteq Hosts
  OBVIOUS
<1>5. /\ DOMAIN lists' = DOMAIN lists \cup names
      /\ \A n \in DOMAIN lists' :
            lists'[n] = IF n = "mgmt" /\ "mgmt" \in names /\ Members(n) = {}
                        THEN {client} \cap Hosts ELSE Members(n)
  BY DEF Ensured
<1>6. \A n \in DOMAIN lists' : lists'[n] \subseteq Hosts /\ n \notin BanSets
  BY <1>2, <1>3, <1>4, <1>5 DEF IInv, StateTyped
<1>7. Members("blacklist")' = Members("blacklist")
  BY <1>5 DEF Members
<1> QED BY <1>5, <1>6, <1>7

\* A preset is applied.
LEMMA ApplyPresetKeeps ==
  ASSUME IInv, NEW preset \in Presets, NEW client \in Clients, ApplyPreset(preset, client)
  PROVE  IInv'
<1> DEFINE in == Chain("input", "drop", InputRules(preset))
<1>1. /\ Click /\ chains' = Built(preset)
      /\ \E seed \in Clients : lists' = Ensured(ListsOf(preset), seed)
      /\ UNCHANGED breaks \/ Break
  BY DEF ApplyPreset, Clients
<1>2. /\ story' \in Story
      /\ story'.preset = preset /\ story'.edited = FALSE
      /\ story'.saved = story.saved /\ story'.country = FALSE /\ story'.allowed = {}
  <2> DEFINE w == lists'["mgmt"] = {}
  <2>1. w \in BOOLEAN
    OBVIOUS
  <2>2. story' = [story EXCEPT !.preset = preset, !.by = client, !.warned = w,
                     !.edited = FALSE, !.allowed = {}, !.country = FALSE]
    BY DEF ApplyPreset
  <2> HIDE DEF w
  <2> QED BY <2>1, <2>2 DEF IInv, StateTyped, Story
<1>3. /\ \A n \in DOMAIN lists' : lists'[n] \subseteq Hosts /\ n \notin BanSets
      /\ ListsOf(preset) \subseteq DOMAIN lists'
      /\ Members("blacklist")' = Members("blacklist")
  BY <1>1, EnsuredLists, NamesOwned
<1>4. SavedListed'
  BY <1>2, <1>3 DEF IInv, SavedListed
<1>5. /\ in.hook = "input" /\ in.policy = "drop" /\ in.rules = InputRules(preset)
      /\ Forwarding(preset).hook = "forward"
      /\ Forwarding(preset).policy = IF preset = "bgp-router" THEN "accept" ELSE "drop"
      /\ Forwarding(preset).rules = ForwardRules(preset)
  BY DEF Chain, Forwarding
<1>6. /\ chains' \in Seq(Chains) /\ 1 \in DOMAIN chains' /\ chains'[1] = in
      /\ \A k \in DOMAIN chains' :
            /\ chains'[k].hook = "input" => k = 1
            /\ chains'[k].hook = "forward" =>
                  chains'[k] = Forwarding(preset) /\ preset # "container-host"
      /\ preset # "container-host" => \E k \in DOMAIN chains' : chains'[k].hook = "forward"
  BY <1>1, BuiltIs DEF Plain
<1> HIDE DEF in
<1>7. OnHook("input")' = {1}
  BY <1>5, <1>6 DEF OnHook
<1>8. /\ OnHook("forward")' = {} <=> preset = "container-host"
      /\ \A k \in OnHook("forward")' : chains'[k] = Forwarding(preset)
  BY <1>6 DEF OnHook
<1>9. InputClean'
  <2>1. Clean(InputRules(preset))
    <3>1. \A r \in ToSet(InputRules(preset)) : r.do \notin {"ban", "queue"}
      BY PresetInputIs
    <3> QED BY <3>1 DEF Clean, ToSet
  <2> QED BY <1>5, <1>6, <1>7, <2>1 DEF InputClean
<1>10. ToSet(InputRules(preset)) =
         {Inv, DropOf("saddr4", "blacklist"), DropOf("saddr6", "blacklist"), Counting}
         \cup PresetLets(preset)
  BY PresetInputIs
<1>11. ToolMade'
  <2>1. \A r \in ToSet(InputRules(preset)) : Known(r)'
    <3>1. Counting.do = "count"
      BY DEF Counting, Rule
    <3>2. DropOf("saddr4", "blacklist") \in Blocks /\ DropOf("saddr6", "blacklist") \in Blocks
      BY DEF Blocks, Families
    <3> QED BY <1>2, <1>10, <3>1, <3>2 DEF Known
  <2>2. \A f \in Families : DropOf(f, "blacklist") \in ToSet(InputRules(preset))
    BY <1>10 DEF Families
  <2>3. \A f \in Families : DropOf(f, BlkList) \notin ToSet(InputRules(preset))
    <3>1. \A f, g : DropOf(f, BlkList) # DropOf(g, "blacklist")
      BY DropsDiffer DEF BlkList
    <3>2. \A f \in Families : DropOf(f, BlkList).do = "drop" /\ DropOf(f, BlkList) \in Blocks
      <4>1. \A f, n : DropOf(f, n).do = "drop"
        BY DropOfIs
      <4> QED BY <4>1 DEF Blocks
    <3>3. Counting.do = "count" /\ \A r \in PresetLets(preset) : r.do = "accept"
      BY DEF Counting, Rule, PresetLets
    <3> QED BY <1>10, <3>1, <3>2, <3>3, NoBlocks
  <2>4. BlocksAbove(InputRules(preset))
    BY PresetInputIs
  <2> QED BY <1>2, <1>5, <1>6, <1>7, <2>1, <2>2, <2>3, <2>4 DEF ToolMade
<1>12. PresetMade'
  <2>1. PresetInput(chains[1])'
    <3>1. PresetLets(preset) \subseteq ToSet(InputRules(preset))
      BY <1>10
    <3>2. \A f \in Families : DropOf(f, "blacklist") \in ToSet(InputRules(preset))
      BY <1>10 DEF Families
    <3>3. AllowedLets' = {}
      BY <1>2 DEF AllowedLets
    <3>4. InvalidAbove(InputRules(preset)) /\ LoopbackFirst(InputRules(preset))
      BY PresetInputIs
    <3> QED BY <1>2, <1>5, <1>6, <3>1, <3>2, <3>3, <3>4 DEF PresetInput
  <2>2. \A k \in OnHook("forward")' : PresetForward(chains[k])'
    BY <1>2, <1>5, <1>8 DEF PresetForward
  <2> QED BY <1>2, <1>3, <1>7, <1>8, <2>1, <2>2 DEF PresetMade
<1>13. clicks' \in 0..MaxClicks /\ breaks' \in 0..MaxBreaks
  BY <1>1, BoundsAssumption DEF IInv, StateTyped, Click, Break
<1> QED BY <1>2, <1>3, <1>4, <1>6, <1>9, <1>11, <1>12, <1>13 DEF IInv, StateTyped

\* What is left of the chains when the first of them are gone.
LEMMA Remaining ==
  ASSUME IInv, ResetBreaksOff
  PROVE  chains' \in Seq(Chains) /\ InputClean'
<1>1. PICK k \in DOMAIN chains : chains' = SubSeq(chains, k, Len(chains))
  BY DEF ResetBreaksOff, TableStarts
<1>2. chains \in Seq(Chains) /\ Len(chains) \in Nat /\ DOMAIN chains = 1..Len(chains)
  BY LenProperties DEF IInv, StateTyped
<1>3. /\ chains' \in Seq(Chains) /\ Len(chains') = Len(chains) - k + 1
      /\ \A i \in 1..(Len(chains) - k + 1) : chains'[i] = chains[k + i - 1]
  BY <1>1, <1>2, SubSeqProperties
<1>4. DOMAIN chains' = 1..(Len(chains) - k + 1)
  BY <1>3, LenProperties
<1>5. \A i \in DOMAIN chains' : k + i - 1 \in DOMAIN chains /\ chains'[i] = chains[k + i - 1]
  BY <1>2, <1>3, <1>4
<1>6. \A i \in DOMAIN chains : chains[i].hook = "input" => Clean(chains[i].rules)
  BY DEF IInv, InputClean, OnHook
<1>7. \A i \in DOMAIN chains' : chains'[i].hook = "input" => Clean(chains'[i].rules)
  BY <1>5, <1>6
<1> QED BY <1>3, <1>7 DEF InputClean, OnHook, Clean

\* A table that breaks off.
LEMMA BuildPlain ==
  ASSUME NEW preset \in Presets, NEW client \in Clients, BuildBreaksOff(preset, client)
  PROVE  Plain(chains') /\ \E names : names \subseteq OwnLists /\ lists' = Ensured(names, client)
<1>1. PICK b \in BreakPoints :
        \/ /\ Within(FilterTable(preset), b[1], b[2])
           /\ chains' = Unfinished(FilterTable(preset), b[1], b[2])
           /\ \E names \in ListsAt(preset, b[1], b[2]) : lists' = Ensured(names, client)
        \/ /\ Within(NatTable(preset), b[1], b[2])
           /\ chains' = FilterTable(preset) \o Unfinished(NatTable(preset), b[1], b[2])
           /\ lists' = Ensured(ListsOf(preset), client)
  BY DEF BuildBreaksOff
<1>2. b[1] \in Nat /\ b[2] \in Nat
  BY BoundsAssumption
<1>3. Plain(FilterTable(preset)) /\ Plain(NatTable(preset))
  BY BuiltIs
<1>4. \E names : names \subseteq OwnLists /\ lists' = Ensured(names, client)
  BY <1>1, NamesOwned
<1>5. CASE chains' = Unfinished(FilterTable(preset), b[1], b[2])
           /\ Within(FilterTable(preset), b[1], b[2])
  BY <1>2, <1>3, <1>4, <1>5, UnfinishedIs
<1>6. CASE chains' = FilterTable(preset) \o Unfinished(NatTable(preset), b[1], b[2])
           /\ Within(NatTable(preset), b[1], b[2])
  <2>1. Plain(Unfinished(NatTable(preset), b[1], b[2]))
    BY <1>2, <1>3, <1>6, UnfinishedIs
  <2> QED BY <1>3, <1>4, <1>6, <2>1, PlainChains
<1> QED BY <1>1, <1>5, <1>6

\* A preset breaks off.
LEMMA PresetBreaksOffKeeps ==
  ASSUME IInv, NEW preset \in Presets, NEW client \in Clients, PresetBreaksOff(preset, client)
  PROVE  IInv'
<1>1. /\ Click /\ Break
      /\ \/ ResetBreaksOff
         \/ ListsBreakOff(preset, client)
         \/ BuildBreaksOff(preset, client)
  BY DEF PresetBreaksOff
<1>2. /\ story' \in Story /\ story'.edited = TRUE /\ story'.saved = story.saved
  <2>1. story' = [story EXCEPT !.preset = "none", !.edited = TRUE,
                     !.allowed = {}, !.country = FALSE]
    BY DEF PresetBreaksOff
  <2> QED BY <2>1 DEF IInv, StateTyped, Story
<1>3. Plain(chains') => chains' \in Seq(Chains) /\ InputClean'
  BY DEF Plain, PlainRules, InputClean, OnHook, Clean, ToSet
<1>4. ASSUME NEW names, names \subseteq OwnLists, lists' = Ensured(names, client)
      PROVE  /\ \A n \in DOMAIN lists' : lists'[n] \subseteq Hosts /\ n \notin BanSets
             /\ Members("blacklist")' = Members("blacklist")
  BY <1>4, EnsuredLists
<1>5. /\ chains' \in Seq(Chains) /\ InputClean'
      /\ \A n \in DOMAIN lists' : lists'[n] \subseteq Hosts /\ n \notin BanSets
      /\ Members("blacklist")' = Members("blacklist")
  <2>1. CASE ResetBreaksOff
    <3>1. lists' = lists
      BY <2>1 DEF ResetBreaksOff
    <3> QED BY <2>1, <3>1, Remaining DEF IInv, StateTyped, Members
  <2>2. CASE ListsBreakOff(preset, client)
    <3>1. chains' = <<>> /\ \E names \in EarlyLists(preset) : lists' = Ensured(names, client)
      BY <2>2 DEF ListsBreakOff
    <3> QED BY <1>3, <1>4, <3>1, PlainChains, NamesOwned
  <2>3. CASE BuildBreaksOff(preset, client)
    BY <1>3, <1>4, <2>3, BuildPlain
  <2> QED BY <1>1, <2>1, <2>2, <2>3
<1>6. SavedListed'
  BY <1>2, <1>5 DEF IInv, SavedListed
<1>7. ToolMade' /\ PresetMade'
  BY <1>2, ByHand
<1> QED BY <1>1, <1>2, <1>5, <1>6, <1>7, BoundsAssumption
        DEF IInv, StateTyped, Click, Break

-----------------------------------------------------------------------------
(* The invariant                                                           *)

\* A model of nothing, or of one bare chain.
LEMMA InitHolds == Init => IInv
<1> SUFFICES ASSUME Init PROVE IInv
  OBVIOUS
<1>1. /\ \A n \in DOMAIN lists : lists[n] \subseteq Hosts /\ n \notin BanSets
      /\ clicks = 0 /\ breaks = 0 /\ story = NoStory
  BY FormsAssumption DEF Init
<1>2. /\ story \in Story /\ story.preset = "none" /\ story.edited = FALSE
      /\ story.saved = {} /\ story.country = FALSE
  BY <1>1 DEF NoStory, Story, Clients
<1>3. chains = <<>> \/ \E policy \in {"accept", "drop"} :
          chains = <<[hook |-> "input", policy |-> policy, rules |-> <<>>]>>
  BY DEF Init
<1>4. /\ chains \in Seq(Chains)
      /\ \A i, j \in DOMAIN chains : i = j
      /\ \A i \in DOMAIN chains : chains[i].rules = <<>>
  <2>1. CASE chains = <<>>
    BY <2>1
  <2>2. ASSUME NEW policy \in {"accept", "drop"},
               chains = <<[hook |-> "input", policy |-> policy, rules |-> <<>>]>>
        PROVE  /\ chains \in Seq(Chains)
               /\ \A i, j \in DOMAIN chains : i = j
               /\ \A i \in DOMAIN chains : chains[i].rules = <<>>
    <3> DEFINE c == [hook |-> "input", policy |-> policy, rules |-> <<>>]
    <3>1. c \in Chains /\ c.rules = <<>>
      BY DEF Chains, Hooks, Policies
    <3>2. chains = <<c>>
      BY <2>2
    <3> HIDE DEF c
    <3>3. <<c>> \in Seq(Chains) /\ DOMAIN <<c>> = {1} /\ <<c>>[1] = c
      BY <3>1
    <3> QED BY <3>1, <3>2, <3>3
  <2> QED BY <1>3, <2>1, <2>2
<1>5. ToSet(<<>>) = {} /\ DOMAIN <<>> = {}
  BY DEF ToSet
<1>6. InputClean
  BY <1>4, <1>5 DEF InputClean, OnHook, Clean
<1>7. SavedListed
  BY <1>2 DEF SavedListed
<1>8. ToolMade
  BY <1>2, <1>4, <1>5 DEF ToolMade, OnHook, BlocksAbove
<1>9. PresetMade
  BY <1>2 DEF PresetMade
<1> QED BY <1>1, <1>2, <1>4, <1>6, <1>7, <1>8, <1>9, BoundsAssumption DEF IInv, StateTyped

\* Every click keeps it.
LEMMA NextKeeps == IInv /\ [Next]_rulebookVars => IInv'
<1> SUFFICES ASSUME IInv, [Next]_rulebookVars PROVE IInv'
  OBVIOUS
<1>1. ASSUME NEW preset \in Presets, NEW client \in Clients,
             ApplyPreset(preset, client) \/ PresetBreaksOff(preset, client)
      PROVE  IInv'
  BY <1>1, ApplyPresetKeeps, PresetBreaksOffKeeps
<1>2. CASE Tools
  <2>1. ASSUME NEW id \in FixIds, HardenFix(id) PROVE IInv'
    BY <2>1, HardenFixKeeps
  <2>2. CASE HardenSSHBan
    BY <2>2, HardenBansKeep
  <2>3. ASSUME NEW service \in DOMAIN BanServices, HardenBan(service) PROVE IInv'
    BY <2>3, HardenBansKeep
  <2>4. CASE HardenIDS
    BY <2>4, HardenIDSKeeps
  <2>5. ASSUME NEW pp \in AllowPorts, AdvisorAllow(pp[1], pp[2]) PROVE IInv'
    BY <2>5, AdvisorAllowKeeps
  <2>6. ASSUME NEW host \in Hosts, QuickBlock(host) PROVE IInv'
    BY <2>6, QuickBlockKeeps
  <2>7. CASE BlockCountry
    BY <2>7, BlockCountryKeeps
  <2>8. CASE BlockCountryFails
    BY <2>8, BlockCountryFailsKeeps
  <2> QED BY <1>2, <2>1, <2>2, <2>3, <2>4, <2>5, <2>6, <2>7, <2>8 DEF Tools
<1>3. ASSUME NEW i \in DOMAIN chains, NEW j \in DOMAIN chains[i].rules, ToggleRule(i, j)
      PROVE  IInv'
  BY <1>3, ToggleRuleKeeps
<1>4. ASSUME NEW policy \in {"accept", "drop"}, AddInputChain(policy) PROVE IInv'
  BY <1>4, AddInputChainKeeps
<1>5. CASE UNCHANGED rulebookVars
  <2>1. chains' = chains /\ lists' = lists /\ clicks' = clicks /\ breaks' = breaks
        /\ story' = story
    BY <1>5 DEF rulebookVars
  <2>2. InputClean' /\ ToolMade' /\ PresetMade'
    BY <2>1, SameChains
  <2> QED BY <2>1, <2>2 DEF IInv, StateTyped, SavedListed, Members
<1> QED BY <1>1, <1>2, <1>3, <1>4, <1>5 DEF Next

\* It holds throughout.
LEMMA IInvHolds == RulebookSpec => []IInv
<1>1. Init => IInv
  BY InitHolds
<1>2. IInv /\ [Next]_rulebookVars => IInv'
  BY NextKeeps
<1> QED BY <1>1, <1>2, PTL DEF RulebookSpec

\* Whatever is clicked, the model holds chains of rules there are, on hooks and
\* with policies there are, and lists of addresses.
THEOREM TypesHold == RulebookSpec => []RulebookTypeOK
<1>1. IInv => RulebookTypeOK
  <2> SUFFICES ASSUME IInv PROVE RulebookTypeOK
    OBVIOUS
  <2>1. \A i \in DOMAIN chains : chains[i] \in Chains /\ chains[i].rules \in Seq(Rules)
    BY RulesThere
  <2>2. \A i \in DOMAIN chains : \A r \in ToSet(chains[i].rules) : r \in Rules
    <3> TAKE i \in DOMAIN chains
    <3>1. ToSet(chains[i].rules) \subseteq Rules
      BY <2>1, JoinedSet
    <3> QED BY <3>1
  <2>3. \A r \in Rules : r.on \in BOOLEAN /\ r.do \in Actions /\ DOMAIN r.match \subseteq Fields
    BY DEF Rules, Tests
  <2> QED BY <2>1, <2>2, <2>3 DEF IInv, StateTyped, RulebookTypeOK, Chains, Hooks, Policies
<1> QED BY <1>1, IInvHolds, PTL

-----------------------------------------------------------------------------
(* What fires on a packet                                                  *)

\* What the fields of a rule test.
LEMMA FieldMatches ==
  \A values, p :
      /\ Matches("iif", values, p) <=> p.iif \in values
      /\ Matches("oif", values, p) <=> p.oif \in values
      /\ Matches("ct", values, p) <=> p.ct \in values
      /\ Matches("saddr4", values, p) <=> p.src \in V4 /\ \E n \in values : InSet(n, p)
      /\ Matches("saddr6", values, p) <=> p.src \in V6 /\ \E n \in values : InSet(n, p)
      /\ \A f \in {"tcp", "udp", "icmp4", "icmp6"} :
            Matches(f, values, p) <=> p.proto = f /\ p.port \in values
BY DEF Matches

\* The rules that have names.
LEMMA NamedFire ==
  \A p : /\ Fires(Lo, p) <=> p.iif = "lo"
         /\ Fires(Est, p) <=> p.ct = "established"
         /\ Fires(Inv, p) <=> p.ct = "invalid"
         /\ Fires(Rpf, p) => p.spoofed
         /\ \A f \in {"icmp4", "icmp6"} :
               Fires(Icmp(f), p) <=> p.proto = f /\ p.port = "essential"
<1> TAKE p
<1>1. Fires(Lo, p) <=> p.iif = "lo"
  BY FiresIs, FieldMatches DEF Lo
<1>2. Fires(Est, p) <=> p.ct = "established"
  BY FiresIs, FieldMatches DEF Est
<1>3. Fires(Inv, p) <=> p.ct = "invalid"
  BY FiresIs, FieldMatches DEF Inv
<1>4. Fires(Rpf, p) => p.spoofed
  <2>1. Fires(Rpf, p) => Matches("rpf", {}, p)
    BY FiresIs DEF Rpf
  <2> QED BY <2>1 DEF Matches
<1>5. ASSUME NEW f \in {"icmp4", "icmp6"}
      PROVE  Fires(Icmp(f), p) <=> p.proto = f /\ p.port = "essential"
  <2>1. Fires(Icmp(f), p) <=> Matches(f, {"essential"}, p)
    BY FiresIs DEF Icmp
  <2>2. Matches(f, {"essential"}, p) <=> p.proto = f /\ p.port \in {"essential"}
    BY FieldMatches
  <2> QED BY <2>1, <2>2
<1> QED BY <1>1, <1>2, <1>3, <1>4, <1>5

\* A drop on a list fires on its members of the family, the drop of an
\* auto-ban on those that did too much.
LEMMA DropFires ==
  \A f \in Families : \A n, p :
      Fires(DropOf(f, n), p) <=>
          /\ p.src \in IF f = "saddr4" THEN V4 ELSE V6
          /\ InSet(n, p)
<1> TAKE f \in Families
<1> TAKE n, p
<1>1. Fires(DropOf(f, n), p) <=> Matches(f, {n}, p)
  BY FiresIs DEF DropOf
<1>2. Matches(f, {n}, p) <=> /\ p.src \in IF f = "saddr4" THEN V4 ELSE V6
                             /\ InSet(n, p)
  <2>1. CASE f = "saddr4"
    <3>1. Matches("saddr4", {n}, p) <=> p.src \in V4 /\ \E m \in {n} : InSet(m, p)
      BY FieldMatches
    <3> QED BY <2>1, <3>1
  <2>2. CASE f = "saddr6"
    <3>1. Matches("saddr6", {n}, p) <=> p.src \in V6 /\ \E m \in {n} : InSet(m, p)
      BY FieldMatches
    <3> QED BY <2>2, <3>1
  <2> QED BY <2>1, <2>2 DEF Families
<1> QED BY <1>1, <1>2

\* A member of a list meets the drop of its family.
LEMMA MemberMeets ==
  ASSUME NEW name, NEW p, p.src \in Members(name), p.src \in Hosts
  PROVE  \E f \in Families : Fires(DropOf(f, name), p)
<1>1. InSet(name, p)
  BY DEF InSet, Members
<1>2. p.src \in V4 \/ p.src \in V6
  BY DEF Hosts
<1>3. "saddr4" \in Families /\ "saddr6" \in Families
  BY DEF Families
<1> QED BY <1>1, <1>2, <1>3, DropFires

\* A drop before which nothing but loopback is accepted drops what comes in on
\* other interfaces.
LEMMA DropsAll ==
  ASSUME IInv, NEW i \in OnHook("input"), NEW k \in DOMAIN chains[i].rules, NEW p,
         chains[i].rules[k].do = "drop", Fires(chains[i].rules[k], p),
         Above(chains[i].rules, k), p.iif # "lo"
  PROVE  ~Accepts(chains[i], p)
<1> DEFINE rules == chains[i].rules
<1>1. chains[i] \in Chains /\ rules \in Seq(Rules)
  BY RulesThere DEF OnHook
<1>2. k \in Hits(rules, p)
  BY DEF Hits, Verdicts
<1>3. \A j \in 1..(k - 1) : j \in Hits(rules, p) => rules[j].do = "drop"
  <2> SUFFICES ASSUME NEW j \in 1..(k - 1), j \in Hits(rules, p), rules[j].do # "drop"
               PROVE  FALSE
    OBVIOUS
  <2>1. j \in DOMAIN rules /\ rules[j].do \in Verdicts /\ Fires(rules[j], p)
    BY DEF Hits
  <2>2. rules[j].do # "queue"
    BY <2>1 DEF IInv, InputClean, Clean
  <2>3. rules[j].do = "accept"
    BY <2>1, <2>2 DEF Verdicts
  <2>4. rules[j] = Lo
    BY <2>3 DEF Above
  <2> QED BY <2>1, <2>4, NamedFire
<1> QED BY <1>1, <1>2, <1>3, Deciding

\* A packet is from loopback or from a host.
LEMMA PacketsAre ==
  ASSUME NEW p \in Incoming
  PROVE  /\ p.src \in Hosts \/ p.src = Nobody
         /\ p.iif = "lo" <=> p.src = Nobody
         /\ Nobody \notin Hosts
BY PacketsAssumption DEF Clients

\* As long as only tools touched the rules, what is not blocked, banned,
\* spoofed or invalid meets no rule that drops.
LEMMA NoDropFires ==
  ASSUME IInv, ~story.edited, NEW i \in OnHook("input"), NEW p,
         ~p.spoofed, ~p.abuser, ~Blocked(p.src),
         NEW r \in ToSet(chains[i].rules), Fires(r, p), p.ct # "invalid" \/ r # Inv
  PROVE  r.do # "drop"
<1> SUFFICES ASSUME r.do = "drop" PROVE FALSE
  OBVIOUS
<1>1. Known(r)
  BY DEF IInv, ToolMade
<1>2. r \notin FixLets \cup PresetLets(story.preset) \cup AllowedLets
  <2>1. \A q \in FixLets : q.do = "accept"
    BY NamedRules DEF FixLets
  <2>2. \A q \in PresetLets(story.preset) : q.do = "accept"
    BY DEF PresetLets
  <2>3. \A q \in AllowedLets : q.do = "accept"
    <3>1. \A pp \in story.allowed : pp \in AllowPorts
      BY DEF IInv, StateTyped, Story
    <3>2. \A pp \in AllowPorts : Allowing(pp).do = "accept"
      BY AllowingIs
    <3> QED BY <3>1, <3>2 DEF AllowedLets
  <2> QED BY <2>1, <2>2, <2>3
<1>3. r \in Blocks \cup BanDrops
  BY <1>1, <1>2, NamedFire DEF Known
<1>4. PICK f \in Families, n \in {"blacklist", BlkList} \cup BanSets : r = DropOf(f, n)
  BY <1>3 DEF Blocks, BanDrops
<1>5. InSet(n, p)
  BY <1>4, DropFires
<1>6. n \in DOMAIN lists /\ p.src \in lists[n]
  BY <1>5 DEF InSet
<1>7. n \notin BanSets
  BY <1>6 DEF IInv, StateTyped
<1>8. n = BlkList => story.country
  BY <1>4 DEF IInv, ToolMade
<1> QED BY <1>4, <1>6, <1>7, <1>8 DEF Blocked, Members

\* A detector counts every packet it is for but those dropped before it, as
\* long as only tools touched the rules.
THEOREM DetectorsHold == RulebookSpec => []DetectorsSeeAll
<1>1. IInv => DetectorsSeeAll
  <2> SUFFICES ASSUME IInv, NEW i \in OnHook("input"),
                      NEW j \in DOMAIN chains[i].rules, NEW p \in Incoming,
                      chains[i].rules[j].do = "ban",
                      Decider(chains[i].rules, p) < j
               PROVE  chains[i].rules[Decider(chains[i].rules, p)].do = "drop"
    BY DEF DetectorsSeeAll
  <2> DEFINE rules == chains[i].rules
             D == Decider(rules, p)
  <2>1. rules \in Seq(Rules)
    BY RulesThere DEF OnHook
  <2>2. DOMAIN rules = 1..Len(rules) /\ Len(rules) \in Nat
    BY <2>1, LenProperties
  <2>3. /\ D \in 1..(Len(rules) + 1)
        /\ D \in DOMAIN rules => D \in Hits(rules, p)
    BY <2>1, DeciderIs
  <2>4. D \in 1..(j - 1) /\ D \in DOMAIN rules
    BY <2>2, <2>3
  <2>5. rules[D].do \in {"drop", "ban"}
    BY <2>4 DEF IInv, InputClean, Clean
  <2>6. rules[D].do \in Verdicts
    BY <2>3, <2>4 DEF Hits
  <2> QED BY <2>5, <2>6 DEF Verdicts
<1> QED BY <1>1, IInvHolds, PTL

\* An address the Block button reported as blocked is dropped whenever there is
\* an input chain, whatever preset, recipe, fix or allowance came later.
THEOREM BlockHolds == RulebookSpec => []BlockedIsDropped
<1>1. IInv => BlockedIsDropped
  <2> SUFFICES ASSUME IInv, ~story.edited, OnHook("input") # {}, NEW p \in Incoming,
                      p.src \in story.saved
               PROVE  ~Passes("input", p)
    BY DEF BlockedIsDropped
  <2>1. PICK i \in OnHook("input") : TRUE
    OBVIOUS
  <2> DEFINE rules == chains[i].rules
  <2>2. p.src \in Members("blacklist") /\ p.src \in Hosts
    BY DEF IInv, SavedListed, StateTyped, Story
  <2>3. p.iif # "lo"
    BY <2>2, PacketsAre
  <2>4. PICK f \in Families : Fires(DropOf(f, "blacklist"), p)
    BY <2>2, MemberMeets
  <2>5. DropOf(f, "blacklist") \in ToSet(rules)
    BY <2>1 DEF IInv, ToolMade
  <2>6. PICK k \in DOMAIN rules : rules[k] = DropOf(f, "blacklist")
    BY <2>5 DEF ToSet
  <2>7. DropOf(f, "blacklist").do = "drop" /\ DropOf(f, "blacklist") \in Blocks
    BY DropsDrop DEF Blocks
  <2>8. Above(rules, k)
    BY <2>1, <2>6, <2>7 DEF IInv, ToolMade, BlocksAbove
  <2>9. ~Accepts(chains[i], p)
    BY <2>1, <2>3, <2>4, <2>6, <2>7, <2>8, DropsAll
  <2> QED BY <2>1, <2>9 DEF Passes
<1> QED BY <1>1, IInvHolds, PTL

-----------------------------------------------------------------------------
(* What lets packets in                                                    *)

\* The forms an accept of a preset has.
LEMMA LetForms ==
  ASSUME NEW preset \in Presets, NEW r \in Lets(preset)
  PROVE  \/ r \in BaseLets
         \/ \E f \in Families, list \in OwnLists, proto \in {"tcp", "udp"}, ports \in SUBSET Values :
               r = Letting(f, list, proto, ports)
         \/ \E proto \in {"tcp", "udp"}, ports \in SUBSET Values : r = FromLan(proto, ports)
         \/ r = Rule(Is("udp", {"51820"}), "accept")
         \/ r = Rule(Is("iif", {"wg0"}), "accept")
         \/ r = Rule(Is("tcp", {"80", "443"}), "accept")
<1>1. /\ {"179"} \in SUBSET Values /\ BfdPorts \in SUBSET Values
      /\ {"5432", "3306"} \in SUBSET Values
      /\ \A port \in {"22", "53", "67", UiPort} : {port} \in SUBSET Values
      /\ {"mgmt", "peers", "app"} \subseteq OwnLists
  BY DEF Values, BfdPorts, OwnLists
<1>2. CASE r \in BaseLets
  BY <1>2
<1>3. CASE r \in MgmtLets
  <2>1. PICK f \in Families, port \in MgmtPorts : r = Letting(f, "mgmt", "tcp", {port})
    BY <1>3 DEF MgmtLets
  <2>2. {port} \in SUBSET Values
    BY <1>1 DEF MgmtPorts
  <2> QED BY <1>1, <2>1, <2>2
<1>4. CASE r \in ServiceLets(preset)
  <2>1. CASE preset = "bgp-router"
    <3>1. r \in {Letting(f, "peers", "tcp", {"179"}) : f \in Families}
                \cup {Letting(f, "peers", "udp", BfdPorts) : f \in Families}
      BY <1>4, <2>1 DEF ServiceLets
    <3>2. \/ \E f \in Families : r = Letting(f, "peers", "tcp", {"179"})
          \/ \E f \in Families : r = Letting(f, "peers", "udp", BfdPorts)
      BY <3>1
    <3> QED BY <1>1, <3>2
  <2>2. CASE preset = "wireguard"
    BY <1>4, <2>2 DEF ServiceLets
  <2>3. CASE preset = "home-router"
    <3>1. r \in {FromLan("tcp", {port}) : port \in {"53"} \cup MgmtPorts}
                \cup {FromLan("udp", {port}) : port \in {"67", "53"}}
      BY <1>4, <2>3 DEF ServiceLets
    <3>2. PICK proto \in {"tcp", "udp"}, port \in {"53", "67"} \cup MgmtPorts : r = FromLan(proto, {port})
      BY <3>1
    <3>3. {port} \in SUBSET Values
      BY <1>1 DEF MgmtPorts
    <3> QED BY <3>2, <3>3
  <2>4. CASE preset = "web-server"
    BY <1>4, <2>4 DEF ServiceLets
  <2>5. CASE preset = "database-server"
    <3>1. PICK f \in Families : r = Letting(f, "app", "tcp", {"5432", "3306"})
      BY <1>4, <2>5 DEF ServiceLets
    <3> QED BY <1>1, <3>1
  <2>6. CASE preset \in {"secure-server", "container-host"}
    BY <1>4, <2>6 DEF ServiceLets
  <2> QED BY <2>1, <2>2, <2>3, <2>4, <2>5, <2>6 DEF Presets
<1> QED BY <1>2, <1>3, <1>4 DEF Lets

\* An accept for a list tests the source and the port.
LEMMA LettingFields ==
  \A f, list, proto, ports : DOMAIN Letting(f, list, proto, ports).match = {f, proto}
BY DEF Letting, Rule, And, Is

\* It fires on both.
LEMMA LettingTests ==
  \A f \in Families : \A list : \A proto \in {"tcp", "udp"} : \A ports, p :
      Fires(Letting(f, list, proto, ports), p) <=>
          /\ p.src \in IF f = "saddr4" THEN V4 ELSE V6
          /\ InSet(list, p) /\ p.proto = proto /\ p.port \in ports
<1> TAKE f \in Families
<1> TAKE list
<1> TAKE proto \in {"tcp", "udp"}
<1> TAKE ports, p
<1>1. f # proto
  BY DEF Families
<1>2. Fires(Letting(f, list, proto, ports), p) <=>
          Matches(f, {list}, p) /\ Matches(proto, ports, p)
  BY <1>1, FiresAnd DEF Letting
<1>3. Matches(proto, ports, p) <=> p.proto = proto /\ p.port \in ports
  BY FieldMatches
<1>4. Matches(f, {list}, p) <=> Fires(DropOf(f, list), p)
  BY FiresIs DEF DropOf
<1> QED BY <1>2, <1>3, <1>4, DropFires

\* An accept for the local network tests the interface and the port.
LEMMA FromLanTests ==
  \A proto \in {"tcp", "udp"} : \A ports :
      /\ DOMAIN FromLan(proto, ports).match = {"iif", proto}
      /\ FromLan(proto, ports).match["iif"] = {"lan"}
      /\ \A p : Fires(FromLan(proto, ports), p) <=>
                   p.iif = "lan" /\ p.proto = proto /\ p.port \in ports
<1> TAKE proto \in {"tcp", "udp"}
<1> TAKE ports
<1>1. DOMAIN FromLan(proto, ports).match = {"iif", proto}
  BY DEF FromLan, Rule, And, Is
<1>2. FromLan(proto, ports).match["iif"] = {"lan"}
  BY DEF FromLan, Rule, And, Is
<1>3. ASSUME NEW p
      PROVE  Fires(FromLan(proto, ports), p) <=>
                   p.iif = "lan" /\ p.proto = proto /\ p.port \in ports
  <2>1. Fires(FromLan(proto, ports), p) <=>
            Matches("iif", {"lan"}, p) /\ Matches(proto, ports, p)
    <3>1. "iif" # proto
      OBVIOUS
    <3> QED BY <3>1, FiresAnd DEF FromLan
  <2>2. Matches(proto, ports, p) <=> p.proto = proto /\ p.port \in ports
    BY FieldMatches
  <2>3. Matches("iif", {"lan"}, p) <=> p.iif = "lan"
    BY FieldMatches
  <2> QED BY <2>1, <2>2, <2>3
<1> QED BY <1>1, <1>2, <1>3

\* An accept that tests one field.
LEMMA OneTested ==
  \A f, values : LET r == Rule(Is(f, values), "accept")
                 IN  r.on /\ DOMAIN r.match = {f} /\ r.match[f] = values
BY DEF Rule, Is

\* Such an accept of ports fires on these.
LEMMA PortTests ==
  \A proto \in {"tcp", "udp"} : \A ports, p :
      Fires(Rule(Is(proto, ports), "accept"), p) <=> p.proto = proto /\ p.port \in ports
BY FiresIs, FieldMatches

\* The rules that accept, as long as only tools put rules there.
Accepting == FixLets \cup PresetLets(story.preset) \cup AllowedLets

\* The forms they have.
LEMMA AcceptForms ==
  ASSUME IInv, NEW r \in Accepting
  PROVE  \/ r \in BaseLets
         \/ /\ story.preset # "none"
            /\ \E f \in Families, list \in OwnLists, proto \in {"tcp", "udp"}, ports \in SUBSET Values :
                  r = Letting(f, list, proto, ports)
         \/ \E proto \in {"tcp", "udp"}, ports \in SUBSET Values : r = FromLan(proto, ports)
         \/ r = Rule(Is("udp", {"51820"}), "accept")
         \/ r = Rule(Is("iif", {"wg0"}), "accept")
         \/ r = Rule(Is("tcp", {"80", "443"}), "accept")
         \/ \E pp \in AllowPorts : r = Rule(Is(pp[1], {pp[2]}), "accept") /\ r \in AllowedLets
<1>1. CASE r \in FixLets
  BY <1>1 DEF FixLets, BaseLets
<1>2. CASE r \in PresetLets(story.preset)
  <2>1. story.preset # "none"
    BY <1>2 DEF PresetLets
  <2>2. story.preset \in Presets
    BY <2>1 DEF IInv, StateTyped, Story
  <2>3. r \in Lets(story.preset)
    BY <1>2, <2>2, PresetInputIs
  <2> QED BY <2>1, <2>2, <2>3, LetForms
<1>3. CASE r \in AllowedLets
  <2>1. PICK pp \in story.allowed : r = Allowing(pp)
    BY <1>3 DEF AllowedLets
  <2>2. pp \in AllowPorts
    BY <2>1 DEF IInv, StateTyped, Story
  <2> QED BY <1>3, <2>1, <2>2 DEF Allowing
<1> QED BY <1>1, <1>2, <1>3 DEF Accepting

\* Those that test for loopback, for replies, for neighbour discovery are the
\* rules of these names; those that test a source come from a preset.
LEMMA AcceptFacts ==
  ASSUME IInv, NEW r \in Accepting
  PROVE  /\ HasValue(r, "iif", {"lo"}) => r = Lo
         /\ Has(r, "ct") => r = Est
         /\ Has(r, "icmp6") => r = Icmp("icmp6")
         /\ Has(r, "saddr4") \/ Has(r, "saddr6") => story.preset # "none"
<1> DEFINE Claim ==
      /\ "iif" \in DOMAIN r.match /\ r.match["iif"] \cap {"lo"} # {} => r = Lo
      /\ "ct" \in DOMAIN r.match => r = Est
      /\ "icmp6" \in DOMAIN r.match => r = Icmp("icmp6")
      /\ "saddr4" \in DOMAIN r.match \/ "saddr6" \in DOMAIN r.match => story.preset # "none"
<1>1. Claim => /\ HasValue(r, "iif", {"lo"}) => r = Lo
               /\ Has(r, "ct") => r = Est
               /\ Has(r, "icmp6") => r = Icmp("icmp6")
               /\ Has(r, "saddr4") \/ Has(r, "saddr6") => story.preset # "none"
  BY DEF Has, HasValue
<1>2. ASSUME r \in BaseLets PROVE Claim
  <2>1. DOMAIN Lo.match = {"iif"} /\ DOMAIN Est.match = {"ct"}
    BY NamedRules
  <2>2. \A f \in {"icmp4", "icmp6"} : DOMAIN Icmp(f).match = {f}
    BY NamedRules
  <2>3. DOMAIN Icmp("icmp4").match = {"icmp4"} /\ DOMAIN Icmp("icmp6").match = {"icmp6"}
    BY <2>2
  <2>4. ASSUME r = Lo PROVE Claim
    <3>1. DOMAIN r.match = {"iif"}
      BY <2>1, <2>4
    <3> QED BY <2>4, <3>1
  <2>5. ASSUME r = Est PROVE Claim
    <3>1. DOMAIN r.match = {"ct"}
      BY <2>1, <2>5
    <3> QED BY <2>5, <3>1
  <2>6. ASSUME r = Icmp("icmp6") PROVE Claim
    <3>1. DOMAIN r.match = {"icmp6"}
      BY <2>3, <2>6
    <3> QED BY <2>6, <3>1
  <2>7. ASSUME r = Icmp("icmp4") PROVE Claim
    <3>1. DOMAIN r.match = {"icmp4"}
      BY <2>3, <2>7
    <3> QED BY <3>1
  <2> HIDE DEF Claim
  <2> QED BY <1>2, <2>4, <2>5, <2>6, <2>7 DEF BaseLets
<1>3. ASSUME story.preset # "none",
             NEW f \in Families, NEW list, NEW proto \in {"tcp", "udp"}, NEW ports,
             r = Letting(f, list, proto, ports)
      PROVE  Claim
  <2>1. DOMAIN Letting(f, list, proto, ports).match = {f, proto}
    BY LettingFields
  <2>2. DOMAIN r.match = {f, proto}
    BY <1>3, <2>1
  <2> QED BY <1>3, <2>2 DEF Families
<1>4. ASSUME NEW proto \in {"tcp", "udp"}, NEW ports, r = FromLan(proto, ports)
      PROVE  Claim
  <2>1. DOMAIN r.match = {"iif", proto} /\ r.match["iif"] = {"lan"}
    BY <1>4, FromLanTests
  <2> QED BY <2>1
<1>5. ASSUME NEW proto \in {"tcp", "udp"}, NEW ports, r = Rule(Is(proto, ports), "accept")
      PROVE  Claim
  <2>1. DOMAIN r.match = {proto}
    BY <1>5, OneTested
  <2> QED BY <2>1
<1>6. ASSUME r = Rule(Is("iif", {"wg0"}), "accept") PROVE Claim
  <2>1. DOMAIN r.match = {"iif"} /\ r.match["iif"] = {"wg0"}
    BY <1>6, OneTested
  <2>2. r.match["iif"] \cap {"lo"} = {}
    BY <2>1
  <2> QED BY <2>1, <2>2
<1> HIDE DEF Claim
<1>7. ASSUME NEW pp \in AllowPorts, r = Rule(Is(pp[1], {pp[2]}), "accept") PROVE Claim
  <2>1. pp[1] \in {"tcp", "udp"}
    BY FormsAssumption
  <2> QED BY <1>5, <1>7, <2>1
<1>8. Claim
  <2>1. r = Rule(Is("udp", {"51820"}), "accept") => Claim
    BY <1>5
  <2>2. r = Rule(Is("tcp", {"80", "443"}), "accept") => Claim
    BY <1>5
  <2>3. ASSUME story.preset # "none",
               \E f \in Families, list \in OwnLists, proto \in {"tcp", "udp"}, ports \in SUBSET Values :
                  r = Letting(f, list, proto, ports)
        PROVE  Claim
    BY <1>3, <2>3
  <2>4. ASSUME \E proto \in {"tcp", "udp"}, ports \in SUBSET Values : r = FromLan(proto, ports)
        PROVE  Claim
    BY <1>4, <2>4
  <2>5. ASSUME \E pp \in AllowPorts : r = Rule(Is(pp[1], {pp[2]}), "accept") /\ r \in AllowedLets
        PROVE  Claim
    BY <1>7, <2>5
  <2> QED BY <1>2, <1>6, <2>1, <2>2, <2>3, <2>4, <2>5, AcceptForms
<1> QED BY <1>1, <1>8

\* A rule that fires is on.
LEMMA FiresOn ==
  ASSUME NEW r, NEW p, Fires(r, p)
  PROVE  r.on
BY DEF Fires

\* A new connection to SSH from the outside that is on no list meets no accept
\* but one the operator allowed.
LEMMA SshMeets ==
  ASSUME IInv, NEW r \in Accepting, NEW p, Fires(r, p),
         p.iif = "wan", p.proto = "tcp", p.port = "22", p.ct = "new", ~p.abuser,
         \A n \in DOMAIN lists : p.src \notin lists[n]
  PROVE  /\ r \in AllowedLets /\ HasValue(r, "tcp", TextHas22)
         /\ ~Has(r, "saddr4") /\ ~Has(r, "saddr6")
<1>1. ASSUME r \in BaseLets PROVE FALSE
  <2>1. ~Fires(Lo, p) /\ ~Fires(Est, p)
    BY NamedFire
  <2>2. \A f \in {"icmp4", "icmp6"} : ~Fires(Icmp(f), p)
    BY NamedFire
  <2> QED BY <1>1, <2>1, <2>2 DEF BaseLets
<1>2. ASSUME NEW f \in Families, NEW list, NEW proto \in {"tcp", "udp"}, NEW ports,
             r = Letting(f, list, proto, ports)
      PROVE  FALSE
  <2>1. InSet(list, p)
    BY <1>2, LettingTests
  <2> QED BY <2>1 DEF InSet
<1>3. ASSUME NEW proto \in {"tcp", "udp"}, NEW ports, r = FromLan(proto, ports)
      PROVE  FALSE
  BY <1>3, FromLanTests
<1>4. ASSUME NEW proto \in {"tcp", "udp"}, NEW ports, r = Rule(Is(proto, ports), "accept")
      PROVE  proto = "tcp" /\ "22" \in ports
  BY <1>4, PortTests
<1>5. r # Rule(Is("udp", {"51820"}), "accept")
  BY <1>4
<1>6. r # Rule(Is("tcp", {"80", "443"}), "accept")
  BY <1>4
<1>7. r # Rule(Is("iif", {"wg0"}), "accept")
  <2>1. Fires(Rule(Is("iif", {"wg0"}), "accept"), p) <=> p.iif = "wg0"
    BY FiresIs, FieldMatches
  <2> QED BY <2>1
<1>8. PICK pp \in AllowPorts : r = Rule(Is(pp[1], {pp[2]}), "accept") /\ r \in AllowedLets
  <2>1. ~ \E f \in Families, list \in OwnLists, proto \in {"tcp", "udp"}, ports \in SUBSET Values :
              r = Letting(f, list, proto, ports)
    BY <1>2
  <2>2. ~ \E proto \in {"tcp", "udp"}, ports \in SUBSET Values : r = FromLan(proto, ports)
    BY <1>3
  <2>3. r \notin BaseLets
    BY <1>1
  <2> QED BY <1>5, <1>6, <1>7, <2>1, <2>2, <2>3, AcceptForms
<1>9. pp[1] \in {"tcp", "udp"}
  BY FormsAssumption
<1>10. pp[1] = "tcp" /\ "22" \in {pp[2]}
  BY <1>4, <1>8, <1>9
<1>11. DOMAIN r.match = {"tcp"} /\ r.match["tcp"] = {pp[2]}
  BY <1>8, <1>10, OneTested
<1> QED BY <1>8, <1>10, <1>11 DEF Has, HasValue, TextHas22

\* On the rules of presets and tools, a passing check of the Posture page is
\* true of the kernel: loopback, replies and neighbour discovery get in, and
\* SSH is not open to sources on no list.
THEOREM PassHolds == RulebookSpec => []PassIsTrue
<1>1. IInv => PassIsTrue
  <2> SUFFICES ASSUME IInv, ~story.edited, OnHook("input") # {}, NEW p \in Incoming,
                      ~p.spoofed, ~p.abuser, p.ct # "invalid", ~Blocked(p.src)
               PROVE  /\ p.iif = "lo" /\ Passing("loopback") => Passes("input", p)
                      /\ p.ct = "established" /\ Passing("established") => Passes("input", p)
                      /\ p.proto = "icmp6" /\ p.port = "essential" /\ Passing("v6icmp")
                         => Passes("input", p)
                      /\ /\ p.proto = "tcp" /\ p.port = "22" /\ p.ct = "new" /\ p.iif = "wan"
                         /\ \A n \in DOMAIN lists : p.src \notin lists[n]
                         /\ Passing("ssh")
                         => ~Passes("input", p)
    BY DEF PassIsTrue
  <2>1. PICK i \in OnHook("input") : TRUE
    OBVIOUS
  <2> DEFINE R == ToSet(chains[i].rules)
  <2>2. OnHook("input") = {i}
    BY <2>1 DEF IInv, ToolMade
  <2>3. Passes("input", p) <=> Accepts(chains[i], p)
    BY <2>2 DEF Passes
  <2>4. InputView = R
    BY <2>2 DEF InputView
  <2>5. \A r \in R : Fires(r, p) => r.do # "drop"
    BY <2>1, NoDropFires
  <2>6. chains[i] \in Chains
    BY <2>1, RulesThere DEF OnHook
  <2>7. Accepts(chains[i], p) <=>
             \/ chains[i].policy # "drop"
             \/ \E r \in R : r.do \in {"accept", "queue"} /\ Fires(r, p)
    BY <2>5, <2>6, NothingDrops
  <2>8. \A r \in R : r.do = "accept" => r \in Accepting
    <3>1. \A r \in R : Known(r)
      BY <2>1 DEF IInv, ToolMade
    <3> QED BY <3>1, NoBlocks DEF Known, Accepting
  <2>9. \A r \in R : r.do # "queue"
    <3>1. Clean(chains[i].rules)
      BY <2>1 DEF IInv, InputClean
    <3> QED BY <3>1 DEF Clean, ToSet
  <2> HIDE DEF R
  <2>10. ASSUME p.iif = "lo", Passing("loopback") PROVE Passes("input", p)
    <3>1. PICK r \in R : r.do = "accept" /\ HasValue(r, "iif", {"lo"})
      BY <2>4, <2>10 DEF Passing
    <3>2. r = Lo
      BY <2>8, <3>1, AcceptFacts
    <3> QED BY <2>3, <2>7, <2>10, <3>1, <3>2, NamedFire
  <2>11. ASSUME p.ct = "established", Passing("established") PROVE Passes("input", p)
    <3>1. PICK r \in R : r.do = "accept" /\ HasValue(r, "ct", {"established"})
      BY <2>4, <2>11 DEF Passing
    <3>2. r = Est
      BY <2>8, <3>1, AcceptFacts DEF HasValue
    <3> QED BY <2>3, <2>7, <2>11, <3>1, <3>2, NamedFire
  <2>12. ASSUME p.proto = "icmp6", p.port = "essential", Passing("v6icmp")
         PROVE  Passes("input", p)
    <3>1. PICK r \in R : r.do = "accept" /\ Has(r, "icmp6")
      BY <2>4, <2>12 DEF Passing
    <3>2. r = Icmp("icmp6")
      BY <2>8, <3>1, AcceptFacts
    <3>3. Fires(Icmp("icmp6"), p)
      BY <2>12, NamedFire
    <3> QED BY <2>3, <2>7, <3>1, <3>2, <3>3
  <2>13. ASSUME p.proto = "tcp", p.port = "22", p.ct = "new", p.iif = "wan",
                \A n \in DOMAIN lists : p.src \notin lists[n], Passing("ssh"),
                Passes("input", p)
         PROVE  FALSE
    <3>1. SshAccepts # {} /\ SshAccepts = SshScoped
      BY <2>13 DEF Passing, SshPasses
    <3>2. \A r \in SshAccepts : /\ r \in R /\ r.do = "accept"
                                /\ Has(r, "saddr4") \/ Has(r, "saddr6")
      BY <2>4, <3>1 DEF SshAccepts, SshScoped
    <3>3. chains[i].policy = "drop"
      <4>1. PICK r \in SshAccepts : TRUE
        BY <3>1
      <4>2. story.preset # "none"
        BY <2>8, <3>2, <4>1, AcceptFacts
      <4> QED BY <2>1, <4>2 DEF IInv, PresetMade, PresetInput
    <3>4. PICK r \in R : r.do = "accept" /\ Fires(r, p)
      BY <2>3, <2>7, <2>9, <2>13, <3>3
    <3>5. r \in Accepting
      BY <2>8, <3>4
    <3>6. HasValue(r, "tcp", TextHas22) /\ ~Has(r, "saddr4") /\ ~Has(r, "saddr6")
      BY <2>13, <3>4, <3>5, SshMeets
    <3>7. r \in SshAccepts
      BY <2>4, <3>4, <3>6, FiresOn DEF SshAccepts
    <3> QED BY <3>2, <3>6, <3>7
  <2> QED BY <2>10, <2>11, <2>12, <2>13
<1> QED BY <1>1, IInvHolds, PTL

-----------------------------------------------------------------------------
(* What a preset promises                                                  *)

\* The accepts of a list let in its members.
LEMMA FromFires ==
  ASSUME IInv, NEW list \in DOMAIN lists, NEW proto \in {"tcp", "udp"}, NEW ports, NEW p
  PROVE  (\E f \in Families : Fires(Letting(f, list, proto, ports), p))
         <=> p.src \in Members(list) /\ p.proto = proto /\ p.port \in ports
<1>1. \A f \in Families : Fires(Letting(f, list, proto, ports), p) <=>
          /\ p.src \in IF f = "saddr4" THEN V4 ELSE V6
          /\ InSet(list, p) /\ p.proto = proto /\ p.port \in ports
  BY LettingTests
<1>2. InSet(list, p) <=> p.src \in Members(list)
  BY DEF InSet, Members
<1>3. p.src \in Members(list) => p.src \in V4 \/ p.src \in V6
  BY DEF IInv, StateTyped, Members, Hosts
<1>4. Families = {"saddr4", "saddr6"}
  BY DEF Families
<1> QED BY <1>1, <1>2, <1>3, <1>4

\* What a preset lets in besides is what it offers.
LEMMA OfferedIs ==
  ASSUME IInv, NEW preset \in Presets, ListsOf(preset) \subseteq DOMAIN lists, NEW p,
         p.port \notin {"none", "output", "forward"}
  PROVE  (\E r \in ServiceLets(preset) : Fires(r, p)) <=> Offered(preset, p)
<1>1. CASE preset = "bgp-router"
  <2>1. ServiceLets(preset) = {Letting(f, "peers", "tcp", {"179"}) : f \in Families}
                              \cup {Letting(f, "peers", "udp", BfdPorts) : f \in Families}
    BY <1>1 DEF ServiceLets
  <2>2. "peers" \in DOMAIN lists
    BY <1>1 DEF ListsOf
  <2>3. (\E f \in Families : Fires(Letting(f, "peers", "tcp", {"179"}), p))
        <=> p.src \in Members("peers") /\ p.proto = "tcp" /\ p.port \in {"179"}
    BY <2>2, FromFires
  <2>4. (\E f \in Families : Fires(Letting(f, "peers", "udp", BfdPorts), p))
        <=> p.src \in Members("peers") /\ p.proto = "udp" /\ p.port \in BfdPorts
    BY <2>2, FromFires
  <2>5. Offered(preset, p) <=>
            \/ p.src \in Members("peers") /\ p.proto = "tcp" /\ p.port \in {"179"}
            \/ p.src \in Members("peers") /\ p.proto = "udp" /\ p.port \in BfdPorts
    BY <1>1 DEF Offered
  <2>6. (\E r \in ServiceLets(preset) : Fires(r, p)) <=>
            \/ \E f \in Families : Fires(Letting(f, "peers", "tcp", {"179"}), p)
            \/ \E f \in Families : Fires(Letting(f, "peers", "udp", BfdPorts), p)
    BY <2>1
  <2> QED BY <2>3, <2>4, <2>5, <2>6
<1>2. CASE preset = "wireguard"
  <2>1. ServiceLets(preset) =
            {Rule(Is("udp", {"51820"}), "accept"), Rule(Is("iif", {"wg0"}), "accept")}
    BY <1>2 DEF ServiceLets
  <2>2. Fires(Rule(Is("udp", {"51820"}), "accept"), p) <=> p.proto = "udp" /\ p.port \in {"51820"}
    BY PortTests
  <2>3. Fires(Rule(Is("iif", {"wg0"}), "accept"), p) <=> p.iif = "wg0"
    BY FiresIs, FieldMatches
  <2>4. Offered(preset, p) <=> p.iif = "wg0" \/ (p.proto = "udp" /\ p.port \in {"51820"})
    BY <1>2 DEF Offered
  <2> QED BY <2>1, <2>2, <2>3, <2>4
<1>3. CASE preset = "home-router"
  <2>1. ServiceLets(preset) = {FromLan("tcp", {port}) : port \in {"53"} \cup MgmtPorts}
                              \cup {FromLan("udp", {port}) : port \in {"67", "53"}}
    BY <1>3 DEF ServiceLets
  <2>2. \A port : Fires(FromLan("tcp", {port}), p) <=> p.iif = "lan" /\ p.proto = "tcp" /\ p.port = port
    BY FromLanTests
  <2>3. \A port : Fires(FromLan("udp", {port}), p) <=> p.iif = "lan" /\ p.proto = "udp" /\ p.port = port
    BY FromLanTests
  <2>4. (\E r \in ServiceLets(preset) : Fires(r, p)) <=>
            \/ \E port \in {"53"} \cup MgmtPorts : Fires(FromLan("tcp", {port}), p)
            \/ \E port \in {"67", "53"} : Fires(FromLan("udp", {port}), p)
    BY <2>1
  <2>5. (\E port \in {"53"} \cup MgmtPorts : Fires(FromLan("tcp", {port}), p)) <=>
            p.iif = "lan" /\ p.proto = "tcp" /\ p.port \in {"22", UiPort, "53"}
    BY <2>2 DEF MgmtPorts
  <2>6. (\E port \in {"67", "53"} : Fires(FromLan("udp", {port}), p)) <=>
            p.iif = "lan" /\ p.proto = "udp" /\ p.port \in {"67", "53"}
    BY <2>3
  <2>7. Offered(preset, p) <=>
            p.iif = "lan" /\ \/ p.proto = "tcp" /\ p.port \in {"22", UiPort, "53"}
                             \/ p.proto = "udp" /\ p.port \in {"67", "53"}
    BY <1>3 DEF Offered
  <2> QED BY <2>4, <2>5, <2>6, <2>7
<1>4. CASE preset = "web-server"
  <2>1. ServiceLets(preset) = {Rule(Is("tcp", {"80", "443"}), "accept")}
    BY <1>4 DEF ServiceLets
  <2>2. Fires(Rule(Is("tcp", {"80", "443"}), "accept"), p) <=>
            p.proto = "tcp" /\ p.port \in {"80", "443"}
    BY PortTests
  <2>3. Offered(preset, p) <=> p.proto = "tcp" /\ p.port \in {"80", "443"}
    BY <1>4 DEF Offered
  <2> QED BY <2>1, <2>2, <2>3
<1>5. CASE preset = "database-server"
  <2>1. ServiceLets(preset) = {Letting(f, "app", "tcp", {"5432", "3306"}) : f \in Families}
    BY <1>5 DEF ServiceLets
  <2>2. "app" \in DOMAIN lists
    BY <1>5 DEF ListsOf
  <2>3. (\E f \in Families : Fires(Letting(f, "app", "tcp", {"5432", "3306"}), p))
        <=> p.src \in Members("app") /\ p.proto = "tcp" /\ p.port \in {"5432", "3306"}
    BY <2>2, FromFires
  <2>4. Offered(preset, p) <=>
            p.src \in Members("app") /\ p.proto = "tcp" /\ p.port \in {"5432", "3306"}
    BY <1>5 DEF Offered
  <2> QED BY <2>1, <2>3, <2>4
<1>6. CASE preset \in {"secure-server", "container-host"}
  <2>1. ServiceLets(preset) = {}
    BY <1>6 DEF ServiceLets
  <2>2. ~Offered(preset, p)
    BY <1>6 DEF Offered
  <2> QED BY <2>1, <2>2
<1> QED BY <1>1, <1>2, <1>3, <1>4, <1>5, <1>6 DEF Presets

\* What was allowed since.
LEMMA AllowedIs ==
  ASSUME IInv, NEW p
  PROVE  (\E r \in AllowedLets : Fires(r, p)) <=> <<p.proto, p.port>> \in story.allowed
<1>1. \A pp \in story.allowed : pp \in AllowPorts
  BY DEF IInv, StateTyped, Story
<1>2. \A pp \in story.allowed : pp = <<pp[1], pp[2]>> /\ pp[1] \in {"tcp", "udp"}
  BY <1>1, FormsAssumption
<1>3. \A pp \in story.allowed : Fires(Allowing(pp), p) <=> p.proto = pp[1] /\ p.port = pp[2]
  <2> TAKE pp \in story.allowed
  <2> DEFINE proto == pp[1]
             port == pp[2]
  <2>1. proto \in {"tcp", "udp"}
    BY <1>2
  <2> HIDE DEF proto, port
  <2>2. Fires(Rule(Is(proto, {port}), "accept"), p) <=> p.proto = proto /\ p.port \in {port}
    BY <2>1, PortTests
  <2>3. Allowing(pp) = Rule(Is(proto, {port}), "accept")
    BY DEF Allowing, proto, port
  <2> QED BY <2>2, <2>3 DEF proto, port
<1>4. \A pp \in story.allowed : (p.proto = pp[1] /\ p.port = pp[2]) <=> pp = <<p.proto, p.port>>
  BY <1>2
<1> QED BY <1>3, <1>4 DEF AllowedLets

\* Which packets that are not from loopback, blocked or invalid the accepts of
\* a preset and of the advisor let in.
LEMMA LetsAre ==
  ASSUME IInv, story.preset # "none", ~story.edited, NEW p \in Incoming, p.iif # "lo"
  PROVE  (\E r \in Lets(story.preset) \cup AllowedLets : Fires(r, p)) <=>
             \/ p.ct = "established"
             \/ p.proto \in {"icmp4", "icmp6"} /\ p.port = "essential"
             \/ p.src \in Members("mgmt") /\ p.proto = "tcp" /\ p.port \in {"22", UiPort}
             \/ Offered(story.preset, p)
             \/ <<p.proto, p.port>> \in story.allowed
<1>1. story.preset \in Presets /\ ListsOf(story.preset) \subseteq DOMAIN lists
  BY DEF IInv, StateTyped, Story, PresetMade
<1>2. p.port \notin {"none", "output", "forward"}
  BY PacketsAssumption
<1>3. (\E r \in BaseLets : Fires(r, p)) <=>
          \/ p.ct = "established"
          \/ p.proto \in {"icmp4", "icmp6"} /\ p.port = "essential"
  <2>1. ~Fires(Lo, p) /\ (Fires(Est, p) <=> p.ct = "established")
    BY NamedFire
  <2>2. \A f \in {"icmp4", "icmp6"} : Fires(Icmp(f), p) <=> p.proto = f /\ p.port = "essential"
    BY NamedFire
  <2>3. /\ Fires(Icmp("icmp4"), p) <=> p.proto = "icmp4" /\ p.port = "essential"
        /\ Fires(Icmp("icmp6"), p) <=> p.proto = "icmp6" /\ p.port = "essential"
    BY <2>2
  <2> QED BY <2>1, <2>3 DEF BaseLets
<1>4. (\E r \in MgmtLets : Fires(r, p)) <=>
          p.src \in Members("mgmt") /\ p.proto = "tcp" /\ p.port \in {"22", UiPort}
  <2>1. "mgmt" \in DOMAIN lists
    BY <1>1 DEF ListsOf
  <2>2. \A port : (\E f \in Families : Fires(Letting(f, "mgmt", "tcp", {port}), p))
                  <=> p.src \in Members("mgmt") /\ p.proto = "tcp" /\ p.port \in {port}
    BY <2>1, FromFires
  <2>3. (\E r \in MgmtLets : Fires(r, p)) <=>
            \E port \in MgmtPorts : \E f \in Families : Fires(Letting(f, "mgmt", "tcp", {port}), p)
    <3>1. ASSUME NEW r \in MgmtLets, Fires(r, p)
          PROVE  \E port \in MgmtPorts : \E f \in Families : Fires(Letting(f, "mgmt", "tcp", {port}), p)
      BY <3>1 DEF MgmtLets
    <3>2. ASSUME NEW port \in MgmtPorts, NEW f \in Families, Fires(Letting(f, "mgmt", "tcp", {port}), p)
          PROVE  \E r \in MgmtLets : Fires(r, p)
      <4>1. Letting(f, "mgmt", "tcp", {port}) \in MgmtLets
        BY DEF MgmtLets
      <4> QED BY <3>2, <4>1
    <3> QED BY <3>1, <3>2
  <2>4. p.port \in MgmtPorts <=> p.port \in {"22", UiPort}
    BY <1>2 DEF MgmtPorts
  <2> QED BY <2>2, <2>3, <2>4
<1>5. (\E r \in ServiceLets(story.preset) : Fires(r, p)) <=> Offered(story.preset, p)
  BY <1>1, <1>2, OfferedIs
<1>6. (\E r \in AllowedLets : Fires(r, p)) <=> <<p.proto, p.port>> \in story.allowed
  BY AllowedIs
<1>7. (\E r \in Lets(story.preset) \cup AllowedLets : Fires(r, p)) <=>
          \/ \E r \in BaseLets : Fires(r, p)
          \/ \E r \in MgmtLets : Fires(r, p)
          \/ \E r \in ServiceLets(story.preset) : Fires(r, p)
          \/ \E r \in AllowedLets : Fires(r, p)
  BY DEF Lets
<1> QED BY <1>3, <1>4, <1>5, <1>6, <1>7

\* The input chain of a preset, whatever the tools added to it.
LEMMA InputPromise ==
  ASSUME IInv, story.preset # "none", ~story.edited, NEW p \in Incoming,
         ~p.spoofed, ~p.abuser
  PROVE  Passes("input", p) <=> Promised(story.preset, p)
<1>1. PICK i \in OnHook("input") : TRUE
  BY DEF IInv, PresetMade
<1> DEFINE c == chains[i]
           rules == c.rules
           R == ToSet(rules)
<1>2. OnHook("input") = {i}
  BY <1>1 DEF IInv, ToolMade
<1>3. Passes("input", p) <=> Accepts(c, p)
  BY <1>2 DEF Passes
<1>4. c \in Chains /\ PresetInput(c) /\ BlocksAbove(rules) /\ i \in DOMAIN chains
  BY <1>1, RulesThere DEF OnHook, IInv, PresetMade, ToolMade
<1>5. \A n : Members(n) \subseteq Hosts
  BY DEF IInv, StateTyped, Members
<1>6. CASE p.iif = "lo"
  <2>1. p.src \notin Hosts
    BY <1>6, PacketsAre
  <2>2. ~Blocked(p.src)
    BY <1>5, <2>1 DEF Blocked
  <2>3. PICK k \in DOMAIN rules : rules[k] = Lo /\ \A j \in 1..(k - 1) : rules[j] # Inv
    BY <1>4 DEF PresetInput, LoopbackFirst
  <2>4. k \in Hits(rules, p) /\ rules[k].do # "drop"
    <3>1. Fires(Lo, p) /\ Lo.do = "accept"
      BY <1>6, NamedFire, NamedRules
    <3> QED BY <2>3, <3>1 DEF Hits, Verdicts
  <2>5. ASSUME NEW j \in 1..(k - 1), j \in Hits(rules, p) PROVE rules[j].do # "drop"
    <3>1. j \in DOMAIN rules /\ Fires(rules[j], p)
      BY <2>5 DEF Hits
    <3>2. rules[j] \in R /\ rules[j] # Inv
      BY <2>3, <3>1 DEF ToSet
    <3> QED BY <1>1, <2>2, <3>1, <3>2, NoDropFires
  <2>6. Accepts(c, p)
    BY <1>4, <2>4, <2>5, Deciding
  <2> QED BY <1>3, <1>6, <2>6 DEF Promised
<1>7. CASE p.iif # "lo" /\ Blocked(p.src)
  <2>1. PICK name \in {"blacklist", BlkList} :
           p.src \in Members(name) /\ \A f \in Families : DropOf(f, name) \in R
    <3>1. \A f \in Families : DropOf(f, "blacklist") \in R
      BY <1>4 DEF PresetInput
    <3>2. story.country => \A f \in Families : DropOf(f, BlkList) \in R
      BY <1>1 DEF IInv, ToolMade
    <3> QED BY <1>7, <3>1, <3>2 DEF Blocked
  <2>2. p.src \in Hosts
    BY <1>5, <2>1
  <2>3. PICK f \in Families : Fires(DropOf(f, name), p)
    BY <2>1, <2>2, MemberMeets
  <2>4. PICK k \in DOMAIN rules : rules[k] = DropOf(f, name)
    BY <2>1 DEF ToSet
  <2>5. DropOf(f, name).do = "drop" /\ DropOf(f, name) \in Blocks
    BY DropsDrop DEF Blocks
  <2>6. Above(rules, k)
    BY <1>4, <2>4, <2>5 DEF BlocksAbove
  <2>7. ~Accepts(c, p)
    BY <1>1, <1>7, <2>3, <2>4, <2>5, <2>6, DropsAll
  <2> QED BY <1>3, <1>7, <2>7 DEF Promised
<1>8. CASE p.iif # "lo" /\ p.ct = "invalid"
  <2>1. PICK k \in DOMAIN rules : rules[k] = Inv /\ Above(rules, k)
    BY <1>4 DEF PresetInput, InvalidAbove
  <2>2. Inv.do = "drop" /\ Fires(Inv, p)
    BY <1>8, NamedRules, NamedFire
  <2>3. ~Accepts(c, p)
    BY <1>1, <1>8, <2>1, <2>2, DropsAll
  <2> QED BY <1>3, <1>8, <2>3 DEF Promised
<1>9. CASE p.iif # "lo" /\ ~Blocked(p.src) /\ p.ct # "invalid"
  <2>1. \A r \in R : Fires(r, p) => r.do # "drop"
    BY <1>1, <1>9, NoDropFires
  <2>2. Accepts(c, p) <=> \E r \in R : r.do \in {"accept", "queue"} /\ Fires(r, p)
    BY <1>4, <2>1, NothingDrops DEF PresetInput
  <2>3. \A r \in R : r.do # "queue"
    <3>1. Clean(rules)
      BY <1>1 DEF IInv, InputClean
    <3> QED BY <3>1 DEF Clean, ToSet
  <2>4. PresetLets(story.preset) = Lets(story.preset)
        /\ \A r \in PresetLets(story.preset) : r.do = "accept"
    <3>1. story.preset \in Presets
      BY DEF IInv, StateTyped, Story
    <3> QED BY <3>1, PresetInputIs DEF PresetLets
  <2>5. \A r \in R : r.do = "accept" => r \in Lets(story.preset) \cup AllowedLets
    <3>1. \A r \in R : Known(r)
      BY <1>1 DEF IInv, ToolMade
    <3>2. FixLets \subseteq Lets(story.preset)
      BY DEF FixLets, Lets, BaseLets
    <3> QED BY <2>4, <3>1, <3>2, NoBlocks DEF Known
  <2>6. \A r \in Lets(story.preset) \cup AllowedLets : r \in R /\ r.do = "accept"
    <3>1. \A r \in AllowedLets : r.do = "accept"
      <4>1. \A pp \in story.allowed : pp \in AllowPorts
        BY DEF IInv, StateTyped, Story
      <4>2. \A pp \in AllowPorts : Allowing(pp).do = "accept"
        BY AllowingIs
      <4> QED BY <4>1, <4>2 DEF AllowedLets
    <3> QED BY <1>4, <2>4, <3>1 DEF PresetInput
  <2>7. Accepts(c, p) <=> \E r \in Lets(story.preset) \cup AllowedLets : Fires(r, p)
    BY <2>2, <2>3, <2>5, <2>6
  <2> QED BY <1>3, <1>9, <2>7, LetsAre DEF Promised
<1> QED BY <1>6, <1>7, <1>8, <1>9

-----------------------------------------------------------------------------
(* What is routed on                                                       *)

\* The rules of a forward chain are those of the preset, behind at most the
\* rule of the inspection.
LEMMA Inspected ==
  ASSUME NEW FR \in Seq(Rules), NEW rules,
         rules = FR \/ rules = <<Inspect>> \o FR
  PROVE  /\ ToSet(rules) = ToSet(FR) \/ ToSet(rules) = {Inspect} \cup ToSet(FR)
         /\ FR # <<>> => \E k \in DOMAIN rules :
                /\ rules[k] = FR[1]
                /\ \A j \in 1..(k - 1) : rules[j] = Inspect
<1>1. Len(FR) \in Nat /\ DOMAIN FR = 1..Len(FR)
  BY LenProperties
<1>2. FR # <<>> => 1 \in DOMAIN FR
  BY <1>1, EmptySeq
<1>3. CASE rules = FR
  <2>1. \A j \in 1..(1 - 1) : rules[j] = Inspect
    OBVIOUS
  <2> QED BY <1>2, <1>3, <2>1
<1>4. CASE rules = <<Inspect>> \o FR
  <2> DEFINE one == <<Inspect>>
  <2>1. one \in Seq(Rules) /\ Len(one) = 1 /\ one[1] = Inspect /\ ToSet(one) = {Inspect}
    <3>1. Inspect \in Rules
      BY InspectIs
    <3> HIDE DEF Inspect
    <3>2. one \in Seq(Rules)
      BY <3>1
    <3> QED BY <3>2 DEF ToSet
  <2> HIDE DEF one
  <2>2. /\ DOMAIN (one \o FR) = 1..(1 + Len(FR))
        /\ \A k \in 1..1 : (one \o FR)[k] = one[k]
        /\ \A k \in 1..Len(FR) : (one \o FR)[1 + k] = FR[k]
    <3>1. one \in Seq(Rules)
      BY <2>1
    <3>2. /\ DOMAIN (one \o FR) = 1..(Len(one) + Len(FR))
          /\ \A k \in 1..Len(one) : (one \o FR)[k] = one[k]
          /\ \A k \in 1..Len(FR) : (one \o FR)[Len(one) + k] = FR[k]
      BY ONLY <3>1, Joined
    <3> QED BY <2>1, <3>2
  <2>3. ToSet(one \o FR) = {Inspect} \cup ToSet(FR)
    BY <2>1, JoinedSet
  <2>4. rules = one \o FR
    BY <1>4 DEF one
  <2>5. ASSUME FR # <<>>
        PROVE  \E k \in DOMAIN rules : /\ rules[k] = FR[1]
                                       /\ \A j \in 1..(k - 1) : rules[j] = Inspect
    <3>1. 2 \in DOMAIN (one \o FR) /\ (one \o FR)[2] = FR[1]
      BY <1>1, <1>2, <2>2, <2>5
    <3>2. \A j \in 1..(2 - 1) : (one \o FR)[j] = Inspect
      BY <2>1, <2>2
    <3>3. /\ 2 \in DOMAIN rules /\ rules[2] = FR[1]
          /\ \A j \in 1..(2 - 1) : rules[j] = Inspect
      BY ONLY <2>4, <3>1, <3>2
    <3> QED BY <3>3
  <2>6. ToSet(rules) = {Inspect} \cup ToSet(FR)
    BY ONLY <2>3, <2>4
  <2> QED BY <2>5, <2>6
<1> QED BY <1>3, <1>4

\* What the forward rules of a preset let through and drop.
LEMMA ForwardLets ==
  ASSUME NEW p
  PROVE  /\ ToSet(ForwardRules("bgp-router")) = {Inv}
         /\ ForwardRules("bgp-router") # <<>> /\ ForwardRules("bgp-router")[1] = Inv
         /\ \A r \in ToSet(ForwardRules("wireguard")) : r.do = "accept"
         /\ (\E r \in ToSet(ForwardRules("wireguard")) : Fires(r, p))
               <=> p.ct = "established" \/ "wg0" \in {p.iif, p.oif}
         /\ ForwardRules("home-router") # <<>> /\ ForwardRules("home-router")[1] = Inv
         /\ \A r \in ToSet(ForwardRules("home-router")) : r.do = "accept" \/ r = Inv
         /\ (\E r \in ToSet(ForwardRules("home-router")) : r.do = "accept" /\ Fires(r, p))
               <=> p.ct = "established" \/ (p.iif = "lan" /\ p.oif = "wan")
<1> DEFINE wf == Rule(Is("iif", {"wg0"}), "accept")
           wo == Rule(Is("oif", {"wg0"}), "accept")
           lw == Rule(And("iif", {"lan"}, Is("oif", {"wan"})), "accept")
<1>1. Fires(wf, p) <=> p.iif \in {"wg0"}
  BY FiresIs, FieldMatches
<1>2. Fires(wo, p) <=> p.oif \in {"wg0"}
  BY FiresIs, FieldMatches
<1>3. Fires(lw, p) <=> p.iif \in {"lan"} /\ p.oif \in {"wan"}
  <2>1. Fires(lw, p) <=> Matches("iif", {"lan"}, p) /\ Matches("oif", {"wan"}, p)
    BY FiresAnd
  <2> QED BY <2>1, FieldMatches
<1>4. wf.do = "accept" /\ wo.do = "accept" /\ lw.do = "accept"
  BY DEF Rule
<1>5. /\ Est.do = "accept" /\ Inv.do = "drop"
      /\ Fires(Est, p) <=> p.ct = "established"
  BY NamedRules, NamedFire
<1>6. /\ ForwardRules("bgp-router") = <<Inv>>
      /\ ForwardRules("wireguard") = <<Est, wf, wo>>
      /\ ForwardRules("home-router") = <<Inv, Est, lw>>
  BY DEF ForwardRules, Inv, Est
<1> HIDE DEF wf, wo, lw
<1>7. /\ ToSet(<<Inv>>) = {Inv} /\ <<Inv>> # <<>> /\ <<Inv>>[1] = Inv
      /\ ToSet(<<Est, wf, wo>>) = {Est, wf, wo}
      /\ ToSet(<<Inv, Est, lw>>) = {Inv, Est, lw}
      /\ <<Inv, Est, lw>> # <<>> /\ <<Inv, Est, lw>>[1] = Inv
  BY DEF ToSet
<1>8. (\E r \in {Est, wf, wo} : Fires(r, p))
          <=> p.ct = "established" \/ "wg0" \in {p.iif, p.oif}
  BY <1>1, <1>2, <1>5
<1>9. (\E r \in {Inv, Est, lw} : r.do = "accept" /\ Fires(r, p))
          <=> p.ct = "established" \/ (p.iif = "lan" /\ p.oif = "wan")
  BY <1>3, <1>4, <1>5
<1> QED BY <1>4, <1>5, <1>6, <1>7, <1>8, <1>9

\* What a forward chain of a preset lets through.
LEMMA ForwardPromise ==
  ASSUME IInv, story.preset # "none", ~story.edited, NEW p
  PROVE  Passes("forward", p) <=> Routed(story.preset, p)
<1> DEFINE FR == ForwardRules(story.preset)
<1>1. story.preset \in Presets
  BY DEF IInv, StateTyped, Story
<1>2. OnHook("forward") = {} <=> story.preset = "container-host"
  BY DEF IInv, PresetMade
<1>3. CASE story.preset = "container-host"
  BY <1>2, <1>3 DEF Passes, Routed
<1>4. ASSUME story.preset # "container-host", NEW i \in OnHook("forward")
      PROVE  Accepts(chains[i], p) <=> Routed(story.preset, p)
  <2> DEFINE c == chains[i]
  <2>1. i \in DOMAIN chains
    BY DEF OnHook
  <2>2. c \in Chains /\ c.rules \in Seq(Rules)
    BY <2>1, RulesThere
  <2>3. PresetForward(c)
    BY DEF IInv, PresetMade
  <2>4. FR \in Seq(Rules)
    BY <1>1, OtherRulesAre DEF PlainRules
  <2> HIDE DEF c, FR
  <2>5. c.rules = FR \/ c.rules = <<Inspect>> \o FR
    BY <2>3 DEF PresetForward, FR
  <2>6. ToSet(c.rules) = ToSet(FR) \/ ToSet(c.rules) = {Inspect} \cup ToSet(FR)
    BY <2>4, <2>5, Inspected
  <2>7. FR # <<>> => \E k \in DOMAIN c.rules :
                         /\ c.rules[k] = FR[1]
                         /\ \A j \in 1..(k - 1) : c.rules[j] = Inspect
    BY <2>4, <2>5, Inspected
  <2>8. ~Fires(Inspect, p)
    BY InspectIs
  <2>9. /\ ToSet(FR) \subseteq ToSet(c.rules)
        /\ \A r \in ToSet(c.rules) : Fires(r, p) => r \in ToSet(FR)
    BY <2>6, <2>8
  <2>10. ASSUME FR # <<>>, FR[1] = Inv, p.ct = "invalid" PROVE ~Accepts(c, p)
    <3>1. PICK k \in DOMAIN c.rules : /\ c.rules[k] = Inv
                                      /\ \A j \in 1..(k - 1) : c.rules[j] = Inspect
      BY <2>7, <2>10
    <3>2. Inv.do = "drop" /\ Fires(Inv, p)
      BY <2>10, NamedRules, NamedFire
    <3>3. k \in Hits(c.rules, p)
      BY <3>1, <3>2 DEF Hits, Verdicts
    <3>4. \A j \in 1..(k - 1) : j \notin Hits(c.rules, p)
      BY <2>8, <3>1 DEF Hits
    <3> QED BY <2>2, <3>1, <3>2, <3>3, <3>4, Deciding
  <2>11. CASE story.preset = "bgp-router"
    <3>1. FR = ForwardRules("bgp-router")
      BY <2>11 DEF FR
    <3>2. ToSet(FR) = {Inv} /\ FR # <<>> /\ FR[1] = Inv
      BY <3>1, ForwardLets
    <3>3. c.policy = "accept"
      BY <2>3, <2>11 DEF PresetForward
    <3>4. ASSUME p.ct # "invalid" PROVE Accepts(c, p)
      <4>1. ~Fires(Inv, p)
        BY <3>4, NamedFire
      <4>2. \A r \in ToSet(c.rules) : ~Fires(r, p)
        BY <2>9, <3>2, <4>1
      <4> QED BY <2>2, <3>3, <4>2, NothingDrops
    <3>5. Routed(story.preset, p) <=> p.ct # "invalid"
      BY <2>11 DEF Routed
    <3> QED BY <2>10, <3>2, <3>4, <3>5 DEF c
  <2>12. CASE story.preset = "wireguard"
    <3>1. FR = ForwardRules("wireguard")
      BY <2>12 DEF FR
    <3>2. /\ \A r \in ToSet(FR) : r.do = "accept"
          /\ (\E r \in ToSet(FR) : Fires(r, p))
                <=> p.ct = "established" \/ "wg0" \in {p.iif, p.oif}
      BY <3>1, ForwardLets
    <3>3. c.policy = "drop"
      BY <2>3, <2>12 DEF PresetForward
    <3>4. \A r \in ToSet(c.rules) : Fires(r, p) => r.do # "drop"
      BY <2>9, <3>2
    <3>5. Accepts(c, p) <=>
             \/ c.policy # "drop"
             \/ \E r \in ToSet(c.rules) : r.do \in {"accept", "queue"} /\ Fires(r, p)
      BY <2>2, <3>4, NothingDrops
    <3>6. Routed(story.preset, p) <=> p.ct = "established" \/ "wg0" \in {p.iif, p.oif}
      BY <2>12 DEF Routed
    <3> QED BY <2>9, <3>2, <3>3, <3>5, <3>6 DEF c
  <2>13. CASE story.preset = "home-router"
    <3>1. FR = ForwardRules("home-router")
      BY <2>13 DEF FR
    <3>2. /\ FR # <<>> /\ FR[1] = Inv
          /\ \A r \in ToSet(FR) : r.do = "accept" \/ r = Inv
          /\ (\E r \in ToSet(FR) : r.do = "accept" /\ Fires(r, p))
                <=> p.ct = "established" \/ (p.iif = "lan" /\ p.oif = "wan")
      BY <3>1, ForwardLets
    <3>3. c.policy = "drop"
      BY <2>3, <2>13 DEF PresetForward
    <3>4. ASSUME p.ct # "invalid"
          PROVE  Accepts(c, p) <=> p.ct = "established" \/ (p.iif = "lan" /\ p.oif = "wan")
      <4>1. ~Fires(Inv, p)
        BY <3>4, NamedFire
      <4>2. \A r \in ToSet(c.rules) : Fires(r, p) => r.do = "accept"
        BY <2>9, <3>2, <4>1
      <4>3. Accepts(c, p) <=>
               \/ c.policy # "drop"
               \/ \E r \in ToSet(c.rules) : r.do \in {"accept", "queue"} /\ Fires(r, p)
        BY <2>2, <4>2, NothingDrops
      <4> QED BY <2>9, <3>2, <3>3, <4>2, <4>3
    <3>5. Routed(story.preset, p) <=>
              p.ct # "invalid" /\ (p.ct = "established" \/ (p.iif = "lan" /\ p.oif = "wan"))
      BY <2>13 DEF Routed
    <3> QED BY <2>10, <3>2, <3>4, <3>5 DEF c
  <2>14. CASE story.preset \in {"secure-server", "web-server", "database-server"}
    <3>1. FR = <<>> /\ c.policy = "drop" /\ ~Routed(story.preset, p)
      BY <2>3, <2>14 DEF FR, ForwardRules, PresetForward, Routed
    <3>2. \A r \in ToSet(c.rules) : ~Fires(r, p)
      BY <2>9, <3>1 DEF ToSet
    <3> QED BY <2>2, <3>1, <3>2, NothingAccepts DEF c
  <2> QED BY <1>1, <1>4, <2>11, <2>12, <2>13, <2>14 DEF Presets, c
<1> QED BY <1>2, <1>3, <1>4 DEF Passes

\* As long as only the tools touched the rules of a preset, netfilter lets in
\* and routes exactly what the card of the preset promises and what was allowed
\* since, whatever recipes, fixes and blocks came before and behind its rules
\* (presets.go:33-132).
THEOREM PromiseHolds == RulebookSpec => []PresetKeepsPromise
<1>1. IInv => PresetKeepsPromise
  BY InputPromise, ForwardPromise DEF PresetKeepsPromise
<1> QED BY <1>1, IInvHolds, PTL

-----------------------------------------------------------------------------
(* What the pages warn of                                                  *)

\* The lint: where it warns of a port, no new connection to it gets in.
LEMMA LintIsRight ==
  ASSUME IInv, NEW p \in Incoming, p.proto = "tcp", p.port \in LintWarns
  PROVE  ~Passes("input", p)
<1>1. p.port \notin {"output", "forward"}
  BY PacketsAssumption
<1>2. Dropping("input") # {} /\ ~AcceptsPort(RulesIn(Dropping("input")), p.port)
  BY <1>1 DEF LintWarns
<1>3. PICK i \in Dropping("input") : TRUE
  BY <1>2
<1>4. i \in OnHook("input") /\ i \in DOMAIN chains /\ chains[i].policy = "drop"
  BY DEF Dropping, OnHook
<1> DEFINE c == chains[i]
           R == ToSet(c.rules)
<1>5. c \in Chains
  BY <1>4, RulesThere
<1>6. R \subseteq RulesIn(Dropping("input"))
  BY DEF RulesIn
<1>7. \A r \in R : r.do # "queue"
  BY <1>4 DEF IInv, InputClean, Clean, ToSet
<1>8. ASSUME NEW r \in R, Fires(r, p) PROVE r.do # "accept"
  <2>1. r.on /\ \A f \in DOMAIN r.match : Matches(f, r.match[f], p)
    BY <1>8 DEF Fires
  <2>2. /\ Matches("udp", r.match["udp"], p) <=> p.proto = "udp" /\ p.port \in r.match["udp"]
        /\ Matches("tcp", r.match["tcp"], p) <=> p.proto = "tcp" /\ p.port \in r.match["tcp"]
    BY FieldMatches
  <2>3. ~Has(r, "udp") /\ (Has(r, "tcp") => p.port \in r.match["tcp"])
    BY <2>1, <2>2 DEF Has
  <2>4. r \in RulesIn(Dropping("input"))
    BY <1>6
  <2> QED BY <1>2, <2>1, <2>3, <2>4 DEF AcceptsPort
<1>9. ~Accepts(c, p)
  BY <1>4, <1>5, <1>7, <1>8, NothingAccepts
<1> QED BY <1>4, <1>9 DEF Passes

\* A packet p may be the packet that was traced as o: the interface it comes in
\* by may have been left open.
SamePacket(o, p) ==
  /\ o.oif = p.oif /\ o.proto = p.proto /\ o.port = p.port /\ o.ct = p.ct
  /\ o.src = p.src /\ o.spoofed = p.spoofed /\ o.abuser = p.abuser
  /\ o.iif = "none" \/ o.iif = p.iif

\* What the simulator says of one test and of one rule is so; it may not know.
LEMMA TracedIs ==
  ASSUME NEW o, NEW p, SamePacket(o, p)
  PROVE  /\ \A f, v : /\ Traced(f, v, o) \in {"yes", "no", "unknown"}
                      /\ Traced(f, v, o) = "yes" => Matches(f, v, p)
                      /\ Traced(f, v, o) = "no" => ~Matches(f, v, p)
         /\ \A r : /\ TracedRule(r, o) \in {"yes", "no", "unknown"}
                   /\ r.on /\ TracedRule(r, o) = "yes" => Fires(r, p)
                   /\ TracedRule(r, o) = "no" => ~Fires(r, p)
<1>1. ASSUME NEW f, NEW v
      PROVE  /\ Traced(f, v, o) \in {"yes", "no", "unknown"}
             /\ Traced(f, v, o) = "yes" => Matches(f, v, p)
             /\ Traced(f, v, o) = "no" => ~Matches(f, v, p)
  <2>1. CASE f \in {"icmp4", "icmp6", "rpf"}
    BY <2>1 DEF Traced
  <2>2. CASE (f = "iif" /\ o.iif = "none") \/ (f = "oif" /\ o.oif = "none")
    BY <2>2 DEF Traced
  <2>3. CASE f \in {"saddr4", "saddr6"} /\ ~(v \subseteq DOMAIN lists)
    <3>1. Traced(f, v, o) =
              IF o.src \in (IF f = "saddr4" THEN V4 ELSE V6) THEN "unknown" ELSE "no"
      BY <2>3 DEF Traced
    <3>2. Matches(f, v, p) => p.src \in (IF f = "saddr4" THEN V4 ELSE V6)
      BY <2>3, FieldMatches
    <3> QED BY <3>1, <3>2 DEF SamePacket
  <2>4. CASE /\ f \notin {"icmp4", "icmp6", "rpf"}
             /\ ~(f = "iif" /\ o.iif = "none") /\ ~(f = "oif" /\ o.oif = "none")
             /\ ~(f \in {"saddr4", "saddr6"} /\ ~(v \subseteq DOMAIN lists))
    <3>1. Traced(f, v, o) = IF Matches(f, v, o) THEN "yes" ELSE "no"
      BY <2>4 DEF Traced
    <3>2. Matches(f, v, o) <=> Matches(f, v, p)
      <4>1. f = "iif" => o.iif = p.iif
        BY <2>4 DEF SamePacket
      <4>2. \A n : InSet(n, o) <=> InSet(n, p)
        BY DEF InSet, SamePacket
      <4> QED BY <4>1, <4>2 DEF Matches, SamePacket
    <3> QED BY <3>1, <3>2
  <2> QED BY <2>1, <2>2, <2>3, <2>4
<1>2. ASSUME NEW r
      PROVE  /\ TracedRule(r, o) \in {"yes", "no", "unknown"}
             /\ r.on /\ TracedRule(r, o) = "yes" => Fires(r, p)
             /\ TracedRule(r, o) = "no" => ~Fires(r, p)
  <2> DEFINE results == {Traced(f, r.match[f], o) : f \in DOMAIN r.match}
  <2>1. TracedRule(r, o) = IF "no" \in results THEN "no"
                           ELSE IF "unknown" \in results THEN "unknown" ELSE "yes"
    BY DEF TracedRule
  <2>2. ASSUME "no" \in results PROVE ~Fires(r, p)
    <3>1. PICK f \in DOMAIN r.match : Traced(f, r.match[f], o) = "no"
      BY <2>2
    <3>2. ~Matches(f, r.match[f], p)
      BY <1>1, <3>1
    <3> QED BY <3>2 DEF Fires
  <2>3. ASSUME "no" \notin results, "unknown" \notin results, r.on PROVE Fires(r, p)
    <3>1. \A f \in DOMAIN r.match : Traced(f, r.match[f], o) \in results
      OBVIOUS
    <3> HIDE DEF results
    <3>2. \A f \in DOMAIN r.match : Traced(f, r.match[f], o) = "yes"
      BY <1>1, <2>3, <3>1
    <3>3. \A f \in DOMAIN r.match : Matches(f, r.match[f], p)
      BY <1>1, <3>2
    <3> QED BY <2>3, <3>3 DEF Fires
  <2> HIDE DEF results
  <2> QED BY <2>1, <2>2, <2>3
<1> QED BY <1>1, <1>2

\* A certain answer is what the chain that was walked does.
LEMMA TraceIsRight ==
  ASSUME IInv, OnHook("input") # {}, NEW o, NEW p, SamePacket(o, p), Trace(o).certain
  PROVE  Trace(o).verdict # "drop" <=> Accepts(chains[PrimaryInput], p)
<1> DEFINE c    == chains[PrimaryInput]
           res  == [i \in DOMAIN c.rules |->
                      IF c.rules[i].on THEN TracedRule(c.rules[i], o) ELSE "no"]
           hits == {i \in DOMAIN c.rules :
                      res[i] = "yes" /\ c.rules[i].do \in {"accept", "drop"}}
           end  == IF hits = {} THEN Len(c.rules) + 1 ELSE Least(hits)
           said == IF hits = {} THEN c.policy ELSE c.rules[end].do
           sure == \A i \in DOMAIN c.rules : i < end => res[i] # "unknown"
<1>2. PrimaryInput \in OnHook("input") /\ PrimaryInput \in DOMAIN chains
  BY Picked DEF IInv, StateTyped, OnHook
<1>3. c \in Chains /\ c.rules \in Seq(Rules)
  BY <1>2, RulesThere
<1>4. Trace(o) = [verdict |-> said, certain |-> sure]
  BY DEF Trace
<1>5. Trace(o).verdict = said /\ sure
  <2> HIDE DEF said, sure
  <2> QED BY <1>4
<1>6. Clean(c.rules)
  BY <1>2 DEF IInv, InputClean
<1>7. Len(c.rules) \in Nat /\ DOMAIN c.rules = 1..Len(c.rules)
  BY <1>3, LenProperties
<1>8. \A i \in DOMAIN c.rules :
          /\ res[i] = "yes" => Fires(c.rules[i], p)
          /\ res[i] = "no" => ~Fires(c.rules[i], p)
          /\ res[i] \in {"yes", "no", "unknown"}
  <2> TAKE i \in DOMAIN c.rules
  <2>1. res[i] = IF c.rules[i].on THEN TracedRule(c.rules[i], o) ELSE "no"
    OBVIOUS
  <2>2. ~c.rules[i].on => ~Fires(c.rules[i], p)
    BY DEF Fires
  <2> QED BY <2>1, <2>2, TracedIs
<1> HIDE DEF c, res
<1>9. \A i \in DOMAIN c.rules : i < end /\ i \in Hits(c.rules, p) => i \in hits
  <2> SUFFICES ASSUME NEW i \in DOMAIN c.rules, i < end, i \in Hits(c.rules, p)
               PROVE  i \in hits
    OBVIOUS
  <2>1. Fires(c.rules[i], p) /\ c.rules[i].do \in {"accept", "drop"}
    BY <1>6 DEF Hits, Verdicts, Clean
  <2>2. res[i] # "unknown"
    BY <1>5
  <2> QED BY <1>8, <2>1, <2>2
<1>10. CASE hits = {}
  <2>1. end = Len(c.rules) + 1 /\ Trace(o).verdict = c.policy
    BY <1>5, <1>10
  <2>2. Hits(c.rules, p) = {}
    <3>1. \A i \in Hits(c.rules, p) : i \in DOMAIN c.rules
      BY DEF Hits
    <3>2. \A i \in DOMAIN c.rules : i < end
      BY <1>7, <2>1
    <3> QED BY <1>9, <1>10, <3>1, <3>2
  <2>3. Accepts(c, p) <=> c.policy # "drop"
    BY <1>3, <2>2, Deciding
  <2> QED BY <2>1, <2>3 DEF c
<1>11. CASE hits # {}
  <2>1. hits \subseteq Nat
    BY <1>7
  <2>2. end \in hits /\ \A k \in hits : end <= k
    BY <1>11, <2>1, LeastIs
  <2> HIDE DEF hits, end
  <2>3. /\ end \in DOMAIN c.rules /\ res[end] = "yes"
        /\ c.rules[end].do \in {"accept", "drop"} /\ Trace(o).verdict = c.rules[end].do
    BY <1>5, <1>11, <2>2 DEF hits
  <2>4. end \in Hits(c.rules, p)
    BY <1>8, <2>3 DEF Hits, Verdicts
  <2>5. \A j \in 1..(end - 1) : j \notin Hits(c.rules, p)
    <3> SUFFICES ASSUME NEW j \in 1..(end - 1), j \in Hits(c.rules, p) PROVE FALSE
      OBVIOUS
    <3>1. j \in DOMAIN c.rules /\ j < end
      BY <1>7, <2>3 DEF Hits
    <3>2. ~(end <= j)
      BY <1>7, <2>3
    <3> QED BY <1>9, <2>2, <3>1, <3>2
  <2>6. Accepts(c, p) <=> c.rules[end].do # "drop"
    BY <1>3, <2>3, <2>4, <2>5, Deciding
  <2> QED BY <2>3, <2>6 DEF c
<1> QED BY <1>10, <1>11

\* What a certain answer says of the packets that may have been meant.
LEMMA CertainIs ==
  ASSUME IInv, NEW iif \in TraceIifs, NEW src, NEW port, NEW proto,
         NEW o, o = [iif |-> iif, oif |-> "none", proto |-> proto, port |-> port,
                     ct |-> "new", src |-> src, spoofed |-> FALSE, abuser |-> FALSE],
         NEW p \in Meant(o), Trace(o).certain
  PROVE  /\ Trace(o).verdict = "drop" => ~Passes("input", p)
         /\ Trace(o).verdict = "accept" /\ Cardinality(OnHook("input")) < 2
            => Passes("input", p)
<1>2. SamePacket(o, p)
  <2>1. p = o \/ (o.iif = "none" /\ \E i : p = [o EXCEPT !.iif = i])
    BY DEF Meant
  <2> QED BY <2>1 DEF SamePacket
<1>3. CASE OnHook("input") = {}
  <2>1. Trace(o).verdict = "accept"
    BY <1>3 DEF Trace
  <2>2. Passes("input", p)
    BY <1>3 DEF Passes
  <2> QED BY <2>1, <2>2
<1>4. CASE OnHook("input") # {}
  <2>1. PrimaryInput \in OnHook("input")
    BY <1>4, Picked DEF IInv, StateTyped, OnHook
  <2>2. Trace(o).verdict # "drop" <=> Accepts(chains[PrimaryInput], p)
    BY <1>2, <1>4, TraceIsRight
  <2>3. Trace(o).verdict = "drop" => ~Passes("input", p)
    BY <2>1, <2>2 DEF Passes
  <2>4. ASSUME Cardinality(OnHook("input")) < 2
        PROVE  OnHook("input") = {PrimaryInput}
    <3>1. IsFiniteSet(DOMAIN chains)
      <4>1. DOMAIN chains = 1..Len(chains) /\ Len(chains) \in Nat
        BY LenProperties DEF IInv, StateTyped
      <4> DEFINE k == Len(chains)
      <4>2. IsFiniteSet(1..k)
        <5>1. k \in Int /\ 1 \in Int
          BY <4>1
        <5> HIDE DEF k
        <5> QED BY <5>1, FS_Interval
      <4> QED BY <4>1, <4>2
    <3>2. IsFiniteSet(OnHook("input"))
      BY <3>1, FS_Subset DEF OnHook
    <3>3. /\ {PrimaryInput} \subseteq OnHook("input")
          /\ Cardinality({PrimaryInput}) = 1 /\ IsFiniteSet({PrimaryInput})
      BY <2>1, FS_Singleton
    <3>4. Cardinality(OnHook("input")) \in Nat
      BY <3>2, FS_CardinalityType
    <3>5. Cardinality({PrimaryInput}) <= Cardinality(OnHook("input"))
      BY <3>2, <3>3, FS_Subset
    <3>6. Cardinality({PrimaryInput}) = Cardinality(OnHook("input"))
      BY <2>4, <3>3, <3>4, <3>5
    <3> QED BY <3>2, <3>3, <3>6, FS_Subset
  <2>5. Trace(o).verdict = "accept" /\ Cardinality(OnHook("input")) < 2
        => Passes("input", p)
    <3> SUFFICES ASSUME Trace(o).verdict = "accept", Cardinality(OnHook("input")) < 2
                 PROVE  Passes("input", p)
      OBVIOUS
    <3>1. Accepts(chains[PrimaryInput], p)
      BY <2>2
    <3> QED BY <2>4, <3>1 DEF Passes
  <2> QED BY <2>3, <2>5
<1> QED BY <1>3, <1>4

\* Whatever the rules, a warning is never a false alarm: not that of the lint,
\* not that of the lock-out check (lockout.go:13-49), not what a finding says
\* with certainty of a listener (analyze.go), be it that it is reached, as long
\* as there is one input chain, or that it is not.
THEOREM WarningsHold == RulebookSpec => []WarningsAreRight
<1>1. IInv => WarningsAreRight
  <2> SUFFICES ASSUME IInv PROVE WarningsAreRight
    OBVIOUS
  <2>1. \A p \in Incoming :
            p.proto = "tcp" /\ p.ct = "new" /\ p.port \in LintWarns => ~Passes("input", p)
    BY LintIsRight
  <2>2. ASSUME NEW iif \in TraceIifs, NEW c \in Hosts, NEW port \in LockoutWarns(iif, c),
               NEW p \in Meant(NewTcp(iif, c, port))
        PROVE  ~Passes("input", p)
    <3> DEFINE o == NewTcp(iif, c, port)
    <3>1. Trace(o) = [verdict |-> "drop", certain |-> TRUE]
      BY DEF LockoutWarns
    <3>2. o = [iif |-> iif, oif |-> "none", proto |-> "tcp", port |-> port,
               ct |-> "new", src |-> c, spoofed |-> FALSE, abuser |-> FALSE]
      BY DEF NewTcp
    <3>3. Trace(o).certain /\ Trace(o).verdict = "drop"
      <4> HIDE DEF o
      <4> QED BY <3>1
    <3> HIDE DEF o
    <3>4. p \in Meant(o)
      BY DEF o
    <3> QED BY <3>2, <3>3, <3>4, CertainIs
  <2>3. ASSUME NEW iif \in TraceIifs, NEW l \in Listeners,
               Finding(iif, l[1], l[2]).certain, NEW p \in Meant(FromOutside(iif, l[1], l[2]))
        PROVE  /\ Finding(iif, l[1], l[2]).verdict = "drop" => ~Passes("input", p)
               /\ /\ Finding(iif, l[1], l[2]).verdict = "accept"
                  /\ Cardinality(OnHook("input")) < 2
                  => Passes("input", p)
    <3> DEFINE o == FromOutside(iif, l[1], l[2])
    <3>1. o = [iif |-> iif, oif |-> "none", proto |-> l[1], port |-> l[2],
               ct |-> "new", src |-> Outsider, spoofed |-> FALSE, abuser |-> FALSE]
      <4> DEFINE t == NewTcp(iif, Outsider, l[2])
      <4>1. t = [iif |-> iif, oif |-> "none", proto |-> "tcp", port |-> l[2],
                 ct |-> "new", src |-> Outsider, spoofed |-> FALSE, abuser |-> FALSE]
        BY DEF NewTcp
      <4>2. o = [t EXCEPT !.proto = l[1]]
        BY DEF FromOutside
      <4> HIDE DEF t, o
      <4> QED BY <4>1, <4>2
    <3>2. Finding(iif, l[1], l[2]) = Trace(o)
      BY DEF Finding
    <3> HIDE DEF o
    <3>3. p \in Meant(o)
      BY DEF o
    <3>4. Trace(o).certain
      BY <2>3, <3>2
    <3>5. /\ Trace(o).verdict = "drop" => ~Passes("input", p)
          /\ Trace(o).verdict = "accept" /\ Cardinality(OnHook("input")) < 2
             => Passes("input", p)
      BY <3>1, <3>3, <3>4, CertainIs
    <3> QED BY <3>2, <3>5
  <2> QED BY <2>1, <2>2, <2>3 DEF WarningsAreRight
<1> QED BY <1>1, IInvHolds, PTL

-----------------------------------------------------------------------------
(* The tools keep access                                                   *)

\* A chain follows the first rule that decides, else its policy.
ByFirstHit ==
  \A c \in Chains : \A p :
      Accepts(c, p) <=> IF Hits(c.rules, p) = {} THEN c.policy # "drop"
                        ELSE c.rules[Least(Hits(c.rules, p))].do # "drop"

\* All chains do.
LEMMA Decided == ByFirstHit
<1> USE DEF ByFirstHit
<1> TAKE c \in Chains
<1> TAKE p
<1> DEFINE H == Hits(c.rules, p)
<1>1. CASE H = {}
  BY <1>1, Deciding
<1>2. CASE H # {}
  <2>1. c.rules \in Seq(Rules)
    BY DEF Chains
  <2>2. H \in SUBSET Nat
    BY <2>1, LenProperties DEF Hits
  <2>3. Least(H) \in H /\ \A k \in H : Least(H) <= k
    BY <1>2, <2>2, LeastIs
  <2> HIDE DEF H
  <2> DEFINE k == Least(H)
  <2>4. \A j \in 1..(k - 1) : j \notin H
    <3>1. k \in Nat
      BY <2>2, <2>3
    <3>2. \A j \in 1..(k - 1) : ~(k <= j)
      BY <3>1
    <3> QED BY <2>3, <3>2
  <2> HIDE DEF k
  <2>5. k \in H
    BY <2>3 DEF k
  <2>6. CASE c.rules[k].do = "drop"
    <3>1. ~Accepts(c, p)
      BY <2>4, <2>5, <2>6, Deciding DEF H
    <3> QED BY <1>2, <2>6, <3>1 DEF k, H
  <2>7. CASE c.rules[k].do # "drop"
    <3>1. Accepts(c, p)
      BY <2>4, <2>5, <2>7, Deciding DEF H
    <3> QED BY <1>2, <2>7, <3>1 DEF k, H
  <2> QED BY <2>6, <2>7
<1> QED BY <1>1, <1>2

\* More rules at either end of a chain, none of which drops a packet, leave the
\* packet in.
LEMMA MoreRulesAccept ==
  ASSUME NEW c \in Chains, NEW d \in Chains, NEW rs \in Seq(Rules), NEW p,
         d.policy = c.policy,
         d.rules = rs \o c.rules \/ d.rules = c.rules \o rs,
         \A r \in ToSet(rs) : Fires(r, p) => r.do # "drop",
         Accepts(c, p)
  PROVE  Accepts(d, p)
<1> DEFINE old == c.rules
           C == Hits(old, p)
           D == Hits(d.rules, p)
<1>1. old \in Seq(Rules) /\ d.rules \in Seq(Rules)
  BY DEF Chains
<1>2. IF C = {} THEN c.policy # "drop" ELSE old[Least(C)].do # "drop"
  BY Decided DEF ByFirstHit
<1>3. Accepts(d, p) <=> IF D = {} THEN d.policy # "drop"
                        ELSE d.rules[Least(D)].do # "drop"
  BY Decided DEF ByFirstHit
<1>4. /\ Len(old) \in Nat /\ DOMAIN old = 1..Len(old)
      /\ Len(rs) \in Nat /\ DOMAIN rs = 1..Len(rs)
  BY <1>1, LenProperties
<1>5. C \in SUBSET Nat /\ D \in SUBSET Nat
  BY <1>1, LenProperties DEF Hits
<1>6. \A k \in DOMAIN rs : Fires(rs[k], p) => rs[k].do # "drop"
  BY DEF ToSet
<1> HIDE DEF old
<1>7. CASE d.rules = rs \o old
  <2> DEFINE n == Len(rs)
  <2>1. /\ DOMAIN (rs \o old) = 1..(n + Len(old))
        /\ \A k \in 1..n : (rs \o old)[k] = rs[k]
        /\ \A k \in 1..Len(old) : (rs \o old)[n + k] = old[k]
    BY <1>1, Joined
  <2>2. /\ DOMAIN d.rules = 1..(n + Len(old))
        /\ \A k \in 1..n : d.rules[k] = rs[k]
        /\ \A k \in 1..Len(old) : d.rules[n + k] = old[k]
    BY ONLY <1>7, <2>1
  <2> HIDE DEF n
  <2>n. n \in Nat /\ DOMAIN rs = 1..n
    BY <1>4 DEF n
  <2>3. \A k \in C : n + k \in D
    BY <1>4, <2>n, <2>2 DEF Hits
  <2>4. \A k \in D : k \in 1..n \/ (k - n \in C /\ d.rules[k] = old[k - n])
    <3> SUFFICES ASSUME NEW k \in D, k \notin 1..n
                 PROVE  k - n \in C /\ d.rules[k] = old[k - n]
      OBVIOUS
    <3>1. k \in DOMAIN d.rules /\ d.rules[k].do \in Verdicts /\ Fires(d.rules[k], p)
      BY DEF Hits
    <3>2. k - n \in 1..Len(old) /\ k = n + (k - n)
      BY <1>4, <2>n, <2>2, <3>1
    <3>3. d.rules[k] = old[k - n]
      BY <2>2, <3>2
    <3> QED BY <1>4, <3>1, <3>2, <3>3 DEF Hits
  <2>5. CASE D = {}
    <3>1. C = {}
      BY <2>3, <2>5
    <3> QED BY <1>2, <1>3, <2>5, <3>1
  <2>6. CASE D # {}
    <3> DEFINE m == Least(D)
    <3>1. m \in D /\ \A k \in D : m <= k
      BY <1>5, <2>6, LeastIs
    <3> HIDE DEF m, C, D
    <3>2. CASE m \in 1..n
      <4>1. d.rules[m] = rs[m] /\ m \in DOMAIN rs /\ Fires(d.rules[m], p)
        BY <2>n, <2>2, <3>1, <3>2 DEF D, Hits
      <4> QED BY <1>3, <1>6, <2>6, <4>1 DEF m
    <3>3. CASE m \notin 1..n
      <4>1. m - n \in C /\ d.rules[m] = old[m - n]
        BY <2>4, <3>1, <3>3
      <4>2. \A k \in C : m - n <= k
        BY <1>5, <2>n, <2>3, <3>1
      <4>3. Least(C) \in C /\ Least(C) <= m - n
        BY <1>5, <4>1, LeastIs
      <4>4. Least(C) = m - n
        <5>1. Least(C) \in Nat /\ m - n \in Nat /\ m - n <= Least(C)
          BY <1>5, <4>1, <4>2, <4>3
        <5> QED BY <4>3, <5>1
      <4>5. old[Least(C)].do # "drop"
        BY <1>2, <4>1
      <4> QED BY <1>3, <2>6, <4>1, <4>4, <4>5 DEF m
    <3> QED BY <3>2, <3>3
  <2> QED BY <2>5, <2>6
<1>8. CASE d.rules = old \o rs
  <2> DEFINE n == Len(old)
  <2>1. /\ DOMAIN (old \o rs) = 1..(n + Len(rs))
        /\ \A k \in 1..n : (old \o rs)[k] = old[k]
        /\ \A k \in 1..Len(rs) : (old \o rs)[n + k] = rs[k]
    BY <1>1, Joined
  <2>2. /\ DOMAIN d.rules = 1..(n + Len(rs))
        /\ \A k \in 1..n : d.rules[k] = old[k]
        /\ \A k \in 1..Len(rs) : d.rules[n + k] = rs[k]
    BY ONLY <1>8, <2>1
  <2> HIDE DEF n
  <2>n. n \in Nat /\ DOMAIN old = 1..n
    BY <1>4 DEF n
  <2>3. C \subseteq D
    BY <1>4, <2>n, <2>2 DEF Hits
  <2>4. \A k \in D : k \in C \/ (k \notin 1..n /\ d.rules[k].do # "drop")
    <3> SUFFICES ASSUME NEW k \in D
                 PROVE  k \in C \/ (k \notin 1..n /\ d.rules[k].do # "drop")
      OBVIOUS
    <3>1. k \in DOMAIN d.rules /\ d.rules[k].do \in Verdicts /\ Fires(d.rules[k], p)
      BY DEF Hits
    <3>2. CASE k \in 1..n
      BY <2>n, <2>2, <3>1, <3>2 DEF Hits
    <3>3. CASE k \notin 1..n
      <4>1. k - n \in 1..Len(rs) /\ k = n + (k - n)
        BY <1>4, <2>n, <2>2, <3>1, <3>3
      <4>2. d.rules[k] = rs[k - n]
        BY <2>2, <4>1
      <4> QED BY <1>4, <1>6, <3>1, <3>3, <4>1, <4>2
    <3> QED BY <3>2, <3>3
  <2>5. CASE D = {}
    BY <1>2, <1>3, <2>3, <2>5
  <2>6. CASE D # {}
    <3> DEFINE m == Least(D)
    <3>1. m \in D /\ \A k \in D : m <= k
      BY <1>5, <2>6, LeastIs
    <3> HIDE DEF m
    <3>2. CASE m \in C
      <4>1. Least(C) \in C /\ Least(C) <= m
        BY <1>5, <3>2, LeastIs
      <4>2. m <= Least(C)
        BY <2>3, <3>1, <4>1
      <4>3. Least(C) = m
        <5>1. Least(C) \in Nat /\ m \in Nat
          BY <1>5, <3>2, <4>1
        <5> QED BY <4>1, <4>2, <5>1
      <4>4. m \in 1..n
        BY <2>n, <3>2 DEF Hits
      <4>5. d.rules[m] = old[m]
        BY <2>2, <4>4
      <4> HIDE DEF C, D
      <4>6. old[Least(C)].do # "drop"
        BY <1>2, <3>2
      <4> QED BY <1>3, <2>6, <4>3, <4>5, <4>6 DEF m
    <3>3. CASE m \notin C
      <4>1. d.rules[m].do # "drop"
        BY <2>4, <3>1, <3>3
      <4> HIDE DEF C, D
      <4> QED BY <1>3, <2>6, <4>1 DEF m
    <3> QED BY <3>2, <3>3
  <2> QED BY <2>5, <2>6
<1> QED BY <1>7, <1>8 DEF old

\* They do so after a step as well.
LEMMA DecidedNext == ByFirstHit'
BY Decided, PTL

\* When a packet is in the same sets as before, the same rules fire on it and
\* the same chains accept it.
LEMMA SameSets ==
  ASSUME NEW p, \A n : InSet(n, p)' <=> InSet(n, p)
  PROVE  \A c \in Chains : Accepts(c, p)' <=> Accepts(c, p)
<1>1. ASSUME NEW f, NEW v PROVE Matches(f, v, p)' <=> Matches(f, v, p)
  BY DEF Matches
<1>2. ASSUME NEW r PROVE Fires(r, p)' <=> Fires(r, p)
  BY <1>1 DEF Fires
<1>3. ASSUME NEW rules PROVE Hits(rules, p)' = Hits(rules, p)
  BY <1>2 DEF Hits
<1> QED BY <1>3, Decided, DecidedNext DEF ByFirstHit

\* A tool that adds rules to an input chain, none of which drops a packet.
LEMMA MoreRulesKeep ==
  ASSUME IInv, NEW i \in OnHook("input"), NEW rs \in Seq(Rules), NEW p,
         \A n : InSet(n, p)' <=> InSet(n, p),
         \A r \in ToSet(rs) : Fires(r, p) => r.do # "drop",
         \/ chains' = [chains EXCEPT ![i].rules = rs \o chains[i].rules]
         \/ chains' = [chains EXCEPT ![i].rules = chains[i].rules \o rs],
         Passes("input", p)
  PROVE  Passes("input", p)'
<1>1. chains \in Seq(Chains) /\ i \in DOMAIN chains
  BY DEF IInv, StateTyped, OnHook
<1>2. \A k \in DOMAIN chains : chains[k] \in Chains /\ chains[k].rules \in Seq(Rules)
  BY RulesThere
<1>3. PICK new \in Seq(Rules) :
         /\ new = rs \o chains[i].rules \/ new = chains[i].rules \o rs
         /\ chains' = [chains EXCEPT ![i].rules = new]
  <2>1. rs \o chains[i].rules \in Seq(Rules) /\ chains[i].rules \o rs \in Seq(Rules)
    BY <1>1, <1>2, Joined
  <2> QED BY <2>1
<1>4. /\ chains' \in Seq(Chains)
      /\ \A h : OnHook(h)' = OnHook(h)
      /\ chains'[i].policy = chains[i].policy /\ chains'[i].rules = new
      /\ \A k \in DOMAIN chains : k # i => chains'[k] = chains[k]
      /\ DOMAIN chains' = DOMAIN chains
  <2>1. chains' = [chains EXCEPT ![i].rules = new]
    BY <1>3
  <2>2. /\ chains' \in Seq(Chains)
        /\ DOMAIN chains' = DOMAIN chains
        /\ \A h : OnHook(h)' = OnHook(h)
        /\ \A k \in DOMAIN chains :
              /\ chains'[k].policy = chains[k].policy
              /\ chains'[k].hook = chains[k].hook
              /\ chains'[k].rules = IF k = i THEN new ELSE chains[k].rules
        /\ \A k \in DOMAIN chains : k # i => chains'[k] = chains[k]
    BY <1>1, <2>1, EditedChain
  <2> QED BY <1>1, <2>2
<1>5. \A k \in DOMAIN chains' : chains'[k] \in Chains
  BY <1>4, ElementOfSeq, LenProperties
<1>6. \A c \in Chains : Accepts(c, p)' <=> Accepts(c, p)
  BY SameSets
<1>7. \A k \in OnHook("input") : k \in DOMAIN chains /\ Accepts(chains[k], p)
  BY DEF Passes, OnHook
<1>8. ASSUME NEW d \in Chains, d.policy = chains[i].policy, d.rules = new
      PROVE  Accepts(d, p)
  <2> DEFINE c == chains[i]
  <2>1. c \in Chains /\ Accepts(c, p) /\ d.policy = c.policy
    BY <1>2, <1>7, <1>8
  <2>2. d.rules = rs \o c.rules \/ d.rules = c.rules \o rs
    BY <1>3, <1>8
  <2> HIDE DEF c
  <2> QED BY <2>1, <2>2, MoreRulesAccept
<1>9. ASSUME NEW k \in OnHook("input") PROVE Accepts(chains[k], p)'
  <2>1. k \in DOMAIN chains /\ k \in DOMAIN chains'
    BY <1>4, <1>7
  <2>2. \A d \in Chains : d = chains'[k] => Accepts(d, p)
    <3>1. CASE k = i
      BY <1>4, <1>8, <3>1
    <3>2. CASE k # i
      BY <1>4, <1>7, <2>1, <3>2
    <3> QED BY <3>1, <3>2
  <2>3. \A d \in Chains : d = chains'[k] => Accepts(d, p)'
    BY <1>6, <2>2
  <2> QED BY <1>5, <2>1, <2>3
<1> QED BY <1>4, <1>9 DEF Passes

\* A list written for a block holds no packet that is not blocked, before and
\* after, and the other sets are as they were.
LEMMA BlockedElsewhere ==
  ASSUME NEW name, NEW members, NEW p, ~p.abuser,
         lists' = WithList(name, members), p.src \notin members, p.src \notin Members(name)
  PROVE  /\ \A n : InSet(n, p)' <=> InSet(n, p)
         /\ \A f \in Families : ~Fires(DropOf(f, name), p)
<1>1. ~InSet(name, p)
  BY DEF InSet, Members
<1>2. \A n : InSet(n, p)' <=> InSet(n, p)
  BY <1>1 DEF InSet, WithList
<1> QED BY <1>1, <1>2, DropFires

\* The drop rules of a block are put before the others.
LEMMA EnsureDropsIs ==
  ASSUME IInv, NEW i \in OnHook("input"), NEW name \in {"blacklist", BlkList},
         EnsureDrops(i, name)
  PROVE  \E rs \in Seq(Rules) :
            /\ chains' = [chains EXCEPT ![i].rules = rs \o chains[i].rules]
            /\ \A r \in ToSet(rs) : \E f \in Families : r = DropOf(f, name)
<1> DEFINE m6 == MissingDrop(i, name, "saddr6")
           m4 == MissingDrop(i, name, "saddr4")
<1>1. "saddr6" \in Families /\ "saddr4" \in Families
  BY DEF Families
<1>2. /\ m6 \in Seq(Rules) /\ m4 \in Seq(Rules)
      /\ ToSet(m6) \subseteq {DropOf("saddr6", name)}
      /\ ToSet(m4) \subseteq {DropOf("saddr4", name)}
  BY <1>1, MissingDropIs
<1>3. chains' = [chains EXCEPT ![i].rules = (m6 \o m4) \o chains[i].rules]
  BY DEF EnsureDrops, AtStart
<1> HIDE DEF m6, m4
<1>4. m6 \o m4 \in Seq(Rules) /\ ToSet(m6 \o m4) = ToSet(m6) \cup ToSet(m4)
  BY <1>2, JoinedSet
<1> QED BY <1>1, <1>2, <1>3, <1>4

\* A tool does not take away access.
LEMMA ToolKeeps ==
  ASSUME IInv, Tools, NEW p, p.ct # "invalid", ~p.spoofed, ~p.abuser, ~Blocked(p.src)',
         Passes("input", p)
  PROVE  Passes("input", p)'
<1>1. ASSUME chains' = chains, \A n : InSet(n, p)' <=> InSet(n, p)
      PROVE  Passes("input", p)'
  <2>1. \A c \in Chains : Accepts(c, p)' <=> Accepts(c, p)
    BY <1>1, SameSets
  <2>2. \A k \in OnHook("input") : k \in DOMAIN chains /\ chains[k] \in Chains
    BY RulesThere DEF OnHook
  <2>3. \A h : OnHook(h)' = OnHook(h)
    BY <1>1 DEF OnHook
  <2>4. \A k \in OnHook("input") : Accepts(chains[k], p)'
    BY <1>1, <2>1, <2>2 DEF Passes
  <2> QED BY <2>3, <2>4 DEF Passes
<1>2. lists' = lists => \A n : InSet(n, p)' <=> InSet(n, p)
  BY DEF InSet
<1>3. OnHook("input") # {} => FixChain \in OnHook("input") /\ PrimaryInput \in OnHook("input")
  BY Picked DEF IInv, StateTyped
<1>4. ASSUME NEW id \in FixIds, HardenFix(id) PROVE Passes("input", p)'
  <2> DEFINE i == FixChain
             rs == <<Fix(id)>>
  <2>1. i \in OnHook("input") /\ lists' = lists
    BY <1>3, <1>4 DEF HardenFix
  <2>2. chains' = [chains EXCEPT ![i].rules = chains[i].rules \o rs]
    BY <1>4 DEF HardenFix, Appended
  <2>3. Fix(id) \in Rules /\ Fix(id) \in FixLets \cup {Inv, Rpf}
    BY FixesKnown
  <2>4. rs \in Seq(Rules) /\ \A r \in ToSet(rs) : r = Fix(id)
    BY <2>3 DEF ToSet
  <2>5. Fires(Fix(id), p) => Fix(id).do # "drop"
    BY <2>3, NamedFire, NamedRules DEF FixLets
  <2> HIDE DEF i, rs
  <2> QED BY <1>2, <2>1, <2>2, <2>4, <2>5, MoreRulesKeep
<1>5. ASSUME NEW service \in {"ssh"} \cup DOMAIN BanServices, NEW proto \in {"tcp", "udp"},
             NEW ports \in SUBSET Values, OnHook("input") # {}, lists' = lists,
             AtStart(FixChain, BanRules(service, proto, ports))
      PROVE  Passes("input", p)'
  <2> DEFINE i == FixChain
             rs == BanRules(service, proto, ports)
  <2>1. i \in OnHook("input")
    BY <1>3, <1>5
  <2>2. chains' = [chains EXCEPT ![i].rules = rs \o chains[i].rules]
    BY <1>5 DEF AtStart
  <2>3. rs \in Seq(Rules) /\ \A r \in ToSet(rs) : r.do = "ban" \/ r \in BanDrops
    BY BanRulesAre
  <2>4. ASSUME NEW f \in Families, NEW n \in BanSets PROVE ~Fires(DropOf(f, n), p)
    <3>1. ~InSet(n, p)
      BY DEF InSet, IInv, StateTyped
    <3> QED BY <3>1, DropFires
  <2>5. \A r \in BanDrops : ~Fires(r, p)
    BY <2>4 DEF BanDrops
  <2> HIDE DEF i, rs
  <2>6. \A r \in ToSet(rs) : Fires(r, p) => r.do # "drop"
    BY <2>3, <2>5
  <2> QED BY <1>2, <1>5, <2>1, <2>2, <2>3, <2>6, MoreRulesKeep
<1>6. CASE HardenSSHBan
  <2>1. "ssh" \in {"ssh"} \cup DOMAIN BanServices /\ "tcp" \in {"tcp", "udp"}
        /\ {"22"} \in SUBSET Values
    BY DEF Values
  <2> QED BY <1>5, <1>6, <2>1 DEF HardenSSHBan
<1>7. ASSUME NEW service \in DOMAIN BanServices, HardenBan(service)
      PROVE  Passes("input", p)'
  <2> DEFINE form == BanServices[service]
  <2>1. form.proto \in {"tcp", "udp"} /\ form.ports \in SUBSET Values
    BY FormsAssumption DEF Values
  <2>2. OnHook("input") # {} /\ lists' = lists
        /\ AtStart(FixChain, BanRules(service, form.proto, form.ports))
    BY <1>7 DEF HardenBan
  <2> QED BY <1>5, <2>1, <2>2
<1>8. CASE HardenIDS
  <2> DEFINE i == Least(OnHook("forward"))
  <2>1. i \in OnHook("forward")
    BY <1>8, Picked DEF HardenIDS, IInv, StateTyped
  <2>2. chains' = [chains EXCEPT ![i].rules = <<Inspect>> \o chains[i].rules]
    BY <1>8 DEF HardenIDS, AtStart, Inspect
  <2> HIDE DEF i
  <2>3. i \in DOMAIN chains /\ chains[i].hook = "forward" /\ chains[i].rules \in Seq(Rules)
    BY <2>1, RulesThere DEF OnHook
  <2>4. <<Inspect>> \o chains[i].rules \in Seq(Rules)
    BY <2>3, InspectIs, ConcatProperties
  <2>5. chains \in Seq(Chains)
    BY DEF IInv, StateTyped
  <2>6. PICK new \in Seq(Rules) : chains' = [chains EXCEPT ![i].rules = new]
    BY <2>2, <2>4
  <2>7. /\ \A h : OnHook(h)' = OnHook(h)
        /\ \A k \in DOMAIN chains : k # i => chains'[k] = chains[k]
    BY <2>3, <2>5, <2>6, EditedChain
  <2>8. \A k \in OnHook("input") : k \in DOMAIN chains /\ k # i /\ chains[k] \in Chains
    BY <2>3, RulesThere DEF OnHook
  <2>9. \A c \in Chains : Accepts(c, p)' <=> Accepts(c, p)
    BY <1>2, <1>8, SameSets DEF HardenIDS
  <2>10. ASSUME NEW k \in OnHook("input") PROVE Accepts(chains[k], p)'
    <3>1. \A c \in Chains : c = chains[k] => Accepts(c, p)'
      BY <2>9 DEF Passes
    <3>2. chains'[k] = chains[k] /\ chains[k] \in Chains
      BY <2>7, <2>8
    <3> QED BY <3>1, <3>2
  <2> QED BY <2>7, <2>10 DEF Passes
<1>9. ASSUME NEW pp \in AllowPorts, AdvisorAllow(pp[1], pp[2]) PROVE Passes("input", p)'
  <2> DEFINE i == PrimaryInput
             rs == <<Allowing(pp)>>
  <2>1. i \in OnHook("input") /\ lists' = lists
    BY <1>3, <1>9 DEF AdvisorAllow
  <2>2. chains' = [chains EXCEPT ![i].rules = chains[i].rules \o rs]
    BY <1>9 DEF AdvisorAllow, Appended, Allowing
  <2>3. Allowing(pp) \in Rules /\ Allowing(pp).do = "accept"
    BY AllowingIs
  <2>4. rs \in Seq(Rules) /\ \A r \in ToSet(rs) : r.do # "drop"
    BY <2>3 DEF ToSet
  <2> HIDE DEF i, rs
  <2> QED BY <1>2, <2>1, <2>2, <2>4, MoreRulesKeep
<1>10. ASSUME NEW name \in {"blacklist", BlkList}, NEW i \in OnHook("input"),
              EnsureDrops(i, name), NEW members, lists' = WithList(name, members),
              p.src \notin members, p.src \notin Members(name)
       PROVE  Passes("input", p)'
  <2>1. PICK rs \in Seq(Rules) :
            /\ chains' = [chains EXCEPT ![i].rules = rs \o chains[i].rules]
            /\ \A r \in ToSet(rs) : \E f \in Families : r = DropOf(f, name)
    BY <1>10, EnsureDropsIs
  <2>2. /\ \A n : InSet(n, p)' <=> InSet(n, p)
        /\ \A f \in Families : ~Fires(DropOf(f, name), p)
    BY <1>10, BlockedElsewhere
  <2>3. \A r \in ToSet(rs) : Fires(r, p) => r.do # "drop"
    BY <2>1, <2>2
  <2> QED BY <2>1, <2>2, <2>3, MoreRulesKeep
<1>11. ASSUME NEW host \in Hosts, QuickBlock(host) PROVE Passes("input", p)'
  <2>1. CASE host \in Members("blacklist")
    <3>1. chains' = chains /\ lists' = lists
      BY <1>11, <2>1 DEF QuickBlock
    <3> QED BY <1>1, <1>2, <3>1
  <2>2. CASE host \notin Members("blacklist")
    <3> DEFINE members == Members("blacklist") \cup {host}
    <3>1. lists' = WithList("blacklist", members)
      BY <1>11, <2>2 DEF QuickBlock
    <3>2. Members("blacklist")' = members
      BY <3>1 DEF WithList, Members
    <3>3. p.src \notin members
      BY <3>2 DEF Blocked
    <3>4. p.src \notin Members("blacklist")
      BY <3>3
    <3> HIDE DEF members
    <3>5. CASE OnHook("input") = {}
      <4>1. chains' = chains
        BY <1>11, <2>2, <3>5 DEF QuickBlock
      <4>2. \A n : InSet(n, p)' <=> InSet(n, p)
        BY <3>1, <3>3, <3>4, BlockedElsewhere
      <4> QED BY <1>1, <4>1, <4>2
    <3>6. CASE OnHook("input") # {}
      <4>1. EnsureDrops(PrimaryInput, "blacklist")
        BY <1>11, <2>2, <3>6 DEF QuickBlock
      <4> QED BY <1>3, <1>10, <3>1, <3>3, <3>4, <3>6, <4>1
    <3> QED BY <3>5, <3>6
  <2> QED BY <2>1, <2>2
<1>12. CASE BlockCountry
  <2> DEFINE members == IF BlkList \in DOMAIN lists THEN lists[BlkList] ELSE Country
  <2>1. /\ OnHook("input") # {} /\ EnsureDrops(PrimaryInput, BlkList)
        /\ lists' = WithList(BlkList, members)
    BY <1>12 DEF BlockCountry
  <2>2. story'.country = TRUE
    BY <1>12 DEF BlockCountry, IInv, StateTyped, Story
  <2>3. Members(BlkList)' = members
    BY <2>1 DEF WithList, Members
  <2>4. p.src \notin members
    BY <2>2, <2>3 DEF Blocked
  <2>5. p.src \notin Members(BlkList)
    BY <2>4 DEF Members
  <2> HIDE DEF members
  <2> QED BY <1>3, <1>10, <2>1, <2>4, <2>5
<1>13. CASE BlockCountryFails
  <2>1. chains' = chains /\ lists' = WithList(BlkList, {}) /\ Members(BlkList) = {}
    BY <1>13 DEF BlockCountryFails, Members
  <2>2. \A n : InSet(n, p)' <=> InSet(n, p)
    BY <2>1, BlockedElsewhere
  <2> QED BY <1>1, <2>1, <2>2
<1> QED BY <1>4, <1>6, <1>7, <1>8, <1>9, <1>11, <1>12, <1>13 DEF Tools

\* "The fixes only ever ADD accept rules or drop clearly-bad traffic (invalid,
\* spoofed)" (posture.go:18-20), and so do all the tools, whatever the rules
\* were, edited by hand or not: no packet loses access, unless it is invalid,
\* spoofed, banned or from a source that is blocked by now.
THEOREM AccessKept == RulebookSpec => ToolsKeepAccess
<1>1. ASSUME IInv, [Next]_rulebookVars
      PROVE  [story.preset = story'.preset /\ story.edited = story'.edited /\ Tools =>
                \A p \in Incoming :
                    /\ p.ct # "invalid" /\ ~p.spoofed /\ ~p.abuser
                    /\ ~Blocked(p.src)'
                    /\ Passes("input", p)
                    => Passes("input", p)']_rulebookVars
  BY <1>1, ToolKeeps
<1> QED BY <1>1, IInvHolds, PTL DEF RulebookSpec, ToolsKeepAccess
=============================================================================
