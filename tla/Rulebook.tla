------------------------------ MODULE Rulebook ------------------------------
(***************************************************************************)
(* What the one-click tools write into the object model, and what the      *)
(* pages then say about it: the presets (internal/web/presets.go), the     *)
(* fixes and recipes of the Posture page (internal/web/posture.go), the    *)
(* advisor's Allow (internal/web/advisor.go), Block and Block country      *)
(* (internal/web/lists.go, blockcountry.go), the lint (internal/render/    *)
(* lint.go), the lock-out warnings (internal/web/lockout.go) and the       *)
(* exposure findings (internal/advisor/analyze.go).                        *)
(*                                                                         *)
(* A rule is a set of conditions and what it does.  Netfilter evaluates    *)
(* the rules for the packets of the instance; the pages look at them with  *)
(* the predicates of the code.  Only the model changes here, which the     *)
(* apply pipeline (ApplyPipeline) then loads.                              *)
(***************************************************************************)
EXTENDS Naturals, Sequences, FiniteSets, SequencesExt

CONSTANTS
    V4, V6,         \* addresses
    Nobody,         \* the address behind loopback: an operator over a tunnel
    Outsider,       \* the advisor's stand-in for the internet
    Country,        \* the addresses of the country that may be blocked
    UiPort,         \* the port of nftably, "none" when it is not known
    TraceIifs,      \* the interfaces the pages may trace on, "none" when they find none
    AllowPorts,     \* <<protocol, port>> the advisor may be asked to allow
    BanServices,    \* [service -> protocol and ports] of the auto-ban form
    FirstLists,     \* what the address lists may hold at the start
    Incoming,       \* packets to the box
    Transit,        \* packets through the box
    MaxClicks,      \* bound: actions of the operator
    MaxBreaks,      \* bound: presets that break off, lookups that fail
    BreakPoints     \* bound: <<c, n>>, where a preset breaks off (Unfinished)

Hosts    == V4 \cup V6
Clients  == Hosts \cup {Nobody}
Presets  == {"bgp-router", "secure-server", "wireguard", "home-router",
             "web-server", "database-server", "container-host"}
BfdPorts == {"3784", "3785", "4784"}
BlkList  == "blk_xx"

\* The dynamic set of an auto-ban (banRules); the recipe for SSH has its own.
Abusers(service) == service \o "_abusers"
BanSets == {Abusers(service) : service \in {"ssh"} \cup DOMAIN BanServices}

\* The names the code gives to lists.
OwnLists == {"mgmt", "blacklist", "peers", "app", BlkList}

\* Packets: loopback is where the operator over a tunnel comes from.
ASSUME PacketsAssumption ==
    /\ Nobody \notin Hosts /\ Outsider \in V4 /\ "lo" \notin TraceIifs
    /\ \A p \in Incoming \cup Transit :
           /\ p.src \in Clients /\ (p.iif = "lo" <=> p.src = Nobody)
           /\ p.ct \in {"new", "established", "invalid"}
           /\ {p.spoofed, p.abuser} \subseteq BOOLEAN
           /\ p.port \notin {"none", "output", "forward"} /\ p.iif # "none"

\* Forms and lists.  Nothing in the code keeps an operator from naming a list
\* x_abusers next to an auto-ban of x, and one nft set would then be declared
\* twice: that ruleset is left out.
ASSUME FormsAssumption ==
    /\ \A pp \in AllowPorts : pp = <<pp[1], pp[2]>> /\ pp[1] \in {"tcp", "udp"}
    /\ \A service \in DOMAIN BanServices : BanServices[service].proto \in {"tcp", "udp"}
    /\ BanSets \cap OwnLists = {}
    /\ Country \subseteq Hosts
    /\ \A first \in FirstLists : \A n \in DOMAIN first :
           n \notin BanSets /\ first[n] \subseteq Hosts

ASSUME BoundsAssumption ==
    MaxClicks \in Nat /\ MaxBreaks \in Nat /\ BreakPoints \subseteq Nat \X Nat

VARIABLES
    chains,     \* the base chains of the model, in model order
    lists,      \* the address lists by name
    clicks,     \* actions so far
    breaks,     \* failures so far
    story       \* history: what was clicked, and what the pages answered

rulebookVars == <<chains, lists, clicks, breaks, story>>

-----------------------------------------------------------------------------
(* Rules.  match maps the fields a rule tests to the values it accepts;    *)
(* saddr4 and saddr6 name a list (@<name>4, @<name>6), ct.state            *)
(* established stands for "established, related".                          *)

Fields  == {"iif", "oif", "ct", "saddr4", "saddr6", "tcp", "udp",
            "icmp4", "icmp6", "rpf"}
Actions == {"accept", "drop", "count", "ban", "queue", "masquerade"}

\* addRule: a rule that is switched on.
Rule(match, do) == [on |-> TRUE, match |-> match, do |-> do]

\* What a rule tests: nothing, one field, one more field.
NoMatch == [f \in {} |-> {}]
Is(field, values) == [f \in {field} |-> values]
And(field, values, match) ==
    [f \in {field} \cup DOMAIN match |-> IF f = field THEN values ELSE match[f]]

\* The address test of a rule, for one family each.
BothFamilies(list, match, do) ==
    <<Rule(And("saddr4", {list}, match), do), Rule(And("saddr6", {list}, match), do)>>
From(list, proto, ports) == BothFamilies(list, Is(proto, ports), "accept")
DropFrom(list) == BothFamilies(list, NoMatch, "drop")

Icmp(family) == Rule(Is(family, {"essential"}), "accept")

\* (mutant) Replies are accepted before the block list is looked at.
RepliesFirst ==
    <<Rule(Is("iif", {"lo"}), "accept"), Rule(Is("ct", {"invalid"}), "drop"),
      Rule(Is("ct", {"established"}), "accept")>>
    \o DropFrom("blacklist") \o <<Icmp("icmp6"), Icmp("icmp4")>>

BaseInput ==
    <<Rule(Is("iif", {"lo"}), "accept"), Rule(Is("ct", {"invalid"}), "drop")>>
    \o DropFrom("blacklist")
    \o <<Rule(Is("ct", {"established"}), "accept"), Icmp("icmp6"), Icmp("icmp4")>>

MgmtAccess ==
    From("mgmt", "tcp", {"22"})
    \o (IF UiPort = "none" THEN <<>> ELSE From("mgmt", "tcp", {UiPort}))

\* Counts and logs, and decides nothing.
DropLog == <<Rule(Is("ct", {"new"}), "count")>>

FromLan(proto, ports) ==
    Rule(And("iif", {"lan"}, Is(proto, ports)), "accept")

\* What a preset accepts besides the base.
ServiceRules(preset) ==
    CASE preset = "bgp-router" ->
            From("peers", "tcp", {"179"}) \o From("peers", "udp", BfdPorts)
      [] preset = "wireguard" ->
            <<Rule(Is("udp", {"51820"}), "accept"), Rule(Is("iif", {"wg0"}), "accept")>>
      [] preset = "home-router" ->
            <<FromLan("tcp", {"22"}), FromLan("udp", {"67"}),
              FromLan("udp", {"53"}), FromLan("tcp", {"53"})>>
            \o (IF UiPort = "none" THEN <<>> ELSE <<FromLan("tcp", {UiPort})>>)
      [] preset = "web-server" -> <<Rule(Is("tcp", {"80", "443"}), "accept")>>
      [] preset = "database-server" -> From("app", "tcp", {"5432", "3306"})
      [] OTHER -> <<>>

InputRules(preset) ==
    BaseInput \o MgmtAccess \o ServiceRules(preset) \o DropLog

ForwardRules(preset) ==
    CASE preset = "bgp-router" -> <<Rule(Is("ct", {"invalid"}), "drop")>>
      [] preset = "wireguard" ->
            <<Rule(Is("ct", {"established"}), "accept"),
              Rule(Is("iif", {"wg0"}), "accept"), Rule(Is("oif", {"wg0"}), "accept")>>
      [] preset = "home-router" ->
            <<Rule(Is("ct", {"invalid"}), "drop"),
              Rule(Is("ct", {"established"}), "accept"),
              Rule(And("iif", {"lan"}, Is("oif", {"wan"})), "accept")>>
      [] OTHER -> <<>>

\* Only the BGP router keeps its own chatter in.
OutputRules(preset) ==
    IF preset # "bgp-router" THEN <<>>
    ELSE <<Rule(Is("ct", {"invalid"}), "drop"),
           Rule(Is("udp", {"5353", "5355", "137", "138", "1900", "67", "68"}), "drop"),
           Rule(Is("tcp", {"139", "445"}), "drop")>>

-----------------------------------------------------------------------------
(* Building a preset: one statement after the other                        *)

Chain(hook, policy, rules) == [hook |-> hook, policy |-> policy, rules |-> rules]

\* A container host has no forward chain, which Docker owns; a BGP router lets
\* transit through.
ForwardChain(preset) ==
    CASE preset = "container-host" -> <<>>
      [] preset = "bgp-router" -> <<Chain("forward", "accept", ForwardRules(preset))>>
      [] OTHER                 -> <<Chain("forward", "drop", ForwardRules(preset))>>

\* The two tables of a preset, their chains in the order they are made.
FilterTable(preset) ==
    <<Chain("input", "drop", InputRules(preset))>> \o ForwardChain(preset)
    \o <<Chain("output", "accept", OutputRules(preset))>>
NatTable(preset) ==
    IF preset # "home-router" THEN <<>>
    ELSE <<Chain("prerouting", "none", <<>>),
           Chain("postrouting", "none", <<Rule(Is("oif", {"wan"}), "masquerade")>>)>>

Built(preset) == FilterTable(preset) \o NatTable(preset)

\* Statements make all chains of a table first and then the rules, chain after
\* chain.  What is there of a table when the next rule of chain c, of which
\* there are n, is not made; with c = 0, when the next chain is not.
Unfinished(table, c, n) ==
    IF c = 0 THEN [i \in 1..n |-> [table[i] EXCEPT !.rules = <<>>]]
    ELSE [i \in DOMAIN table |->
             [table[i] EXCEPT !.rules =
                 IF i < c THEN @ ELSE SubSeq(@, 1, IF i = c THEN n ELSE 0)]]

\* There is a next statement of table after point <<c, n>>.
Within(table, c, n) ==
    \/ c = 0 /\ n < Len(table)
    \/ c \in DOMAIN table /\ n < Len(table[c].rules)

Members(name) == IF name \in DOMAIN lists THEN lists[name] ELSE {}

ListsOf(preset) ==
    {"mgmt", "blacklist"}
    \cup (CASE preset = "bgp-router" -> {"peers"}
            [] preset = "database-server" -> {"app"}
            [] OTHER -> {})

WithList(name, members) ==
    [n \in DOMAIN lists \cup {name} |-> IF n = name THEN members ELSE lists[n]]

\* (mutant) Seeds an empty list with the loopback address as well.
EnsuredWithLoopback(names, client) ==
    [n \in DOMAIN lists \cup names |->
        IF n = "mgmt" /\ "mgmt" \in names /\ Members(n) = {} THEN {client} ELSE Members(n)]

\* ensureList keeps what is there; seedMgmtWithClient puts the operator on an
\* empty mgmt, unless the address is loopback, which no list takes.
Ensured(names, client) ==
    [n \in DOMAIN lists \cup names |->
        IF n = "mgmt" /\ "mgmt" \in names /\ Members(n) = {} THEN {client} \cap Hosts
        ELSE Members(n)]

\* The lists that are there when a preset breaks off before its first table:
\* the one for the application comes later, blacklist after the others.
EarlyLists(preset) ==
    LET early == ListsOf(preset) \ {"app"}
    IN  {names \in SUBSET early : /\ names # {} => "mgmt" \in names
                                  /\ "blacklist" \in names => names = early}

\* The lists that are there at point <<c, n>> of the filter table.
ListsAt(preset, c, n) ==
    LET base == Len(BaseInput \o MgmtAccess)
    IN  {names \in {ListsOf(preset), ListsOf(preset) \ {"app"}} :
            IF "app" \in names THEN c # 0 /\ n >= base
            ELSE "app" \in ListsOf(preset) => c = 0 \/ n <= base}

-----------------------------------------------------------------------------
(* What netfilter does                                                     *)

\* A set that is no list is the dynamic set of an auto-ban.
InSet(name, p) ==
    IF name \in DOMAIN lists THEN p.src \in lists[name] ELSE p.abuser

Matches(field, values, p) ==
    CASE field = "iif"    -> p.iif \in values
      [] field = "oif"    -> p.oif \in values
      [] field = "ct"     -> p.ct \in values
      [] field = "rpf"    -> p.spoofed
      [] field = "saddr4" -> p.src \in V4 /\ \E n \in values : InSet(n, p)
      [] field = "saddr6" -> p.src \in V6 /\ \E n \in values : InSet(n, p)
      [] OTHER            -> p.proto = field /\ p.port \in values

Fires(r, p) == r.on /\ \A f \in DOMAIN r.match : Matches(f, r.match[f], p)

\* An NFQUEUE with bypass and nobody listening accepts.
Verdicts == {"accept", "drop", "queue"}

\* The first rule that fires with a verdict, Len + 1 when none does.
Decider(rules, p) ==
    LET hit(i) == rules[i].do \in Verdicts /\ Fires(rules[i], p)
    IN  CHOOSE i \in 1..(Len(rules) + 1) :
            /\ i \in DOMAIN rules => hit(i)
            /\ \A j \in 1..(i - 1) : ~hit(j)

Accepts(c, p) ==
    LET i == Decider(c.rules, p)
    IN  IF i \in DOMAIN c.rules THEN c.rules[i].do # "drop" ELSE c.policy # "drop"

OnHook(hook) == {i \in DOMAIN chains : chains[i].hook = hook}

\* Every base chain on the hook has its say.
Passes(hook, p) == \A i \in OnHook(hook) : Accepts(chains[i], p)

-----------------------------------------------------------------------------
(* What the pages see: predicates on rules                                 *)

\* matchHas with a port searches the text of the value: 2222 contains 22.
TextHas22 == {"22", "2222"}
Has(r, field) == field \in DOMAIN r.match
HasValue(r, field, values) == Has(r, field) /\ r.match[field] \cap values # {}

\* inputView: all input chains together, and the one to put fixes into: the
\* first that drops by default, else the first.
InputView == UNION {ToSet(chains[i].rules) : i \in OnHook("input")}
Dropping(hook) == {i \in OnHook(hook) : chains[i].policy = "drop"}
Least(S) == CHOOSE i \in S : \A j \in S : i <= j

FixChain ==
    Least(IF Dropping("input") # {} THEN Dropping("input") ELSE OnHook("input"))

\* primaryInputChainID
PrimaryInput == Least(OnHook("input"))

\* The accepts of SSH, and those of them that look at the source.
SshAccepts == {r \in InputView : r.on /\ r.do = "accept" /\ HasValue(r, "tcp", TextHas22)}
SshScoped  == {r \in SshAccepts : Has(r, "saddr4") \/ Has(r, "saddr6")}

\* (mutant) One that looks at the source is enough.
SshPassesOnce == SshScoped # {}

\* None is open.
SshPasses == SshAccepts # {} /\ SshAccepts = SshScoped

Passing(check) ==
    LET view  == {r \in InputView : r.on}
        lets  == {r \in view : r.do = "accept"}
        drops == {r \in view : r.do = "drop"}
    IN  CASE check = "default-deny" -> Dropping("input") # {}
          [] check = "loopback"     -> \E r \in lets : HasValue(r, "iif", {"lo"})
          [] check = "established"  -> \E r \in lets : HasValue(r, "ct", {"established"})
          [] check = "invalid"      -> \E r \in drops : HasValue(r, "ct", {"invalid"})
          [] check = "v6icmp"       -> \E r \in lets : Has(r, "icmp6")
          [] check = "rpf"          -> \E r \in drops : Has(r, "rpf")
          [] check = "ssh"          -> SshPasses
          [] check = "v6-parity"    -> /\ \E r \in view : Has(r, "saddr4")
                                       /\ \E r \in view : Has(r, "saddr6")

-----------------------------------------------------------------------------
(* The lint                                                                *)

AcceptsEstablished(rules) ==
    \E r \in rules : r.on /\ r.do = "accept" /\ HasValue(r, "ct", {"established"})

\* (mutant) Rules that name no port are passed over.
AcceptsNamedPort(rules, port) ==
    \E r \in rules : /\ r.on /\ r.do = "accept"
                     /\ ~Has(r, "udp")
                     /\ HasValue(r, "tcp", {port})

\* An accept that names no TCP port counts for every port.
AcceptsPort(rules, port) ==
    \E r \in rules : /\ r.on /\ r.do = "accept"
                     /\ ~Has(r, "udp")
                     /\ Has(r, "tcp") => port \in r.match["tcp"]

RulesIn(S) == UNION {ToSet(chains[i].rules) : i \in S}

\* What the lint warns of: the ports nobody gets in by, and the hooks that
\* drop by default without letting replies through.
LintWarns ==
    {port \in {"22", UiPort} \ {"none"} :
        /\ Dropping("input") # {}
        /\ ~AcceptsPort(RulesIn(Dropping("input")), port)
        /\ ~AcceptsEstablished(RulesIn(Dropping("input")))}
    \cup
    {hook \in {"output", "forward"} :
        Dropping(hook) # {} /\ ~AcceptsEstablished(RulesIn(Dropping(hook)))}

-----------------------------------------------------------------------------
(* The packet simulator on these rules, and what the pages ask it          *)

\* A list that no table carries, such as the set of an auto-ban, is not known;
\* neither are ICMP types, the reverse path and an interface left open.
Traced(field, values, p) ==
    CASE field \in {"icmp4", "icmp6", "rpf"} -> "unknown"
      [] field = "iif" /\ p.iif = "none" -> "unknown"
      [] field = "oif" /\ p.oif = "none" -> "unknown"
      [] field \in {"saddr4", "saddr6"} /\ ~(values \subseteq DOMAIN lists) ->
            IF p.src \in (IF field = "saddr4" THEN V4 ELSE V6) THEN "unknown" ELSE "no"
      [] OTHER -> IF Matches(field, values, p) THEN "yes" ELSE "no"

TracedRule(r, p) ==
    LET results == {Traced(f, r.match[f], p) : f \in DOMAIN r.match}
    IN  IF "no" \in results THEN "no"
        ELSE IF "unknown" \in results THEN "unknown" ELSE "yes"

\* Simulate on the input hook: the first base chain decides; the answer is
\* uncertain when a rule on the way was not understood.
Trace(p) ==
    IF OnHook("input") = {} THEN [verdict |-> "accept", certain |-> TRUE]
    ELSE LET c    == chains[PrimaryInput]
             res  == [i \in DOMAIN c.rules |->
                        IF c.rules[i].on THEN TracedRule(c.rules[i], p) ELSE "no"]
             hits == {i \in DOMAIN c.rules :
                        res[i] = "yes" /\ c.rules[i].do \in {"accept", "drop"}}
             end  == IF hits = {} THEN Len(c.rules) + 1 ELSE Least(hits)
         IN  [verdict |-> IF hits = {} THEN c.policy ELSE c.rules[end].do,
              certain |-> \A i \in DOMAIN c.rules : i < end => res[i] # "unknown"]

NewTcp(iif, src, port) ==
    [iif |-> iif, oif |-> "none", proto |-> "tcp", port |-> port, ct |-> "new",
     src |-> src, spoofed |-> FALSE, abuser |-> FALSE]

\* simulatedLockoutWarnings
LockoutWarns(iif, client) ==
    {port \in {"22", UiPort} \ {"none"} :
        /\ client \in Hosts
        /\ Trace(NewTcp(iif, client, port)) = [verdict |-> "drop", certain |-> TRUE]}

\* listenerFinding: what a listener on the port is said to be.
FromOutside(iif, proto, port) == [NewTcp(iif, Outsider, port) EXCEPT !.proto = proto]
Finding(iif, proto, port) == Trace(FromOutside(iif, proto, port))

-----------------------------------------------------------------------------
(* The operator clicks                                                     *)

NoStory == [preset |-> "none", by |-> Nobody, warned |-> FALSE, edited |-> FALSE,
            allowed |-> {}, saved |-> {}, already |-> {}, country |-> FALSE]

\* A model of nothing, or of one bare input chain made by hand.
Init ==
    /\ chains \in {<<>>} \cup
                  {<<[hook |-> "input", policy |-> pol, rules |-> <<>>]>> :
                      pol \in {"accept", "drop"}}
    /\ lists \in FirstLists
    /\ clicks = 0 /\ breaks = 0
    /\ story = NoStory

Click == clicks < MaxClicks /\ clicks' = clicks + 1
Break == breaks < MaxBreaks /\ breaks' = breaks + 1

\* (mutant) Recipe rules go to the end as well.
AtEnd(i, rules) == chains' = [chains EXCEPT ![i].rules = @ \o rules]

\* createChainRule, at either end of chain i.
AtStart(i, rules) == chains' = [chains EXCEPT ![i].rules = rules \o @]
Appended(i, rules) == chains' = [chains EXCEPT ![i].rules = @ \o rules]

\* handlePresetApply: every table goes, the lists stay, and an empty mgmt is
\* pointed out.  The seeding may fail, which nobody looks at.
ApplyPreset(preset, client) ==
    /\ Click
    /\ chains' = Built(preset)
    /\ \/ lists' = Ensured(ListsOf(preset), client) /\ UNCHANGED breaks
       \/ lists' = Ensured(ListsOf(preset), Nobody) /\ Break
    /\ story' = [story EXCEPT !.preset = preset, !.by = client,
                    !.warned = lists'["mgmt"] = {}, !.edited = FALSE,
                    !.allowed = {}, !.country = FALSE]

\* Where a table begins: with an input chain, or with that of the nat table.
TableStarts == {i \in DOMAIN chains : chains[i].hook \in {"input", "prerouting"}}

\* A table is not deleted: those before it are gone, the lists untouched.
ResetBreaksOff ==
    /\ \E i \in TableStarts : chains' = SubSeq(chains, i, Len(chains))
    /\ UNCHANGED lists

\* No table is there yet, and perhaps not all of the lists.
ListsBreakOff(preset, client) ==
    /\ chains' = <<>>
    /\ \E names \in EarlyLists(preset) : lists' = Ensured(names, client)

\* A chain or a rule is not made.
BuildBreaksOff(preset, client) ==
    \E b \in BreakPoints :
        \/ /\ Within(FilterTable(preset), b[1], b[2])
           /\ chains' = Unfinished(FilterTable(preset), b[1], b[2])
           /\ \E names \in ListsAt(preset, b[1], b[2]) : lists' = Ensured(names, client)
        \/ /\ Within(NatTable(preset), b[1], b[2])
           /\ chains' = FilterTable(preset) \o Unfinished(NatTable(preset), b[1], b[2])
           /\ lists' = Ensured(ListsOf(preset), client)

\* A statement fails: the model keeps what was done.
PresetBreaksOff(preset, client) ==
    /\ Click /\ Break
    /\ \/ ResetBreaksOff
       \/ ListsBreakOff(preset, client)
       \/ BuildBreaksOff(preset, client)
    /\ story' = [story EXCEPT !.preset = "none", !.edited = TRUE,
                    !.allowed = {}, !.country = FALSE]

\* (mutant) What conntrack has not seen yet is taken for invalid.
FixNewToo(id) == Rule(Is("ct", {"new", "invalid"}), "drop")

Fix(id) ==
    CASE id = "loopback"    -> Rule(Is("iif", {"lo"}), "accept")
      [] id = "established" -> Rule(Is("ct", {"established"}), "accept")
      [] id = "invalid"     -> Rule(Is("ct", {"invalid"}), "drop")
      [] id = "v6icmp"      -> Icmp("icmp6")
      [] id = "rpf"         -> Rule(Is("rpf", {}), "drop")
FixIds == {"loopback", "established", "invalid", "v6icmp", "rpf"}

\* handleHardenFix; nothing keeps a fix from being applied twice.
HardenFix(id) ==
    /\ Click
    /\ OnHook("input") # {}
    /\ Appended(FixChain, <<Fix(id)>>)
    /\ UNCHANGED <<lists, breaks, story>>

\* banRules: two rules that drop, two that detect, on top of the chain.
BanRules(service, proto, ports) ==
    LET new  == Is("ct", {"new"})
        what == IF ports = {} THEN new ELSE And(proto, ports, new)
    IN  DropFrom(Abusers(service)) \o <<Rule(what, "ban"), Rule(what, "ban")>>

\* hasBanRule on the whole view: a ban of any service, on or off.
SSHBanActive == \E r \in InputView : r.do = "ban"

\* handleHardenSSHBan
HardenSSHBan ==
    /\ Click
    /\ OnHook("input") # {} /\ ~SSHBanActive
    /\ AtStart(FixChain, BanRules("ssh", "tcp", {"22"}))
    /\ UNCHANGED <<lists, breaks, story>>

\* handleHardenBan, with a valid form; refused when rules name its set.
HardenBan(service) ==
    LET form == BanServices[service] IN
    /\ Click
    /\ OnHook("input") # {}
    /\ \A r \in InputView, f \in {"saddr4", "saddr6"} :
           ~HasValue(r, f, {Abusers(service)})
    /\ AtStart(FixChain, BanRules(service, form.proto, form.ports))
    /\ UNCHANGED <<lists, breaks, story>>

\* handleHardenIDS: a switched-off rule on top of the first forward chain.
HardenIDS ==
    /\ Click
    /\ OnHook("forward") # {}
    /\ \A r \in ToSet(chains[Least(OnHook("forward"))].rules) : r.do # "queue"
    /\ AtStart(Least(OnHook("forward")),
               <<[Rule(NoMatch, "queue") EXCEPT !.on = FALSE]>>)
    /\ UNCHANGED <<lists, breaks, story>>

\* handleAdvisorAllow
AdvisorAllow(proto, port) ==
    /\ Click
    /\ OnHook("input") # {}
    /\ Appended(PrimaryInput, <<Rule(Is(proto, {port}), "accept")>>)
    /\ story' = [story EXCEPT !.allowed = @ \cup {<<proto, port>>}]
    /\ UNCHANGED <<lists, breaks>>

\* dropRuleExists: a rule that is switched off counts.
HasDrop(i, r) ==
    \E q \in ToSet(chains[i].rules) :
        /\ q.do = "drop"
        /\ \A f \in DOMAIN r.match : HasValue(q, f, r.match[f])
MissingDrop(i, name, f) ==
    LET r == Rule(Is(f, {name}), "drop")
    IN  IF HasDrop(i, r) THEN <<>> ELSE <<r>>

\* (mutant) The drop rules go to the end.
EnsureDropsLate(i, name) ==
    Appended(i, MissingDrop(i, name, "saddr4") \o MissingDrop(i, name, "saddr6"))

\* ensureBlockDropRules: the rule for each family that is not there goes to
\* the start, one before the other.
EnsureDrops(i, name) ==
    AtStart(i, MissingDrop(i, name, "saddr6") \o MissingDrop(i, name, "saddr4"))

\* handleQuickBlock: an operator cannot block the own address, an address on
\* the list already is reported as blocked, and drop rules are only looked
\* after when there is an input chain.
QuickBlock(host) ==
    /\ Click
    /\ Clients \ {host} # {}
    /\ IF host \in Members("blacklist")
       THEN /\ story' = [story EXCEPT !.already = @ \cup {host}]
            /\ UNCHANGED <<chains, lists>>
       ELSE /\ lists' = WithList("blacklist", Members("blacklist") \cup {host})
            /\ IF OnHook("input") = {} THEN UNCHANGED chains
               ELSE EnsureDrops(PrimaryInput, "blacklist")
            /\ story' = [story EXCEPT !.saved = @ \cup {host}]
    /\ UNCHANGED breaks

\* handleBlockCountry: the list is filled when it is made, and only then.
BlockCountry ==
    /\ Click
    /\ OnHook("input") # {}
    /\ EnsureDrops(PrimaryInput, BlkList)
    /\ lists' = WithList(BlkList, IF BlkList \in DOMAIN lists THEN lists[BlkList]
                                 ELSE Country)
    /\ story' = [story EXCEPT !.country = TRUE]
    /\ UNCHANGED breaks

\* The lookup fails or finds nothing: the list is there, and empty.
BlockCountryFails ==
    /\ Click /\ Break
    /\ OnHook("input") # {} /\ BlkList \notin DOMAIN lists
    /\ lists' = WithList(BlkList, {})
    /\ UNCHANGED <<chains, story>>

\* By hand: a rule is switched on or off, an input chain is added.
ToggleRule(i, j) ==
    /\ Click
    /\ chains' = [chains EXCEPT ![i].rules[j].on = ~@]
    /\ story' = [story EXCEPT !.edited = TRUE]
    /\ UNCHANGED <<lists, breaks>>

AddInputChain(policy) ==
    /\ Click
    /\ Cardinality(OnHook("input")) < 2
    /\ chains' = Append(chains, [hook |-> "input", policy |-> policy, rules |-> <<>>])
    /\ story' = [story EXCEPT !.edited = TRUE]
    /\ UNCHANGED <<lists, breaks>>

Tools ==
    \/ \E id \in FixIds : HardenFix(id)
    \/ HardenSSHBan
    \/ \E service \in DOMAIN BanServices : HardenBan(service)
    \/ HardenIDS
    \/ \E pp \in AllowPorts : AdvisorAllow(pp[1], pp[2])
    \/ \E host \in Hosts : QuickBlock(host)
    \/ BlockCountry
    \/ BlockCountryFails

Next ==
    \/ \E preset \in Presets, client \in Clients :
           ApplyPreset(preset, client) \/ PresetBreaksOff(preset, client)
    \/ Tools
    \/ \E i \in DOMAIN chains : \E j \in DOMAIN chains[i].rules : ToggleRule(i, j)
    \/ \E policy \in {"accept", "drop"} : AddInputChain(policy)

RulebookSpec == Init /\ [][Next]_rulebookVars

-----------------------------------------------------------------------------
(* What the presets promise, from the points their cards list              *)

\* Sources that are dropped before anything else.
Blocked(src) ==
    \/ src \in Members("blacklist")
    \/ story.country /\ src \in Members(BlkList)

Offered(preset, p) ==
    LET tcp(ports) == p.proto = "tcp" /\ p.port \in ports
        udp(ports) == p.proto = "udp" /\ p.port \in ports
    IN  CASE preset = "bgp-router" ->
                p.src \in Members("peers") /\ (tcp({"179"}) \/ udp(BfdPorts))
          [] preset = "wireguard" -> p.iif = "wg0" \/ udp({"51820"})
          [] preset = "home-router" ->
                p.iif = "lan" /\ (tcp({"22", UiPort, "53"}) \/ udp({"67", "53"}))
          [] preset = "web-server" -> tcp({"80", "443"})
          [] preset = "database-server" ->
                p.src \in Members("app") /\ tcp({"5432", "3306"})
          [] OTHER -> FALSE

\* Who gets in: loopback, replies, ICMP, management and what is offered.
Promised(preset, p) ==
    \/ p.iif = "lo"
    \/ /\ ~Blocked(p.src) /\ p.ct # "invalid"
       /\ \/ p.ct = "established"
          \/ p.proto \in {"icmp4", "icmp6"} /\ p.port = "essential"
          \/ p.src \in Members("mgmt") /\ p.proto = "tcp" /\ p.port \in {"22", UiPort}
          \/ Offered(preset, p)
          \/ <<p.proto, p.port>> \in story.allowed

\* What is routed on.
Routed(preset, p) ==
    CASE preset = "container-host" -> TRUE
      [] preset = "bgp-router"  -> p.ct # "invalid"
      [] preset = "wireguard"   -> p.ct = "established" \/ "wg0" \in {p.iif, p.oif}
      [] preset = "home-router" -> /\ p.ct # "invalid"
                                   /\ \/ p.ct = "established"
                                      \/ p.iif = "lan" /\ p.oif = "wan"
      [] OTHER                  -> FALSE

-----------------------------------------------------------------------------
(* Properties                                                              *)

RulebookTypeOK ==
    /\ \A i \in DOMAIN chains :
           /\ chains[i].hook \in {"input", "forward", "output", "prerouting",
                                  "postrouting"}
           /\ chains[i].policy \in {"accept", "drop", "none"}
           /\ \A r \in ToSet(chains[i].rules) :
                  /\ r.on \in BOOLEAN /\ r.do \in Actions
                  /\ DOMAIN r.match \subseteq Fields
    /\ \A n \in DOMAIN lists : lists[n] \subseteq Hosts
    /\ clicks \in 0..MaxClicks /\ breaks \in 0..MaxBreaks

\* As long as only the tools touched the rules of a preset, netfilter lets in
\* exactly what the card of the preset promises (presets.go:33-132) and what
\* was allowed since, without the block lists, and routes what it promises;
\* whatever recipes, fixes and blocks were put before and behind its rules.
PresetKeepsPromise ==
    story.preset # "none" /\ ~story.edited =>
        /\ \A p \in Incoming : ~p.spoofed /\ ~p.abuser =>
               (Passes("input", p) <=> Promised(story.preset, p))
        /\ \A p \in Transit : Passes("forward", p) <=> Routed(story.preset, p)

\* "The fixes only ever ADD accept rules or drop clearly-bad traffic (invalid,
\* spoofed)" (posture.go:18-20): whatever the rules were, edited by hand or
\* not, no tool takes away access a packet had, unless it is invalid, spoofed
\* or from a source that is blocked by now.  (That a tool leaves the preset and
\* the mark of a hand edit alone is said first to spare TLC the rest.)
ToolsKeepAccess ==
    [][story.preset = story'.preset /\ story.edited = story'.edited /\ Tools =>
          \A p \in Incoming :
              /\ p.ct # "invalid" /\ ~p.spoofed /\ ~p.abuser
              /\ ~Blocked(p.src)'
              /\ Passes("input", p)
              => Passes("input", p)']_rulebookVars

\* A detector sits "before any SSH accept, so an open accept can't shadow the
\* detector" (posture.go:429-431): as long as only tools touched the rules, no
\* rule before it accepts a packet it should count.
DetectorsSeeAll ==
    ~story.edited =>
        \A i \in OnHook("input") :
            LET rules == chains[i].rules IN
            \A j \in DOMAIN rules : \A p \in Incoming :
                /\ rules[j].do = "ban" /\ Fires(rules[j], p)
                /\ Decider(rules, p) < j
                => rules[Decider(rules, p)].do = "drop"

\* A check of the Posture page that passes is true of the kernel, on the rules
\* of presets and tools: loopback, replies and neighbour discovery get in, and
\* SSH is not open to sources on no list.
PassIsTrue ==
    ~story.edited /\ OnHook("input") # {} =>
        \A p \in Incoming :
            ~p.spoofed /\ ~p.abuser /\ p.ct # "invalid" /\ ~Blocked(p.src) =>
                /\ p.iif = "lo" /\ Passing("loopback") => Passes("input", p)
                /\ p.ct = "established" /\ Passing("established") => Passes("input", p)
                /\ p.proto = "icmp6" /\ p.port = "essential" /\ Passing("v6icmp")
                   => Passes("input", p)
                /\ /\ p.proto = "tcp" /\ p.port = "22" /\ p.ct = "new" /\ p.iif = "wan"
                   /\ \A n \in DOMAIN lists : p.src \notin lists[n]
                   /\ Passing("ssh")
                   => ~Passes("input", p)

\* The listeners there may be a finding for.
Listeners == {<<p.proto, p.port>> : p \in {p \in Incoming : p.proto \in {"tcp", "udp"}}}

\* What a traced packet may be: with its interface left open, it may come in by
\* any but loopback.
Meant(p) ==
    IF p.iif # "none" THEN {p}
    ELSE {[p EXCEPT !.iif = i] : i \in {q.iif : q \in Incoming} \ {"lo"}}

\* A warning is never a false alarm, whatever the rules: when the lint says
\* that nothing accepts a port, nobody gets in by it; when the lock-out check
\* or a finding says with certainty that a packet is dropped, it is; and when a
\* finding says with certainty that the internet reaches a listener, it does,
\* unless a second input chain was made by hand, which the simulator does not
\* come to ("accept is treated as delivered", simulate.go:82-85).
WarningsAreRight ==
    /\ LET warnings == LintWarns IN
       \A p \in Incoming :
           p.proto = "tcp" /\ p.ct = "new" /\ p.port \in warnings => ~Passes("input", p)
    /\ \A iif \in TraceIifs, c \in Hosts : \A port \in LockoutWarns(iif, c) :
           \A p \in Meant(NewTcp(iif, c, port)) : ~Passes("input", p)
    /\ \A iif \in TraceIifs, l \in Listeners :
           LET finding == Finding(iif, l[1], l[2]) IN
           finding.certain => \A p \in Meant(FromOutside(iif, l[1], l[2])) :
               /\ finding.verdict = "drop" => ~Passes("input", p)
               /\ finding.verdict = "accept" /\ Cardinality(OnHook("input")) < 2
                  => Passes("input", p)

\* An address the Block button reported as blocked is dropped, on connections
\* that exist as well, under whatever preset or recipe came later.
BlockedIsDropped ==
    ~story.edited /\ OnHook("input") # {} =>
        \A p \in Incoming : p.src \in story.saved => ~Passes("input", p)

\* Who applies a preset and is then shut out was warned, by the preset, the
\* lint or the simulated connection: it "catches what the heuristic lint
\* misses: an accept rule that exists but is scoped to a source the operator
\* isn't in" (lockout.go:13-16).
LockoutIsForetold ==
    story.preset # "none" /\ ~story.edited /\ story.by \in Hosts =>
        \A iif \in TraceIifs :
            ~Passes("input", NewTcp(iif, story.by, "22"))
            => \/ story.warned \/ "22" \in LintWarns
               \/ "22" \in LockoutWarns(iif, story.by)
=============================================================================
