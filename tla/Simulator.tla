----------------------------- MODULE Simulator -----------------------------
(***************************************************************************)
(* The packet simulator (internal/simulate): a walk over the rules of the  *)
(* object model that says what netfilter would do with a packet, next to   *)
(* netfilter itself.  The packet may leave fields out, and conditions the  *)
(* simulator does not know are left open; it then flags its answer as      *)
(* uncertain.  Netfilter sees a packet that has every field.               *)
(*                                                                         *)
(* The recursion of eval.walk is the stack frames: a frame per chain being *)
(* walked, with the next rule.  The trace shown to the user is left out.   *)
(* The outgoing interface, the source port and the destination address are *)
(* matched as their counterparts here are.                                 *)
(***************************************************************************)
EXTENDS Naturals, Sequences, FiniteSets

CONSTANTS
    Chains,     \* chain names
    Ports,      \* port numbers
    Ifaces,     \* interface names
    CtStates,   \* states of a connection
    V4, V6,     \* addresses
    None,       \* a packet field that is left out
    MaxDepth,   \* how deep jumps are followed (16 in the code)
    Rulesets,   \* the candidate models of the instance
    Packets     \* the packets of the instance

Verdicts == {"accept", "drop", "reject"}
Protos   == {"tcp", "udp", "icmp"}

Value == Protos \cup Ports \cup Ifaces \cup CtStates \cup V4 \cup V6

\* A condition: the field, the protocol or family nft checks first ("none" for
\* none) and whether the operator is "!=".  Its text stands for the values nft
\* compares with; read are those the simulator finds in it, which leaves out
\* interface wildcards, ports by name, protocols by number and set elements it
\* cannot parse.  An address or a port comparison with a token it cannot parse,
\* or a set it cannot find, is open: read ends there.
Condition == [key    : {"proto", "iif", "ct", "port", "addr", "other"},
              gate   : {"none", "tcp", "udp", "ip", "ip6"},
              values : SUBSET Value,
              read   : SUBSET Value,
              open   : BOOLEAN,
              neg    : BOOLEAN]

\* "note" stands for the statements that decide nothing (log, counter, mark);
\* limit also for quota.  A jump or goto names its chain, None when the
\* table has no such chain.
Statement == [key : Verdicts \cup {"return", "continue", "jump", "goto",
                                   "note", "limit", "vmap"},
              to  : Chains \cup {None}]

\* A raw rule is a line of text; its conditions and statements are empty.
Rule == [enabled : BOOLEAN, raw : BOOLEAN,
         conds : Seq(Condition), stmts : Seq(Statement)]

Base == [chain : Chains, prio : Nat, nat : BOOLEAN,
         family : {"ip", "ip6", "inet"}, policy : {"accept", "drop"}]

Packet == [proto : Protos \cup {None}, port : Ports \cup {None},
           iif : Ifaces \cup {None}, ct : CtStates \cup {None},
           src : V4 \cup V6 \cup {None}]

ASSUME NoneAssumption == None \notin Value \cup Chains
ASSUME MaxDepthAssumption == MaxDepth \in Nat
ASSUME PacketsAssumption == Packets \subseteq Packet
ASSUME RulesetsAssumption ==
    \A s \in Rulesets : /\ s.rules \in [Chains -> Seq(Rule)]
                        /\ s.bases \in Seq(Base)

VARIABLES
    rules,      \* the rules of each chain
    bases,      \* the base chains on the hook, in model order
    pkt,        \* the packet as described
    frames,     \* the calls of walk in progress, the innermost last
    uncertain,  \* the flag of the trace
    final,      \* the simulator's verdict, "none" until there is one
    kpkt,       \* the packet netfilter sees
    kbase,      \* the base chain netfilter is in, 0 before the first
    kleft,      \* the base chains it has still to go through
    kat,        \* where netfilter is: chain and next rule
    kstack,     \* netfilter's jump stack
    kfinal      \* netfilter's verdict

model == <<rules, bases, pkt>>
walk  == <<frames, uncertain, final>>
kern  == <<kpkt, kbase, kleft, kat, kstack, kfinal>>
vars  == <<model, walk, kern>>

-----------------------------------------------------------------------------
(* Conditions, three-valued                                                *)

FamilyOf(a) == IF a \in V6 THEN "ip6" ELSE "ip"

\* The value test: a hit, or a miss unless some of the text was not read; "!="
\* flips it (applyNeg).
Test(v, c) == IF v \notin c.read /\ c.open THEN "unknown"
              ELSE IF (v \in c.read) # c.neg THEN "yes" ELSE "no"

\* The gate of a port or an address condition is never negated.
MatchOne(c, p) ==
    CASE c.key \in {"proto", "iif", "ct"} ->
            IF p[c.key] = None THEN "unknown" ELSE Test(p[c.key], c)
      [] c.key = "port" ->
            IF None \in {p.proto, p.port} THEN "unknown"
            ELSE IF p.proto # c.gate THEN "no"
            ELSE Test(p.port, c)
      [] c.key = "addr" ->
            IF p.src = None THEN "unknown"
            ELSE IF FamilyOf(p.src) # c.gate THEN "no"
            ELSE Test(p.src, c)
      [] OTHER -> "unknown"

\* One condition that fails decides, whatever the others are.
MatchRule(r, p) ==
    LET results == {MatchOne(r.conds[i], p) : i \in DOMAIN r.conds}
    IN  IF "no" \in results THEN "no"
        ELSE IF "unknown" \in results THEN "unknown" ELSE "yes"

\* The first statement that is a verdict; a note when there is none.
Passes == [key |-> "note", to |-> None]
RuleVerdict(r) ==
    LET deciding == {i \in DOMAIN r.stmts :
                        r.stmts[i].key \notin {"note", "limit", "vmap"}}
        first    == CHOOSE i \in deciding : \A j \in deciding : i <= j
    IN  IF deciding = {} THEN Passes ELSE r.stmts[first]

\* The base chains that see a packet of the family: all of them when the
\* family is not known.
Seeing(p) ==
    {i \in DOMAIN bases :
        /\ ~bases[i].nat
        /\ bases[i].family = "inet" \/ p.src = None
           \/ bases[i].family = FamilyOf(p.src)}

\* The one that runs first: lowest priority, then model order.
First(S) == CHOOSE i \in S : \A j \in S :
                \/ bases[i].prio < bases[j].prio
                \/ bases[i].prio = bases[j].prio /\ i <= j

-----------------------------------------------------------------------------
Init ==
    /\ \E s \in Rulesets : rules = s.rules /\ bases = s.bases
    /\ pkt \in Packets
    /\ uncertain = FALSE
    /\ IF Seeing(pkt) = {}
       THEN frames = <<>> /\ final = "accept"
       ELSE /\ frames = <<[chain |-> bases[First(Seeing(pkt))].chain,
                           next  |-> 1, via |-> "base"]>>
            /\ final = "none"
    /\ kpkt = pkt /\ kbase = 0 /\ kleft = {}
    /\ kat = <<>> /\ kstack = <<>> /\ kfinal = "none"

-----------------------------------------------------------------------------
(* eval.walk                                                               *)

Top      == frames[Len(frames)]
AtRule   == final = "none" /\ Top.next <= Len(rules[Top.chain])
TheRule  == rules[Top.chain][Top.next]
Advanced == [frames EXCEPT ![Len(frames)].next = @ + 1]

\* walk returns without a verdict: a caller that left by goto returns too, one
\* that jumped goes on, and at the bottom the policy decides.
Up ==
    LET callers == {i \in DOMAIN frames : frames[i].via # "goto"}
        bottom  == CHOOSE i \in callers : \A j \in callers : j <= i
    IN  IF frames[bottom].via = "base"
        THEN /\ final' = bases[First(Seeing(pkt))].policy
             /\ UNCHANGED frames
        ELSE /\ frames' = SubSeq(frames, 1, bottom - 1)
             /\ UNCHANGED final

RuleSkipped ==
    /\ AtRule
    /\ ~TheRule.enabled \/ MatchRule(TheRule, pkt) = "no"
    /\ frames' = Advanced
    /\ UNCHANGED <<model, uncertain, final, kern>>

\* (mutant) Does not flag the answer.
RuleUnknownSilent ==
    /\ AtRule
    /\ TheRule.enabled /\ MatchRule(TheRule, pkt) = "unknown"
    /\ frames' = Advanced
    /\ UNCHANGED <<model, uncertain, final, kern>>

RuleUnknown ==
    /\ AtRule
    /\ TheRule.enabled /\ MatchRule(TheRule, pkt) = "unknown"
    /\ uncertain' = TRUE
    /\ frames' = Advanced
    /\ UNCHANGED <<model, final, kern>>

\* The rule matches, and its verdict is one of keys.
Matched(keys) ==
    /\ AtRule
    /\ TheRule.enabled /\ MatchRule(TheRule, pkt) = "yes"
    /\ RuleVerdict(TheRule).key \in keys

RuleDecides ==
    /\ Matched(Verdicts)
    /\ final' = RuleVerdict(TheRule).key
    /\ UNCHANGED <<model, frames, uncertain, kern>>

RulePasses ==
    /\ Matched({"note", "continue"})
    /\ frames' = Advanced
    /\ UNCHANGED <<model, uncertain, final, kern>>

\* The target exists and is not too deep; (mutant) is one deeper.
Target   == RuleVerdict(TheRule).to
CanEnterDeeper == Target \in Chains /\ Len(frames) <= MaxDepth + 1
CanEnter == Target \in Chains /\ Len(frames) <= MaxDepth

\* (mutant) The caller stays at the rule that jumped.
RuleJumpsAgain ==
    /\ Matched({"jump"})
    /\ IF CanEnter
       THEN /\ frames' = Append(frames, [chain |-> Target, next |-> 1,
                                         via |-> "jump"])
            /\ UNCHANGED uncertain
       ELSE frames' = Advanced /\ uncertain' = TRUE
    /\ UNCHANGED <<model, final, kern>>

RuleJumps ==
    /\ Matched({"jump"})
    /\ IF CanEnter
       THEN /\ frames' = Append(Advanced, [chain |-> Target, next |-> 1,
                                           via |-> "jump"])
            /\ UNCHANGED uncertain
       ELSE frames' = Advanced /\ uncertain' = TRUE
    /\ UNCHANGED <<model, final, kern>>

RuleGoes ==
    /\ Matched({"goto"})
    /\ IF CanEnter
       THEN /\ frames' = Append(frames, [chain |-> Target, next |-> 1,
                                         via |-> "goto"])
            /\ UNCHANGED <<uncertain, final>>
       ELSE Up /\ uncertain' = TRUE
    /\ UNCHANGED <<model, kern>>

RuleReturns ==
    /\ Matched({"return"})
    /\ Up
    /\ UNCHANGED <<model, uncertain, kern>>

ChainEnds ==
    /\ final = "none" /\ ~AtRule
    /\ Up
    /\ UNCHANGED <<model, uncertain, kern>>

Walk == RuleSkipped \/ RuleUnknown \/ RuleDecides \/ RulePasses \/ RuleJumps
        \/ RuleGoes \/ RuleReturns \/ ChainEnds

-----------------------------------------------------------------------------
(* Netfilter on the same rules, when the answer is certain                 *)

\* The packets that fit the description.
Completions(p) ==
    {q \in [proto : Protos, port : Ports, iif : Ifaces, ct : CtStates,
            src : V4 \cup V6] :
        \A f \in DOMAIN p : p[f] # None => q[f] = p[f]}

\* nft checks the gate, then the value.
Holds(c, q) ==
    CASE c.key \in {"proto", "iif", "ct"} -> (q[c.key] \in c.values) # c.neg
      [] c.key = "port"  -> q.proto = c.gate /\ (q.port \in c.values) # c.neg
      [] c.key = "addr"  -> FamilyOf(q.src) = c.gate
                            /\ (q.src \in c.values) # c.neg

\* What a rule may do to the packet: nothing, or its verdict.  A condition the
\* simulator does not know may hold or not, a rate limit may be exceeded or
\* not; a raw line or a verdict map may do anything.
Effects(r, q) ==
    LET known == {i \in DOMAIN r.conds : r.conds[i].key # "other"}
        fails == \E i \in known : ~Holds(r.conds[i], q)
        open  == \/ known # DOMAIN r.conds
                 \/ \E i \in DOMAIN r.stmts : r.stmts[i].key = "limit"
        any   == \/ r.raw
                 \/ \E i \in DOMAIN r.stmts : r.stmts[i].key = "vmap"
    IN  IF ~r.enabled \/ fails THEN {Passes}
        ELSE {RuleVerdict(r)}
             \cup (IF open \/ any THEN {Passes} ELSE {})
             \cup (IF any THEN {[key |-> v, to |-> None] :
                                v \in {"accept", "drop"}} ELSE {})

\* On to the base chain with the lowest priority of those left: netfilter fixes
\* no order among equals.  A packet that is through with all of them is let in.
Enter(left) ==
    IF left = {}
    THEN kfinal' = "accept" /\ UNCHANGED <<kbase, kleft, kat, kstack>>
    ELSE \E i \in left :
            /\ \A j \in left : bases[i].prio <= bases[j].prio
            /\ kbase' = i
            /\ kleft' = left \ {i}
            /\ kat' = <<bases[i].chain, 1>>
            /\ kstack' = <<>>
            /\ UNCHANGED kfinal

KStart ==
    /\ final # "none" /\ ~uncertain /\ kat = <<>> /\ kfinal = "none"
    /\ kpkt' \in Completions(pkt)
    /\ Enter(Seeing(kpkt'))
    /\ UNCHANGED <<model, walk>>

KRunning == kat # <<>> /\ kfinal = "none"
KEnd     == kat[2] > Len(rules[kat[1]])

KNext(at) == /\ kat' = at
             /\ UNCHANGED <<model, walk, kpkt, kbase, kleft, kstack, kfinal>>

\* A base chain's accept is for that chain only, its drop is final.
KDecided(v) ==
    /\ IF v = "accept" THEN Enter(kleft)
       ELSE kfinal' = v /\ UNCHANGED <<kbase, kleft, kat, kstack>>
    /\ UNCHANGED <<model, walk, kpkt>>

KUp ==
    IF kstack = <<>> THEN KDecided(bases[kbase].policy)
    ELSE /\ kat' = kstack[Len(kstack)]
         /\ kstack' = SubSeq(kstack, 1, Len(kstack) - 1)
         /\ UNCHANGED <<model, walk, kpkt, kbase, kleft, kfinal>>

\* nft loads no rule that leads to a chain the table does not have, and none that
\* jumps in a circle: its own limit on the depth is the simulator's.
KRule(e) ==
    LET after == <<kat[1], kat[2] + 1>> IN
    \/ e.key \in {"note", "continue"} /\ KNext(after)
    \/ e.key = "goto" /\ e.to \in Chains /\ KNext(<<e.to, 1>>)
    \/ /\ e.key = "jump" /\ e.to \in Chains /\ Len(kstack) < MaxDepth
       /\ kat' = <<e.to, 1>>
       /\ kstack' = Append(kstack, after)
       /\ UNCHANGED <<model, walk, kpkt, kbase, kleft, kfinal>>
    \/ e.key = "return" /\ KUp
    \/ e.key \in Verdicts /\ KDecided(e.key)

Kernel ==
    \/ KStart
    \/ KRunning /\ KEnd /\ KUp
    \/ KRunning /\ ~KEnd
       /\ \E e \in Effects(rules[kat[1]][kat[2]], kpkt) : KRule(e)

Next == Walk \/ Kernel

Spec == Init /\ [][Next]_vars

\* The walk is a function call: it runs on.
FairSpec == Spec /\ WF_vars(Walk)

-----------------------------------------------------------------------------
(* Properties                                                              *)

\* The simulator reads nothing into a condition, and misses no value of it
\* without leaving it open.
Legible(c) == c.read \subseteq c.values /\ (c.open \/ c.read = c.values)

\* What the walk does not look at, and does not flag (simulate/match.go:61): raw
\* lines, verdict maps, rate limits on a rule that decides, and values it
\* cannot read.
Transparent(r) ==
    r.enabled =>
        /\ ~r.raw
        /\ \A i \in DOMAIN r.conds : Legible(r.conds[i])
        /\ \A i \in DOMAIN r.stmts : r.stmts[i].key # "vmap"
        /\ (\E i \in DOMAIN r.stmts : r.stmts[i].key = "limit")
              => RuleVerdict(r).key \in {"note", "continue"}

\* Whichever packets fit the description, the same base chains see them.
FamilyKnown(s, p) ==
    p.src = None => \A i \in DOMAIN s.bases : s.bases[i].family = "inet"

\* Where the simulator knows what it would not flag: without this its answer
\* may be wrong, and the properties below say nothing about it.
Described ==
    \A s \in Rulesets :
        /\ \A c \in Chains : \A i \in DOMAIN s.rules[c] :
              Transparent(s.rules[c][i])
        /\ \A p \in Packets : FamilyKnown(s, p)

SimTypeOK ==
    /\ frames \in Seq([chain : Chains, next : Nat \ {0},
                       via : {"base", "jump", "goto"}])
    /\ Len(frames) <= MaxDepth + 1
    /\ uncertain \in BOOLEAN
    /\ final \in Verdicts \cup {"none"}
    /\ kpkt \in Packet
    /\ kbase \in 0..Len(bases)
    /\ kleft \subseteq DOMAIN bases
    /\ kstack \in Seq(Chains \X (Nat \ {0}))
    /\ kfinal \in Verdicts \cup {"none"}

\* The base chain whose verdict the simulator gives, none when none sees the
\* packet: it "does not model a packet continuing to a lower-priority base chain
\* after an accept" (simulate.go:88-92).
Simulated == IF Seeing(pkt) = {} THEN {} ELSE {First(Seeing(pkt))}

\* An answer that is not flagged is what netfilter does, for every packet that
\* fits the description and every outcome of what the simulator left open: "the
\* trace flags when such a rule could have changed the outcome"
\* (simulate.go:7-10).  Only a base chain it does not go into can turn a packet
\* away that it lets in, and none lets in a packet that it turns away.
CertainIsRight ==
    kfinal # "none" => \/ kfinal = final
                       \/ kfinal # "accept" /\ kbase \notin Simulated

\* The walk ends on every candidate, those with chains that jump in a circle
\* (which only nft will refuse) included.
WalkEnds == <>(final # "none")
=============================================================================
