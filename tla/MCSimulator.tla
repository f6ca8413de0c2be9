---------------------------- MODULE MCSimulator ----------------------------
(* Instances of Simulator: an input chain of two rules that may jump to a  *)
(* chain of two, which may go to a third, and a second base chain before   *)
(* it, after it or beside it.                                              *)
EXTENDS Simulator

CONSTANTS input, early, checks, more, ssh, web, eth, wg, a4, a6

MCChains == {input, early, checks, more}
MCPorts == {ssh, web}
MCIfaces == {eth, wg}
MCCtStates == {"new", "established"}
MCV4 == {a4}
MCV6 == {a6}

S(key)        == [key |-> key, to |-> None]
To(key, c)    == [key |-> key, to |-> c]
R(conds, st)  == [enabled |-> TRUE, raw |-> FALSE, conds |-> conds, stmts |-> st]
C(key, gate, values, neg) ==
    [key |-> key, gate |-> gate, values |-> values, read |-> values,
     open |-> FALSE, neg |-> neg]

Ssh    == C("port", "tcp", {ssh}, FALSE)
NotSsh == C("port", "tcp", {ssh}, TRUE)
Only4  == C("addr", "ip", {a4}, FALSE)
NotA6  == C("addr", "ip6", {a6}, TRUE)
Udp    == C("proto", "none", {"udp"}, FALSE)
Mark   == C("other", "none", {}, FALSE)
Wg     == C("iif", "none", {wg}, FALSE)
Fresh  == C("ct", "none", {"established"}, TRUE)

\* An address list with a token the simulator cannot parse after the first.
Listed == [C("addr", "ip6", {a6}, FALSE) EXCEPT !.read = {}, !.open = TRUE]

Accept == <<S("accept")>>

InputRules ==
    {R(<<Ssh>>, Accept), R(<<NotSsh, Only4>>, <<S("drop")>>),
     R(<<Mark, Udp>>, <<S("reject")>>), R(<<>>, <<S("limit"), S("continue")>>),
     R(<<Wg, Listed>>, Accept), R(<<Fresh>>, <<S("note"), To("jump", checks)>>),
     R(<<NotA6>>, <<To("goto", checks)>>), R(<<>>, <<To("goto", None)>>),
     R(<<>>, <<To("jump", None)>>), R(<<>>, <<S("return")>>),
     [R(<<>>, <<S("drop")>>) EXCEPT !.enabled = FALSE]}
CheckRules ==
    {R(<<Ssh>>, <<S("return")>>), R(<<Wg>>, Accept), R(<<Only4>>, <<To("jump", more)>>),
     R(<<>>, <<To("goto", more)>>),
     R(<<>>, <<To("jump", checks)>>), R(<<>>, <<S("drop")>>)}
MoreRules == {R(<<Udp>>, <<S("drop")>>), R(<<>>, <<S("return")>>)}

B(c, prio, nat, policy) == [chain |-> c, prio |-> prio, nat |-> nat,
                            family |-> "inet", policy |-> policy]

MCBases ==
    {<<B(input, 1, FALSE, "drop")>>,
     <<B(input, 1, FALSE, "accept"), B(early, 0, FALSE, "drop")>>,
     <<B(early, 0, FALSE, "drop"), B(input, 0, FALSE, "accept")>>,
     <<B(early, 0, TRUE, "drop"), B(input, 0, FALSE, "accept")>>}

MCRulesets ==
    {[rules |-> [c \in Chains |->
                    CASE c = input  -> <<i1, i2>>
                      [] c = checks -> <<c1, c2>>
                      [] c = more   -> <<m1>>
                      [] c = early  -> <<R(<<Ssh>>, Accept)>>],
      bases |-> b] :
        i1 \in InputRules, i2 \in InputRules, c1 \in CheckRules,
        c2 \in CheckRules, m1 \in MoreRules, b \in MCBases}

P(proto, port, iif, ct, src) ==
    [proto |-> proto, port |-> port, iif |-> iif, ct |-> ct, src |-> src]
MCPackets == {P("tcp", ssh, wg, "new", a4), P("udp", web, eth, "established", a4),
              P("tcp", None, wg, None, a6), P(None, None, None, None, None)}

\* The instance is one the answers are meant for.
ASSUME InstanceIsDescribed == Described
=============================================================================
