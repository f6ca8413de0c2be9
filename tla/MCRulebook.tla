----------------------------- MODULE MCRulebook -----------------------------
(* Instance of Rulebook: a management host, a peer and application host     *)
(* with a second family, and an outsider whose country may be blocked.      *)
EXTENDS Rulebook

MCV4 == {"m4", "x4"}
MCV6 == {"p6"}
MCCountry == {"x4"}
MCAllow == {<<"tcp", "22">>, <<"tcp", "2222">>}
MCServices == [web |-> [proto |-> "tcp", ports |-> {"80"}],
               all |-> [proto |-> "udp", ports |-> {}]]
MCBreaks == {<<0, 1>>, <<1, 6>>, <<1, 12>>}
MCIifs == {"wan", "none"}
MCLists ==
    {[mgmt |-> {}, peers |-> {"p6"}, app |-> {"p6"}, blacklist |-> {}],
     [mgmt |-> {"m4", "p6"}, blacklist |-> {"x4"}]}

\* A management list that is filled, and nobody blocked.
MCFilled == {[mgmt |-> {"m4"}, blacklist |-> {}]}
MCWan == {"wan"}

Packet(iif, proto, port, ct, src) ==
    [iif |-> iif, oif |-> "none", proto |-> proto, port |-> port, ct |-> ct,
     src |-> src, spoofed |-> FALSE, abuser |-> FALSE]

MCIncoming ==
    {Packet("wan", "tcp", port, "new", src) : port \in {"22", "8080"}, src \in MCV4 \cup MCV6}
    \cup {Packet("wan", "tcp", port, "new", src) : port \in {"179", "5432"}, src \in {"x4", "p6"}}
    \cup {Packet("wan", "tcp", port, "new", "x4") : port \in {"80", "53"}}
    \cup {Packet("wan", "udp", port, "new", "x4") : port \in {"51820", "3784", "67"}}
    \cup {Packet("wan", "udp", "3784", "new", "p6")}
    \cup {Packet("lan", "tcp", port, "new", "x4") : port \in {"22", "80", "53"}}
    \cup {Packet("lan", "udp", "67", "new", "x4"), Packet("wg0", "tcp", "80", "new", "x4"),
          Packet("lo", "tcp", "8080", "new", "nobody"),
          Packet("lo", "tcp", "8080", "established", "nobody"),
          Packet("wan", "icmp6", "essential", "new", "p6"),
          Packet("wan", "icmp4", "essential", "new", "x4"),
          Packet("wan", "tcp", "22", "invalid", "m4")}
    \cup {Packet("wan", "tcp", "22", "established", src) : src \in MCV4 \cup MCV6}
    \cup {[Packet("wan", "tcp", "22", "new", "m4") EXCEPT !.spoofed = s, !.abuser = ~s] : s \in BOOLEAN}

Routes == {<<"lan", "wan">>, <<"wan", "lan">>, <<"wg0", "lan">>, <<"lan", "wg0">>}
MCTransit ==
    {[Packet(r[1], "tcp", "80", ct, "x4") EXCEPT !.oif = r[2]] :
        r \in Routes, ct \in {"new", "established", "invalid"}}
=============================================================================
