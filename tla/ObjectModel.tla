---------------------------- MODULE ObjectModel ----------------------------
(***************************************************************************)
(* The object model in the database (internal/store/model.go): tables with *)
(* their chains, chains with their rules, each kept in an order by a       *)
(* position column, and the requests of the Firewall page that change it   *)
(* (internal/web/firewall.go).  Nothing in the schema keeps two rows of a  *)
(* scope from having the same position; the statements have to.            *)
(*                                                                         *)
(* A row is the scope it belongs to (the table of a chain, the chain of a  *)
(* rule, Top for a table) and its position.  What a row says is left out.  *)
(* A statement or a transaction is one step; requests of several operators *)
(* interleave between the statements of a handler, and a page may be old.  *)
(***************************************************************************)
EXTENDS Integers, Sequences, FiniteSets

CONSTANTS
    TableIds, ChainIds, RuleIds,  \* AUTOINCREMENT: an id is used once
    Top,                          \* the scope of the tables
    Requests,                     \* rule moves in progress at a time
    MinPos, MaxPos                \* bounds on the positions

ASSUME PosAssumption == MinPos \in Int /\ MaxPos \in Int
ASSUME IdsAssumption == /\ TableIds \cap ChainIds = {}
                        /\ ChainIds \cap RuleIds = {}
                        /\ TableIds \cap RuleIds = {}
                        /\ Top \notin TableIds \cup ChainIds
ASSUME FiniteAssumption == IsFiniteSet(TableIds \cup ChainIds \cup RuleIds)

VARIABLES
    tables, chains, rules,  \* nft_tables, nft_chains, nft_rules, by id
    used,                   \* ids handed out
    moves                   \* per request: the move it has checked, or NoMove

vars == <<tables, chains, rules, used, moves>>

Row      == [scope : {Top} \cup TableIds \cup ChainIds, pos : Int]
Move     == [rule : RuleIds, target : ChainIds]
NoMove   == <<>>
Position == MinPos..MaxPos

-----------------------------------------------------------------------------
(* Rows in order                                                           *)

NoRows == [i \in {} |-> [scope |-> Top, pos |-> 0]]

InScope(rows, s)   == {i \in DOMAIN rows : rows[i].scope = s}
Positions(rows, s) == {rows[i].pos : i \in InScope(rows, s)}

\* ORDER BY position, id: a comes before b.  The id decides between equal
\* positions only, and there are none (OrderIsTotal).
Before(rows, a, b) == rows[a].pos < rows[b].pos

\* (mutant) Counts the rows instead of looking at their positions.
IsEndByCount(rows, s, p) == p = Cardinality(InScope(rows, s)) + 1

\* COALESCE(MAX(position), 0) + 1, and COALESCE(MIN(position), 1) - 1.
IsEnd(rows, s, p) ==
    IF InScope(rows, s) = {} THEN p = 1
    ELSE p - 1 \in Positions(rows, s) /\ \A q \in Positions(rows, s) : q < p
IsStart(rows, s, p) ==
    IF InScope(rows, s) = {} THEN p = 0
    ELSE p + 1 \in Positions(rows, s) /\ \A q \in Positions(rows, s) : p < q

Put(rows, i, s, p) ==
    [j \in DOMAIN rows \cup {i} |-> IF j = i THEN [scope |-> s, pos |-> p]
                                             ELSE rows[j]]
Without(rows, I) == [j \in DOMAIN rows \ I |-> rows[j]]

\* The two rows exchange their positions.
Swapped(rows, a, b) ==
    [rows EXCEPT ![a].pos = rows[b].pos, ![b].pos = rows[a].pos]

\* b is the row next to a: after it, or before it.
IsNext(rows, a, b) ==
    /\ b \in InScope(rows, rows[a].scope)
    /\ Before(rows, a, b)
    /\ \A c \in InScope(rows, rows[a].scope) :
          Before(rows, a, c) => ~Before(rows, c, b)

\* (mutant) Takes any row that comes after, or before, for the neighbour.
IsFarNeighbour(rows, a, b) ==
    /\ b \in InScope(rows, rows[a].scope)
    /\ rows[a].pos # rows[b].pos

IsNeighbour(rows, a, b) == IsNext(rows, a, b) \/ IsNext(rows, b, a)

\* new is rows with the rows of scope s renumbered 1, 2, ...: those on the page
\* first, in the order of the page, then the others as they were.  Ids on the
\* page that are not of the scope are ignored.
Index(page, i) == CHOOSE k \in DOMAIN page : page[k] = i
OnPage(page)   == {page[k] : k \in DOMAIN page}
Precedes(rows, page, a, b) ==
    IF a \in OnPage(page) /\ b \in OnPage(page)
    THEN Index(page, a) < Index(page, b)
    ELSE \/ a \in OnPage(page)
         \/ b \notin OnPage(page) /\ Before(rows, a, b)

\* (mutant) Renumbers the rows on the page only.
ReorderedListed(rows, s, page) ==
    [i \in DOMAIN rows |->
        IF i \in InScope(rows, s) \cap OnPage(page)
        THEN [rows[i] EXCEPT !.pos =
                 Cardinality({j \in InScope(rows, s) \cap OnPage(page) :
                                 Precedes(rows, page, j, i)}) + 1]
        ELSE rows[i]]

Reordered(rows, s, page) ==
    [i \in DOMAIN rows |->
        IF i \in InScope(rows, s)
        THEN [rows[i] EXCEPT !.pos =
                 Cardinality({j \in InScope(rows, s) :
                                 Precedes(rows, page, j, i)}) + 1]
        ELSE rows[i]]

\* A page somebody dragged about: ids that exist or existed, each once.
Pages(I) ==
    {f \in UNION {[1..n -> used \cap I] : n \in 1..Cardinality(used \cap I)} :
        \A k, l \in DOMAIN f : f[k] = f[l] => k = l}

-----------------------------------------------------------------------------
Init ==
    /\ tables = NoRows /\ chains = NoRows /\ rules = NoRows
    /\ used = {}
    /\ moves = [q \in Requests |-> NoMove]

\* (mutant) Hands out the id of a deleted row again.
FreshAgain(i) == /\ i \notin DOMAIN tables \cup DOMAIN chains \cup DOMAIN rules
                 /\ used' = used \cup {i}

Fresh(i) == i \notin used /\ used' = used \cup {i}

\* The rows that go with the tables T, or the chains C (ON DELETE CASCADE).
ChainsOf(T) == {c \in DOMAIN chains : chains[c].scope \in T}
RulesOf(C)  == {r \in DOMAIN rules : rules[r].scope \in C}

CreateTable(t) ==
    /\ Fresh(t)
    /\ \E p \in Position :
          IsEnd(tables, Top, p) /\ tables' = Put(tables, t, Top, p)
    /\ UNCHANGED <<chains, rules, moves>>

\* (mutant) Leaves the rules of the deleted chains behind.
DeleteTableOrphaning(t) ==
    /\ t \in DOMAIN tables
    /\ tables' = Without(tables, {t})
    /\ chains' = Without(chains, ChainsOf({t}))
    /\ UNCHANGED <<rules, used, moves>>

DeleteTable(t) ==
    /\ t \in DOMAIN tables
    /\ tables' = Without(tables, {t})
    /\ chains' = Without(chains, ChainsOf({t}))
    /\ rules' = Without(rules, RulesOf(ChainsOf({t})))
    /\ UNCHANGED <<used, moves>>

MoveTable(t) ==
    /\ t \in DOMAIN tables
    /\ \E u \in DOMAIN tables : /\ IsNeighbour(tables, t, u)
                                /\ tables' = Swapped(tables, t, u)
    /\ UNCHANGED <<chains, rules, used, moves>>

SetTableOrder(page) ==
    /\ tables' = Reordered(tables, Top, page)
    /\ UNCHANGED <<chains, rules, used, moves>>

CreateChain(c, t) ==
    /\ t \in DOMAIN tables
    /\ Fresh(c)
    /\ \E p \in Position :
          IsEnd(chains, t, p) /\ chains' = Put(chains, c, t, p)
    /\ UNCHANGED <<tables, rules, moves>>

DeleteChain(c) ==
    /\ c \in DOMAIN chains
    /\ chains' = Without(chains, {c})
    /\ rules' = Without(rules, RulesOf({c}))
    /\ UNCHANGED <<tables, used, moves>>

MoveChain(c) ==
    /\ c \in DOMAIN chains
    /\ \E d \in DOMAIN chains : /\ IsNeighbour(chains, c, d)
                                /\ chains' = Swapped(chains, c, d)
    /\ UNCHANGED <<tables, rules, used, moves>>

SetChainOrder(t, page) ==
    /\ chains' = Reordered(chains, t, page)
    /\ UNCHANGED <<tables, rules, used, moves>>

\* A new rule, a copy of one, or an early drop at the start of the chain.
CreateChainRule(r, c) ==
    /\ c \in DOMAIN chains
    /\ Fresh(r)
    /\ \E p \in Position : /\ \/ IsEnd(rules, c, p)
                              \/ IsStart(rules, c, p)
                           /\ rules' = Put(rules, r, c, p)
    /\ UNCHANGED <<tables, chains, moves>>

DeleteChainRule(r) ==
    /\ r \in DOMAIN rules
    /\ rules' = Without(rules, {r})
    /\ UNCHANGED <<tables, chains, used, moves>>

MoveChainRule(r) ==
    /\ r \in DOMAIN rules
    /\ \E s \in DOMAIN rules : /\ IsNeighbour(rules, r, s)
                               /\ rules' = Swapped(rules, r, s)
    /\ UNCHANGED <<tables, chains, used, moves>>

SetChainRuleOrder(c, page) ==
    /\ rules' = Reordered(rules, c, page)
    /\ UNCHANGED <<tables, chains, used, moves>>

-----------------------------------------------------------------------------
(* Moving a rule to another chain: the handler looks the rule and the      *)
(* chains up, compares the tables, and only then issues the UPDATE.        *)

CheckMove(q, r, c) ==
    /\ moves[q] = NoMove
    /\ r \in DOMAIN rules /\ c \in DOMAIN chains
    /\ chains[rules[r].scope].scope = chains[c].scope
    /\ moves' = [moves EXCEPT ![q] = [rule |-> r, target |-> c]]
    /\ UNCHANGED <<tables, chains, rules, used>>

\* The UPDATE finds no row when the rule is gone, and breaks the foreign key
\* when the chain is.
ReassignChainRule(q) ==
    LET r == moves[q].rule
        c == moves[q].target IN
    /\ moves[q] # NoMove
    /\ moves' = [moves EXCEPT ![q] = NoMove]
    /\ IF r \in DOMAIN rules /\ c \in DOMAIN chains
       THEN \E p \in Position : /\ IsEnd(rules, c, p)
                                /\ rules' = Put(rules, r, c, p)
       ELSE UNCHANGED rules
    /\ UNCHANGED <<tables, chains, used>>

-----------------------------------------------------------------------------
Reorder ==
    \/ \E page \in Pages(TableIds) : SetTableOrder(page)
    \/ \E t \in DOMAIN tables, page \in Pages(ChainIds) : SetChainOrder(t, page)
    \/ \E c \in DOMAIN chains, page \in Pages(RuleIds) :
          SetChainRuleOrder(c, page)

Next ==
    \/ \E t \in TableIds : CreateTable(t) \/ DeleteTable(t) \/ MoveTable(t)
    \/ \E c \in ChainIds : DeleteChain(c) \/ MoveChain(c)
                           \/ \E t \in TableIds : CreateChain(c, t)
    \/ \E r \in RuleIds : DeleteChainRule(r) \/ MoveChainRule(r)
                          \/ \E c \in ChainIds : CreateChainRule(r, c)
    \/ Reorder
    \/ \E q \in Requests : ReassignChainRule(q)
                           \/ \E r \in RuleIds, c \in ChainIds :
                                 CheckMove(q, r, c)

Spec == Init /\ [][Next]_vars

-----------------------------------------------------------------------------
(* Properties                                                              *)

\* The types, and the foreign keys.
TypeOK ==
    /\ DOMAIN tables \subseteq TableIds /\ tables \in [DOMAIN tables -> Row]
    /\ DOMAIN chains \subseteq ChainIds /\ chains \in [DOMAIN chains -> Row]
    /\ DOMAIN rules \subseteq RuleIds /\ rules \in [DOMAIN rules -> Row]
    /\ \A t \in DOMAIN tables : tables[t].scope = Top
    /\ \A c \in DOMAIN chains : chains[c].scope \in DOMAIN tables
    /\ \A r \in DOMAIN rules : rules[r].scope \in DOMAIN chains
    /\ DOMAIN tables \cup DOMAIN chains \cup DOMAIN rules \subseteq used
    /\ moves \in [Requests -> Move \cup {NoMove}]

Distinct(rows) ==
    \A i, j \in DOMAIN rows :
        rows[i].scope = rows[j].scope /\ rows[i].pos = rows[j].pos => i = j

\* No two rows of a scope share a position: what the page shows is what is
\* rendered, and a move never exchanges a row with one that has its position
\* ("gaps are fine; the render order is just ORDER BY position", model.go:565).
OrderIsTotal == Distinct(tables) /\ Distinct(chains) /\ Distinct(rules)

TableOf(r) == chains[rules[r].scope].scope

\* A rule stays in its table, so its family "can never change underneath it"
\* (firewall.go:803-806), although the check is made some statements earlier.
RulesStayInTable ==
    [][\A r \in DOMAIN rules \cap DOMAIN rules' : TableOf(r)' = TableOf(r)]_vars

\* The pairs of rows of a scope whose order a step turns around.
Turned(rows, new) ==
    {pair \in SUBSET (DOMAIN rows \cap DOMAIN new) :
        \E a, b \in pair :
            /\ pair = {a, b}
            /\ rows[a].scope = rows[b].scope /\ new[a].scope = new[b].scope
            /\ Before(rows, a, b) /\ Before(new, b, a)}

\* Only a drag rearranges: every other request takes one row past others of its
\* scope (up, down, to the end of a chain), whatever two operators do together
\* and however old their pages are.  The order of the other rows stays.
OrderIsKept ==
    [][\/ Reorder
       \/ \A step \in {<<tables, tables'>>, <<chains, chains'>>,
                       <<rules, rules'>>} :
             LET turned == Turned(step[1], step[2]) IN
             turned # {} => \E i \in UNION turned :
                                \A pair \in turned : i \in pair]_vars
=============================================================================
