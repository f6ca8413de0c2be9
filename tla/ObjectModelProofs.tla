------------------------- MODULE ObjectModelProofs -------------------------
(***************************************************************************)
(* What is proved of ObjectModel, for every number of tables, chains,      *)
(* rules and requests and every bound on the positions.                    *)
(***************************************************************************)
EXTENDS ObjectModel, FiniteSetTheorems, TLAPS

\* A move that has been checked stays within a table for as long as the rule
\* and the target exist: their ids are never those of other rows.
MovesStay ==
    \A q \in Requests : moves[q] # NoMove =>
        /\ moves[q].rule \in used /\ moves[q].target \in used
        /\ (moves[q].rule \in DOMAIN rules /\ moves[q].target \in DOMAIN chains)
              => TableOf(moves[q].rule) = chains[moves[q].target].scope

IInv == TypeOK /\ OrderIsTotal /\ MovesStay

Ids      == TableIds \cup ChainIds \cup RuleIds
Scopes   == {Top} \cup TableIds \cup ChainIds
IsRows(rows) == DOMAIN rows \subseteq Ids /\ rows \in [DOMAIN rows -> Row]

-----------------------------------------------------------------------------
(* Operators on rows                                                       *)

LEMMA PutAt ==
  ASSUME NEW rows, NEW i, NEW s, NEW p
  PROVE  /\ DOMAIN Put(rows, i, s, p) = DOMAIN rows \cup {i}
         /\ Put(rows, i, s, p)[i] = [scope |-> s, pos |-> p]
         /\ \A j \in DOMAIN rows \ {i} : Put(rows, i, s, p)[j] = rows[j]
BY DEF Put

LEMMA PutType ==
  ASSUME NEW rows, IsRows(rows), NEW i \in Ids, NEW s \in Scopes, NEW p \in Int
  PROVE  IsRows(Put(rows, i, s, p))
BY DEF IsRows, Put, Row, Scopes

\* A row put at a position nobody has keeps the positions distinct.
LEMMA PutDistinct ==
  ASSUME NEW rows, IsRows(rows), Distinct(rows), NEW i, NEW s, NEW p,
         p \notin Positions(rows, s)
  PROVE  Distinct(Put(rows, i, s, p))
<1> DEFINE new == Put(rows, i, s, p)
<1>1. DOMAIN new = DOMAIN rows \cup {i}
  BY DEF Put
<1>2. new[i].scope = s /\ new[i].pos = p
  BY DEF Put
<1>3. \A j \in DOMAIN rows \ {i} : new[j] = rows[j]
  BY DEF Put
<1>4. \A j \in DOMAIN rows : rows[j].scope = s => rows[j].pos # p
  BY DEF Positions, InScope
<1> HIDE DEF new
<1>5. \A j, k \in DOMAIN new :
         new[j].scope = new[k].scope /\ new[j].pos = new[k].pos => j = k
  BY <1>1, <1>2, <1>3, <1>4 DEF Distinct
<1> QED BY <1>5 DEF Distinct, new

LEMMA EndIsFree ==
  ASSUME NEW rows, IsRows(rows), NEW s, NEW p \in Int,
         IsEnd(rows, s, p) \/ IsStart(rows, s, p)
  PROVE  p \notin Positions(rows, s)
<1>1. \A q \in Positions(rows, s) : q \in Int
  BY DEF Positions, InScope, IsRows, Row
<1>2. CASE InScope(rows, s) = {}
  BY <1>2 DEF Positions
<1>3. CASE InScope(rows, s) # {}
  BY <1>1, <1>3 DEF IsEnd, IsStart
<1> QED BY <1>2, <1>3

LEMMA WithoutRows ==
  ASSUME NEW rows, IsRows(rows), Distinct(rows), NEW I
  PROVE  /\ IsRows(Without(rows, I)) /\ Distinct(Without(rows, I))
         /\ DOMAIN Without(rows, I) = DOMAIN rows \ I
         /\ \A j \in DOMAIN rows \ I : Without(rows, I)[j] = rows[j]
BY DEF Without, IsRows, Distinct

LEMMA SwappedAt ==
  ASSUME NEW rows, IsRows(rows), NEW a \in DOMAIN rows, NEW b \in DOMAIN rows
  PROVE  /\ DOMAIN Swapped(rows, a, b) = DOMAIN rows
         /\ IsRows(Swapped(rows, a, b))
         /\ \A j \in DOMAIN rows :
               /\ Swapped(rows, a, b)[j].scope = rows[j].scope
               /\ Swapped(rows, a, b)[j].pos =
                     IF j = b THEN rows[a].pos
                     ELSE IF j = a THEN rows[b].pos ELSE rows[j].pos
BY DEF Swapped, IsRows, Row

LEMMA SwappedDistinct ==
  ASSUME NEW rows, IsRows(rows), Distinct(rows),
         NEW a \in DOMAIN rows, NEW b \in DOMAIN rows, IsNeighbour(rows, a, b)
  PROVE  Distinct(Swapped(rows, a, b))
<1>1. rows[a].scope = rows[b].scope
  BY DEF IsNeighbour, IsNext, InScope
<1> DEFINE new == Swapped(rows, a, b)
<1>2. /\ DOMAIN new = DOMAIN rows
      /\ \A j \in DOMAIN rows :
            /\ new[j].scope = rows[j].scope
            /\ new[j].pos = IF j = b THEN rows[a].pos
                            ELSE IF j = a THEN rows[b].pos ELSE rows[j].pos
  BY SwappedAt
<1> HIDE DEF new
<1>3. \A j, k \in DOMAIN new :
         new[j].scope = new[k].scope /\ new[j].pos = new[k].pos => j = k
  BY <1>1, <1>2 DEF Distinct
<1> QED BY <1>3 DEF Distinct, new

-----------------------------------------------------------------------------
(* Drags: the new positions are ranks in a strict total order              *)

LEMMA IndexIsOf ==
  ASSUME NEW page, NEW i \in OnPage(page)
  PROVE  Index(page, i) \in DOMAIN page /\ page[Index(page, i)] = i
BY DEF Index, OnPage

LEMMA PrecedesIsOrder ==
  ASSUME NEW rows, IsRows(rows), Distinct(rows), NEW s,
         NEW page, DOMAIN page \subseteq Nat,
         NEW a \in InScope(rows, s), NEW b \in InScope(rows, s)
  PROVE  /\ ~Precedes(rows, page, a, a)
         /\ a # b => Precedes(rows, page, a, b) \/ Precedes(rows, page, b, a)
         /\ \A c \in InScope(rows, s) :
               Precedes(rows, page, c, a) /\ Precedes(rows, page, a, b)
                  => Precedes(rows, page, c, b)
<1>1. \A i \in OnPage(page) : Index(page, i) \in Nat /\ page[Index(page, i)] = i
  BY IndexIsOf
<1>2. \A i \in InScope(rows, s) : rows[i].pos \in Int
  BY DEF InScope, IsRows, Row
<1>3. a # b => rows[a].pos # rows[b].pos
  BY DEF InScope, Distinct
<1>4. ~Precedes(rows, page, a, a)
  BY <1>1, <1>2 DEF Precedes, Before
<1>5. a # b => Precedes(rows, page, a, b) \/ Precedes(rows, page, b, a)
  BY <1>1, <1>2, <1>3 DEF Precedes, Before
<1>6. ASSUME NEW c \in InScope(rows, s),
             Precedes(rows, page, c, a), Precedes(rows, page, a, b)
      PROVE  Precedes(rows, page, c, b)
  BY <1>1, <1>2, <1>6 DEF Precedes, Before
<1> QED BY <1>4, <1>5, <1>6

Ahead(rows, s, page, i) ==
    {j \in InScope(rows, s) : Precedes(rows, page, j, i)}

LEMMA AheadFinite ==
  ASSUME NEW rows, IsRows(rows), NEW s, NEW page, NEW i
  PROVE  /\ IsFiniteSet(Ahead(rows, s, page, i))
         /\ Cardinality(Ahead(rows, s, page, i)) \in Nat
<1>1. IsFiniteSet(Ids)
  BY FiniteAssumption DEF Ids
<1>2. Ahead(rows, s, page, i) \in SUBSET Ids
  BY DEF Ahead, InScope, IsRows
<1> QED BY <1>1, <1>2, FS_Subset, FS_CardinalityType

LEMMA ReorderedAt ==
  ASSUME NEW rows, IsRows(rows), NEW s, NEW page
  PROVE  /\ DOMAIN Reordered(rows, s, page) = DOMAIN rows
         /\ IsRows(Reordered(rows, s, page))
         /\ \A j \in DOMAIN rows :
               /\ Reordered(rows, s, page)[j].scope = rows[j].scope
               /\ Reordered(rows, s, page)[j].pos =
                     IF rows[j].scope = s
                     THEN Cardinality(Ahead(rows, s, page, j)) + 1
                     ELSE rows[j].pos
<1>1. \A j : Cardinality(Ahead(rows, s, page, j)) \in Nat
  BY AheadFinite
<1>2. Reordered(rows, s, page) =
         [j \in DOMAIN rows |->
             IF rows[j].scope = s
             THEN [rows[j] EXCEPT !.pos =
                      Cardinality(Ahead(rows, s, page, j)) + 1]
             ELSE rows[j]]
  BY DEF Reordered, Ahead, InScope
<1> QED BY <1>1, <1>2 DEF IsRows, Row

LEMMA ReorderedDistinct ==
  ASSUME NEW rows, IsRows(rows), Distinct(rows), NEW s,
         NEW page, DOMAIN page \subseteq Nat
  PROVE  Distinct(Reordered(rows, s, page))
<1>1. ASSUME NEW a \in InScope(rows, s), NEW b \in InScope(rows, s),
             Precedes(rows, page, a, b)
      PROVE  Cardinality(Ahead(rows, s, page, a))
                # Cardinality(Ahead(rows, s, page, b))
  <2>1. Ahead(rows, s, page, a) \in SUBSET Ahead(rows, s, page, b)
    BY <1>1, PrecedesIsOrder DEF Ahead
  <2>2. a \in Ahead(rows, s, page, b) /\ a \notin Ahead(rows, s, page, a)
    BY <1>1, PrecedesIsOrder DEF Ahead
  <2>3. IsFiniteSet(Ahead(rows, s, page, b))
    BY AheadFinite
  <2> QED BY <2>1, <2>2, <2>3, FS_Subset
<1>2. ASSUME NEW a \in InScope(rows, s), NEW b \in InScope(rows, s), a # b
      PROVE  Cardinality(Ahead(rows, s, page, a))
                # Cardinality(Ahead(rows, s, page, b))
  BY <1>1, <1>2, PrecedesIsOrder
<1>3. \A j : Cardinality(Ahead(rows, s, page, j)) \in Nat
  BY AheadFinite
<1> QED BY <1>2, <1>3, ReorderedAt DEF Distinct, InScope
-----------------------------------------------------------------------------
(* The rows after a step                                                   *)

LEMMA TypedRows ==
  ASSUME TypeOK
  PROVE  IsRows(tables) /\ IsRows(chains) /\ IsRows(rules)
BY DEF TypeOK, IsRows, Ids

LEMMA PageType ==
  ASSUME NEW I \in SUBSET Ids, NEW page \in Pages(I)
  PROVE  DOMAIN page \subseteq Nat
<1>1. IsFiniteSet(used \cap I)
  BY FiniteAssumption, FS_Subset DEF Ids
<1>2. Cardinality(used \cap I) \in Nat
  BY <1>1, FS_CardinalityType
<1>3. PICK n \in 1..Cardinality(used \cap I) : page \in [1..n -> used \cap I]
  BY DEF Pages
<1> QED BY <1>2, <1>3

\* Put for a new row, at a position nobody has.
LEMMA NewRow ==
  ASSUME NEW rows, IsRows(rows), Distinct(rows), NEW i \in Ids,
         NEW s \in Scopes, NEW p \in Position,
         IsEnd(rows, s, p) \/ IsStart(rows, s, p)
  PROVE  IsRows(Put(rows, i, s, p)) /\ Distinct(Put(rows, i, s, p))
<1>1. p \in Int
  BY PosAssumption DEF Position
<1> QED BY <1>1, EndIsFree, PutType, PutDistinct

-----------------------------------------------------------------------------
(* The inductive invariant                                                 *)

LEMMA InitInv == ASSUME Init PROVE IInv
<1>1. DOMAIN NoRows = {} /\ NoRows \in [DOMAIN NoRows -> Row]
  BY DEF NoRows
<1>2. TypeOK
  BY <1>1 DEF Init, TypeOK
<1>3. OrderIsTotal
  BY <1>1 DEF Init, OrderIsTotal, Distinct
<1>4. MovesStay
  BY DEF Init, MovesStay
<1> QED BY <1>2, <1>3, <1>4 DEF IInv

\* Moves and drags only change positions.
Kept(rows, new) ==
    /\ IsRows(new) /\ Distinct(new)
    /\ DOMAIN new = DOMAIN rows
    /\ \A j \in DOMAIN rows : new[j].scope = rows[j].scope

LEMMA SwappedKeeps ==
  ASSUME NEW rows, IsRows(rows), Distinct(rows),
         NEW a \in DOMAIN rows, NEW b \in DOMAIN rows, IsNeighbour(rows, a, b)
  PROVE  Kept(rows, Swapped(rows, a, b))
BY SwappedAt, SwappedDistinct DEF Kept

LEMMA ReorderedKeeps ==
  ASSUME NEW rows, IsRows(rows), Distinct(rows), NEW s,
         NEW I \in SUBSET Ids, NEW page \in Pages(I)
  PROVE  Kept(rows, Reordered(rows, s, page))
BY PageType, ReorderedAt, ReorderedDistinct DEF Kept

PositionsOnly ==
    /\ Kept(tables, tables') /\ Kept(chains, chains') /\ Kept(rules, rules')
    /\ UNCHANGED <<used, moves>>

LEMMA PositionSteps ==
  ASSUME IInv,
         \/ \E t \in TableIds : MoveTable(t)
         \/ \E c \in ChainIds : MoveChain(c)
         \/ \E r \in RuleIds : MoveChainRule(r)
         \/ Reorder
  PROVE  PositionsOnly
<1> USE DEF PositionsOnly
<1>1. /\ IsRows(tables) /\ Distinct(tables)
      /\ IsRows(chains) /\ Distinct(chains)
      /\ IsRows(rules) /\ Distinct(rules)
  BY TypedRows DEF IInv, OrderIsTotal
<1>2. Kept(tables, tables) /\ Kept(chains, chains) /\ Kept(rules, rules)
  BY <1>1 DEF Kept
<1>3. CASE \E t \in TableIds : MoveTable(t)
  BY <1>1, <1>2, <1>3, SwappedKeeps DEF MoveTable
<1>4. CASE \E c \in ChainIds : MoveChain(c)
  BY <1>1, <1>2, <1>4, SwappedKeeps DEF MoveChain
<1>5. CASE \E r \in RuleIds : MoveChainRule(r)
  BY <1>1, <1>2, <1>5, SwappedKeeps DEF MoveChainRule
<1>6. CASE Reorder
  <2>1. TableIds \in SUBSET Ids /\ ChainIds \in SUBSET Ids
        /\ RuleIds \in SUBSET Ids
    BY DEF Ids
  <2>2. CASE \E page \in Pages(TableIds) : SetTableOrder(page)
    BY <1>1, <1>2, <2>1, <2>2, ReorderedKeeps DEF SetTableOrder
  <2>3. CASE \E t \in DOMAIN tables, page \in Pages(ChainIds) :
                SetChainOrder(t, page)
    BY <1>1, <1>2, <2>1, <2>3, ReorderedKeeps DEF SetChainOrder
  <2>4. CASE \E c \in DOMAIN chains, page \in Pages(RuleIds) :
                SetChainRuleOrder(c, page)
    BY <1>1, <1>2, <2>1, <2>4, ReorderedKeeps DEF SetChainRuleOrder
  <2> QED BY <1>6, <2>2, <2>3, <2>4 DEF Reorder
<1> QED BY <1>3, <1>4, <1>5, <1>6

LEMMA PositionsInv == ASSUME IInv, PositionsOnly PROVE IInv'
<1> USE DEF IInv, PositionsOnly
<1>1. TypeOK'
  BY DEF TypeOK, Kept, IsRows
<1>2. OrderIsTotal'
  BY DEF OrderIsTotal, Kept
<1>3. MovesStay'
  BY DEF MovesStay, TableOf, Kept, TypeOK
<1> QED BY <1>1, <1>2, <1>3

LEMMA CreateTableInv ==
  ASSUME IInv, NEW t \in TableIds, CreateTable(t) PROVE IInv'
<1> USE DEF IInv
<1>1. PICK p \in Position :
         IsEnd(tables, Top, p) /\ tables' = Put(tables, t, Top, p)
  BY DEF CreateTable
<1>2. IsRows(tables') /\ Distinct(tables')
  BY <1>1, TypedRows, NewRow DEF Ids, Scopes, OrderIsTotal
<1>3. /\ DOMAIN tables' = DOMAIN tables \cup {t}
      /\ \A u \in DOMAIN tables' : tables'[u].scope = Top
  BY <1>1 DEF Put, TypeOK
<1>4. UNCHANGED <<chains, rules, moves>> /\ used' = used \cup {t}
  BY DEF CreateTable, Fresh
<1>5. TypeOK'
  BY <1>2, <1>3, <1>4 DEF TypeOK, IsRows
<1>6. OrderIsTotal'
  BY <1>2, <1>4 DEF OrderIsTotal
<1>7. MovesStay'
  BY <1>4 DEF MovesStay, TableOf
<1> QED BY <1>5, <1>6, <1>7

\* A new chain has an id no move names: moves[q].target \in used.
LEMMA CreateChainInv ==
  ASSUME IInv, NEW c \in ChainIds, NEW t \in TableIds, CreateChain(c, t)
  PROVE  IInv'
<1> USE DEF IInv
<1>1. PICK p \in Position :
         IsEnd(chains, t, p) /\ chains' = Put(chains, c, t, p)
  BY DEF CreateChain
<1>2. IsRows(chains') /\ Distinct(chains')
  BY <1>1, TypedRows, NewRow DEF Ids, Scopes, OrderIsTotal
<1>3. /\ c \notin used /\ used' = used \cup {c} /\ t \in DOMAIN tables
      /\ UNCHANGED <<tables, rules, moves>>
  BY DEF CreateChain, Fresh
<1>4. /\ DOMAIN chains' = DOMAIN chains \cup {c}
      /\ chains'[c].scope = t
      /\ \A d \in DOMAIN chains : chains'[d] = chains[d]
  BY <1>1, <1>3 DEF Put, TypeOK
<1>5. TypeOK'
  BY <1>2, <1>3, <1>4 DEF TypeOK, IsRows
<1>6. OrderIsTotal'
  BY <1>2, <1>3 DEF OrderIsTotal
<1>7. MovesStay'
  BY <1>3, <1>4 DEF MovesStay, TableOf, TypeOK
<1> QED BY <1>5, <1>6, <1>7

LEMMA CreateRuleInv ==
  ASSUME IInv, NEW r \in RuleIds, NEW c \in ChainIds, CreateChainRule(r, c)
  PROVE  IInv'
<1> USE DEF IInv
<1>1. PICK p \in Position : /\ IsEnd(rules, c, p) \/ IsStart(rules, c, p)
                            /\ rules' = Put(rules, r, c, p)
  BY DEF CreateChainRule
<1>2. IsRows(rules') /\ Distinct(rules')
  BY <1>1, TypedRows, NewRow DEF Ids, Scopes, OrderIsTotal
<1>3. /\ r \notin used /\ used' = used \cup {r} /\ c \in DOMAIN chains
      /\ UNCHANGED <<tables, chains, moves>>
  BY DEF CreateChainRule, Fresh
<1>4. /\ DOMAIN rules' = DOMAIN rules \cup {r}
      /\ rules'[r].scope = c
      /\ \A s \in DOMAIN rules : rules'[s] = rules[s]
  BY <1>1, <1>3 DEF Put, TypeOK
<1>5. TypeOK'
  BY <1>2, <1>3, <1>4 DEF TypeOK, IsRows
<1>6. OrderIsTotal'
  BY <1>2, <1>3 DEF OrderIsTotal
<1>7. MovesStay'
  BY <1>3, <1>4 DEF MovesStay, TableOf
<1> QED BY <1>5, <1>6, <1>7

\* What a deletion leaves: the rows that stay are as they were, and nothing
\* hangs in the air.
LEMMA DeleteInv ==
  ASSUME IInv,
         \/ \E t \in TableIds : DeleteTable(t)
         \/ \E c \in ChainIds : DeleteChain(c)
         \/ \E r \in RuleIds : DeleteChainRule(r)
  PROVE  IInv'
<1> USE DEF IInv
<1>1. PICK T \in SUBSET TableIds, C \in SUBSET ChainIds, R \in SUBSET RuleIds :
         /\ tables' = Without(tables, T)
         /\ chains' = Without(chains, C)
         /\ rules' = Without(rules, R)
         /\ ChainsOf(T) \subseteq C /\ RulesOf(C) \subseteq R
         /\ UNCHANGED <<used, moves>>
  <2>0. /\ tables = Without(tables, {}) /\ chains = Without(chains, {})
        /\ ChainsOf({}) = {}
    BY DEF Without, TypeOK, ChainsOf
  <2>1. \A I : ChainsOf(I) \subseteq ChainIds /\ RulesOf(I) \subseteq RuleIds
    BY DEF ChainsOf, RulesOf, TypeOK
  <2>2. CASE \E t \in TableIds : DeleteTable(t)
    <3>1. PICK t \in TableIds : DeleteTable(t)
      BY <2>2
    <3>2. {t} \in SUBSET TableIds
      OBVIOUS
    <3> QED BY <2>1, <3>1, <3>2 DEF DeleteTable
  <2>3. CASE \E c \in ChainIds : DeleteChain(c)
    <3>1. PICK c \in ChainIds : DeleteChain(c)
      BY <2>3
    <3>2. {c} \in SUBSET ChainIds /\ {} \in SUBSET TableIds
      OBVIOUS
    <3> QED BY <2>0, <2>1, <3>1, <3>2 DEF DeleteChain
  <2>4. CASE \E r \in RuleIds : DeleteChainRule(r)
    <3>1. PICK r \in RuleIds : DeleteChainRule(r)
      BY <2>4
    <3>2. {r} \in SUBSET RuleIds /\ {} \in SUBSET TableIds
          /\ {} \in SUBSET ChainIds /\ RulesOf({}) = {}
      BY DEF RulesOf
    <3> QED BY <2>0, <3>1, <3>2 DEF DeleteChainRule
  <2> QED BY <2>2, <2>3, <2>4
<1>2. /\ IsRows(tables') /\ Distinct(tables')
      /\ IsRows(chains') /\ Distinct(chains')
      /\ IsRows(rules') /\ Distinct(rules')
  BY <1>1, TypedRows, WithoutRows DEF OrderIsTotal
<1>3. /\ DOMAIN tables' = DOMAIN tables \ T
      /\ \A t \in DOMAIN tables' : tables'[t] = tables[t]
      /\ DOMAIN chains' = DOMAIN chains \ C
      /\ \A c \in DOMAIN chains' : chains'[c] = chains[c]
      /\ DOMAIN rules' = DOMAIN rules \ R
      /\ \A r \in DOMAIN rules' : rules'[r] = rules[r]
  BY <1>1 DEF Without
<1>4. /\ \A c \in DOMAIN chains' : chains'[c].scope \in DOMAIN tables'
      /\ \A r \in DOMAIN rules' : rules'[r].scope \in DOMAIN chains'
  BY <1>1, <1>3 DEF ChainsOf, RulesOf, TypeOK
<1>5. TypeOK'
  BY <1>1, <1>2, <1>3, <1>4 DEF TypeOK, IsRows
<1>6. OrderIsTotal'
  BY <1>2 DEF OrderIsTotal
<1>7. MovesStay'
  BY <1>1, <1>3, <1>4 DEF MovesStay, TableOf
<1> QED BY <1>5, <1>6, <1>7

LEMMA CheckMoveInv ==
  ASSUME IInv, NEW q \in Requests, NEW r \in RuleIds, NEW c \in ChainIds,
         CheckMove(q, r, c)
  PROVE  IInv'
<1> USE DEF IInv
<1>1. UNCHANGED <<tables, chains, rules, used>>
  BY DEF CheckMove
<1>2. /\ moves' = [moves EXCEPT ![q] = [rule |-> r, target |-> c]]
      /\ r \in DOMAIN rules /\ c \in DOMAIN chains
      /\ TableOf(r) = chains[c].scope
  BY DEF CheckMove, TableOf
<1>3. TypeOK'
  BY <1>1, <1>2 DEF TypeOK, Move
<1>4. OrderIsTotal'
  BY <1>1 DEF OrderIsTotal
<1>5. MovesStay'
  BY <1>1, <1>2 DEF MovesStay, TableOf, TypeOK
<1> QED BY <1>3, <1>4, <1>5

LEMMA ReassignInv ==
  ASSUME IInv, NEW q \in Requests, ReassignChainRule(q)
  PROVE  /\ IInv'
         /\ \A r \in DOMAIN rules \cap DOMAIN rules' : TableOf(r)' = TableOf(r)
<1> DEFINE r == moves[q].rule
           c == moves[q].target
<1> USE DEF IInv
<1>1. /\ moves[q] # NoMove /\ moves' = [moves EXCEPT ![q] = NoMove]
      /\ UNCHANGED <<tables, chains, used>>
  BY DEF ReassignChainRule
<1>2. moves[q] \in Move
  BY <1>1 DEF TypeOK
<1>3. CASE r \in DOMAIN rules /\ c \in DOMAIN chains
  <2>1. PICK p \in Position :
           IsEnd(rules, c, p) /\ rules' = Put(rules, r, c, p)
    BY <1>3 DEF ReassignChainRule
  <2>2. IsRows(rules') /\ Distinct(rules')
    BY <1>2, <2>1, TypedRows, NewRow DEF Ids, Scopes, OrderIsTotal, Move
  <2>3. /\ DOMAIN rules' = DOMAIN rules
        /\ rules'[r].scope = c
        /\ \A s \in DOMAIN rules : s # r => rules'[s] = rules[s]
    BY <1>3, <2>1 DEF Put
  <2>4. TableOf(r) = chains[c].scope
    BY <1>1, <1>3 DEF MovesStay
  <2>5. \A s \in DOMAIN rules : TableOf(s)' = TableOf(s)
    BY <1>1, <2>3, <2>4 DEF TableOf
  <2>6. TypeOK'
    BY <1>1, <1>3, <2>2, <2>3 DEF TypeOK, IsRows
  <2>7. OrderIsTotal'
    BY <1>1, <2>2 DEF OrderIsTotal
  <2>8. MovesStay'
    BY <1>1, <2>3, <2>5 DEF MovesStay, TypeOK
  <2> QED BY <2>5, <2>6, <2>7, <2>8
<1>4. CASE ~(r \in DOMAIN rules /\ c \in DOMAIN chains)
  <2>1. UNCHANGED rules
    BY <1>4 DEF ReassignChainRule
  <2>2. TypeOK'
    BY <1>1, <2>1 DEF TypeOK
  <2>3. OrderIsTotal'
    BY <1>1, <2>1 DEF OrderIsTotal
  <2>4. MovesStay'
    BY <1>1, <2>1 DEF MovesStay, TableOf, TypeOK
  <2>5. \A s \in DOMAIN rules : TableOf(s)' = TableOf(s)
    BY <1>1, <2>1 DEF TableOf
  <2> QED BY <2>2, <2>3, <2>4, <2>5
<1> QED BY <1>3, <1>4

LEMMA StepInv == ASSUME IInv, [Next]_vars PROVE IInv'
<1>1. CASE UNCHANGED vars
  BY <1>1 DEF vars, IInv, TypeOK, OrderIsTotal, MovesStay, TableOf
<1>2. CASE \/ \E t \in TableIds : MoveTable(t)
           \/ \E c \in ChainIds : MoveChain(c)
           \/ \E r \in RuleIds : MoveChainRule(r)
           \/ Reorder
  BY <1>2, PositionSteps, PositionsInv
<1>3. CASE \/ \E t \in TableIds : DeleteTable(t)
           \/ \E c \in ChainIds : DeleteChain(c)
           \/ \E r \in RuleIds : DeleteChainRule(r)
  BY <1>3, DeleteInv
<1>4. CASE \/ \E t \in TableIds : CreateTable(t)
           \/ \E c \in ChainIds, t \in TableIds : CreateChain(c, t)
           \/ \E r \in RuleIds, c \in ChainIds : CreateChainRule(r, c)
  BY <1>4, CreateTableInv, CreateChainInv, CreateRuleInv
<1>5. CASE \E q \in Requests : \/ ReassignChainRule(q)
                               \/ \E r \in RuleIds, c \in ChainIds :
                                     CheckMove(q, r, c)
  BY <1>5, ReassignInv, CheckMoveInv
<1> QED BY <1>1, <1>2, <1>3, <1>4, <1>5 DEF Next

LEMMA StepStaysInTable ==
  ASSUME IInv, [Next]_vars
  PROVE  \A r \in DOMAIN rules \cap DOMAIN rules' : TableOf(r)' = TableOf(r)
<1> USE DEF IInv
<1> SUFFICES ASSUME NEW r \in DOMAIN rules, r \in DOMAIN rules'
             PROVE  TableOf(r)' = TableOf(r)
  OBVIOUS
<1>1. CASE \E q \in Requests : ReassignChainRule(q)
  BY <1>1, ReassignInv
<1>2. CASE \/ \E t \in TableIds : MoveTable(t)
           \/ \E c \in ChainIds : MoveChain(c)
           \/ \E q \in RuleIds : MoveChainRule(q)
           \/ Reorder
  <2>1. Kept(chains, chains') /\ Kept(rules, rules')
    BY <1>2, PositionSteps DEF PositionsOnly
  <2> QED BY <2>1 DEF Kept, TableOf, TypeOK
\* The other steps leave a rule that stays, and its chain, as they are.
<1>3. CASE \/ UNCHANGED vars
           \/ \E t \in TableIds : CreateTable(t)
           \/ \E q \in Requests, s \in RuleIds, c \in ChainIds :
                 CheckMove(q, s, c)
  BY <1>3 DEF vars, CreateTable, CheckMove, TableOf
<1>4. CASE \E c \in ChainIds, t \in TableIds : CreateChain(c, t)
  BY <1>4 DEF CreateChain, Fresh, Put, TableOf, TypeOK
<1>5. CASE \E s \in RuleIds, c \in ChainIds : CreateChainRule(s, c)
  BY <1>5 DEF CreateChainRule, Fresh, Put, TableOf, TypeOK
<1>6. CASE \/ \E t \in TableIds : DeleteTable(t)
           \/ \E c \in ChainIds : DeleteChain(c)
           \/ \E s \in RuleIds : DeleteChainRule(s)
  <2>1. PICK R, C : rules' = Without(rules, R) /\ chains' = Without(chains, C)
    <3>1. CASE \E t \in TableIds : DeleteTable(t)
      BY <3>1 DEF DeleteTable
    <3>2. CASE \E c \in ChainIds : DeleteChain(c)
      BY <3>2 DEF DeleteChain
    <3>3. CASE \E s \in RuleIds : DeleteChainRule(s)
      <4>1. chains' = Without(chains, {})
        BY <3>3 DEF DeleteChainRule, Without, TypeOK
      <4> QED BY <3>3, <4>1 DEF DeleteChainRule
    <3> QED BY <1>6, <3>1, <3>2, <3>3
  <2>2. rules'[r] = rules[r]
    BY <2>1 DEF Without
  <2>3. rules'[r].scope \in DOMAIN chains'
    BY <1>6, DeleteInv DEF TypeOK
  <2>4. chains'[rules[r].scope] = chains[rules[r].scope]
    BY <2>1, <2>2, <2>3 DEF Without
  <2> QED BY <2>2, <2>4 DEF TableOf
<1> QED BY <1>1, <1>2, <1>3, <1>4, <1>5, <1>6 DEF Next

-----------------------------------------------------------------------------
(* What a step turns around                                                *)

\* Whatever two rows change their order, one of them is i.
TurnsOnly(rows, new, i) ==
    \A a, b \in DOMAIN rows \cap DOMAIN new :
        (/\ rows[a].scope = rows[b].scope /\ new[a].scope = new[b].scope
         /\ Before(rows, a, b) /\ Before(new, b, a))
            => i \in {a, b}

OneRowTurns(rows, new) ==
    LET turned == Turned(rows, new) IN
    turned # {} => \E i \in UNION turned : \A pair \in turned : i \in pair

LEMMA OneRow ==
  ASSUME NEW rows, NEW new, NEW i, TurnsOnly(rows, new, i)
  PROVE  OneRowTurns(rows, new)
<1>1. \A pair \in Turned(rows, new) : i \in pair
  BY DEF Turned, TurnsOnly
<1>2. Turned(rows, new) # {} => i \in UNION Turned(rows, new)
  BY <1>1
<1> QED BY <1>1, <1>2 DEF OneRowTurns

\* Rows that stay where they are keep their order.
LEMMA NoneTurns ==
  ASSUME NEW rows, IsRows(rows), NEW new, NEW i,
         \A j \in DOMAIN rows \cap DOMAIN new : j = i \/ new[j] = rows[j]
  PROVE  OneRowTurns(rows, new)
<1>1. \A j \in DOMAIN rows : rows[j].pos \in Int
  BY DEF IsRows, Row
<1>2. ASSUME NEW a \in DOMAIN rows \cap DOMAIN new,
             NEW b \in DOMAIN rows \cap DOMAIN new,
             Before(rows, a, b), Before(new, b, a), i \notin {a, b}
      PROVE  FALSE
  <2>1. new[a] = rows[a] /\ new[b] = rows[b]
    BY <1>2
  <2> QED BY <1>1, <1>2, <2>1 DEF Before
<1>3. TurnsOnly(rows, new, i)
  BY <1>2 DEF TurnsOnly
<1> QED BY <1>3, OneRow

\* Nobody stands between neighbours, so exchanging them turns only this pair.
LEMMA NextTurns ==
  ASSUME NEW rows, IsRows(rows), Distinct(rows), NEW new,
         NEW a \in DOMAIN rows, NEW b \in DOMAIN rows, IsNext(rows, a, b),
         DOMAIN new = DOMAIN rows,
         \A j \in DOMAIN rows :
            /\ new[j].scope = rows[j].scope
            /\ new[j].pos = IF j = b THEN rows[a].pos
                            ELSE IF j = a THEN rows[b].pos ELSE rows[j].pos
  PROVE  OneRowTurns(rows, new)
<1>1. \A j \in DOMAIN rows : rows[j].pos \in Int
  BY DEF IsRows, Row
<1>2. /\ rows[b].scope = rows[a].scope /\ rows[a].pos < rows[b].pos
      /\ \A c \in DOMAIN rows :
            rows[c].scope = rows[a].scope /\ rows[a].pos < rows[c].pos
               => ~(rows[c].pos < rows[b].pos)
  BY DEF IsNext, InScope, Before
<1>3. ASSUME NEW c \in DOMAIN rows, NEW d \in DOMAIN rows,
             rows[c].scope = rows[d].scope,
             rows[c].pos < rows[d].pos, new[d].pos < new[c].pos,
             a \notin {c, d}
      PROVE  FALSE
  <2>1. CASE b \notin {c, d}
    BY <1>1, <1>3, <2>1
  <2>2. CASE c = b
    BY <1>1, <1>2, <1>3, <2>2
  <2>3. CASE d = b
    <3>1. rows[c].scope = rows[a].scope /\ rows[c].pos < rows[b].pos
          /\ rows[a].pos < rows[c].pos
      <4>1. c # a /\ c # b /\ new[c].pos = rows[c].pos /\ new[d].pos = rows[a].pos
        BY <1>1, <1>3, <2>3
      <4> QED BY <1>2, <1>3, <2>3, <4>1
    <3> QED BY <1>2, <3>1
  <2> QED BY <2>1, <2>2, <2>3
<1>4. TurnsOnly(rows, new, a)
  BY <1>3 DEF TurnsOnly, Before
<1> QED BY <1>4, OneRow

LEMMA NeighbourTurns ==
  ASSUME NEW rows, IsRows(rows), Distinct(rows),
         NEW a \in DOMAIN rows, NEW b \in DOMAIN rows, IsNeighbour(rows, a, b)
  PROVE  OneRowTurns(rows, Swapped(rows, a, b))
<1> DEFINE new == Swapped(rows, a, b)
<1>2. /\ DOMAIN new = DOMAIN rows
      /\ \A j \in DOMAIN rows :
            /\ new[j].scope = rows[j].scope
            /\ new[j].pos = IF j = b THEN rows[a].pos
                            ELSE IF j = a THEN rows[b].pos ELSE rows[j].pos
  BY SwappedAt
<1> HIDE DEF new
<1>3. CASE IsNext(rows, a, b)
  BY <1>2, <1>3, NextTurns DEF new
<1>4. CASE IsNext(rows, b, a)
  <2>1. a # b
    BY <1>4 DEF IsNext, Before, IsRows, Row
  <2>2. \A j \in DOMAIN rows :
           /\ new[j].scope = rows[j].scope
           /\ new[j].pos = IF j = a THEN rows[b].pos
                           ELSE IF j = b THEN rows[a].pos ELSE rows[j].pos
    BY <1>2, <2>1
  <2>3. OneRowTurns(rows, new)
    BY <1>2, <1>4, <2>2, NextTurns
  <2> QED BY <2>3 DEF new
<1> QED BY <1>3, <1>4 DEF IsNeighbour

\* An action of the model moves, creates and deletes rows of at most one order
\* in such a way; the others it leaves alone.
LEMMA StepTurns ==
  ASSUME IInv, [Next]_vars
  PROVE  \/ Reorder
         \/ /\ OneRowTurns(tables, tables')
            /\ OneRowTurns(chains, chains')
            /\ OneRowTurns(rules, rules')
<1>1. /\ IsRows(tables) /\ Distinct(tables)
      /\ IsRows(chains) /\ Distinct(chains)
      /\ IsRows(rules) /\ Distinct(rules)
  BY TypedRows DEF IInv, OrderIsTotal
<1>2. ASSUME NEW rows, NEW new, IsRows(rows), new = rows
      PROVE  OneRowTurns(rows, new)
  BY <1>2, NoneTurns
<1>3. ASSUME NEW rows, NEW new, IsRows(rows), NEW I, new = Without(rows, I)
      PROVE  OneRowTurns(rows, new)
  <2>1. \A j \in DOMAIN rows \cap DOMAIN new : new[j] = rows[j]
    BY <1>3 DEF Without
  <2> QED BY <1>3, <2>1, NoneTurns
<1>4. ASSUME NEW rows, NEW new, IsRows(rows), NEW i, NEW s, NEW p,
             new = Put(rows, i, s, p)
      PROVE  OneRowTurns(rows, new)
  <2>1. \A j \in DOMAIN rows \cap DOMAIN new : j = i \/ new[j] = rows[j]
    BY <1>4 DEF Put
  <2> QED BY <1>4, <2>1, NoneTurns
<1>5. ASSUME NEW rows, NEW new, IsRows(rows), Distinct(rows),
             NEW a \in DOMAIN rows, NEW b \in DOMAIN rows,
             IsNeighbour(rows, a, b), new = Swapped(rows, a, b)
      PROVE  OneRowTurns(rows, new)
  BY <1>5, NeighbourTurns
<1>6. CASE UNCHANGED vars
  BY <1>1, <1>2, <1>6 DEF vars
<1>7. CASE \E t \in TableIds : CreateTable(t) \/ DeleteTable(t) \/ MoveTable(t)
  <2>1. PICK t \in TableIds : CreateTable(t) \/ DeleteTable(t) \/ MoveTable(t)
    BY <1>7
  <2>2. CASE CreateTable(t)
    BY <1>1, <1>2, <1>4, <2>2 DEF CreateTable
  <2>3. CASE DeleteTable(t)
    BY <1>1, <1>3, <2>3 DEF DeleteTable
  <2>4. CASE MoveTable(t)
    BY <1>1, <1>2, <1>5, <2>4 DEF MoveTable
  <2> QED BY <2>1, <2>2, <2>3, <2>4
<1>8. CASE \E c \in ChainIds : DeleteChain(c) \/ MoveChain(c)
                               \/ \E t \in TableIds : CreateChain(c, t)
  <2>1. PICK c \in ChainIds : DeleteChain(c) \/ MoveChain(c)
                              \/ \E t \in TableIds : CreateChain(c, t)
    BY <1>8
  <2>2. CASE DeleteChain(c)
    BY <1>1, <1>2, <1>3, <2>2 DEF DeleteChain
  <2>3. CASE MoveChain(c)
    BY <1>1, <1>2, <1>5, <2>3 DEF MoveChain
  <2>4. CASE \E t \in TableIds : CreateChain(c, t)
    BY <1>1, <1>2, <1>4, <2>4 DEF CreateChain
  <2> QED BY <2>1, <2>2, <2>3, <2>4
<1>9. CASE \E r \in RuleIds : DeleteChainRule(r) \/ MoveChainRule(r)
                              \/ \E c \in ChainIds : CreateChainRule(r, c)
  <2>1. PICK r \in RuleIds : DeleteChainRule(r) \/ MoveChainRule(r)
                             \/ \E c \in ChainIds : CreateChainRule(r, c)
    BY <1>9
  <2>2. CASE DeleteChainRule(r)
    BY <1>1, <1>2, <1>3, <2>2 DEF DeleteChainRule
  <2>3. CASE MoveChainRule(r)
    BY <1>1, <1>2, <1>5, <2>3 DEF MoveChainRule
  <2>4. CASE \E c \in ChainIds : CreateChainRule(r, c)
    BY <1>1, <1>2, <1>4, <2>4 DEF CreateChainRule
  <2> QED BY <2>1, <2>2, <2>3, <2>4
<1>10. CASE \E q \in Requests : ReassignChainRule(q)
                                \/ \E r \in RuleIds, c \in ChainIds :
                                      CheckMove(q, r, c)
  <2>1. PICK q \in Requests : ReassignChainRule(q)
                              \/ \E r \in RuleIds, c \in ChainIds :
                                    CheckMove(q, r, c)
    BY <1>10
  <2>2. CASE ReassignChainRule(q)
    <3>1. \/ rules' = rules
          \/ \E i, s, p : rules' = Put(rules, i, s, p)
      BY <2>2 DEF ReassignChainRule
    <3>2. UNCHANGED <<tables, chains>>
      BY <2>2 DEF ReassignChainRule
    <3> QED BY <1>1, <1>2, <1>4, <3>1, <3>2
  <2>3. CASE \E r \in RuleIds, c \in ChainIds : CheckMove(q, r, c)
    BY <1>1, <1>2, <2>3 DEF CheckMove
  <2> QED BY <2>1, <2>2, <2>3
<1> QED BY <1>6, <1>7, <1>8, <1>9, <1>10 DEF Next

-----------------------------------------------------------------------------
(* Theorems                                                                *)

LEMMA Invariance == Spec => []IInv
<1>1. Init => IInv
  BY InitInv
<1>2. IInv /\ [Next]_vars => IInv'
  BY StepInv
<1> QED BY <1>1, <1>2, PTL DEF Spec

\* No two rows of a scope share a position, whatever the operators create,
\* delete, move and drag, and however old their pages are.
THEOREM PositionsDiffer == Spec => []OrderIsTotal
<1>1. IInv => OrderIsTotal
  BY DEF IInv
<1> QED BY <1>1, Invariance, PTL

\* Every chain has its table and every rule its chain.
THEOREM NoOrphans == Spec => []TypeOK
<1>1. IInv => TypeOK
  BY DEF IInv
<1> QED BY <1>1, Invariance, PTL

\* A rule never ends up in another table, although a move compares the tables
\* some statements before it is carried out.
THEOREM MovesKeepTable == Spec => RulesStayInTable
<1>1. IInv /\ [Next]_vars =>
         [\A r \in DOMAIN rules \cap DOMAIN rules' :
             TableOf(r)' = TableOf(r)]_vars
  BY StepStaysInTable
<1> QED BY <1>1, Invariance, PTL DEF Spec, RulesStayInTable

\* Nothing but a drag rearranges a page: any other request takes one row past
\* others, and the rest keep the order they are rendered in, whatever two
\* operators do together (model.go:565-660, firewall.go:783-860).
THEOREM OthersKeepOrder == Spec => OrderIsKept
<1>1. IInv /\ [Next]_vars =>
         [\/ Reorder
          \/ \A step \in {<<tables, tables'>>, <<chains, chains'>>,
                          <<rules, rules'>>} :
                LET turned == Turned(step[1], step[2]) IN
                turned # {} => \E i \in UNION turned :
                                   \A pair \in turned : i \in pair]_vars
  <2> SUFFICES ASSUME IInv, [Next]_vars, ~Reorder,
                      NEW step \in {<<tables, tables'>>, <<chains, chains'>>,
                                    <<rules, rules'>>}
               PROVE  OneRowTurns(step[1], step[2])
    BY DEF OneRowTurns
  <2>1. /\ OneRowTurns(tables, tables')
        /\ OneRowTurns(chains, chains')
        /\ OneRowTurns(rules, rules')
    BY StepTurns
  <2> QED BY <2>1
<1> QED BY <1>1, Invariance, PTL DEF Spec, OrderIsKept
=============================================================================
