CONSTANTS
  t1 = t1
  t2 = t2
  c1 = c1
  c2 = c2
  r1 = r1
  r2 = r2
  r3 = r3
  q1 = q1
  q2 = q2
  Top = Top
  TableIds <- TwoTables
  ChainIds <- TwoChains
  RuleIds <- ThreeRules
  Requests <- TwoRequests
  MinPos <- MinusOne
  MaxPos = 3
SYMMETRY Ids
SPECIFICATION Spec
INVARIANT TypeOK
INVARIANT OrderIsTotal
PROPERTY RulesStayInTable
PROPERTY OrderIsKept
