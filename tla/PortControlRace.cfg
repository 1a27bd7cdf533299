SPECIFICATION Spec
CONSTANTS
  t1 = t1
  t2 = t2
  h1 = h1
  h2 = h2
  Hosts = {h1}
  Tasks = {t1, t2}
  Monitor = Monitor
  NumServers = 4
  Sizes <- MCSizes
  Decisions <- MCDecisions
  StartNumbers = {0}
  BlockIndexes <- MCBlockIndexes
SYMMETRY Symmetric
INVARIANTS TypeOK DivisorPositive
PROPERTY ReportedOnce
