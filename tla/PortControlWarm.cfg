SPECIFICATION WarmSpec
CONSTANTS
  t1 = t1
  t2 = t2
  h1 = h1
  h2 = h2
  Hosts = {h1, h2}
  Tasks = {t1}
  Monitor = Monitor
  NumServers = 8
  Sizes <- MCOneSize
  Decisions <- MCDecisions
  StartNumbers <- MCStartNumbers
  BlockIndexes <- MCBlockIndexes
SYMMETRY Symmetric
INVARIANTS NeverBelowDecision WarmNeverFallsBack
