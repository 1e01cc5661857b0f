SPECIFICATION RunnerSpec
CONSTANTS
  Attempts = {a1, a2}
  Windows = {w1, w2}
  Coins = {c1, c2}
  Txs = {t1, t2}
  Modes = {"coordinator", "peer", "server"}
  Timings = {TRUE}
  None = None
SYMMETRY RunnerSymmetry
INVARIANTS RunnerTypeOK RoundKeepsItsCoins WindowKnowsItsRound PendingShutsOut
PROPERTIES GatesKeepTheFloor
