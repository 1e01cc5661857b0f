SPECIFICATION ElectrumSpec
CONSTANTS
  main = main
  chip = chip
  sub = sub
  other = other
  closer = closer
  i1 = i1
  i2 = i2
  None = None
  Calls = {sub, other, closer}
  Batches = {sub}
  Keeps = {sub}
  Closes = {closer}
  Networks = {main, chip}
  Items = {i1, i2}
  Clients = {k1, k2, k3, k4}
  HostsPerRound <- MCHosts
  k1 = k1
  k2 = k2
  k3 = k3
  k4 = k4
  home <- MCHome
  override <- MCOverride
  items <- MCItems
INVARIANTS ElectrumTypeOK RightNetworkAlone NoLeak SubsReplayed
PROPERTIES Settles
CHECK_DEADLOCK FALSE
