SPECIFICATION LeaseFairSpec
CONSTANTS
  Attempts = {a1, a2}
  StaleAfter = 3
  LeaseTTL = 4
  MaxBack = 1
  Timings = {TRUE, FALSE}
  None = None
INVARIANTS LeaseTypeOK OneRoundWhenTimely HoldersAreFresh
PROPERTIES FreshRecordIsOwners KeepsTheFloor LoserStops NotLockedForGood
