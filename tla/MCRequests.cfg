SPECIFICATION Spec
CONSTANTS
  n1 = n1
  n2 = n2
  r1 = r1
  r2 = r2
  Names = {n1, n2}
  Recordings = {r1, r2}
  Recorded = {r1}
  None = None
  MaxFaults = 1
  Channels = {12, 1205}
  Threads = {t1, t2}
  MaxLost = 1
  Documents <- AllDocuments
  Proper <- ProperDocuments
  MaxMessages = 2
  Monitors = 2
  Oldest = 2
  ChannelList <- Numbers
  LogList <- Logs
INVARIANTS SavedWhole ListedComplete TunedAsAsked ReadAsMeant
PROPERTIES ToldAsKept
CHECK_DEADLOCK FALSE
