CONSTANTS
  Slots = {s1}
  Remotes = {s1}
  Channels = {c1, c2}
  Threads = {t1, t2}
  Addresses = {a1, a2}
  Null = null
  Unread = unread
  NoOne = noone
  Main = main
  MaxPrograms = 1
  MaxFailures = 1
  MaxOutOfMemory = 0
SPECIFICATION FairSpec
PROPERTIES MainReturns GuideCatchesUp
