CONSTANTS
  Slots = {s1, s2}
  Remotes = {s1, s2}
  Channels = {c1, c2}
  Threads = {t1, t2}
  Addresses = {a1, a2}
  Null = null
  Unread = unread
  NoOne = noone
  Main = main
  MaxPrograms = 2
  MaxFailures = 1
  MaxOutOfMemory = 1
SPECIFICATION Spec
SYMMETRY Symmetry
INVARIANTS OneAnswer ScanDefined
PROPERTY OnlyItsOwn
CONSTRAINT OneFault
