CONSTANTS
  Clients = {c1, c2}
  NoClient = none
  Timeout = 2
  Period = 1
  MaxInbox = 1
SPECIFICATION FairSpec
PROPERTIES DroppedForSilence SilentIsDropped WaitingIsAccepted
