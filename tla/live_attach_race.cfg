SPECIFICATION FairSpec
CONSTANTS
  Actors = {a1}
  Clients = {c1,c2}
  Watchers = {w1}
  Streams = {s1}
  SectionIds = {}
  CoreSections = {}
  Hps = {1,2}
  None = None
  BulkEdits = FALSE
  TornReads = FALSE
  FetchFaults = FALSE
  RelayDrops = FALSE
  IdentityChanges = FALSE
  AppCloses = FALSE
  MaxEdits = 1
CHECK_DEADLOCK FALSE
PROPERTY EveryChangeReachesClients
