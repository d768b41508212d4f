SPECIFICATION PollFairSpec
CONSTANTS
  Actors = {a1}
  Clients = {c1,c2}
  Watchers = {w1}
  Streams = {s1}
  SectionIds = {}
  CoreSections = {}
  Hps = {1,2}
  None = None
  BulkEdits = FALSE
  TornReads = FALSE
  FetchFaults = TRUE
  RelayDrops = TRUE
  IdentityChanges = FALSE
  AppCloses = TRUE
  MaxEdits = 2
CHECK_DEADLOCK FALSE
INVARIANTS NoLostUpdate
PROPERTIES AnnouncedChangesArrive PollCatchesUp
