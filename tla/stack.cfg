SPECIFICATION StackSpec
CONSTANTS
    None = None
    ClientIds <- MCClientIds
    WorldOf <- MCWorldOf
    RelayScopes = {}
    Feeds = {f1}
    MaxRows = 2
    MaxFaults = 2
    MaxKeys = 3
INVARIANTS StreamsAreCurrent
PROPERTIES NeverSwitchesWorlds GatewayConverges
CHECK_DEADLOCK FALSE
