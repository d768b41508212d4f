SPECIFICATION Spec
CONSTANTS
    None = None
    ClientIds <- MCClientIds
    WorldOf <- MCWorldOf
    RelayScopes = {"entity:read", "canvas:write"}
    OldScopes = {"entity:read", "wod5e"}
    NewScopes = {"entity:read", "wod5e", "canvas:write"}
    MaxRows = 1
    MaxFaults = 3
    MaxKeys = 5
INVARIANTS UnderScopedIsNoticed
PROPERTIES ImplementsKeyKeeper SidecarConverges
CHECK_DEADLOCK FALSE
