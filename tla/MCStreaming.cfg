SPECIFICATION Spec
CONSTANTS
    lib = lib
    ip1 = ip1
    ip2 = ip2
    k1 = k1
    None = None
    Null = Null
    Bad = Bad
    Invalid = Invalid
    Random = Random
    Library = lib
    Addresses = {ip1, ip2}
    Confs <- MCConfs
    Tables <- MCTables
    Policies <- MCPolicies
    Editions <- MCEditions
    Files <- MCFiles
    TTL = 1
    MaxTime = 2
    MaxStarts = 1
    MaxChanges = 1
    MaxIssued = 2
    MaxSent = 1
SYMMETRY Clients
CHECK_DEADLOCK FALSE
INVARIANTS
    AddressesPlay
    AddressesEnd
    SignaturesSound
    StreamsAddressable
