SPECIFICATION Spec
CONSTANTS
    NPIECES = 4
    LongDigits = 5
    HostName = HostName
    BuffLen = 32
    HeaderLen = 4
    PrefixLen = 4
    Octet = {0, 9, 10, 255}
    Piece = {0, 1, 16, 4660, 43981}
    MaxText6 = 11
    MaxText4 = 8
    MaxTargets = 3
    MaxCalls = 5
    MaxPayload = 4
    MaxFilters = 4
    Room = 40
    DAG_IFWILDCARD_MAX = 2
    DAG_IFWILDCARD_LEN = 5
    AddrBytes = 2
INVARIANTS
    AddressesAsText AddrcmpOrders OptionsArrive ChecksumVerifies
    LinkAddresses RequestsAnswered WildcardsSelect IdentityOfCertificate
