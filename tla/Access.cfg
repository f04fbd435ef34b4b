SPECIFICATION Spec
CONSTANTS
    Nil = Nil
    Lower <- MCLower
    Names <- MCNames
    Ports = {"3000", "443"}
    IPv4 <- MCIPv4
    IPv6 <- MCIPv6
    Configs <- MCConfigs
    Pages <- MCPages
    Tokens <- MCTokens
    Headers <- MCHeaders
    Entries <- MCEntries
    PublicRoutes = {"/healthz"}
    Routes = {"/state"}
    Paths = {"/healthz", "/state", "/nowhere"}
    MaxRequests = 2
CHECK_DEADLOCK FALSE
INVARIANTS ReadableIffNamed AuthenticFirst NothingMatchesNothing
PROPERTIES GoodTokensKept
