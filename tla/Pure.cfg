SPECIFICATION Spec
CONSTANTS
    None = None
    NoValue = NoValue
    expr = expr
    Tokens <- MCTokens
    Escape <- MCEscape
    RegNameSafe <- MCRegNameSafe
    UserinfoSafe <- MCUserinfoSafe
    QuerySafe <- MCQuerySafe
    PathSafe <- MCQuerySafe
    NonUtf8 = {"xFF"}
    DigitRuns = {"0", "1", "80", "99999"}
    OcapnSchemes = {"ocapn", "OCAPN"}
    IpTexts <- MCIpTexts
    PortTexts <- MCPortTexts
    Locators <- MCLocators
    SwissNums <- MCSwissNums
    ForeignUris <- MCForeignUris
    PropertyLists <- MCPropertyLists
    Fns <- MCFns
    MaxItems = 2
INVARIANTS
    RoundTrips SwissKept AddressKept PanicsByQueryPort
    ResolvedOnce NoRoleDropped LastClaimServes
\* A URI was read, or a block expanded: nothing is left to do.
CHECK_DEADLOCK FALSE
