SPECIFICATION RulebookSpec
CONSTANTS
    V4 <- MCV4
    V6 <- MCV6
    Nobody = "nobody"
    Outsider = "x4"
    Country <- MCCountry
    UiPort = "8080"
    TraceIifs <- MCIifs
    AllowPorts <- MCAllow
    BanServices <- MCServices
    FirstLists <- MCLists
    Incoming <- MCIncoming
    Transit <- MCTransit
    MaxClicks = 3
    MaxBreaks = 1
    BreakPoints <- MCBreaks
INVARIANT RulebookTypeOK
INVARIANT PresetKeepsPromise
INVARIANT DetectorsSeeAll
INVARIANT PassIsTrue
INVARIANT WarningsAreRight
INVARIANT BlockedIsDropped
PROPERTY ToolsKeepAccess
CHECK_DEADLOCK FALSE
