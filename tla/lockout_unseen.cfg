SPECIFICATION RulebookSpec
CONSTANTS
    V4 <- MCV4
    V6 <- MCV6
    Nobody = "nobody"
    Outsider = "x4"
    Country <- MCCountry
    UiPort = "8080"
    TraceIifs <- MCWan
    AllowPorts <- MCAllow
    BanServices <- MCServices
    FirstLists <- MCFilled
    Incoming <- MCIncoming
    Transit <- MCTransit
    MaxClicks = 2
    MaxBreaks = 0
    BreakPoints <- MCBreaks
INVARIANT LockoutIsForetold
CHECK_DEADLOCK FALSE
