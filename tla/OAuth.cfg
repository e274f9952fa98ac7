SPECIFICATION OAuthFairSpec
CONSTANTS
    h1 = h1
    h2 = h2
    t1 = t1
    Scopes = {"GLOBAL", "org"}
    Global = "GLOBAL"
    NoScope = NoScope
    Clients = {"c1", "c2"}
    NoClient = "none"
    Public = {"c2"}
    Refs = {1, 2, 3, 4, 5, 6}
    NoRef = 0
    Handlers = {h1, h2}
    Timers = {t1}
    Settings <- SettingsChecked
    MaxTokens = 2
INVARIANTS
    OAuthTypeOK
    CompletedHasTokens
    TokensFit
PROPERTIES
    ExchangeEnds
    ExpiringIsRefreshed
