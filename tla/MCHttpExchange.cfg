\* Two clients, of which the second may be given the http.Client of the first; two
\* accounts; one redirect.  The calls are over or the bounds are reached: no deadlock.
SPECIFICATION MCSpec
CONSTANTS
    Callers = 1
    MaxClients = 2
    Stacks <- MCStacks
    MaxHops = 2
    Accounts = {"ann", "bob"}
    None = "none"
    Statuses = {200, 400, 408, 429, 501, 503}
    Bodies <- MCBodies
    Start = 1700000000
    Later = {1800, 3600, 5400}
INVARIANTS
    CallersClientKept
    ServerSeesWholeRequest
    LoggingIsTransparent
    SuccessIsReal
    RetryableFollowsStatus
    CredentialsBelongTogether
    TokenKeepsItsTime
CHECK_DEADLOCK FALSE
