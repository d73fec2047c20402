SPECIFICATION Spec
CONSTANTS
    Clients = {c1, c2}
    Scripts <- MCScripts
    Statuses = {99, 200}
    SafeLength = 2
    MaxReplies = 3
    AgentNames = {"x", "y", "z"}
    Entries = {"x", "stranger"}
    Models = {"haiku"}
    LimitArgs <- MCLimitArgs
    DefaultRounds = 4
    MaxAgents = 3
    Repos <- MCRepos
    MaxFetches = 3
INVARIANTS
    RepliesReachTheirClients
    BodyIsWhole
    EveryoneSpeaks
    CacheHasOrigin
PROPERTIES
    ChatServesEveryone
\* A program may end, and all clients may have been served.
CHECK_DEADLOCK FALSE
