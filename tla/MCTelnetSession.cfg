SPECIFICATION FairSpec
CONSTANTS
    poller = poller
    request = request
    None = None
    Clients <- MCClients
    Pollers <- MCPollers
    MaxAttempts = 2
    MaxCommands = 4
    MaxCancels = 1
    MaxSplits = 1
INVARIANTS
    CallsIsolated
PROPERTIES
    CommandsOnce
    PortSpec
