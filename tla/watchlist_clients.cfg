CONSTANTS
    c1 = c1
    c2 = c2
    w1 = w1
    w2 = w2
    NoClient = NoClient
    Clients = {c1, c2}
    Workspaces = {w1, w2}
    MaxVersion = 3
    MaxFaults = 1
SPECIFICATION FairSpec
INVARIANTS SyncsAreInformed
PROPERTIES ImplementsStore RequestsEnd
