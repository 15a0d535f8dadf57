CONSTANTS
    k1 = k1  k2 = k2  p = p  q = q  o1 = o1  o2 = o2  e1 = e1  e2 = e2
    h1 = h1  h2 = h2  None = None
    Clusters = {k1}
    Commands = {p, q}
    Kind <- BodyKind
    ClusterOf <- BodyCluster
    SourceOf <- NoSource
    BodySize <- FullBody
    AgentResults = {"valid"}
    MaxBodySize = 2
    EnvelopeSize = 1
    CommandReadLimit = 2
    QueueSize = 1
    MaxObservers = 1
    MaxAttempts = 1
    Handlers = {h1}
    MaxAgentCrashes = 1
    MaxServerRestarts = 1
SPECIFICATION FairSpec
PROPERTIES EveryCallReturns
