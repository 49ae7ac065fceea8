SPECIFICATION Spec
CONSTANTS
    NumServers <- MCNumServers
    RetryTimeout <- MCRetryTimeout
    RetryTimeoutMax <- MCRetryTimeoutMax
    Word <- MCWord
    ReachBits <- MCReachBits
    MaxTries <- MCMaxTries
    MaxCalls <- MCMaxCalls
    MaxExtra <- MCMaxExtra
INVARIANTS
    TypeOK
    Scheduled
    RetryWithinLimits
    ReachabilityIsRecent
    ReachableMeansSet
PROPERTIES
    ObtainReturns
