SPECIFICATION Spec
CONSTANTS
    t1 = t1
    t2 = t2
    NoTask = NoTask
    Tasks <- MCTasks
    MaxStarts <- MCMaxStarts
    Overlaps = FALSE
    HourIsEnough = FALSE
INVARIANTS
    TypeOK
    UrlAccounted
    StatusIsOfThisSession
    CompletionEndsWait
PROPERTIES
    RunReturns
