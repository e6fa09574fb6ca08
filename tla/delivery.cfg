\* One worker process; a page and a batch smaller than the backlog.
SPECIFICATION FairSpec
CONSTANTS
    Workers = {w1}
    NumMessages = 2
    MaxDeliveries = 2
    PageSize = 1
    BatchSize = 2
    AckOnFailure = FALSE
    MaxCrashes = 2
INVARIANTS
    TypeOK
    NoLoss
    DeliveryBudget
    DeadOnlyAfterBudget
PROPERTIES
    EventuallySettled
    PromiseKept
