CONSTANTS
    w1 = w1  w2 = w2
    spec = spec  auth = auth  demo = demo
    Worker = {w1, w2}
    Message = {spec, auth, demo}
    Consumers <- MCConsumers
    ConsumerOf <- MCConsumerOf
    ResearchConsumers <- MCResearchConsumers
    Delayed <- MCDelayed
    Certified <- MCCertified
    DependsOn <- MCDependsOn
    DedupeKey <- MCDedupeKey
    CreatedAt <- MCCreatedAt
    ClaimLimit = 2
    MaxFaults = 1
    NoWorker = NoWorker
    NoMessage = NoMessage
SPECIFICATION FairSpec
INVARIANTS ExactlyOnce
PROPERTIES Fencing EventuallyConsumed ImplementsDelivery
