SPECIFICATION FairSpec
CONSTANTS
    Suppliers = {s1, s2}
    Consumers = {c1, c2}
    Blocks = {1, 2, 3}
    Size <- ThreeSizes
    Priority <- ThreePriorities
    HWM = 2
    LWM = 0
    EnqueueOps = {"prio"}
    DequeueOps = {"head", "prio"}
    MaxChain = 1
INVARIANTS
    PriorityOrder
    NoStrandedConsumer
    NoStrandedSupplierUndisturbed
PROPERTIES
    ShutdownReleasesAll
    SuppliersServed
