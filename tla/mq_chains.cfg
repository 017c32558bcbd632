SPECIFICATION Spec
CONSTANTS
    Suppliers = {s1, s2}
    Consumers = {c1, c2}
    Blocks = {1, 2, 3}
    Size <- ThreeSizes
    Priority <- ThreePriorities
    HWM = 2
    LWM = 1
    EnqueueOps = {"head", "tail", "prio"}
    DequeueOps = {"head", "tail", "prio", "peek"}
    MaxChain = 2
SYMMETRY ThreadSymmetry
INVARIANTS
    Accounting
PROPERTIES
    DeactivatedIsFrozen
