CONSTANTS
    ready = ready
    defined = defined
    t1 = t1
    t2 = t2
    CondTypes = {ready, defined}
    ReadyType = ready
    Containers <- MCContainers
    Endpoints <- MCEndpoints
    MaxReplicas = 1
SPECIFICATION Spec
INVARIANT CompletedOnlyWhenIdle
