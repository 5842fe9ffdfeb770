SPECIFICATION FairSpec
CONSTANTS
    NoNode = NoNode
    Initializer = Initializer
    Nodes = {n1, n2, n3}
    ExpectedChain = {n1, n2}
    Callers = {t1, t2}
    Retries = 1
    MaxCalls = 1
    Listeners = {TRUE}
INVARIANTS
    FailsOnlyOnAllNodes
    ConnectsToAnyNode
    OnlyExpectedChain
PROPERTIES
    CallsEnd
