SPECIFICATION Spec
CONSTANTS
    NoNode = NoNode
    Initializer = Initializer
    Nodes = {n1, n2, n3}
    ExpectedChain = {n1, n2}
    Callers = {t1}
    Retries = 1
    MaxCalls = 1
    Listeners = {FALSE}
INVARIANT
    ConnectsToAnyNode
