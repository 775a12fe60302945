SPECIFICATION Spec
CONSTANTS
    Nodes = {n1, n2, n3, n4}
    Queues = {q1, q2}
    NULL = NULL
INVARIANTS TypeOK WellLinked
PROPERTIES OperationsImplement
