SPECIFICATION Spec
CONSTANT MaxReqs = 6
PROPERTY FailureKeepsCount
