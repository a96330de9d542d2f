SPECIFICATION Spec
CONSTANTS
    a = a
    b = b
    c = c
    Names = {a, b, c}
    NodeIds = {1}
    Published = 2
    BoxRows = 3
    MaxActs = 3
SYMMETRY AnyNames
INVARIANTS
    ActsOnItsAccount
