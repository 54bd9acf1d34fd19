SPECIFICATION Spec
CONSTANTS
    Items = {x1, x2, x3}
    Modulus = 64
    Bytes = 35
    Header = 12
    ItemSize = 4
SYMMETRY Symmetry
INVARIANTS
    EndsAgree
    InsideBlock
PROPERTIES
    ImplementsDeque
