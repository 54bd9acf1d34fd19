SPECIFICATION Spec
CONSTANTS
    Objects = {o1, o2, o3}
    Blocks = {b1, b2, b3, b4}
    None = None
SYMMETRY Symmetry
INVARIANTS
    ConstructedIsSized
    OwnerIsFound
    NameIsOwned
    ReadyIsInitialized
PROPERTIES
    InitializedOnce
