CONSTANTS
    Tasks = {t1, t2}
    BuildName = build
    Texts <- MCTexts
    Empty = "none"
    Templates <- MCTemplates
    TaskSpecs <- MCTaskSpecs
    None = None

SPECIFICATION Spec

INVARIANTS
    TypeOK
    IInv
    CacheIsStored
    PodsCarryOwnValues
    ServicesSelectOwnPods
    ChildrenAreOfOneVersion
SYMMETRY Swaps
