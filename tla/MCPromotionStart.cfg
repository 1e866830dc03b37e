SPECIFICATION Spec
CONSTANTS
    Images = {i1, i2}
    ChartTag = ChartTag
    None = None
INVARIANTS
    ProdIsPromoted
