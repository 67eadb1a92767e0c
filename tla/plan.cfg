CONSTANTS
    s1 = s1
    s2 = s2
    s3 = s3
    a1 = a1
    a2 = a2
    Serials <- ThreeSerials
    AssetOf <- TwoAssets
    NoAsset = NoAsset
    Never = Never
    Threshold = 1
    MaxNow = 2
SYMMETRY Symmetric
SPECIFICATION Spec
INVARIANTS NothingStranded PlanSettles
PROPERTY NoEarlyCheckin
