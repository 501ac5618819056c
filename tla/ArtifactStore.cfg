SPECIFICATION Spec
CONSTANTS
    i1 = i1
    i2 = i2
    Ids <- MCIds
    Texts <- MCTexts
    PREVIEW_MAX = 1
    CHUNK_MAX = 4
    OUTPUT_MAX = 2
    ANSWER_MAX = 3
    Disclosure = 1
    Joint = 1
    Guidance = 1
    NothingFound = {2, 4}
INVARIANTS
    NothingDangles
    StoredOnce
    StdoutReadsBack
    ExtractIsHonest
SYMMETRY IdSymmetry
CHECK_DEADLOCK FALSE
