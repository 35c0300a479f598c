\* Five lendings in pages of two, two of them from a version without pages.
CONSTANTS
    k1 = k1
    k2 = k2
    k3 = k3
    k4 = k4
    k5 = k5
    Keys = {k1, k2, k3, k4, k5}
    PageSize = 2
    LegacyEntries <- Legacy
    ModeChanges = {TRUE}
SPECIFICATION Spec
INVARIANTS TypeOK PagesSound NothingLost NothingHaunts
PROPERTY ListSpec
