SPECIFICATION Spec
CONSTANTS
    p1 = p1
    p2 = p2
    xtar = xtar
    power = power
    gen = gen
    Players = {p1}
    DeckSize = 1
    EffectivePowers = {0, 1}
    LegacyDecks <- NoLegacyDecks
    InitialModes = {TRUE}
    ModeChanges = {}
    MaxRound = 1
    Core = {xtar}
    Generic = {gen}
    Xtar = xtar
    Narrow = {}
    U32Max = 1000
    BasisPoints = 2
    Fees = {0, 1, 2, 3}
    Contributions <- TwoXtar
    TokenAmounts = {2}
    MaxHeld = 2
    Limits = {1}
    PageSizeDecks = 1
    MaxResets = 1
INVARIANTS
    TypeOK
    XtarBacked
PROPERTIES
    LedgerSpec
CHECK_DEADLOCK FALSE
