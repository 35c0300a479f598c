SPECIFICATION FairSpec
CONSTANTS
    p1 = p1
    p2 = p2
    xtar = xtar
    power = power
    gen = gen
    Players = {p1, p2}
    DeckSize = 1
    EffectivePowers = {1}
    LegacyDecks <- NoLegacyDecks
    InitialModes = {TRUE}
    ModeChanges = {}
    MaxRound = 1
    Core = {xtar, power}
    Generic = {}
    Xtar = xtar
    Narrow = {power}
    U32Max = 20
    BasisPoints = 10
    Fees = {0}
    Contributions <- XtarOrPower
    TokenAmounts = {}
    MaxHeld = 3
    Limits = {1, 2}
    PageSizeDecks = 2
    MaxResets = 1
PROPERTIES
    RoundCloses
CHECK_DEADLOCK FALSE
