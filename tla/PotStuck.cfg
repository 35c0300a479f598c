SPECIFICATION FairSpec
CONSTANTS
    p1 = p1
    p2 = p2
    xtar = xtar
    power = power
    gen = gen
    Players = {p1}
    DeckSize = 1
    EffectivePowers = {1}
    LegacyDecks <- NoLegacyDecks
    InitialModes = {FALSE}
    ModeChanges = {}
    MaxRound = 1
    Core = {xtar}
    Generic = {}
    Xtar = xtar
    Narrow = {}
    U32Max = 1000
    BasisPoints = 10
    Fees = {0}
    Contributions <- OneXtar
    TokenAmounts = {}
    MaxHeld = 5
    Limits = {1, 2}
    PageSizeDecks = 2
    MaxResets = 0
PROPERTIES
    RoundCloses
CHECK_DEADLOCK FALSE
