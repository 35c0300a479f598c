SPECIFICATION Spec
SYMMETRY Symmetry
CONSTANTS
    p1 = p1
    p2 = p2
    xtar = xtar
    power = power
    gen = gen
    Players = {p1, p2}
    DeckSize = 2
    EffectivePowers = {1, 2}
    LegacyDecks <- NoLegacyDecks
    InitialModes = {TRUE, FALSE}
    ModeChanges = {}
    MaxRound = 2
    Core = {xtar, power}
    Generic = {}
    Xtar = xtar
    Narrow = {power}
    U32Max = 20
    BasisPoints = 10
    Fees = {0}
    Contributions <- XtarAndPower
    TokenAmounts = {}
    MaxHeld = 5
    Limits = {1, 2}
    PageSizeDecks = 2
    MaxResets = 0
INVARIANTS
    RoundsInOrder
    Solvent
    TotalsExact
    KeeperNeverStuck
    IndexExact
PROPERTIES
    DecksFrozen
    CreditedOnce
CHECK_DEADLOCK FALSE
