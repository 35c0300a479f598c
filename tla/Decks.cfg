SPECIFICATION Spec
CONSTANTS
    ann = ann
    bob = bob
    axe = axe
    oak = oak
    sky = sky
    Absent = Absent
    Owners = {ann, bob}
    TokenIds = {axe, oak, sky}
    InitialPower = 20
    MaxPower = 30
    UserPower = 100
    TopUps = {20}
    BurnReceive = 50
    MintedCards <- Minted
    MaxCardCalls = 2
    DeckSize = 2
    CategoryOf <- Kinds
    LegacyOwners <- Upgraded
    LegacyDeck = {axe, oak}
    OtherPowers = {0, 20}
    EffectivePowers = {0, 20, 21, 30, 31, 40, 42, 50, 52, 60, 63}
    BatchSizes = {1}
    MaxTotal = 43
    InitialModes = {FALSE, TRUE}
INVARIANTS
    TypeOK
    TotalsSummed
    DeckLocks
    DeckPowerFresh
PROPERTIES
    RegistrySpec
    BrokenDeckStays
CHECK_DEADLOCK FALSE
