SPECIFICATION Spec
SYMMETRY Symmetry
CONSTANTS
    ann = ann
    bob = bob
    axe = axe
    Leader = Leader
    Skill = Skill
    Absent = Absent
    Owners = {ann, bob}
    TokenIds = {axe}
    Categories = {Leader, Skill}
    StakeCategories = {Leader, Skill}
    InitialPower = 100
    MaxPower = 110
    UserPower = 20
    TopUps = {20}
    BurnReceive = 50
    MintedCards <- Minted
    MaxCardCalls = 2
    Interests = {20}
    PowerFees = {10, 110}
    Amounts = {50}
    Leverages = {1, 3}
    Prices = {60, 160}
    Rates <- AnyRates
    ProfitShare = 10
    MaxOpenings = 3
INVARIANTS
    TypeOK
    CardsListed
    LocksBacked
    PositionsListed
    PowerCapped
    LiquidationFair
PROPERTY UseSpec
CHECK_DEADLOCK FALSE
