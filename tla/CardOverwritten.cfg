SPECIFICATION Spec
CONSTANTS
    ann = ann
    bob = bob
    axe = axe
    Leader = Leader
    Skill = Skill
    Absent = Absent
    Owners = {ann, bob}
    TokenIds = {axe}
    Categories = {Leader, Skill}
    StakeCategories = {Leader, Skill}
    InitialPower = 100
    MaxPower = 110
    UserPower = 20
    TopUps = {20}
    BurnReceive = 50
    MintedCards <- Minted
    MaxCardCalls = 1
    Interests = {20}
    PowerFees = {10}
    Amounts = {50}
    Leverages = {1, 3}
    Prices = {60, 160}
    Rates = {0, 2500, 10000}
    ProfitShare = 10
    MaxOpenings = 0
INVARIANT OwnerListsConsistent
CHECK_DEADLOCK FALSE
