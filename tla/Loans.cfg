SPECIFICATION Spec
SYMMETRY Symmetry
CONSTANTS
    ann = ann
    bob = bob
    cid = cid
    dan = dan
    tok = tok
    cat = cat
    Absent = Absent
    Owners = {ann, bob, cid, dan}
    TokenIds = {tok}
    Categories = {cat}
    Amounts = {4, 8}
    TopUps = {2}
    Interests = {2}
    Horizons = {2}
    Scale = 4
    PowerFees = {50}
    BurnReceive = 50
    InitialPower = 8
    MaxPower = 8
    MintedCards <- Minted
    MaxCardCalls = 1
    MaxDeficits = 4
INVARIANTS
    TypeOK
    PoolCovers
    LoansCounted
    LocksMatch
    CollateralCovers
    HaircutsCovered
    PowerAccounted
PROPERTY UseSpec
CHECK_DEADLOCK FALSE
