SPECIFICATION Spec
CONSTANTS
    ann = ann
    bob = bob
    cid = cid
    dan = dan
    tok = tok
    cat = cat
    Absent = Absent
    Owners = {ann, bob, dan}
    TokenIds = {tok}
    Categories = {cat}
    Amounts = {3, 6}
    TopUps = {}
    Interests = {0}
    Horizons = {2}
    Scale = 4
    PowerFees = {34}
    BurnReceive = 50
    InitialPower = 6
    MaxPower = 6
    MintedCards <- Minted
    MaxCardCalls = 2
    MaxDeficits = 0
INVARIANT WeightIsReserves
CHECK_DEADLOCK FALSE
