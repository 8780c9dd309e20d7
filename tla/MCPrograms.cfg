SPECIFICATION Spec
CONSTANTS
    \* campaigns
    Occ = {1, 2}
    Purchase = {p1, p2}
    Challenge = {"visits"}
    Target <- mcTarget
    Window <- mcWindow
    Repeatable = {"visits"}
    Invite = {i1, i2}
    Celebrating = {1}
    Ahead = 0
    Horizon = 1
    MaxCycle = 3
    \* rewards
    Holder = {0, 1}
    Lot = {1, 2}
    LotPoints <- mcLotPoints
    LotIssuer <- mcLotIssuer
    Company = {"A", "B"}
    NoCompany = "none"
    Brand = {"a", "b"}
    CompanyOf <- mcCompanyOf
    Reward = {"cut", "off"}
    RewardKind <- mcKind
    Cost <- mcCost
    Value <- mcValue
    SpentAt <- mcSpentAt
    Stock <- mcStock
    TierMin <- mcTierMin
    Level <- mcLevel
    Days = 1
    SpendKey = {1, 2}
    UseKey = {1, 2}
    LastDay = 2
    Wait = 1
    \* stored value
    Payer = {0, 1}
    CashKey = {k1, k2, k3}
    Sum = {1, 2}
    Card = {c1, c2}
    \* configuration
    Issuer = {"all"}
    RuleKey = {"r"}
    Section = {"llm"}
    Admin = {a1, a2}
    Setting = {"on", "off"}
    Unset = "unset"
    Late = 2
    Waits = 2
    Edits = 3
    \* locks
    Proc = {1, 2, 3}
    Member = {1, 2, 3}
    Kinds = {"ledger", "settle", "transfer", "redeem", "referral", "consent", "merge"}
    \* rows derived from purchases
    Client = {1, 2}
    Bill = {v1, v2}
    Holdout = {1}
    Batch = {v1, v2}
    MaxRuns = 2
    \* models of the prediction service
    Model <- mcModels
    Trainer = {"route", "shell"}
    ByRoute = {"route"}
    Asking = {"q"}
    MaxTrainings = 2
    \* master data
    Label = {"a", "b"}
    Shop = {"s"}
    Article = {"x"}
    Genre = {v1, v2}
    Sku = {"k"}
    Sale = {"m1", "m2"}
    SoldBy <- mcSoldBy
    SoldAt <- mcSoldAt
    SoldSku <- mcSoldSku
    \* reports
    Buyer = {1, 2}
    Order = {v1, v2}
    OrderTotal <- mcOrderTotal
    Journey = {v1, v2}
    AttributionWindow = 1
    LastMonth = 2
    \* assistant
    Slot = {v1, v2}
    Principal = {"p"}
    Anonymous = "nobody"
    Cap = 1
    MaxCharged = 4
SYMMETRY mcSymmetric
INVARIANTS
    
    ReferralPaysBothOnce
    RewardsAddUp
    CashAddsUp
    ConfigHolds
    NoDeadlock
    CountedOnce
    HonestLabels
    FiguresHold
    FiguresAgree
    CapIsKept
PROPERTIES
    MergesKeepRevenue
CHECK_DEADLOCK FALSE
