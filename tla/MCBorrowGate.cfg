SPECIFICATION MarketSpec
CONSTANTS
    Attesters = {a1, a2}
    NoKey = NoKey
    MAX_ATTESTERS = 2
    MIN_ATTESTER_BOND = 2
    UNREGISTER_COOLDOWN_SECS = 2
    SLASH_PERCENT = 50
    MaxCounter = 9
    ThresholdArgs = {2}
    MinBondArgs = {2}
    BondArgs = {}
    MaxTime = 4
    Lsts = {msol}
    LegacyLsts = {msol}
    Rounds = {1}
    Authorities = {auth}
    Payloads <- FeedPayloads
    MIN_UPDATE_INTERVAL_SECS = 1
    PENDING_UPDATE_TTL_SECS = 1
    DISPUTE_WINDOW_SECS = 1
    RESOLUTION_DEADLINE_SECS = 2
    MAX_LTV_BPS = 10
    Borrowers = {alice}
    PolicyArgs <- Policies
    CollateralArgs = {15}
    RequestArgs = {8, 12}
    FULL_BPS = 10
    MAX_AGE = 99
    InitialThresholds = {2}
    InitialSpares = 0
    InitialBond = 2
    MAX_STALENESS_SECS = 2
    DEFAULT_FALLBACK_LTV = 4
    DEFAULT_MAX_LTV = 9
SYMMETRY AttesterSymmetry
CHECK_DEADLOCK FALSE
INVARIANTS
    GateTypeOK
    ApprovedWithinCap
    GateWithinSafeLtv
    ReadersAgree
PROPERTIES
    AboveFallbackNeedsFeed
