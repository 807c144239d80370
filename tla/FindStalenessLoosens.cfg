SPECIFICATION GateSpec
CONSTANTS
    Attesters = {}
    NoKey = NoKey
    MAX_ATTESTERS = 1
    MIN_ATTESTER_BOND = 2
    UNREGISTER_COOLDOWN_SECS = 2
    SLASH_PERCENT = 50
    MaxCounter = 9
    ThresholdArgs = {}
    MinBondArgs = {}
    BondArgs = {}
    MaxTime = 4
    Lsts = {msol}
    LegacyLsts = {msol}
    Rounds = {}
    Authorities = {auth}
    Payloads <- FeedPayloads
    MIN_UPDATE_INTERVAL_SECS = 1
    PENDING_UPDATE_TTL_SECS = 1
    DISPUTE_WINDOW_SECS = 1
    RESOLUTION_DEADLINE_SECS = 2
    MAX_LTV_BPS = 10
    Borrowers = {alice}
    PolicyArgs <- Policies
    CollateralArgs = {10, 15}
    RequestArgs = {3, 6, 8, 12}
    FULL_BPS = 10
    MAX_AGE = 99
    MAX_STALENESS_SECS = 2
    DEFAULT_FALLBACK_LTV = 4
    DEFAULT_MAX_LTV = 9
    InitialThresholds = {1}
    InitialSpares = 0
    InitialBond = 0
CHECK_DEADLOCK FALSE
PROPERTY
    StalenessNeverLoosens
