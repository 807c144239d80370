SPECIFICATION RoundsSpec
CONSTANTS
    Attesters = {a1, a2, a3}
    NoKey = NoKey
    MAX_ATTESTERS = 3
    MIN_ATTESTER_BOND = 2
    UNREGISTER_COOLDOWN_SECS = 9
    SLASH_PERCENT = 50
    MaxCounter = 9
    ThresholdArgs = {2}
    MinBondArgs = {2}
    BondArgs = {}
    MaxTime = 5
    Lsts = {msol}
    LegacyLsts = {}
    Rounds = {1, 2}
    Authorities = {auth}
    Payloads <- TwoPayloads
    MIN_UPDATE_INTERVAL_SECS = 1
    PENDING_UPDATE_TTL_SECS = 2
    DISPUTE_WINDOW_SECS = 0
    RESOLUTION_DEADLINE_SECS = 1
    MAX_LTV_BPS = 10
    InitialThresholds = {2}
    InitialSpares = 1
    InitialBond = 4
SYMMETRY AttesterSymmetry
CHECK_DEADLOCK FALSE
INVARIANTS
    RoundsReachThreshold
    CanonicalValueAttested
    ReorderingBounded
PROPERTIES
    FinalizedRoundsFrozen
