SPECIFICATION DisputesSpec
CONSTANTS
    Attesters = {a1, a2, a3, a4}
    NoKey = NoKey
    MAX_ATTESTERS = 4
    MIN_ATTESTER_BOND = 2
    UNREGISTER_COOLDOWN_SECS = 1
    SLASH_PERCENT = 50
    MaxCounter = 9
    ThresholdArgs = {2}
    MinBondArgs = {2}
    BondArgs = {2}
    MaxTime = 2
    Lsts = {msol}
    LegacyLsts = {}
    Rounds = {1}
    Authorities = {auth}
    Payloads <- OnePayload
    MIN_UPDATE_INTERVAL_SECS = 1
    PENDING_UPDATE_TTL_SECS = 2
    DISPUTE_WINDOW_SECS = 1
    RESOLUTION_DEADLINE_SECS = 2
    MAX_LTV_BPS = 10
    InitialThresholds = {2}
    InitialSpares = 1
    InitialBond = 4
SYMMETRY AttesterSymmetry
CHECK_DEADLOCK FALSE
INVARIANT
    DisputedTookPart
