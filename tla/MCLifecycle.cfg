SPECIFICATION Spec
CONSTANTS
    Attesters = {a1, a2}
    NoKey = NoKey
    MAX_ATTESTERS = 2
    MIN_ATTESTER_BOND = 2
    UNREGISTER_COOLDOWN_SECS = 2
    SLASH_PERCENT = 50
    MaxCounter = 9
    ThresholdArgs = {0, 1, 2, 3}
    MinBondArgs = {2}
    BondArgs = {2}
    MaxTime = 4
    Lsts = {msol}
    LegacyLsts = {msol}
    Rounds = {1}
    Authorities = {auth}
    Payloads <- MixedPayloads
    MIN_UPDATE_INTERVAL_SECS = 1
    PENDING_UPDATE_TTL_SECS = 1
    DISPUTE_WINDOW_SECS = 1
    RESOLUTION_DEADLINE_SECS = 2
    MAX_LTV_BPS = 10
SYMMETRY AttesterSymmetry
CHECK_DEADLOCK FALSE
INVARIANTS
    TypeOK
    PublishedParamsValid
    MultiModeHasQuorum
PROPERTIES
    MultiModeWritesAreRounds
    ImplementsRegistry
    ImplementsThresholdFeed
