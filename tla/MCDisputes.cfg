SPECIFICATION DisputesCliSpec
CONSTANTS
    Attesters = {a1, a2, a3}
    NoKey = NoKey
    MAX_ATTESTERS = 2
    MIN_ATTESTER_BOND = 2
    UNREGISTER_COOLDOWN_SECS = 2
    SLASH_PERCENT = 50
    MaxCounter = 9
    ThresholdArgs = {1}
    MinBondArgs = {2}
    BondArgs = {2}
    MaxTime = 5
    Lsts = {msol}
    LegacyLsts = {}
    Rounds = {1}
    Authorities = {auth}
    Payloads <- FilePayloads
    MIN_UPDATE_INTERVAL_SECS = 1
    PENDING_UPDATE_TTL_SECS = 2
    DISPUTE_WINDOW_SECS = 1
    RESOLUTION_DEADLINE_SECS = 2
    MAX_LTV_BPS = 10
    InitialThresholds = {1}
    InitialSpares = 1
    InitialBond = 4
    Reviewers = {}
    Suspects = {a1, a2, a3}
    Watched = {}
    Files <- OneFile
    PRECISION = 10
    MAX_STALENESS_SECS = 1
    msol = msol
SYMMETRY AttesterSymmetry
CHECK_DEADLOCK FALSE
INVARIANTS
    LapsedDisputeIsOver
    SlashedOncePerRound
PROPERTIES
    VerdictsFinal
