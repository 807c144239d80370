SPECIFICATION StatusSpec
CONSTANTS
    Attesters = {a1, a2, a3}
    NoKey = NoKey
    MAX_ATTESTERS = 3
    MIN_ATTESTER_BOND = 2
    UNREGISTER_COOLDOWN_SECS = 1
    SLASH_PERCENT = 50
    MaxCounter = 9
    ThresholdArgs = {1, 2}
    MinBondArgs = {2}
    BondArgs = {}
    MaxTime = 2
    Lsts = {msol}
    LegacyLsts = {}
    Rounds = {1}
    Authorities = {auth}
    Payloads <- FilePayloads
    MIN_UPDATE_INTERVAL_SECS = 1
    PENDING_UPDATE_TTL_SECS = 1
    DISPUTE_WINDOW_SECS = 0
    RESOLUTION_DEADLINE_SECS = 1
    MAX_LTV_BPS = 10
    InitialThresholds = {1, 2}
    InitialSpares = 1
    InitialBond = 2
    Reviewers = {a1, a2, a3}
    Suspects = {}
    Watched = {msol}
    Files <- MixedFiles
    PRECISION = 10
    MAX_STALENESS_SECS = 0
    msol = msol
SYMMETRY AttesterSymmetry
CHECK_DEADLOCK FALSE
INVARIANTS
    ReadyMeansQuorum
    ReportNotTorn
PROPERTY
    ConfirmsWhatItSaw
