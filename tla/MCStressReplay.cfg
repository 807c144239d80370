SPECIFICATION Spec
CONSTANTS
    Prices = {4, 7, 10}
    RawLtvs = {70, 182, 260}
    Haircuts <- SmallHaircuts
    Requests = {40, 60, 80}
    CF_BASE = 80
    LTV_FLOOR = 40
    ONE = 100
    MAX_LIQUIDITY_HAIRCUT = 30
    MAX_DATA_QUALITY_HAIRCUT = 15
    GRAIN = 3
    MAX_ROWS = 4
CHECK_DEADLOCK FALSE
INVARIANTS
    EvidenceAgrees
    SnapshotsExplained
