SPECIFICATION RegistrySpec
CONSTANTS
    Attesters = {a1, a2, a3}
    NoKey = NoKey
    MAX_ATTESTERS = 2
    MIN_ATTESTER_BOND = 2
    UNREGISTER_COOLDOWN_SECS = 2
    SLASH_PERCENT = 50
    MaxCounter = 1
    ThresholdArgs = {0, 1, 2, 3}
    MinBondArgs = {1, 2}
    BondArgs = {1, 2, 3}
    MaxTime = 5
SYMMETRY AttesterSymmetry
CHECK_DEADLOCK FALSE
INVARIANTS
    BondsBacked
    CountMatchesSlots
    OneSlotPerAttester
PROPERTIES
    ThresholdStaysReachable
    BondLockedForCooldown
    ImplementsEscrow
