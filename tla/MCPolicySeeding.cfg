SPECIFICATION Spec
CONSTANTS
    None = None
    Seeders = {s1, s2}
    Claims = {c1}
    NUM_POLICIES = {2, 3}
    FIXTURE_IDS = {3}
    MAX_ATTEMPTS = 2
    MAX_DAYS = 2
    MAX_SEEDS = 3
INVARIANTS
    SeedingTypeOK
    TableIsWhole
    OneGenerationPerClaim
PROPERTY RecallIsAnswered
CHECK_DEADLOCK FALSE
