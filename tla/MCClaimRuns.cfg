SPECIFICATION Spec
CONSTANTS
    None = None
    replay1 = replay1
    replay2 = replay2
    typed = typed
    digits1 = digits1
    digits2 = digits2
    Runs <- MCRuns
    Suffixes <- MCSuffixes
    ClaimIds <- MCClaimIds
    Claim <- MCClaim
    MAX_CLOCK = 2
SYMMETRY Alike
INVARIANTS
    RunsTypeOK
    ResultsAreItsOwn
    ApprovedDraftsStay
    FilesAreApproved
CHECK_DEADLOCK FALSE
