SPECIFICATION Spec

CONSTANTS
    msol = msol
    jitosol = jitosol
    bsol = bsol
    TRACKED <- ThreeLsts
    PUSH_ATTEMPTS = 3

INVARIANTS
    ChainTrusted
    CommittedPublished
    CommittedTogether
    SiteShowsPublished

PROPERTIES
    PublishedDespiteOthers
    ArtifactsKeepUp

CHECK_DEADLOCK FALSE
