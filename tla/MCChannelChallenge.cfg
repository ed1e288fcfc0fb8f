\* A stale lock while the challenger has a proposal of its own pending.
SPECIFICATION FairSpec
CONSTANTS
    a = a
    b = b
    None = None
    Participants = {a, b}
    UserOps = {"pay"}
    TravelOps = {}
    CloseOps = {}
    AutoSignOps = {"pay"}
    MaxOwnAnswers = 0
    AutoApprove = FALSE
    Lossy = FALSE
    Proposers = {a, b}
    MaxProposals = 2
    MaxForces = 1
    MaxCrashes = 0
    MaxTimeouts = 0
PROPERTIES
    StaleIsChallenged
CHECK_DEADLOCK FALSE
