\* A rejected proposal.
SPECIFICATION FairSpec
CONSTANTS
    a = a
    b = b
    None = None
    Participants = {a, b}
    UserOps = {"script"}
    TravelOps = {}
    CloseOps = {}
    AutoSignOps = {}
    MaxOwnAnswers = 1
    AutoApprove = FALSE
    Lossy = FALSE
    Proposers = {a}
    MaxProposals = 1
    MaxForces = 0
    MaxCrashes = 0
    MaxTimeouts = 0
PROPERTIES
    RejectedIsCancelled
CHECK_DEADLOCK FALSE
