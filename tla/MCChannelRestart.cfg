\* A crash while a lock is being resolved.
SPECIFICATION FairSpec
CONSTANTS
    a = a
    b = b
    None = None
    Participants = {a, b}
    UserOps = {"pay"}
    TravelOps = {}
    CloseOps = {}
    AutoSignOps = {"pay"}
    MaxOwnAnswers = 0
    AutoApprove = FALSE
    Lossy = FALSE
    Proposers = {a}
    MaxProposals = 1
    MaxForces = 1
    MaxCrashes = 1
    MaxTimeouts = 0
PROPERTIES
    LockIsAnswered
CHECK_DEADLOCK FALSE
