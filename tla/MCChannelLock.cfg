\* One proposal that may be forced, lost, or answered by its own proposer; no crash.
SPECIFICATION FairSpec
CONSTANTS
    a = a
    b = b
    None = None
    Participants = {a, b}
    UserOps = {"pay", "withdraw"}
    TravelOps = {"withdraw"}
    CloseOps = {}
    AutoSignOps = {"pay"}
    MaxOwnAnswers = 1
    AutoApprove = TRUE
    Lossy = TRUE
    Proposers = {a}
    MaxProposals = 1
    MaxForces = 1
    MaxCrashes = 0
    MaxTimeouts = 0
PROPERTIES
    LockIsAnswered
CHECK_DEADLOCK FALSE
