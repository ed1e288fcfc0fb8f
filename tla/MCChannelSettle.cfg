\* One proposal and no failure: everything settles.
SPECIFICATION FairSpec
CONSTANTS
    a = a
    b = b
    None = None
    Participants = {a, b}
    UserOps = {"pay", "script", "withdraw", "close"}
    TravelOps = {"withdraw", "close"}
    CloseOps = {"close"}
    AutoSignOps = {"pay", "withdraw"}
    MaxOwnAnswers = 0
    AutoApprove = TRUE
    Lossy = FALSE
    Proposers = {a}
    MaxProposals = 1
    MaxForces = 0
    MaxCrashes = 0
    MaxTimeouts = 0
PROPERTIES
    EveryProposalSettles
CHECK_DEADLOCK FALSE
