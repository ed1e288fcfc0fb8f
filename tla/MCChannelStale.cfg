\* A solo transaction ahead of the log of its receiver.
SPECIFICATION Spec
CONSTANTS
    a = a
    b = b
    None = None
    Participants = {a, b}
    UserOps = {"pay"}
    TravelOps = {}
    CloseOps = {}
    AutoSignOps = {"pay"}
    MaxOwnAnswers = 0
    AutoApprove = FALSE
    Lossy = FALSE
    Proposers = {a}
    MaxProposals = 2
    MaxForces = 1
    MaxCrashes = 0
    MaxTimeouts = 0
INVARIANTS
    LocalStateNotStale
CHECK_DEADLOCK FALSE
