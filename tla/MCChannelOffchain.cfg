\* Off-chain proposals of both sides, approved or rejected by the user, one forced.
SPECIFICATION Spec
CONSTANTS
    a = a
    b = b
    None = None
    Participants = {a, b}
    UserOps = {"pay", "script"}
    TravelOps = {}
    CloseOps = {}
    AutoSignOps = {"pay"}
    MaxOwnAnswers = 0
    AutoApprove = FALSE
    Lossy = FALSE
    Proposers = {a, b}
    MaxProposals = 2
    MaxForces = 1
    MaxCrashes = 0
    MaxTimeouts = 0
INVARIANTS
    TypeOK
    SignOnce
    Agreement
    ChainAgrees
CHECK_DEADLOCK FALSE
