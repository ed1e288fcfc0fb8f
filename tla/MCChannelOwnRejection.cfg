\* A user rejects a proposal of their own that the peer has signed.
SPECIFICATION Spec
CONSTANTS
    a = a
    b = b
    None = None
    Participants = {a, b}
    UserOps = {"pay"}
    TravelOps = {}
    CloseOps = {}
    AutoSignOps = {"pay"}
    MaxOwnAnswers = 1
    AutoApprove = FALSE
    Lossy = FALSE
    Proposers = {a}
    MaxProposals = 2
    MaxForces = 1
    MaxCrashes = 0
    MaxTimeouts = 0
INVARIANTS
    Agreement
CHECK_DEADLOCK FALSE
