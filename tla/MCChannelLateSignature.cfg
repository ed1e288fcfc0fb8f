\* A forced transaction whose response arrives late.
SPECIFICATION Spec
CONSTANTS
    a = a
    b = b
    None = None
    Participants = {a, b}
    UserOps = {"pay"}
    TravelOps = {}
    CloseOps = {}
    AutoSignOps = {"pay"}
    MaxOwnAnswers = 0
    AutoApprove = FALSE
    Lossy = FALSE
    Proposers = {a}
    MaxProposals = 1
    MaxForces = 1
    MaxCrashes = 0
    MaxTimeouts = 0
INVARIANTS
    NoUnreachable
CHECK_DEADLOCK FALSE
