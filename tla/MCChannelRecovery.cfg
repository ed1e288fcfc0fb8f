\* One side proposes; either process crashes once, also inside a handler.
SPECIFICATION Spec
CONSTANTS
    a = a
    b = b
    None = None
    Participants = {a, b}
    UserOps = {"pay", "withdraw"}
    TravelOps = {"withdraw"}
    CloseOps = {}
    AutoSignOps = {"pay", "withdraw"}
    MaxOwnAnswers = 0
    AutoApprove = FALSE
    Lossy = FALSE
    Proposers = {a}
    MaxProposals = 2
    MaxForces = 1
    MaxCrashes = 1
    MaxTimeouts = 0
INVARIANTS
    SignOnce
PROPERTIES
    ImplementsChannelLog
CHECK_DEADLOCK FALSE
