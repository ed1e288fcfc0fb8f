\* Transactions of both sides, off-chain and traveling; a user answers an own proposal, a watch times out.
SPECIFICATION Spec
CONSTANTS
    a = a
    b = b
    None = None
    Participants = {a, b}
    UserOps = {"pay", "withdraw"}
    TravelOps = {"withdraw"}
    CloseOps = {}
    AutoSignOps = {"pay", "withdraw"}
    MaxOwnAnswers = 1
    AutoApprove = FALSE
    Lossy = FALSE
    Proposers = {a, b}
    MaxProposals = 2
    MaxForces = 0
    MaxCrashes = 0
    MaxTimeouts = 1
INVARIANTS
    OffchainTogether
    NoUnimplemented
PROPERTIES
    AgreedIsDurable
CHECK_DEADLOCK FALSE
