CONSTANTS
    o1 = o1
    o2 = o2
    o3 = o3
    Other = Other
    Ops = {o1, o2, o3}
    DaoOps = {o1, o2}
    Operation <- MCOperation
    Validity = 1
    MaxHeight = 2
    MaxProposals = 1
    TORAtStart = {FALSE}
SPECIFICATION Spec
INVARIANTS
    TypeOK
    OwnProposalOnly
    SignedOffComplete
    SuccessIsReal
