CONSTANTS
    w1 = w1
    w2 = w2
    gA = gA
    gB = gB
    NoKey = NoKey
    Undefined = Undefined
    Wallets = {w1, w2}
    MintAuth = {gA, gB}
    MintAuthorities <- MCMintAuthorities
    GroupAuthority <- MCGroupAuthority
SPECIFICATION Spec
INVARIANT SettledProposerIsIntended
