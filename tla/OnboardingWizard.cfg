CONSTANTS
    w1 = w1
    w2 = w2
    gA = gA
    NoKey = NoKey
    Undefined = Undefined
    Wallets = {w1}
    Govs = {gA}
    HasAccount <- MCHasAccount
    Licensed <- MCLicensedOwnWallet
SPECIFICATION Spec
INVARIANTS
    TypeOK
