CONSTANTS
    g1 = g1
    s1 = s1
    d1 = d1
    k1 = k1
    u1 = u1
    u2 = u2
    u3 = u3
    composeFile = composeFile
    notFoundPage = notFoundPage
    homePage = homePage
    Placeholder = Placeholder
    NoAccount = NoAccount
    None = None
    GroupIDs = {g1}
    Page = g1
    SpecNames = {s1}
    DepNames = {d1}
    DeviceKeys = {k1}
    Urls = {u1, u2, u3}
    TypedUrls = {u1, u2}
    ComposeFiles = {composeFile}
    Library <- MCLibrary
    Text <- MCText
    Serve <- MCServe
    Governed = FALSE
    MaxReplicas = 1
    MaxOps = 4
SPECIFICATION Spec
INVARIANT SpecRecordsItsContent
