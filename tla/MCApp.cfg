SPECIFICATION Spec
CONSTANTS
    me = me
    other = other
    g1 = g1
    g2 = g2
    Nobody = Nobody
    Users <- MCUsers
    Mailboxes = {me}
    Passwords = {"secret", "tiny"}
    Short = {"tiny"}
    Unknown = "unknown"
    MaxCodes = 1
    MaxAuthCalls = 2
    MaxPrice = 3
    StreamCap = 1
    MaxPageCalls = 2
    Required = {"title"}
    Files = {"jpg", "pdf"}
    Images = {"jpg"}
    Accepted = {"jpg"}
    MaxClicks = 2
    MaxLoads = 1
    Goods = {g1, g2}
    Queries = {"all"}
    AnyQuery = "all"
    MaxPages = 2
    MineLimit = 2
    MaxAsks = 2
INVARIANTS
    PagesTypeOK
    AuthSpinnerAwaited
    ShownWasCommitted
    StreamEndsWithPage
    OneListingPerTry
    AskedWithAllPictures
    NoListingMissing
    ListSpinnerAwaited
PROPERTIES
    OnlyOwnAccounts
    MaxNeverFalls
    UntouchedPicturesStay
CHECK_DEADLOCK FALSE
