\* Two of everything that may overlap or be mistaken for another.
SPECIFICATION AdminSpec
CONSTANTS
    OAuthStates = {x1, x2}
    AccountRequests = {q1, q2}
    MaxPriority = 1
    NoState = NoState
    Emails = {e1, e2}
    Identities = {i1, i2}
    Restaurants = {x1, x2}
    Branches = {b1, b2}
    StaffRequests = {q1, q2}
    MaxQuota = 2
    MaxRoles = 1
    MaxFields = 1
    MaxStaff = 2
    Nobody = Nobody
    PlatformAdmins = {i1}
    PinRequests = {q1, q2}
    MaxPin = 2
    MaxTokens = 1
    Menus = {x1, x2}
    Categories = {c1}
    MenuRequests = {q1, q2}
    NoMenu = NoMenu
    Items = {i3}
    Groups = {g1, g2}
    EditedGroups = {g1}
    Options = {o1}
    MaxSelect = 1
    ModifierRequests = {q1, q2}
    NoLimit = NoLimit
    Nothing = Nothing
    Tables = {t1}
    Zones = {x1, x2}
    ZoneNames = {e1, e2}
    FloorStaff = {b1, b2}
    FloorRequests = {q1, q2}
    NoZone = NoZone
SYMMETRY Symmetry
INVARIANTS
    AdminTypeOK
    ExchangedOnce
    KeepsActiveAdmin
    NoStrayIdentity
    BranchesWithinQuota
    TokensNameTheirProfile
    PinLockout
    GuestsCanOrder
    ImageIsStored
    SelectionPossible
    ListsAreWhole
\* Once the ids run out everything rests.
CHECK_DEADLOCK FALSE
