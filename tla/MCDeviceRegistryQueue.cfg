SPECIFICATION Spec
CONSTANTS
    Ids = {d1, d2, d3}
    Uuids = {}
    Users = {}
    Workers = {w1, w2}
    Admin = Admin
    Anonymous = Anonymous
    NoRow = NoRow
    NoUuid = NoUuid
    NoUser = NoUser
    NoId = NoId
    MaxPk = 3
    Ops = {"upload", "approve", "delete", "sweep", "import", "setowner"}
    PendingLimit = 1
    NewDevicePolicy = "approve"
    UuidRebind = "approve"
SYMMETRY Symmetry
INVARIANTS TypeOK PendingBounded 
PROPERTIES ApprovalIsVouched
