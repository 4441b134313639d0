SPECIFICATION Spec
CONSTANTS
    Ids = {d1}
    Uuids = {u1, u2}
    Users = {alice}
    Workers = {w1, w2}
    Admin = Admin
    Anonymous = Anonymous
    NoRow = NoRow
    NoUuid = NoUuid
    NoUser = NoUser
    NoId = NoId
    MaxPk = 1
    Ops = {"upload", "assign", "approve", "reject", "accept", "refuse"}
    PendingLimit = 1
    NewDevicePolicy = "approve"
    UuidRebind = "approve"
SYMMETRY UuidSymmetry
PROPERTIES  RejectedUntouched ParkedIsOther
