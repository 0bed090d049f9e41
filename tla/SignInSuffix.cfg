CONSTANTS
    None = None
    Schema = {"s"}
    Table = {"t1", "t2"}
    Column = {"c1"}
    Filter = {"DENYALL", "true", "false", "p"}
    DenyAll = "DENYALL"
    Mirror <- NoMirror
    FlatPaths = FALSE
    ColumnSecurity = TRUE
    RowSecurity = TRUE
    MaxScopes = 1
    sales = sales
    hr = hr
    ops = ops
    alice = alice
    bob = bob
    carol = carol
    team = team
    SourceRole = {sales, hr, ops}
    Word <- MCWord
    Stem <- DistinctStem
    TableStem <- MCTableStem
    Suffix <- PWSigned
    CleanSuffix <- PW
    ManagedSuffix <- PWSigned
    LowerCase <- MCLowerCase
    DefaultReader <- MCDefaultReader
    DeleteDefaultReaderRole = TRUE
    RoleBased = TRUE
    Principal = {alice, bob, carol, team}
    Directory = {alice, bob, team}
    Export <- SmallExport
    NoExport = NoExport
    RoleId = {i1, i2, i3, i4, i5, i6}
    NoId = NoId
    Admin = Admin
    AdminName <- NoNames
    AdminMembers <- TeamOnly
    TransientErrors = FALSE
    ServicesFail = TRUE
    UnmappedHandler = {"none", "two"}
    AdminsInterleave = FALSE
    ReuseAgent = FALSE
    MaxNumber = 4
SYMMETRY Ids
SPECIFICATION Spec
INVARIANTS UnmanagedAreNotOurs
