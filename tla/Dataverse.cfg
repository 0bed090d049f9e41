CONSTANTS
    None = None
    alice = alice
    bob = bob
    carol = carol
    crew = crew
    desk = desk
    reader = reader
    writer = writer
    hq = hq
    emea = emea
    fr = fr
    secret = secret
    User = {alice, bob, carol}
    Team = {crew, desk}
    SecurityRole = {reader, writer}
    Unit = {hq, emea, fr}
    Table = {"t1", "t2"}
    Wanted = {"t1", "t2"}
    Column = {"c1"}
    Profile = {secret}
    Privilege = {1, 2, 3}
    EntraId = {alice, bob, crew}
    ColumnSecurity = TRUE
    Source <- MCSource
    Change <- MCChange
    ServiceFails = TRUE
SPECIFICATION Spec
INVARIANTS TypeOK NoRowsGained RowsAtParity ColumnsAreOwn FailsOnlyWhenRefused
