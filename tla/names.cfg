SPECIFICATION LiveNames
CONSTANTS
    a = a
    b = b
    n1 = n1
    n2 = n2
    Ids = {a, b}
    Strings = {n1, n2}
    None = None
    Bad = Bad
    Conflict = Conflict
    NodeDBs <- SomeNodeDBs
    MaxChanges = 2
    MaxFails = 2
    MaxPackets = 2
PROPERTIES
    OnlyTheDeviceForgets
    TablesConverge
