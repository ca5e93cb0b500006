SPECIFICATION LiveUpgrade
CONSTANTS
    Events = {e1}
    Absent = Absent
    MaxCrashes = 2
    MaxStarts = 1
INVARIANTS
    MappingsKept
PROPERTIES
    UpgradeCompletes
