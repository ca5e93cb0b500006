SPECIFICATION LiveSpec
CONSTANTS
    Users = {u1, u2}
    Creator = u1
    Worker = w
    NoThread = NoThread
    MaxOps = 2
    MaxJobs = 2
INVARIANTS
    CloseIsOrderly
    WritesAreTrue
PROPERTIES
    EverythingEnds
