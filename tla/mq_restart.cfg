SPECIFICATION LiveSpec
CONSTANTS
    m1 = m1
    Msgs = {m1}
    Mapped = {}
    None = None
    MaxQueue = 1
    MaxGen = 2
    Delay = 0
    MaxErrs = 0
    StopKinds = {"thread", "loop"}
    SerialLifecycle = TRUE
    WithDrain = FALSE
INVARIANTS
    CleanRestart
PROPERTIES
    Restartable
