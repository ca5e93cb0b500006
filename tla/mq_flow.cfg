SPECIFICATION LiveSpec
CONSTANTS
    m1 = m1
    m2 = m2
    m3 = m3
    Msgs = {m1, m2, m3}
    Mapped = {m1}
    None = None
    MaxQueue = 2
    MaxGen = 1
    Delay = 1
    MaxErrs = 1
    StopKinds = {}
    SerialLifecycle = TRUE
    WithDrain = TRUE
INVARIANTS
    QueueBounded
    Conservation
    DrainSound
PROPERTIES
    ImplementsOutbox
    Delivery
