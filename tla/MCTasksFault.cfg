\* Three tasks; the processor after an unrecoverable fault.
CONSTANTS
    Task = {root, a, b}
    Root = root
    Space = {1, 2, 3, 4}
    NoTask = NoTask
    AnyTask = AnyTask
    Gone = Gone
    Sig = {}
    Disposition = {"dfl"}
    Waits = {"pipe"}
    MaxForced = 1
SYMMETRY MCSym
VIEW MCView
SPECIFICATION TasksSpec
PROPERTY
    FaultResumesRunnable
