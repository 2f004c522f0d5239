\* Three tasks that sleep in wait4, in a pipe and in timed I/O.
CONSTANTS
    Task = {root, a, b}
    Root = root
    Space = {1, 2, 3, 4}
    NoTask = NoTask
    AnyTask = AnyTask
    Gone = Gone
    Sig = {}
    Disposition = {"dfl"}
    Waits = {"pipe", "timed"}
    MaxForced = 1
SYMMETRY MCSym
VIEW MCView
SPECIFICATION TasksSpec
INVARIANTS
    OnlyCurrentRuns
    OneReasonToSleep
    NoMissedEnd
PROPERTY
    ReportedOnce
