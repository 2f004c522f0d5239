\* Two tasks that sleep on a futex, in nanosleep and in I/O, with a fatal SIGINT.
CONSTANTS
    Task = {root, a}
    Root = root
    Space = {1, 2, 3, 4}
    NoTask = NoTask
    AnyTask = AnyTask
    Gone = Gone
    Sig = {"int"}
    Disposition = {"dfl"}
    Waits = {"futex", "sleep", "event"}
    MaxForced = 1
SYMMETRY MCSym
VIEW MCView
SPECIFICATION TasksSpec
INVARIANTS
    OnlyCurrentRuns
    OneReasonToSleep
