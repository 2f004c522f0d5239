\* Two tasks and SIGCHLD.
CONSTANTS
    Task = {root, a}
    Root = root
    Space = {1, 2, 3, 4}
    NoTask = NoTask
    AnyTask = AnyTask
    Gone = Gone
    Sig = {"chld"}
    Disposition = {"dfl", "handler", "bare"}
    Waits = {}
    MaxForced = 0
SYMMETRY MCSym
VIEW MCView
SPECIFICATION TasksSpec
PROPERTY
    ReportedOnce
