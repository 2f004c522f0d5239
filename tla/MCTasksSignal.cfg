\* Two tasks and SIGINT, with every disposition that matters to the timer, met
\* in nanosleep, in I/O, in a pipe and in wait4.
CONSTANTS
    Task = {root, a}
    Root = root
    Space = {1, 2, 3, 4}
    NoTask = NoTask
    AnyTask = AnyTask
    Gone = Gone
    Sig = {"int"}
    Disposition = {"dfl", "ign", "handler"}
    Waits = {"sleep", "event", "pipe"}
    MaxForced = 0
SYMMETRY MCSym
VIEW MCView
SPECIFICATION TasksSpec
INVARIANTS
    TasksTypeOK
    OnlyCurrentRuns
    OneReasonToSleep

    
