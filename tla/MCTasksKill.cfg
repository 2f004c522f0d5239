\* Three tasks that SIGINT may end while another waits for them.
CONSTANTS
    Task = {root, a, b}
    Root = root
    Space = {1, 2, 3, 4}
    NoTask = NoTask
    AnyTask = AnyTask
    Gone = Gone
    Sig = {"int"}
    Disposition = {"dfl"}
    Waits = {}
    MaxForced = 0
SYMMETRY MCSym
VIEW MCView
SPECIFICATION TasksSpec
INVARIANT
    NoMissedEnd
