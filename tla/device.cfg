\* One device, remote or local, two tasks, two sockets, one change per component.
SPECIFICATION FairSpec
CONSTANTS
    t1 = t1
    t2 = t2
    a = a
    b = b
    None = None
    Components = {a, b}
    Tasks = {t1, t2}
    MaxVersion = 2
    MaxSessions = 2
    MaxBegun = 2
INVARIANTS IInv Informed OnlineHasReason RepairsMirrorReport
PROPERTIES NewsInOrder TasksEnd
\* The device need not change, nor anybody ask: the system rests.
CHECK_DEADLOCK FALSE
