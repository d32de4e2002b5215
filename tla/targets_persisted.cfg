\* Violated: an addition writes the list that it copied before its network waits.
\* Two devices with two addresses, and no reload.
SPECIFICATION Spec
CONSTANTS
    l1 = l1
    l2 = l2
    l3 = l3
    r1 = r1
    o1 = o1
    t1 = t1
    t2 = t2
    None = None
    Local <- TwoIds
    Remote = {r1}
    Official = {o1}
    Tasks = {t1, t2}
    Host <- TwoHosts
    Mac <- TwoMacs
    MaxDevices = 2
    MaxReloads = 0
SYMMETRY Symmetry
INVARIANT ServedPersisted
\* When no command is under way and nothing is left to do, the system rests.
CHECK_DEADLOCK FALSE
