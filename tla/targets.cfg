\* Two tasks on three names of one device, under a limit of one, with one reload.
SPECIFICATION Spec
CONSTANTS
    l1 = l1
    l2 = l2
    l3 = l3
    r1 = r1
    o1 = o1
    t1 = t1
    t2 = t2
    None = None
    Local <- LocalIds
    Remote = {r1}
    Official = {o1}
    Tasks = {t1, t2}
    Host <- Hosts
    Mac <- Macs
    MaxDevices = 1
    MaxReloads = 1
SYMMETRY Symmetry
INVARIANTS IInv TargetsAgree TransportsAccounted SequentialPersisted LimitNearlyKept
\* When no command is under way and nothing is left to do, the system rests.
CHECK_DEADLOCK FALSE
