\* Two backups, restores or migrations of one target, two of whose calls fail.
SPECIFICATION Spec
CONSTANTS
    switch = switch
    wifi = wifi
    script = script
    schedule = schedule
    webhook = webhook
    j1 = j1
    j2 = j2
    Half = Half
    None = None
    Jobs = {j1, j2}
    Order <- ThePlan
    Kind <- Kinds
    Network = {wifi}
    Supported = {switch, wifi, script, schedule}
    Given <- TheGiven
    OldContent <- Own
    Source <- TheSource
    MaxBackups = 4
    MaxFaults = 2
SYMMETRY Symmetry
INVARIANTS IInv TargetRecoverable
PROPERTIES ReportTrue
\* Commands are given once: the system rests after the last.
CHECK_DEADLOCK FALSE
