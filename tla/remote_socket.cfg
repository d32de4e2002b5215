\* Violated: two sockets that replace the same session are both served.
SPECIFICATION Spec
CONSTANTS
    s1 = s1
    s2 = s2
    s3 = s3
    d1 = d1
    d2 = d2
    d3 = d3
    c1 = c1
    c2 = c2
    c3 = c3
    u1 = u1
    u2 = u2
    None = None
    Sockets <- ThreeSockets
    Devices <- OneDevice
    Creds <- OneCred
    InitCreds <- OneCred
    Updates <- NoUpdates
    MaxDevices = 2
INVARIANT OneLiveSocket
CHECK_DEADLOCK FALSE
