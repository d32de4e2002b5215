\* Three sockets of three devices, two of which may be registered, while one command creates, revokes or
\* regenerates a credential.  The properties under fairness rule out SYMMETRY.
SPECIFICATION FairSpec
CONSTANTS
    s1 = s1
    s2 = s2
    s3 = s3
    d1 = d1
    d2 = d2
    d3 = d3
    c1 = c1
    c2 = c2
    c3 = c3
    u1 = u1
    u2 = u2
    None = None
    Sockets <- ThreeSockets
    Devices <- ThreeDevices
    Creds <- ThreeCreds
    InitCreds <- TwoCreds
    Updates <- OneUpdate
    MaxDevices = 2
INVARIANTS IInv SessionServed NoStaleClaim RevokedClosed
PROPERTIES RegistrationKept HandshakeEnds UpdateEnds
\* Devices need not come back: the system may stop.
CHECK_DEADLOCK FALSE
