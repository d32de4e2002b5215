\* Two calls over two sessions of a device that leaves, is replaced or closed.
SPECIFICATION Spec
CONSTANTS
    k1 = k1
    k2 = k2
    s1 = s1
    s2 = s2
    None = None
    Calls <- TwoCalls
    Sessions <- TwoSessions
SYMMETRY Symmetry
INVARIANTS IInv OwnAnswer ClosedEndsCalls
PROPERTY KeepsPromise
\* When every call has returned and no session is left, the system rests.
CHECK_DEADLOCK FALSE
