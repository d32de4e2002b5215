\* Violated: a call that was under way reconnects the transport after async_close.
SPECIFICATION Spec
CONSTANTS
    r1 = r1
    w1 = w1
    Calls <- OneReadOneWrite
    ReadOnly <- Reads1
    NoCall = NoCall
    HasPassword = FALSE
    PasswordRight = FALSE
    AuthRequired = FALSE
    CallsAfterClose = FALSE
INVARIANT ClosedStaysClosed
