\* A device without a password: a read and a mutating call share, lose and reopen connections.
SPECIFICATION FairSpec
CONSTANTS
    r1 = r1
    w1 = w1
    Calls <- OneReadOneWrite
    ReadOnly <- Reads1
    NoCall = NoCall
    HasPassword = FALSE
    PasswordRight = FALSE
    AuthRequired = FALSE
    CallsAfterClose = TRUE
INVARIANTS TypeOK OwnAnswer NoStrandedCall
PROPERTIES NoSocketLeaked KeepsPromise EveryCallReturns
\* Once every call has returned the transport is at rest; a hung call is the
\* business of EveryCallReturns here.
CHECK_DEADLOCK FALSE
