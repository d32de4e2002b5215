\* A device with a password: serialised calls, challenges and stale nonce counts.
SPECIFICATION FairSpec
CONSTANTS
    r1 = r1
    w1 = w1
    Calls <- OneReadOneWrite
    ReadOnly <- Reads1
    NoCall = NoCall
    HasPassword = TRUE
    PasswordRight = TRUE
    AuthRequired = TRUE
    CallsAfterClose = TRUE
INVARIANTS IInv NonceKeptInStep
PROPERTIES KeepsPromise EveryCallReturns
\* Once every call has returned the transport is at rest; a hung call is the
\* business of EveryCallReturns here.
CHECK_DEADLOCK FALSE
