\* Two coroutines on one session, with lapses, faults, cancellations, a changed password
\* and the closing of the transport.
SPECIFICATION FairSpec
CONSTANTS
    Caller = {c1, c2}
    NoCaller = NoCaller
    MaxAttempts = 2
    MaxAuthRetries = 1
    MaxEvents = 2
PROPERTIES SentSigned Recovers RequestEnds
CHECK_DEADLOCK FALSE
