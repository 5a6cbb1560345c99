CONSTANTS
    w1 = w1
    w2 = w2
    r1 = r1
    r2 = r2
    r3 = r3
    Resolver <- MCResolver
    Failing <- MCFailing
    Reader <- MCReader
    NoWait <- MCNoWait
    WithCtx <- MCWithCtx
SPECIFICATION FairSpec
INVARIANTS
    ReadersAgree
    ChannelKept
PROPERTIES
    NoWaiterLeft
    IsWriteOnce
