\* A validator with two sockets, another with one; one block event.
SPECIFICATION FairSpec
CONSTANTS
    s1 = s1  s2 = s2  s3 = s3
    a1 = a1  a2 = a2
    NoSocket = NoSocket
    Sockets = {s1, s2, s3}
    Addrs = {a1, a2}
    Addr <- TwoOfOne
    MaxEvents = 1
INVARIANTS
    TypeOK
    NonceIsPending
    NonceAuthenticatesOne
    NewestSubscriberHearsAll
PROPERTIES
    AuthenticatedStaysOpen
    SingleSocketIsDecided
