\* Three sockets, every configuration.
CONSTANTS
    s1 = s1  s2 = s2  s3 = s3
    Sockets <- ThreeSockets
SPECIFICATION FairSpec
CHECK_DEADLOCK FALSE
INVARIANTS TypeOK
PROPERTIES LegsKeepContract ClosedReleases
