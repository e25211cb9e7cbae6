SPECIFICATION FairSpec
CONSTANTS
    ann = ann  bob = bob  s1 = s1  s2 = s2  r1 = r1
    Users = {ann, bob}
    Sessions = {s1, s2}
    Requests = {r1}
    SessionOf <- MCSessionOf
    OwnerOf <- MCOwnerOf
    Conns <- MCConns
INVARIANTS TypeOK AskReachesOwner ApprovedByOwner AnswerCounts WatcherIsLive
PROPERTY Unblocks
CHECK_DEADLOCK FALSE
