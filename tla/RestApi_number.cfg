CONSTANTS
    c1 = c1
    c2 = c2
    s1 = s1
    Clients <- Two
    Subjects <- Input
    Nobody = Nobody
    Sent <- Kinds
    BufferSize = 2
    MaxPosts = 0
    MaxRequests = 3
SPECIFICATION Spec
INVARIANTS
    CurrentNumberMeansCurrentData
CHECK_DEADLOCK FALSE
