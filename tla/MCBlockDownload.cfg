CONSTANTS
    p1 = p1
    p2 = p2
    Peers = {p1, p2}
    Preferred = {p1, p2}
    Slow = {p2}
    NoPeer = NoPeer
    Blocks = {0, 1, 2, 3}
    Genesis = 0
    Parent <- Tree
    NoBlock = NoBlock
    Bad = {3}
    Recent = {1, 2, 3}
    Near = {1, 2, 3}
    IbdGap = 1
    Window = 1
    MaxInTransit = 2
    MaxHeaders = 2
    MaxInv = 2
    FirstTips = {1, 3}
    Announced = {2}
    Submitted = {2}
    Malformed = {2}
SPECIFICATION Spec
INVARIANTS DownloadStateIsSound RequestsAgree
PROPERTY CatchesUp
CHECK_DEADLOCK FALSE
