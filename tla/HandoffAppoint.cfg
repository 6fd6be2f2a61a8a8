\* A deck is pinned while the box holds the role.
SPECIFICATION LinkSpec
CONSTANTS
    Devs = {1, 2, 4, 7}
    Ips = {1, 2, 9}
    IdleNum = 7
    MasterNum = 4
    Pins = {1}
    Burst = 1
    Syncns = {0, 1, 2, 3}
    MaxPlausible = 2
    SyncnMod = 4
    Decks = {1, 2}
    BoxIp = 9
    QueueMax = 1
    MaxAsks = 1
INVARIANTS AppointReachesTarget
