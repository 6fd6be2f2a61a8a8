\* The box leaves the role with its own broadcast still in its socket.
SPECIFICATION LinkSpec
CONSTANTS
    Devs = {1, 4, 7}
    Ips = {1, 9}
    IdleNum = 7
    MasterNum = 4
    Pins = {}
    Burst = 1
    Syncns = {0, 1, 2, 3}
    MaxPlausible = 2
    SyncnMod = 4
    Decks = {1}
    BoxIp = 9
    QueueMax = 2
    MaxAsks = 1
INVARIANTS NeverTracksItself
