\* The master source is picked again while a release is pending.
SPECIFICATION LinkSpec
CONSTANTS
    Devs = {1, 4, 7}
    Ips = {1, 9}
    IdleNum = 7
    MasterNum = 4
    Pins = {}
    Burst = 1
    Syncns = {0, 1, 2, 3}
    MaxPlausible = 2
    SyncnMod = 4
    Decks = {1}
    BoxIp = 9
    QueueMax = 1
    MaxAsks = 1
PROPERTIES FlagKeptUntilLeaving
