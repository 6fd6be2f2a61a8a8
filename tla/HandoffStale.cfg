\* An offer made to an earlier claim is read by a later one.
SPECIFICATION LinkSpec
CONSTANTS
    Devs = {1, 4, 7}
    Ips = {1, 9}
    IdleNum = 7
    MasterNum = 4
    Pins = {1}
    Burst = 1
    Syncns = {0}
    MaxPlausible = 0
    SyncnMod = 1
    Decks = {1}
    BoxIp = 9
    QueueMax = 2
    MaxAsks = 1
INVARIANTS OffersAnswerThisClaim
