\* Any datagram of two decks or of the box itself, at any time, the handshake
\* for the number presented running along.
SPECIFICATION ClaimSpec
CONSTANTS
    Devs = {1, 4, 7}
    Ips = {1, 4}
    IdleNum = 7
    MasterNum = 4
    Pins = {1}
    Burst = 1
    Syncns = {0}
    MaxPlausible = 2
    SyncnMod = 4
    BootRepeats = 1
    FastRepeats = 1
INVARIANTS TypeOK UserChoiceRestored YieldIsBounded SlotFollowsRole RequestsFromPlayerSlot KeepAliveIsEarned
PROPERTIES NeverLeaveUnannounced ImplementsTempoMaster
