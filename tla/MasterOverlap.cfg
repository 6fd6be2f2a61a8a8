\* One deck number, any setter calls: a choice made while the loop moves the one before.
SPECIFICATION Spec
CONSTANTS
    Devs = {1, 4, 7}
    Ips = {1, 4}
    IdleNum = 7
    MasterNum = 4
    Pins = {1}
    Burst = 1
    Syncns = {0}
    MaxPlausible = 2
    SyncnMod = 4
INVARIANTS ChoiceAlwaysWins
