\* A master whose counter is beyond the plausible bound yields to the box.
SPECIFICATION Spec
CONSTANTS
    Devs = {1, 4, 7}
    Ips = {1, 4}
    IdleNum = 7
    MasterNum = 4
    Pins = {1}
    Burst = 1
    Syncns = {0, 3}
    MaxPlausible = 2
    SyncnMod = 4
INVARIANTS NeverLowestGeneration
