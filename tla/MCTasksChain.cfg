SPECIFICATION Spec
CONSTANTS
    Tasks = {1, 2, 3}
    Roots = {1}
    Hosts = {11}
    Instance <- ChainInstance
    Lift <- ChainLift
    Uses <- ChainUses
    Allows = {}
INVARIANTS NoPanic NoMissing NoLostWakeup OnePlace
PROPERTIES SyncCallReturns YieldersRun
