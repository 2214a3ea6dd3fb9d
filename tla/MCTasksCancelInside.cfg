SPECIFICATION Spec
CONSTANTS
    Tasks = {1, 2}
    Roots = {1}
    Hosts = {11}
    Instance <- PairInstance
    Lift <- PairLift
    Uses <- PairUses
    Allows = {"CancelInside"}
INVARIANTS NoPanic
