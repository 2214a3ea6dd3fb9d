SPECIFICATION Spec
CONSTANTS
    Tasks = {1, 2, 3}
    Roots = {1}
    Hosts = {11}
    Instance <- SiblingInstance
    Lift <- SiblingLift
    Uses <- SiblingUses
    Allows = {}
INVARIANTS TypeOK NoPanic NoMissing CancelAnswers Exclusive OnePlace NoLostCall ReadyExact NoLostWakeup
PROPERTIES StatusForward
