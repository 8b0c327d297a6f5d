SPECIFICATION Spec
CONSTANTS
    Groups = 3
    Level = {0, 1, 2}
    RetryTimes = 2
INVARIANTS
    AttemptsBounded
    NeverClimbs
    GivesUpLast
    ExhaustsBeforeMoving
