\* Two vehicles through restarts, updates, stalls and clocks that are set; the
\* time between references is a multiple of the cycle.
SPECIFICATION FairSpec
CONSTANTS
    Vehicles = {1, 2}
    Config <- Both
    AllowedSkew = 2
    Period = 20
    BROADCAST_ID = 0
    Prompt = 1
    MaxStalls = 4
    MaxSteps = 2
    Steps <- ClockSteps
    MaxCalls = 3
INVARIANTS InPhase NoCollision
PROPERTY TakesTurns
