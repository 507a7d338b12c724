\* The system stops when the last simulation of the bound is over.
SPECIFICATION Spec
CONSTANTS
    Wires <- MCWires
    StepMod = 3
    MaxSims = 3
    MaxSteps = 4
    MaxFlight = 2
    FaultSets <- MCFaultSets
CHECK_DEADLOCK FALSE
INVARIANTS
    TypeOK
    OneSimulation
    LockStep
PROPERTIES
    Reclaimed
    Answered
