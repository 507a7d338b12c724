SPECIFICATION Spec
CONSTANTS
    Configs <- MCConfigs
    ClockMod = 8
    StepMod = 2
    RunPeriod = 2
    DeviceResults <- MCDeviceResults
    WireLengths <- MCWireLengths
    MaxSteps = 3
INVARIANTS
    TypeOK
    AlgorithmPaired
    LockStep
    FramesFit
PROPERTIES
    CleanStart
    ErrorsDecide
    TimeoutsExact
    ImplementsService
    WaitsEnd
