\* The App: the configurator saves before it loads.
SPECIFICATION SessionSpec
CONSTANTS
    Configs <- MCConfigs
    Hashes <- MCHashes
    Paths = {p1, p2}
    NoPath = NoPath
    Decisions <- MCDecisions
INVARIANT DirtyTrue
