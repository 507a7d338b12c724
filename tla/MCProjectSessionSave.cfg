\* loadProject asked to save the project in hand itself.
SPECIFICATION SessionSpec
CONSTANTS
    Configs <- MCConfigs
    Hashes <- MCHashes
    Paths = {p1, p2}
    NoPath = NoPath
    Decisions <- MCAllDecisions
INVARIANT DirtyTrue
