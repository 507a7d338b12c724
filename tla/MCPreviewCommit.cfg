SPECIFICATION Spec
CONSTANTS
    Projects = {1, 2}
    Candidates = 3
    UserTargets <- MCUserTargets
    Dirs <- MCDirs
    DirOf <- MCDirOf
    Sources = {1, 2}
    Foreign = {1}
    MaxOthers = 2
INVARIANTS
    TypeOK
    PreviewCurrent
    ReportTrue
PROPERTY OverwritesPreviewed
