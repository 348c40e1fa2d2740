\* Any two config files: does every parsed entry come from a line under a valid header of its section?
CONSTANTS
    Configs <- MCConfigs
    FwDirs = {"d1"}
    LongPaths = {}
    BadModes = {"m"}
    BigModes = {}
    ReadFailures = FALSE
    FsFailures = FALSE
    AllocFailures = FALSE
    DEVMODE = DEVMODE
    NULL = NULL
    DevNodes = {"n1"}
    SysPaths = {"p1"}
SPECIFICATION Spec
INVARIANT SectionAttribution
