\* Any two config files: every well-formed item under a valid header is parsed exactly once.
CONSTANTS
    Configs <- MCConfigs
    FwDirs = {"d1"}
    LongPaths = {}
    BadModes = {"m"}
    BigModes = {}
    ReadFailures = TRUE
    FsFailures = TRUE
    AllocFailures = TRUE
    DEVMODE = DEVMODE
    NULL = NULL
    DevNodes = {"n1"}
    SysPaths = {"p1"}
SPECIFICATION Spec
INVARIANT TypeOK
INVARIANT ItemsComplete
INVARIANT DevicePermsFromFirstLine
\* ueventd stops for good once a lookup dereferences a NULL name left by a failed strdup.
CHECK_DEADLOCK FALSE
