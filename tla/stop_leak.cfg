\* OnStop racing AddWatcher and the receive loop.
CONSTANTS
    Clients = {c1}
    KeyPrefixes <- MCKeyPrefixes
    Names <- MCNames
    Values = {v1, v2}
    InitValue = v1
    NoValue = NoValue
    MaxAdds = 2
    MaxWrites = 2
    MaxConns = 2
    Failures = FALSE
    Coalesce = FALSE
    EnableStop = TRUE
    SizeMax <- MCSizeMax
SPECIFICATION Spec
CHECK_DEADLOCK FALSE
INVARIANT StopReleasesConnection
