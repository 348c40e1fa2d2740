\* A parameter write while MSG_ADD_WATCHER is still unread by the server.
CONSTANTS
    Clients = {c1}
    KeyPrefixes <- MCKeyPrefixes
    Names <- MCNames
    Values = {v1, v2}
    InitValue = v1
    NoValue = NoValue
    MaxAdds = 3
    MaxWrites = 2
    MaxConns = 1
    Failures = FALSE
    Coalesce = FALSE
    EnableStop = FALSE
    SizeMax <- MCSizeMax
SPECIFICATION Spec
INVARIANT ReplayNoGap
