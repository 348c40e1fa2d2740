\* Two IPC threads adding watchers for one prefix at once.
CONSTANTS
    Clients = {c1, c2}
    KeyPrefixes <- MCKeyPrefixes
    Names <- MCNames
    Values = {v1, v2}
    InitValue = v1
    NoValue = NoValue
    MaxAdds = 2
    MaxWrites = 0
    MaxConns = 1
    Failures = FALSE
    Coalesce = FALSE
    EnableStop = FALSE
    SizeMax <- MCSizeMax
SPECIFICATION Spec
INVARIANT SubscribedWatcherReachable
