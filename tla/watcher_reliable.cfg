\* One IPC thread and a server that never fails, with OnStop racing AddWatcher
\* and the receive loop: the bookkeeping of groups and registrations against
\* the loop, parameter writes and shutdown. After OnStop the loop has exited
\* and no call is made, so the service legitimately stops: deadlock is not
\* checked here (watcher_faults checks it). Three connections: the loop may
\* reconnect after StopLoop closed the socket and a DelWatcher reopened one.
CONSTANTS
    Clients = {c1}
    KeyPrefixes <- MCKeyPrefixes
    Names <- MCNames
    Values = {v1, v2}
    InitValue = v1
    NoValue = NoValue
    MaxAdds = 2
    MaxWrites = 1
    MaxConns = 3
    Failures = FALSE
    Coalesce = FALSE
    EnableStop = TRUE
    SizeMax <- MCSizeMax
SPECIFICATION Spec
INVARIANT TypeOK
INVARIANT SubscribedWatcherReachable
INVARIANT OnlyMatching
INVARIANT RegistrationAgreement
PROPERTY StopLoopReturns
CHECK_DEADLOCK FALSE
