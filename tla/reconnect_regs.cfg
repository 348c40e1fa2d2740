\* A refused connect during AddWatcher, then a reconnect by the loop.
CONSTANTS
    Clients = {c1}
    KeyPrefixes <- MCKeyPrefixes
    Names <- MCNames
    Values = {v1, v2}
    InitValue = v1
    NoValue = NoValue
    MaxAdds = 2
    MaxWrites = 0
    MaxConns = 2
    Failures = TRUE
    Coalesce = FALSE
    EnableStop = FALSE
    SizeMax <- MCSizeMax
SPECIFICATION Spec
INVARIANT RegistrationAgreement
