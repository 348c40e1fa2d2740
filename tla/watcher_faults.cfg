\* Faults without OnStop: connects may be refused, the server may drop a
\* connection, and one recv may return several messages.
CONSTANTS
    Clients = {c1}
    KeyPrefixes <- MCKeyPrefixes
    Names <- MCNames
    Values = {v1, v2}
    InitValue = v1
    NoValue = NoValue
    MaxAdds = 2
    MaxWrites = 1
    MaxConns = 2
    Failures = TRUE
    Coalesce = TRUE
    EnableStop = FALSE
    SizeMax <- MCSizeMax
SPECIFICATION Spec
PROPERTY RegistryRefinement
