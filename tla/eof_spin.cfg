\* A connection the server ends after the receive loop timed out.
CONSTANTS
    Clients = {c1}
    KeyPrefixes <- MCKeyPrefixes
    Names <- MCNames
    Values = {v1, v2}
    InitValue = v1
    NoValue = NoValue
    MaxAdds = 1
    MaxWrites = 0
    MaxConns = 2
    Failures = TRUE
    Coalesce = FALSE
    EnableStop = FALSE
    SizeMax <- MCSizeMax
SPECIFICATION Spec
PROPERTY DroppedConnectionLeft
