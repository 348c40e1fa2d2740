\* Both builds: the production build with a complete, ReadParamCheck-less or
\* absent checker library, and the unit-test build with the stub backend.
SPECIFICATION Spec
CONSTANTS
    Names <- MCNames
    Builds = {FALSE, TRUE}
    PolicyWrite <- MCPolicyWrite
    PolicyRead <- MCPolicyRead
    PolicyLabel <- MCPolicyLabel
    PolicyList <- MCPolicyList
    StubHash <- MCStubHash
    ExportChoices <- MCCompleteExports
    WsFailures = TRUE
    NULL = NULL
INVARIANTS
    TypeOK
