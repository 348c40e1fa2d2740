\* Production build with the full checker library or one missing a later entry point.
SPECIFICATION Spec
CONSTANTS
    Names <- MCNames
    Builds = {FALSE}
    PolicyWrite <- MCPolicyWrite
    PolicyRead <- MCPolicyRead
    PolicyLabel <- MCPolicyLabel
    PolicyList <- MCPolicyList
    StubHash <- MCStubHash
    ExportChoices <- MCFailOpenExports
    WsFailures = TRUE
    NULL = NULL
INVARIANTS
    PermitNeedsPolicy
