\* FilterParam against the documented prefix semantics.
CONSTANT SizeMax <- MCSizeMax
SPECIFICATION Spec
INVARIANT FilterParamMatchesSpec
