SPECIFICATION ConfigSpec
CONSTANTS
    HttpConfigs <- MCHttpConfigs
    GrpcConfigs <- MCGrpcConfigs
    Second = 10
    WordSize = 1000000000
INVARIANTS
    NewAcceptsExactly
    GrpcConnectionBounded
