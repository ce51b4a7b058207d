SPECIFICATION MCSpec
CONSTANTS
    Modulus = 8
    Window = 3
    MaxIndex = 20
    MaxArrivals = 7
    TsModulus = 64
    FirstTimestamps = {56}
    Step = 4
    Delays = {0, 1, 3, 9}
    LastPacket = 5
    MaxMeasured = 5
    NtpModulus = 6
    Horizon = 3
    Begin = 4
    MaxTime = 4
    MaxReports = 2
    LossBits = 4
    Losses <- MCLosses
    Calls <- MCCalls
    Signalling <- MCSignalling
    Media <- MCPorts
    PayloadTypes <- MCPayloadTypes
    MaxRefreshes = 2
    MaxFlows = 1
    Margin = 1
    Linger = 1
    LastTime = 2
    None = None
INVARIANTS
    JitterPerRfc
CHECK_DEADLOCK FALSE
