SPECIFICATION MCSpec
CONSTANTS
    Peers = {p1, p2}
    p1 = p1
    p2 = p2
    Destinations = {d1, d2}
    d1 = d1
    d2 = d2
    Statuses <- MCStatuses
    MaxCalls = 2
    Callees = {c1, c2}
    c1 = c1
    c2 = c2
    NoTag = NoTag
    CalleeFirsts = {1, 2}
    LongWait = 4
    AuthLoop = 2
    ManyRetransmissions = 1
    PddWarning = 2
    PddCritical = 4
    MaxAttempts = 3
    MaxInDialog = 3
    MaxRepeats = 1
    MaxMessages = 7
    Substantial = 2
    Dominant = 3
    TimerH = 1
    DropFrom = 1
    DropTo = 1
    AfterBye = 1
    MaxSeconds = 2
    MaxPackets = 5
    MaxSources = 2
    Phones <- MCPhones
    Server = "server"
    Lifetimes = {0, 60, 3600}
    LongLife = 120
    MaxObserved = 3
    None = None
SYMMETRY Symmetry
INVARIANTS
    OutcomeFaithful
    MissingAckFaithful
    DisconnectFaithful
    SidesFaithful
    RetransmissionsFaithful
    HoldsFaithful
    TransfersFaithful
    DiagnosisFaithful
    OneWayFaithful
    DropFaithful
    RatiosOrdered
    FailuresAgree
    NatFindingsFaithful
PROPERTIES
    ReleaseFaithful
CHECK_DEADLOCK FALSE
