SPECIFICATION MCSpec
CONSTANTS
    Messages <- MCMessages
    Statuses <- MCStatuses
    International <- MCInternational
    Guesses = 2
    Enumerated = 2
    Scanned = 3
    Swept = 2
    Fraud = 2
    Several = 1
    Lifetimes = {0, 60}
    MaxRegisters = 3
    MaxRequests = 3
    MaxEvents = 4
    Failures = 2
    Seconds <- MCSeconds
    MaxSeconds = 6
    Specific = {"syn", "sip"}
    Minimum <- MCMinimum
    MinSeconds = 2
    BaselineFactor = 3
    None = None
INVARIANTS
    StateFaithful
    RegisteredMeansAccepted
    CountsFaithful
    RunsExact
    RegistrationsReported
PROPERTIES
    PastEventsStay
    AlertsStay
CHECK_DEADLOCK FALSE
