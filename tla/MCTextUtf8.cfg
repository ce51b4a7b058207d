SPECIFICATION MCSpec
CONSTANTS
    Messages <- Accented
    Segments <- MCSegments
    Firsts <- MCFirsts
    Modulus = 32
    MaxPackets = 4
    Addresses = {zero, a}
    Hold = zero
    Directions = {"sendrecv", "sendonly"}
    Static = {pcma}
    Dynamic = {pt96}
    Codecs = {opus}
    Formats = {f1, f2}
    MaxMedia = 2
    None = None
INVARIANTS
    MessagesRecovered
CHECK_DEADLOCK FALSE
