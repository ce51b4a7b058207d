SPECIFICATION MCSpec
CONSTANTS
    Orders = {"<", ">"}
    Interfaces <- MCInterfaces
    Default <- MCDefault
    MaxBlocks = 7
    Datagrams <- MCDatagrams
    Key <- MCKey
    Length <- MCLength
    Fragment <- MCFragment
    Timeout = 1
    MaxTime = 4
    MaxPackets = 4
    None = None
INVARIANTS
    ReassembledOnce
CHECK_DEADLOCK FALSE
