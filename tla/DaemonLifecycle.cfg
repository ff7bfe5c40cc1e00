SPECIFICATION FairSpec
CONSTANTS
    d1 = d1
    d2 = d2
    d3 = d3
    x = x
    None = None
    Daemons = {d1, d2, d3}
    Supervised = {d2, d3}
    Strangers = {x}
    PidOf <- MCPidOf
    Keys = {k}
 
PROPERTIES RecordTakerEnds PrepareEnds
CHECK_DEADLOCK FALSE
