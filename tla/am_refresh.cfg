SPECIFICATION FairSpec
CONSTANTS
    Workers = {w1, w2}
    Readers = {r1}
    Asked = {"map", "rev"}
    MaxChanges = 1
    MaxLosses = 1
    MaxAborts = 1
    None = None

    
    
PROPERTY
    MappingsCatchUp
CHECK_DEADLOCK FALSE
