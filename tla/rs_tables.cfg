SPECIFICATION FairSpec
CONSTANTS
    Places <- MCPlaces
    Kinds <- MCKinds
    Active = active
    Passive = passive
    None = None
    MaxChanges = 1
    MaxRefusals = 1
PROPERTIES
    
    
    CachesCatchUp
