SPECIFICATION Spec
CONSTANTS
    NameSpaces <- MCNameSpaces
    nameSpaceConfig <- Config
    Prefix <- HGX
    SystemId <- MCSystemId
    Sensors <- MCSensors
    MaxShown = 2
CHECK_DEADLOCK FALSE
INVARIANTS
    TypeOK
    AtHome
    SensorsHaveParents
    DistinctURIs
    OneFragment
    SameText
