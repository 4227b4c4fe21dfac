SPECIFICATION Spec
CONSTANTS
    Configs <- AllConfigs
    NoPixels = NoPixels
    MaxImages = 2
INVARIANTS
    SendsWhole
    ExitTellsFaults
PROPERTIES
    NewestPublished
    StopsWhenTold
