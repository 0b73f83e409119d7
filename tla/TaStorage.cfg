CONSTANTS
    MaxKeys = 5
    MaxVersion = 3
    MaxRotations = 2
    MaxFaults = 2
SPECIFICATION Spec
INVARIANTS
    BlobsAgree
    LostOnlyInTheWindow
PROPERTIES
    AnchorVerifies
    CounterComesBack
