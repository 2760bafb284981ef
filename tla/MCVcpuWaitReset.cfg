SPECIFICATION Spec
CONSTANTS
    MaxInstance = 1
INVARIANTS
    OwnContext
