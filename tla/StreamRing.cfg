SPECIFICATION Spec
CONSTANTS
    Modes <- MCModes
INVARIANT
    BytesInOrder
PROPERTY
    EveryoneEnds
