SPECIFICATION Spec
CONSTANTS
    Size = 9
    NULL = null
INVARIANT TreeSound
PROPERTY OneElement
