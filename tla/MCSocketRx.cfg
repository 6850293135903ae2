CONSTANTS
    Capacity = 3
    MaxDgrams = 5
    MaxReaders = 3
    MaxPeeks = 1
SPECIFICATION Spec
INVARIANTS NothingLostBetweenReaders ReaderNotShot
PROPERTIES EveryDgramRead IngressNotStuck
