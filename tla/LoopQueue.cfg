SPECIFICATION Spec
CONSTANTS
    t1 = t1
    t2 = t2
    None = None
    Publishers <- MCPublishers
    Readers <- MCReaders
    MaxSize = 1
PROPERTIES
    EveryOperationEnds
