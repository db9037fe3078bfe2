SPECIFICATION Spec
CONSTANTS
    w1 = w1
    w2 = w2
    w3 = w3
    Workers <- MCWorkers
    NoWorker = NoWorker
    Ceiling <- MCCeiling
    Reservations <- MCReservations
    Chunks <- MCChunks
    Scale = 4
    MaxChunks = 5
INVARIANTS
    WithinCeilings
    CostDrift
PROPERTIES
    ImplementsTokenBank
