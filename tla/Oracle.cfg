\* A ring of three slots and sums modulo 16: both wrap around several times.
SPECIFICATION Spec
CONSTANTS
    OBSERVATION_NUM = 3
    OBSERVATION_UPDATE_DURATION_DEFAULT = 2
    U128_RANGE = 16
    Prices = {1, 2}
    MaxTime = 10
INVARIANTS
    TypeOK
    RingHoldsLatest
    AverageWithinPrices
CHECK_DEADLOCK FALSE
