\* The assertion of Execution::pop, whatever programs log.
SPECIFICATION LogSpec
SYMMETRY Interchangeable
CONSTANTS
    Self = self
    Others = {router, token}
    Events = {swap, lp_change}
    MaxDepth = 3
    MaxLines = 8
INVARIANT
    NeverPanics
CHECK_DEADLOCK FALSE
