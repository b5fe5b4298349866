\* Any program logs any text, and any line but the first may be missing.
SPECIFICATION LogSpec
SYMMETRY Interchangeable
CONSTANTS
    Self = self
    Others = {router, token}
    Events = {swap, lp_change}
    MaxDepth = 3
    MaxLines = 9
INVARIANTS
    LogTypeOK
    FollowsRuntime
    EventsAreOwn
CHECK_DEADLOCK FALSE
