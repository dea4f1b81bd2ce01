SPECIFICATION Spec
CONSTANTS
    Events = {e1}
    NoEvent = NoEvent
    Written <- MCRequest
    Relays = {r1}
    Workers = {w1, w2}
    MaxAttempts = 2
    MaxJobs = 2
    MaxChanges = 1
    MaxFaults = 0
INVARIANTS
    ReplayIsQueued
CHECK_DEADLOCK FALSE
