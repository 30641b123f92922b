SPECIFICATION Spec
CONSTANTS
    a1 = a1
    a2 = a2
    c1 = c1
    c2 = c2
    Apps = {a1, a2}
    Starter = a1
    Senders = {a2}
    Conns = {c1, c2}
    Listener = listener
    None = none
    MaxFd = 4
    Reuse = TRUE
    MaxStarts = 1
    MaxStops = 1
    Tries = 1
PROPERTIES StopIsBarrier
