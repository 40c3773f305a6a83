CONSTANTS
    m1 = m1
    m2 = m2
    BadAcc = BadAcc
    None = None
    Msgs <- MCMsgs
    MaxSeq = 4
    MaxDelayed = 3
    Counts = {1, 2, 3}
SPECIFICATION Spec
CHECK_DEADLOCK FALSE
INVARIANT ReadZeroCountEmpty
