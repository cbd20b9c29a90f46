SPECIFICATION FairSpec
CONSTANTS
    t1 = t1  t2 = t2  t3 = t3  s1 = s1  s2 = s2  w1 = w1  w2 = w2
    None = None
    Tasks = {t1, t2}
    Shots = {s1}
    ShotOf <- SameShot
    Workers = {w1}
    TaskRetryMax = 0
    CheckpointEvery = 1
    MaxRestarts = 0
    Faults = {"lock"}
PROPERTY TimedOutDoesNotStayProcessing
CHECK_DEADLOCK FALSE
