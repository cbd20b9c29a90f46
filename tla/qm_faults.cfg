SPECIFICATION Spec
CONSTANTS
    t1 = t1  t2 = t2  t3 = t3  s1 = s1  s2 = s2  w1 = w1  w2 = w2
    None = None
    Tasks = {t1, t2}
    Shots = {s1, s2}
    ShotOf <- TwoShots
    Workers = {w1, w2}
    TaskRetryMax = 1
    CheckpointEvery = 2
    MaxRestarts = 1
    Faults = {"thread", "disk", "unlink", "lock"}
INVARIANT ScheduledOnce
INVARIANT AttemptsDoNotOverlap
INVARIANT CompletedHasItsAsset
PROPERTY FinishedStaysFinished
SYMMETRY Threads
CHECK_DEADLOCK FALSE
