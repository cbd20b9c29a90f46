SPECIFICATION FairSpec
CONSTANTS
    t1 = t1  t2 = t2  t3 = t3  s1 = s1  s2 = s2  w1 = w1  w2 = w2
    None = None
    Tasks = {t1, t2}
    Shots = {s1, s2}
    ShotOf <- TwoShots
    Workers = {w1}
    TaskRetryMax = 1
    CheckpointEvery = 1
    MaxRestarts = 1
    Faults = {"unlink"}
INVARIANT TypeOK
INVARIANT NoStaleCheckpoint
PROPERTY LifecycleSpec
PROPERTY EverySubmissionSettles
CHECK_DEADLOCK FALSE
