SPECIFICATION Spec
CONSTANTS
    Schemas <- SomeSchemas
    MaxKills = 2
    MaxDeploys = 2
    Tasks <- SomeTasks
    u1 = u1  u2 = u2  c1 = c1  p1 = p1  p2 = p2  b1 = b1  f1 = f1
    g1 = g1  t1 = t1  m1 = m1  m2 = m2  r1 = r1  w2 = w2
    RetryAttempts = 2
    MaxLosses = 2
    MaxRuns = 3
    MaxUpsets = 2
INVARIANTS
    RecordedIsWhole
    DoubledByRetriesOnly
    FinishedSeedIsWhole
    UndisturbedScriptsPass
    VerdictIsTrue
PROPERTIES
    AppComesUp
CHECK_DEADLOCK FALSE
