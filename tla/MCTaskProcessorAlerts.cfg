CONSTANTS
    t1 = t1  t2 = t2  t3 = t3  s1 = s1
    NoSubsystem = NoSubsystem
    Tps <- MCTps
    Subsystems <- MCSubsystems
    subsystem <- MCsubsystem
    HighWater = 2
    Marks <- MCMarks
    MaxSize = 3
SPECIFICATION Spec
INVARIANTS CountsExact AlertMeansLoad
