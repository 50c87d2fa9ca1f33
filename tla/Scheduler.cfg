CONSTANTS
    t1 = t1  t2 = t2
    Target = {t1, t2}
    Interval = {1, 2}
    InitialTargets = {t1}
    MaxAge = 2  MaxInflight = 1  MaxRestarts = 1
SPECIFICATION FairSpec
INVARIANTS OneRunPerTarget LastCrawledAdvances
PROPERTIES PauseDrains Recrawled
