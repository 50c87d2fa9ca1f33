CONSTANTS
    r1 = r1  r2 = r2  ip = ip  t1 = t1  t2 = t2
    None = None
    Req = {r1, r2}  Ip = {ip}  Token = {t1, t2}
    MAX_FAILURES = 2  LOCKOUT_SECONDS = 2
    MaxLag = 1  MaxFaults = 1  MaxRestarts = 2
    Limit = {1}  Depth = {1}  DEFAULT_LIMIT = 30
SPECIFICATION FairSpec
INVARIANTS GuessBudget 
PROPERTIES LockoutServed LockoutEnds
