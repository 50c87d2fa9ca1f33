CONSTANTS
    r1 = r1  r2 = r2
    Req = {r1, r2}
    ANON_LIMIT = 1  PEER_LIMIT = 2
    WINDOW = 3  CLEAN_PERIOD = 2
    LADDER <- TwoRungs
    PEER_IP_CACHE_TTL = 1
    MaxSkew = 1  MaxTime = 6  MaxMoves = 1
SPECIFICATION Spec
INVARIANT WindowLimit
PROPERTIES Escalates CooloffHolds 
CHECK_DEADLOCK FALSE
