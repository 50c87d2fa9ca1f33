CONSTANTS
    u1 = u1  u2 = u2  c = c  s1 = s1  None = None
    Url = {u1, u2}  Remote = {c}  MaxPeers = 2  Slot = {s1}  Request <- MCRequest  Discovered = {u1}
    FAILURE_THRESHOLD = 2  MAX_FANOUT_DEPTH = 2  SEARCH_LIMIT = 2
    Index <- MCIndex  PeerScores <- MCPeerScores  Weight <- MCWeight
SPECIFICATION FairSpec
INVARIANTS EveryPeerHeard AnswerRanked 
PROPERTIES SearchEnds Recovers
