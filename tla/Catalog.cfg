CONSTANTS
    p = p  q = q  u = u  h = h  x = x  y = y  e = e  r = r  k1 = k1  k2 = k2  None = None
    FORMAT_VERSION = 1
    Name = {1, 2}  Prefix = {p, q}  Url = {u}  Host = {h}  Body = {1}  PeerUrl = {e}  Remote = {r}
    Cfg = {k2}  Every = {1}  Delay = {1}  Example = {x, y}  Archives <- MCArchives
    MAX_EXAMPLES = 1  MaxOps = 5
SPECIFICATION Spec
INVARIANTS Referential  ImportAdditive 
 
CHECK_DEADLOCK FALSE
