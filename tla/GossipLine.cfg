CONSTANTS
    a = a  b = b  c = c  d = d  old = old  new = new
    None = None
    Node = {a, b, c, d}
    Link <- Line
    Name = {old}
    Version <- Versions
    FirstName <- AllOld
    Partial <- NothingOrLast
    Removable <- Forgotten
    Restarting = {b}
    MaxTime = 1  MaxEvents = 1
SPECIFICATION FairSpec
INVARIANT VersionsApart
PROPERTIES SeenTimes Additive EveryoneDiscovered
