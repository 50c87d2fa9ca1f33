CONSTANTS
    t1 = t1  t2 = t2  c1 = c1  c2 = c2  u1 = u1  u2 = u2  h1 = h1  h2 = h2
    None = None
    Target = {t1}  Coll = {c1}  Url = {u1}  Hash = {h1, h2}
    TargetColl <- SameColl
    UrlPrefix <- OnePrefix
    InPrefix <- WholePrefix
    IndexUrl <- NoAlias
    Etagged = {u1}
    Deletable = {}
    InitialTargets = {t1}
    BATCH_SIZE = 2  CHANNEL_CAPACITY = 1  DELETE_CAPACITY = 1
    MaxChanges = 0  MaxCrashes = 1  MaxFailures = 0  MaxRemovals = 0
    FlushCrash = FALSE
SPECIFICATION FairSpec
PROPERTIES Convergence
