CONSTANTS
    t1 = t1  t2 = t2  None = None
    TRACKING_PARAMS = {"utm_id"}  BLACKLISTED_OUTLINK_HOSTS <- MCBlacklist
    KeyOrder <- MCKeyOrder
    Task = {t1, t2}  Added <- MCAdded  Robots <- MCRobots
    Sitemap <- MCSitemap  Page <- MCPage  MAX_SITEMAPS_PER_TARGET = 2  MaxUrls = 2
SPECIFICATION FairTaskSpec
INVARIANTS  NoPageTwice  DocumentsBounded
PROPERTY Terminates
CHECK_DEADLOCK FALSE
