CONSTANTS
    home = home  left = left  right = right  deep = deep
    Url = {home, left, right, deep}
    Seed = home
    Links <- Diamond
    Sitemap = {home, right}
    MAX_PAGES = 3
    MAX_429 = 5
    politeness_delay = 2  MAX_BACKOFF = 4  None = None
    CrawlDelays <- DelayAnswers  RetryAfters <- RetryAnswers
SPECIFICATION Spec
INVARIANTS NothingLostNothingTwice FrontierExhausted
PROPERTIES EveryRunEnds Polite
