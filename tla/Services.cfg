CONSTANTS
    Media = {m1, m2}
    NoMedia = NoMedia
    Selectors = {s1}
    Portraits = {1, 2}
    Callers = {c1, c2}
    Pause = 2
    MaxTicks = 4
    Pages = 3
    Threads = 2
    ReplyPages = 2
    Budgets = {1, 2, 14, 99999}
    MaxPages = 3
    Links = {1, 2}
    Works = {w1}
    Urls = {u1}
    NoUrl = NoUrl
    Routes = {i1, i2}
    Own = Own
    Titles = {a, b}
    NoTitle = NoTitle
    Tabs = {post, favorite}
    Items = {w1}
    Visits = {v1}
    Added = {u}
    Edited = {u}
    Keys = {k1, k2}
    NoKey = NoKey
    Absent = Absent
    Authors = {a1}
    NoAuthor = NoAuthor
    MaxWorks = 3
    MaxRows = 2
    NoReport = NoReport
    Viewers = {f1, f2}
    CommentPages = {1, 2}
    Delays = {1, 2}
    Fresh = 2
    CacheSize = 1
    MaxTime = 4
    Posts = {1, 2}
    Owners = {o1, o2}
    Nowhere = Nowhere
    Taps = {t1}
    PerPage = 1
    Crawlers = {c1, c2}
    MaxPosts = 2
    Blank = Blank
SPECIFICATION Spec
INVARIANTS
    TypeOK
    AnswersWhole
    
PROPERTIES
    RequestsPaced
    BoardStands
CHECK_DEADLOCK FALSE
