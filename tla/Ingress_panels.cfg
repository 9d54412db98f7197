CONSTANTS
    Rows = {r1}
    Services = {s1, s2}
    Secrets = {t1}
    Classes = {k1}
    Metas = {m1}
    Saves = {v1}
    Checks = {q1}
    Written <- MCWritten
    MaxVersion = 2
    MaxEdits = 2
    MaxComings = 1
    Cap = 1
    r1 = r1
    s1 = s1
    s2 = s2
    t1 = t1
    m1 = m1
    Resource = resource
    Bare = bare
    Blank = blank
    Empty = empty
    None = none
SPECIFICATION Spec
CHECK_DEADLOCK FALSE
INVARIANTS
    TypeOK NothingLostSilently ReportIsTrue
PROPERTIES
    RestSurvives
