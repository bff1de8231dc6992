SPECIFICATION Spec
CONSTANTS
    None = None
    g1 = g1
    g2 = g2
    g3 = g3
    k1 = k1
    k2 = k2
    s1 = s1
    s2 = s2
    s3 = s3
    s4 = s4
    m1 = m1
    m2 = m2
    ua = ua
    A1 = A1
    A2 = A2
    K1 = K1
    N1 = N1
    N2 = N2
    Groups = {g1, g2, g3}
    Keys = {k1, k2}
    Servers = {s1, s2, s3, s4}
    Models = {m1, m2}
    Agents = {ua}
    ApiKeys = {A1, A2, K1, N1, N2}
    Settings = {"timezone", "blocked_paths"}
    Db0 <- Start
    Plans <- Small
CHECK_DEADLOCK FALSE
INVARIANTS
    TypeOK
    StaleIsDeleted
