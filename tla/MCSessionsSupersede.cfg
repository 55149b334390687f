SPECIFICATION Spec
CONSTANTS
    u1 = u1 u2 = u2 s1 = s1 s2 = s2
    t1 = t1 t2 = t2 t3 = t3 t4 = t4 p1 = p1 p2 = p2
    Users <- MCUsers
    Sessions <- OneSession
    Tokens <- ThreeTokens
    Procs <- TwoProcs
    RefreshTTL = 1
    MaxTime = 1
    WriteOutcomes = {"ok"}
    NoRow = NoRow NoToken = NoToken NoUser = NoUser NoSession = NoSession
    Unminted = Unminted
PROPERTIES
    RotatesPresentedToken
