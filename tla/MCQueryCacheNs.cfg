CONSTANTS
    pa1 = pa1
    pb1 = pb1
    pt1 = pt1
    pt2 = pt2
    a1 = a1
    b1 = b1
    t1 = t1
    k1 = k1
    k2 = k2
    n1 = n1
    n2 = n2
    Proc = {pt1, pa1}
    Session = {t1, a1}
    CacheEnabled = {a1, t1}
    TxSession = {t1}
    SessionOf <- MCSessionOf
    Key = {k1, k2}
    NoKey = NoKey
    Namespace = {n1, n2}
    NsOf <- TwoNamespaces
    Blocking = {n2}
    Chan = {c1, c2, c3}
    NoChan = NoChan
    Nothing = Nothing
    MaxVersion = 2
    MaxCalls <- TxThrice
SPECIFICATION FairSpec
CHECK_DEADLOCK FALSE
INVARIANTS ReadYourWrites NoUncommittedShared
PROPERTIES CallEnds
