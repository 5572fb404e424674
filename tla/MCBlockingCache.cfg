CONSTANTS
    k1 = k1
    k2 = k2
    k3 = k3
    n1 = n1
    n2 = n2
    Proc = {p1, p2}
    Key = {k1, k2, k3}
    Value = {v1}
    Nothing = Nothing
    Namespace = {n1, n2}
    NsOf <- TwoNamespaces
    Blocking = {n1}
    Chan = {c1, c2, c3, c4, c5}
    NoChan = NoChan
SPECIFICATION FairSpecA
INVARIANTS FlightTable
PROPERTIES CancelledCallReturns ImplementsContract
