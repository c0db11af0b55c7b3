SPECIFICATION Spec
CONSTANTS
    NumDests = 4
    Ifs = {1, 2}
    ConnOf <- MCConnOf
    Inside <- MCInside
    ClientTypes = {"ospf", "bgp"}
    ClientRoutes <- MCClientRoutes
    StaticRoutes <- MCStaticRoutes
    Distance <- MCDistance
    Metric <- MCMetric
    RedistTypes = {"static"}
    KernelRefuses = {3}
    MaxRoutes = 3
    MaxQueue = 2
INVARIANTS
    OneSelected
    NothingIsLost
    Settled
    ClientIsTold
    KernelIsSelected
