\* A disconnection with transfers in flight.
CONSTANT MaxRequests = 2
SPECIFICATION PoolSpec
INVARIANT NeverShared
