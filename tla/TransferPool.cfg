\* Three requests, both threads, and any number of disconnections.
CONSTANT MaxRequests = 3
SPECIFICATION PoolSpec
INVARIANTS PoolTypeOK ExclusiveOwner NoSlotLeak
PROPERTY AtomicAllocation
